--------------------------- MODULE BitStateProofs ---------------------------
(***************************************************************************)
(* The backtracker for every program and every call: it stays within the   *)
(* text and its bitmap, what it tries in vain leaves no submatch, and it   *)
(* answers whether the program has a path that matches, with one from the  *)
(* first position that has any, the longest if that is asked for.          *)
(*                                                                         *)
(* A register that has an undo job on the stack is put back by the deepest *)
(* one, which was pushed first.  The invariant says of every register but  *)
(* the first two that the deepest job unsets it, or that it is unset; what *)
(* is pushed and popped on top of that job changes nothing about it.       *)
(*                                                                         *)
(* That what is found is a path needs that every job waits with the        *)
(* registers that its path will have once the jobs above it have undone    *)
(* theirs (SInv).  That no path is missed needs that all that was ever     *)
(* visited is settled: where the search goes from it was visited too, or   *)
(* waits (CInv); so nothing is lost by visiting a list only once at a      *)
(* position, nor by what the hints skip, nor by taking an AltMatch for a   *)
(* match that ends with the text.                                          *)
(***************************************************************************)
EXTENDS BitState, SearchPaths

Id == DOMAIN prog.inst
Lists == DOMAIN prog.heads
Span == call.b .. call.e
Jobs == [id : Int, p : Int, rle : Nat]

BTypes ==
  /\ prog \in Progs /\ call \in Calls
  /\ id \in Id /\ job \in Seq(Jobs) /\ cap \in [0 .. NCap - 1 -> Int]
  /\ start \in call.b .. call.e + 1

\* Where the search is, as far as the text goes.
Where ==
  /\ pc \in {"search", "start"} => job = << >>
  /\ pc \in {"pop", "visit"} => start \in Span
  /\ pc = "visit" => p \in Span

\* A job is for positions in the text, or undoes a capture of the program.
JobOK(j) ==
  IF j.id < 0 THEN -j.id \in Id
  ELSE j.id \in Id /\ j.p \in Span /\ j.p + j.rle \in Span
JobsOK == \A k \in DOMAIN job : JobOK(job[k])

\* The bitmap has a bit for every pair.
VisitedOK == visited \subseteq Lists \X Span

Undoes(j, n) == j.id < 0 /\ prog.inst[-j.id].cap = n

\* With these jobs on the stack register n will be unset, or is.
Restored(jobs, regs, n) ==
  \/ regs[n] = NoPos /\ \A k \in DOMAIN jobs : ~Undoes(jobs[k], n)
  \/ \E k \in DOMAIN jobs : /\ Undoes(jobs[k], n) /\ jobs[k].p = NoPos
                            /\ \A m \in DOMAIN jobs : Undoes(jobs[m], n) => m <= k
RestoredOK == \A n \in DOMAIN cap : n >= 2 => Restored(job, cap, n)

BInv == BTypes /\ Where /\ JobsOK /\ VisitedOK /\ RestoredOK

-----------------------------------------------------------------------------
(***************************************************************************)
(* Positions and instructions.                                             *)
(***************************************************************************)

\* What a well-formed program guarantees.
LEMMA ProgramLeads ==
  ASSUME prog \in Progs
  PROVE  /\ Id \subseteq Nat /\ 0 \in Id /\ prog.inst[0].op = "fail" /\ prog.start \in Heads(prog)
         /\ Heads(prog) \subseteq Id
         /\ \A n \in Heads(prog) : ListId(prog, n) \in Lists
         /\ \A n \in Id :
              /\ prog.inst[n].op \in {"byte", "cap", "empty", "nop"}
                   => prog.inst[n].out \in Heads(prog)
              /\ ~prog.inst[n].last => n + 1 \in Id
              /\ prog.inst[n].op = "altmatch" => /\ prog.inst[n].out \in Id
                                                 /\ prog.inst[n].out1 \in Id /\ n + 1 \in Id
              /\ prog.inst[n].op = "byte" /\ prog.inst[n].hint # 0
                   => n + prog.inst[n].hint \in Id
              /\ prog.inst[n].cap \in Nat /\ prog.inst[n].hint \in Nat
  <1> DEFINE m == Cardinality(Id)
  <1>1. WellFormed(prog)
    BY ProgsAssumption
  <1>2. /\ Id = 0 .. m - 1 /\ m \in Int /\ m > 0 /\ prog.heads \in Seq(Id)
    <2>1. Id = 0 .. m - 1 /\ m > 0 /\ prog.heads \in Seq(0 .. m - 1) /\ IsFiniteSet(Id)
      BY <1>1 DEF WellFormed, Id
    <2>2. m \in Nat
      BY <2>1, FS_CardinalityType
    <2> QED
      BY <2>1, <2>2
  <1> HIDE DEF m
  <1>3. Heads(prog) \subseteq Id
    BY <1>2 DEF Heads
  <1>4. /\ prog.start \in Heads(prog) /\ Id \subseteq Nat /\ 0 \in Id
        /\ prog.inst[0].op = "fail"
    BY <1>1, <1>2 DEF WellFormed
  <1>5. \A n \in Heads(prog) : ListId(prog, n) \in Lists
    BY DEF Heads, ListId, Lists
  <1>6. ASSUME NEW n \in Id
        PROVE  /\ prog.inst[n].op \in {"byte", "cap", "empty", "nop"}
                    => prog.inst[n].out \in Heads(prog)
               /\ ~prog.inst[n].last => n + 1 \in Id
               /\ prog.inst[n].op = "altmatch" => /\ prog.inst[n].out \in Id
                                                  /\ prog.inst[n].out1 \in Id /\ n + 1 \in Id
               /\ prog.inst[n].op = "byte" /\ prog.inst[n].hint # 0
                    => n + prog.inst[n].hint \in Id
               /\ prog.inst[n].cap \in Nat /\ prog.inst[n].hint \in Nat
    <2>1. InstOK(prog, n)
      BY <1>1 DEF WellFormed, Id
    <2>2. prog.inst[n].op = "altmatch" => /\ prog.inst[n].out = n + 1
                                          /\ prog.inst[n].out1 = n + 2 /\ n + 2 \in Id
      BY <2>1 DEF InstOK, SameList, Id
    <2>3. n + 2 \in Id => n + 1 \in Id
      BY <1>2
    <2> QED
      BY <2>1, <2>2, <2>3 DEF InstOK, SameList, Id
  <1> QED
    BY <1>3, <1>4, <1>5, <1>6

-----------------------------------------------------------------------------
(***************************************************************************)
(* The job stack.                                                          *)
(***************************************************************************)
\* One more job on top.
LEMMA ConsIs ==
  ASSUME NEW js \in Seq(Jobs), NEW e \in Jobs
  PROVE  /\ <<e>> \o js \in Seq(Jobs) /\ 1 \in DOMAIN (<<e>> \o js) /\ (<<e>> \o js)[1] = e
         /\ \A k \in DOMAIN js : /\ k \in Nat /\ k + 1 \in DOMAIN (<<e>> \o js)
                                 /\ (<<e>> \o js)[k + 1] = js[k]
         /\ \A k \in DOMAIN (<<e>> \o js) :
              k # 1 => k \in Nat /\ k - 1 \in DOMAIN js /\ (<<e>> \o js)[k] = js[k - 1]
  <1> DEFINE r == <<e>> \o js
  <1>1. /\ r \in Seq(Jobs) /\ Len(r) = Len(js) + 1 /\ Len(js) \in Nat
        /\ DOMAIN r = 1 .. Len(js) + 1 /\ DOMAIN js = 1 .. Len(js)
        /\ r[1] = e
        /\ \A k \in 1 .. Len(js) : r[k + 1] = js[k]
        /\ \A k \in 2 .. Len(js) + 1 : r[k] = js[k - 1]
    OBVIOUS
  <1> HIDE DEF r
  <1>2. \A k \in DOMAIN js : k \in Nat /\ k + 1 \in DOMAIN r /\ r[k + 1] = js[k]
    BY <1>1
  <1>3. \A k \in DOMAIN r : k # 1 => k \in Nat /\ k - 1 \in DOMAIN js /\ r[k] = js[k - 1]
    BY <1>1
  <1>4. 1 \in DOMAIN r
    BY <1>1
  <1> QED
    BY <1>1, <1>2, <1>3, <1>4 DEF r

\* One job less.
LEMMA TailIs ==
  ASSUME NEW js \in Seq(Jobs), js # << >>
  PROVE  /\ Head(js) \in Jobs /\ Tail(js) \in Seq(Jobs) /\ 1 \in DOMAIN js /\ js[1] = Head(js)
         /\ \A k \in DOMAIN Tail(js) : /\ k \in Nat /\ k + 1 \in DOMAIN js
                                       /\ Tail(js)[k] = js[k + 1]
         /\ \A k \in DOMAIN js :
              k # 1 => k \in Nat /\ k - 1 \in DOMAIN Tail(js) /\ js[k] = Tail(js)[k - 1]
  <1> DEFINE r == Tail(js)
  <1>1. /\ Len(js) \in Nat /\ Len(js) > 0 /\ DOMAIN js = 1 .. Len(js) /\ Head(js) = js[1]
        /\ r \in Seq(Jobs) /\ DOMAIN r = 1 .. Len(js) - 1
        /\ \A k \in 1 .. Len(js) - 1 : r[k] = js[k + 1]
    OBVIOUS
  <1>2. 1 \in DOMAIN js /\ js[1] \in Jobs
    BY <1>1
  <1> HIDE DEF r
  <1>3. \A k \in DOMAIN r : k \in Nat /\ k + 1 \in DOMAIN js /\ r[k] = js[k + 1]
    BY <1>1
  <1>4. \A k \in DOMAIN js : k # 1 => k \in Nat /\ k - 1 \in DOMAIN r /\ js[k] = r[k - 1]
    BY <1>1
  <1> QED
    BY <1>1, <1>2, <1>3, <1>4 DEF r

\* Pushing an undo job for register n, whose value it keeps, or any other job.
LEMMA RestoredByCons ==
  ASSUME NEW js \in Seq(Jobs), NEW e \in Jobs, NEW regs, NEW regs2, NEW n,
         Restored(js, regs, n),
         IF Undoes(e, n) THEN e.p = regs[n] ELSE regs2[n] = regs[n]
  PROVE  Restored(<<e>> \o js, regs2, n)
  <1> DEFINE r == <<e>> \o js
  <1>1. /\ 1 \in DOMAIN r /\ r[1] = e
        /\ \A k \in DOMAIN js : k \in Nat /\ k + 1 \in DOMAIN r /\ r[k + 1] = js[k]
        /\ \A k \in DOMAIN r : k # 1 => k \in Nat /\ k - 1 \in DOMAIN js /\ r[k] = js[k - 1]
    BY ConsIs
  <1> HIDE DEF r
  <1>2. CASE regs[n] = NoPos /\ \A k \in DOMAIN js : ~Undoes(js[k], n)
    <2>1. \A k \in DOMAIN r : k # 1 => ~Undoes(r[k], n)
      BY <1>1, <1>2
    <2>2. CASE Undoes(e, n)
      <3>1. Undoes(r[1], n) /\ r[1].p = NoPos /\ \A m \in DOMAIN r : Undoes(r[m], n) => m <= 1
        BY <1>1, <1>2, <2>1, <2>2
      <3> QED
        BY <1>1, <3>1 DEF Restored, r
    <2>3. CASE ~Undoes(e, n)
      <3>1. regs2[n] = NoPos /\ \A k \in DOMAIN r : ~Undoes(r[k], n)
        BY <1>1, <1>2, <2>1, <2>3
      <3> QED
        BY <3>1 DEF Restored, r
    <2> QED
      BY <2>2, <2>3
  <1>3. CASE \E k \in DOMAIN js : /\ Undoes(js[k], n) /\ js[k].p = NoPos
                                  /\ \A m \in DOMAIN js : Undoes(js[m], n) => m <= k
    <2>1. PICK k \in DOMAIN js : /\ Undoes(js[k], n) /\ js[k].p = NoPos
                                 /\ \A m \in DOMAIN js : Undoes(js[m], n) => m <= k
      BY <1>3
    <2>2. k \in Nat /\ k + 1 \in DOMAIN r /\ Undoes(r[k + 1], n) /\ r[k + 1].p = NoPos
      BY <1>1, <2>1
    <2>3. ASSUME NEW m \in DOMAIN r, Undoes(r[m], n) PROVE m <= k + 1
      <3>1. CASE m = 1
        BY <2>2, <3>1
      <3>2. CASE m # 1
        <4>1. m \in Nat /\ m - 1 \in DOMAIN js /\ r[m] = js[m - 1]
          BY <1>1, <3>2
        <4>2. m - 1 <= k
          BY <2>1, <2>3, <4>1
        <4> QED
          BY <2>2, <4>1, <4>2
      <3> QED
        BY <3>1, <3>2
    <2> QED
      BY <2>2, <2>3 DEF Restored, r
  <1> QED
    BY <1>2, <1>3 DEF Restored

\* Popping an undo job for register n, which is put back, or any other job.
LEMMA RestoredByTail ==
  ASSUME NEW js \in Seq(Jobs), js # << >>, NEW regs, NEW regs2, NEW n,
         Restored(js, regs, n),
         regs2[n] = IF Undoes(Head(js), n) THEN Head(js).p ELSE regs[n]
  PROVE  Restored(Tail(js), regs2, n)
  <1> DEFINE r == Tail(js)
  <1>1. /\ 1 \in DOMAIN js /\ js[1] = Head(js)
        /\ \A k \in DOMAIN r : k \in Nat /\ k + 1 \in DOMAIN js /\ r[k] = js[k + 1]
        /\ \A k \in DOMAIN js : k # 1 => k \in Nat /\ k - 1 \in DOMAIN r /\ js[k] = r[k - 1]
    BY TailIs
  <1> HIDE DEF r
  <1>2. CASE regs[n] = NoPos /\ \A k \in DOMAIN js : ~Undoes(js[k], n)
    <2>1. \A k \in DOMAIN r : ~Undoes(r[k], n)
      BY <1>1, <1>2
    <2>2. regs2[n] = NoPos
      BY <1>1, <1>2
    <2> QED
      BY <2>1, <2>2 DEF Restored, r
  <1>3. CASE \E k \in DOMAIN js : /\ Undoes(js[k], n) /\ js[k].p = NoPos
                                  /\ \A m \in DOMAIN js : Undoes(js[m], n) => m <= k
    <2>1. PICK k \in DOMAIN js : /\ Undoes(js[k], n) /\ js[k].p = NoPos
                                 /\ \A m \in DOMAIN js : Undoes(js[m], n) => m <= k
      BY <1>3
    <2>2. CASE k = 1
      <3>1. regs2[n] = NoPos
        BY <1>1, <2>1, <2>2
      <3>2. ASSUME NEW m \in DOMAIN r PROVE ~Undoes(r[m], n)
        <4>1. m \in Nat /\ m + 1 \in DOMAIN js /\ r[m] = js[m + 1] /\ m + 1 # 1 /\ m # 0
          <5>1. m \in Nat /\ m + 1 \in DOMAIN js /\ r[m] = js[m + 1]
            BY <1>1
          <5>2. m # 0
            BY DEF r
          <5> QED
            BY <5>1, <5>2
        <4>2. ~(m + 1 <= 1)
          BY <4>1
        <4> QED
          BY <2>1, <2>2, <4>1, <4>2
      <3> QED
        BY <3>1, <3>2 DEF Restored, r
    <2>3. CASE k # 1
      <3>1. k \in Nat /\ k - 1 \in DOMAIN r /\ Undoes(r[k - 1], n) /\ r[k - 1].p = NoPos
        BY <1>1, <2>1, <2>3
      <3>2. ASSUME NEW m \in DOMAIN r, Undoes(r[m], n) PROVE m <= k - 1
        <4>1. m \in Nat /\ m + 1 \in DOMAIN js /\ r[m] = js[m + 1]
          BY <1>1
        <4>2. m + 1 <= k
          BY <2>1, <3>2, <4>1
        <4> QED
          BY <3>1, <4>1, <4>2
      <3> QED
        BY <3>1, <3>2 DEF Restored, r
    <2> QED
      BY <2>2, <2>3
  <1> QED
    BY <1>2, <1>3 DEF Restored

\* A longer or shorter run is no other undo job.
LEMMA RestoredByRun ==
  ASSUME NEW js \in Seq(Jobs), js # << >>, NEW n2 \in Nat, NEW regs, NEW n,
         Restored(js, regs, n), js[1].id >= 0
  PROVE  Restored([js EXCEPT ![1].rle = n2], regs, n)
  <1> DEFINE r == [js EXCEPT ![1].rle = n2]
  <1>1. DOMAIN r = DOMAIN js /\ 1 \in DOMAIN js /\ \A k \in DOMAIN js : k # 1 => r[k] = js[k]
    BY TailIs
  <1>2. r[1].id = js[1].id
    BY <1>1, TailIs DEF Jobs
  <1>3. js[1].id \in Int
    BY TailIs DEF Jobs
  <1> HIDE DEF r
  <1>4. ~Undoes(js[1], n) /\ ~Undoes(r[1], n)
    BY <1>2, <1>3 DEF Undoes
  <1>5. \A k \in DOMAIN js : /\ Undoes(r[k], n) <=> Undoes(js[k], n)
                             /\ Undoes(js[k], n) => r[k].p = js[k].p
    BY <1>1, <1>4
  <1> QED
    BY <1>1, <1>5 DEF Restored, r

Good(js) == js \in Seq(Jobs) /\ \A k \in DOMAIN js : JobOK(js[k])

LEMMA CallIs ==
  ASSUME call \in Calls
  PROVE  /\ call.b \in Nat /\ call.e \in Nat /\ call.b <= call.e
         /\ call.text \in Seq(Byte) /\ call.e <= Len(call.text)
         /\ NCap \in Nat /\ NCap >= 2
  <1>1. call.nmatch \in Nat
    BY CallsAssumption
  <1>2. NMatch(call) \in Nat
    BY <1>1 DEF NMatch
  <1>3. NCap \in Nat /\ NCap >= 2
    BY <1>2 DEF NCap
  <1> QED
    BY <1>3, CallsAssumption

\* Push, when a run gets longer and when there is a job more.
LEMMA PushGood ==
  ASSUME call \in Calls, NEW js, Good(js), NEW n \in Int, NEW q \in Int, JobOK(Job(n, q, 0))
  PROVE  /\ Good(Push(n, q, js))
         /\ \A regs, regs2, r :
              /\ Restored(js, regs, r)
              /\ IF n < 0 /\ prog.inst[-n].cap = r THEN q = regs[r] ELSE regs2[r] = regs[r]
              => Restored(Push(n, q, js), regs2, r)
  <1> DEFINE e == Job(n, q, 0)
  <1>1. e \in Jobs /\ e.id = n /\ e.p = q /\ \A r : Undoes(e, r) <=> n < 0 /\ prog.inst[-n].cap = r
    BY DEF Job, Jobs, Undoes
  <1>2. js \in Seq(Jobs) /\ \A k \in DOMAIN js : JobOK(js[k])
    BY DEF Good
  <1>3. CASE n >= 0 /\ js # << >> /\ js[1].id = n /\ q = js[1].p + js[1].rle + 1
    <2> DEFINE m == js[1].rle + 1
               f == [js EXCEPT ![1].rle = m]
    <2>1. /\ 1 \in DOMAIN js /\ js[1] \in Jobs /\ js[1].rle \in Nat /\ js[1].p \in Int
          /\ js[1].id = n
      BY <1>2, <1>3, TailIs DEF Jobs
    <2>2. Push(n, q, js) = f
      BY <1>3 DEF Push
    <2>3. /\ f[1] \in Jobs /\ f[1].id = n /\ f[1].p = js[1].p /\ f[1].rle = m
          /\ f \in Seq(Jobs) /\ DOMAIN f = DOMAIN js
          /\ \A k \in DOMAIN js : k # 1 => f[k] = js[k]
      BY <1>2, <2>1 DEF Jobs
    <2>4. JobOK(js[1])
      BY <1>2, <2>1
    <2>5. JobOK(f[1])
      <3>1. n \in Id /\ js[1].p \in Span /\ q \in Span
        BY <1>1, <1>3, <2>1, <2>4 DEF JobOK
      <3>2. f[1].p + f[1].rle = q
        BY <1>3, <2>1, <2>3, SMTT(30)
      <3> QED
        BY <1>3, <2>3, <3>1, <3>2 DEF JobOK
    <2>6. Good(f)
      BY <1>2, <2>3, <2>5 DEF Good
    <2>7. ASSUME NEW regs, NEW regs2, NEW r, Restored(js, regs, r), regs2[r] = regs[r]
          PROVE  Restored(f, regs2, r)
      <3>1. m \in Nat
        BY <2>1
      <3>2. Restored(f, regs, r)
        BY <1>2, <1>3, <2>7, <3>1, RestoredByRun
      <3> QED
        BY <2>7, <3>2 DEF Restored
    <2>8. ~(n < 0)
      BY <1>3
    <2> HIDE DEF f, m
    <2> QED
      BY <2>2, <2>6, <2>7, <2>8
  <1>4. CASE ~(n >= 0 /\ js # << >> /\ js[1].id = n /\ q = js[1].p + js[1].rle + 1)
    <2>1. Push(n, q, js) = <<e>> \o js
      BY <1>4 DEF Push
    <2>2. Good(<<e>> \o js)
      <3>1. /\ <<e>> \o js \in Seq(Jobs) /\ (<<e>> \o js)[1] = e
            /\ \A k \in DOMAIN (<<e>> \o js) :
                 k # 1 => k - 1 \in DOMAIN js /\ (<<e>> \o js)[k] = js[k - 1]
        BY <1>1, <1>2, ConsIs
      <3>2. \A k \in DOMAIN (<<e>> \o js) : JobOK((<<e>> \o js)[k])
        BY <1>2, <3>1
      <3> QED
        BY <3>1, <3>2 DEF Good
    <2>3. ASSUME NEW regs, NEW regs2, NEW r, Restored(js, regs, r),
                 IF n < 0 /\ prog.inst[-n].cap = r THEN q = regs[r] ELSE regs2[r] = regs[r]
          PROVE  Restored(<<e>> \o js, regs2, r)
      <3>1. IF Undoes(e, r) THEN e.p = regs[r] ELSE regs2[r] = regs[r]
        BY <1>1, <2>3
      <3> HIDE DEF e
      <3> QED
        BY <1>1, <1>2, <2>3, <3>1, RestoredByCons
    <2> QED
      BY <2>1, <2>2, <2>3
  <1> QED
    BY <1>3, <1>4

-----------------------------------------------------------------------------
(***************************************************************************)
(* The visit of an instruction.                                            *)
(***************************************************************************)
\* Where a visit leads to.
Leads ==
  /\ id' \in Id /\ pc' \in {"pop", "visit", "done"} /\ (pc' = "visit" => p' \in Span)
  /\ visited' \subseteq Lists \X Span

LEMMA VisitKeeps ==
  ASSUME BInv, pc = "visit", UNCHANGED <<prog, call, start>>, Leads, Good(job'),
         cap' \in [0 .. NCap - 1 -> Int],
         \A n \in DOMAIN cap : n >= 2 => Restored(job', cap', n)
  PROVE  BInv'
  <1>1. DOMAIN cap' = DOMAIN cap
    BY DEF BInv, BTypes
  <1>2. RestoredOK'
    BY <1>1 DEF RestoredOK, Restored, Undoes
  <1>3. JobsOK' /\ VisitedOK'
    BY DEF Good, Leads, JobsOK, JobOK, VisitedOK, Id, Lists, Span
  <1>4. BTypes' /\ Where'
    BY DEF BInv, BTypes, Where, Leads, Good, Id, Span, NCap
  <1> QED
    BY <1>2, <1>3, <1>4 DEF BInv

LEMMA VisitIs ==
  ASSUME BInv, NEW op, Visiting(op)
  PROVE  /\ pc = "visit" /\ prog \in Progs /\ call \in Calls /\ UNCHANGED <<prog, call, start>>
         /\ id \in Id /\ id \in Nat /\ p \in Span /\ p \in Nat /\ ip = prog.inst[id] /\ ip.op = op
         /\ Good(job) /\ cap \in [0 .. NCap - 1 -> Int] /\ visited \subseteq Lists \X Span
         /\ \A n \in DOMAIN cap : n >= 2 => Restored(job, cap, n)
         /\ call.e \in Span
  <1>1. prog \in Progs /\ call \in Calls /\ pc = "visit" /\ id \in Id /\ p \in Span
    BY DEF BInv, BTypes, Where, Visiting
  <1>2. id \in Nat /\ p \in Nat /\ call.e \in Span
    BY <1>1, ProgramLeads, CallIs DEF Span
  <1> QED
    BY <1>1, <1>2 DEF BInv, BTypes, JobsOK, VisitedOK, RestoredOK, Good, Visiting, ip

LEMMA LoopLeads ==
  ASSUME BInv, NEW op, Visiting(op), NEW n \in Heads(prog), NEW q \in Span, CheckAndLoop(n, q)
  PROVE  Leads
  <1>1. n \in Id /\ ListId(prog, n) \in Lists
    BY VisitIs, ProgramLeads
  <1> QED
    BY <1>1, VisitIs DEF CheckAndLoop, Leads

LEMMA GoOnLeads ==
  ASSUME BInv, NEW op, Visiting(op), GoOn, UNCHANGED <<p, visited>>
  PROVE  Leads
  BY VisitIs, ProgramLeads DEF GoOn, Leads

\* The rest of a list is pushed behind whatever else.
LEMMA PushRestGood ==
  ASSUME BInv, NEW op, Visiting(op)
  PROVE  Good(PushRest) /\ \A n \in DOMAIN cap : n >= 2 => Restored(PushRest, cap, n)
  <1>1. CASE ip.last
    BY <1>1, VisitIs DEF PushRest
  <1>2. CASE ~ip.last
    <2>1. id + 1 \in Id /\ id + 1 \in Int /\ id + 1 >= 0 /\ p \in Int
      BY <1>2, VisitIs, ProgramLeads
    <2>2. JobOK(Job(id + 1, p, 0))
      BY <2>1, VisitIs DEF JobOK, Job
    <2>3. Good(Push(id + 1, p, job))
      BY <2>1, <2>2, VisitIs, PushGood
    <2>4. ASSUME NEW n \in DOMAIN cap, n >= 2 PROVE Restored(Push(id + 1, p, job), cap, n)
      BY <2>1, <2>2, <2>4, VisitIs, PushGood
    <2> QED
      BY <1>2, <2>3, <2>4 DEF PushRest
  <1> QED
    BY <1>1, <1>2

LEMMA VisitAltMatchKeeps == BInv /\ VisitAltMatch => BInv'
  <1> SUFFICES ASSUME BInv, VisitAltMatch PROVE BInv'
    OBVIOUS
  <1>1. Visiting("altmatch") /\ UNCHANGED <<pc, job, visited, cap>>
    BY DEF VisitAltMatch
  <1>2. id' \in Id /\ p' \in Span
    BY <1>1, VisitIs, ProgramLeads DEF VisitAltMatch
  <1>3. Leads
    BY <1>1, <1>2, VisitIs DEF Leads
  <1> QED
    BY <1>1, <1>3, VisitIs, VisitKeeps

LEMMA VisitByteRangeKeeps == BInv /\ VisitByteRange => BInv'
  <1> SUFFICES ASSUME BInv, VisitByteRange PROVE BInv'
    OBVIOUS
  <1>1. Visiting("byte") /\ UNCHANGED <<cap, match, found>>
    BY DEF VisitByteRange
  <1>2. CASE ~Matches(ip, ByteAt(call.text, p, call.e))
    <2>1. GoOn /\ UNCHANGED <<p, job, visited>>
      BY <1>2 DEF VisitByteRange
    <2> QED
      BY <1>1, <2>1, GoOnLeads, VisitIs, VisitKeeps
  <1>3. CASE Matches(ip, ByteAt(call.text, p, call.e))
    <2>1. p + 1 \in Span
      <3>1. InstOK(prog, id)
        BY <1>1, VisitIs, ProgsAssumption DEF WellFormed, Id
      <3>2. ip.lo \in Byte /\ ip.fold \in BOOLEAN
        BY <1>1, <3>1, VisitIs DEF InstOK
      <3>3. p < call.e
        BY <1>3, <3>2, MatchesByte DEF ByteAt
      <3> QED
        BY <1>1, <3>3, VisitIs, CallIs DEF Span
    <2>2. ip.out \in Heads(prog)
      BY <1>1, VisitIs, ProgramLeads
    <2>3. Leads
      BY <1>1, <1>3, <2>1, <2>2, LoopLeads DEF VisitByteRange
    <2>4. CASE ip.hint = 0
      <3>1. job' = job
        BY <1>3, <2>4 DEF VisitByteRange
      <3> QED
        BY <1>1, <2>3, <3>1, VisitIs, VisitKeeps
    <2>5. CASE ip.hint # 0
      <3>1. job' = Push(id + ip.hint, p, job)
        BY <1>3, <2>5 DEF VisitByteRange
      <3>2. /\ id + ip.hint \in Id /\ id + ip.hint \in Int /\ id + ip.hint >= 0 /\ p \in Int
            /\ JobOK(Job(id + ip.hint, p, 0))
        <4>1. id + ip.hint \in Id /\ id + ip.hint \in Nat /\ p \in Span /\ p \in Nat
          BY <1>1, <2>5, VisitIs, ProgramLeads
        <4> QED
          BY <4>1 DEF JobOK, Job
      <3>3. Good(job')
        BY <1>1, <3>1, <3>2, VisitIs, PushGood
      <3>4. ASSUME NEW n \in DOMAIN cap, n >= 2 PROVE Restored(job', cap', n)
        <4>1. Restored(job, cap, n) /\ cap' = cap
          BY <1>1, <3>4, VisitIs
        <4>2. ~(id + ip.hint < 0) /\ Good(job) /\ call \in Calls
          BY <1>1, <3>2, VisitIs
        <4>3. Restored(Push(id + ip.hint, p, job), cap, n)
          BY <3>2, <4>1, <4>2, PushGood
        <4> QED
          BY <3>1, <4>1, <4>3
      <3> QED
        BY <1>1, <2>3, <3>3, <3>4, VisitIs, VisitKeeps
    <2> QED
      BY <2>4, <2>5
  <1> QED
    BY <1>2, <1>3

\* The job that undoes the capture is pushed with the value it had.
LEMMA VisitCaptureKeeps == BInv /\ VisitCapture => BInv'
  <1> SUFFICES ASSUME BInv, VisitCapture PROVE BInv'
    OBVIOUS
  <1>1. Visiting("cap") /\ CheckAndLoop(ip.out, p)
    BY DEF VisitCapture
  <1>2. Leads
    BY <1>1, VisitIs, ProgramLeads, LoopLeads
  <1>3. Good(PushRest) /\ \A n \in DOMAIN cap : n >= 2 => Restored(PushRest, cap, n)
    BY <1>1, PushRestGood
  <1>4. CASE ~(ip.cap < NCap)
    <2>1. job' = PushRest /\ cap' = cap
      BY <1>4 DEF VisitCapture
    <2> QED
      BY <1>1, <1>2, <1>3, <2>1, VisitIs, VisitKeeps
  <1>5. CASE ip.cap < NCap
    <2>1. /\ job' = Push(-id, cap[ip.cap], PushRest)
          /\ cap' = [cap EXCEPT ![ip.cap] = p]
      BY <1>5 DEF VisitCapture
    <2>2. ip.cap \in 0 .. NCap - 1 /\ cap[ip.cap] \in Int
      BY <1>1, <1>5, VisitIs, ProgramLeads, CallIs, SMTT(30)
    <2>3. -id \in Int /\ -id < 0 /\ -(-id) = id
      <3>1. id # 0
        BY <1>1, VisitIs, ProgramLeads
      <3> QED
        BY <1>1, <3>1, VisitIs
    <2>4. JobOK(Job(-id, cap[ip.cap], 0))
      BY <1>1, <2>3, VisitIs DEF JobOK, Job
    <2>5. Good(job')
      BY <1>1, <1>3, <2>1, <2>2, <2>3, <2>4, VisitIs, PushGood
    <2>6. ASSUME NEW n \in DOMAIN cap, n >= 2 PROVE Restored(job', cap', n)
      <3>1. Restored(PushRest, cap, n)
        BY <1>3, <2>6
      <3>2. IF -id < 0 /\ prog.inst[-(-id)].cap = n THEN cap[ip.cap] = cap[n]
            ELSE cap'[n] = cap[n]
        BY <1>1, <2>1, <2>3, <2>6, VisitIs
      <3> QED
        BY <1>1, <1>3, <2>1, <2>2, <2>3, <2>4, <3>1, <3>2, VisitIs, PushGood
    <2>7. cap' \in [0 .. NCap - 1 -> Int]
      <3>1. cap \in [0 .. NCap - 1 -> Int] /\ p \in Int
        BY <1>1, VisitIs
      <3> QED
        BY <2>1, <3>1
    <2> QED
      BY <1>1, <1>2, <2>5, <2>6, <2>7, VisitIs, VisitKeeps
  <1> QED
    BY <1>4, <1>5

LEMMA VisitEmptyWidthKeeps == BInv /\ VisitEmptyWidth => BInv'
  <1> SUFFICES ASSUME BInv, VisitEmptyWidth PROVE BInv'
    OBVIOUS
  <1>1. Visiting("empty") /\ UNCHANGED cap
    BY DEF VisitEmptyWidth
  <1>2. CASE ip.empty \subseteq EmptyFlags(call.text, p)
    <2>1. job' = PushRest /\ CheckAndLoop(ip.out, p)
      BY <1>2 DEF VisitEmptyWidth
    <2>2. Leads
      BY <1>1, <2>1, VisitIs, ProgramLeads, LoopLeads
    <2> QED
      BY <1>1, <2>1, <2>2, PushRestGood, VisitIs, VisitKeeps
  <1>3. CASE ~(ip.empty \subseteq EmptyFlags(call.text, p))
    <2>1. GoOn /\ UNCHANGED <<p, job, visited>>
      BY <1>3 DEF VisitEmptyWidth
    <2> QED
      BY <1>1, <2>1, GoOnLeads, VisitIs, VisitKeeps
  <1> QED
    BY <1>2, <1>3

LEMMA VisitNopKeeps == BInv /\ VisitNop => BInv'
  <1> SUFFICES ASSUME BInv, VisitNop PROVE BInv'
    OBVIOUS
  <1>1. Visiting("nop") /\ UNCHANGED cap /\ job' = PushRest /\ CheckAndLoop(ip.out, p)
    BY DEF VisitNop
  <1>2. Leads
    BY <1>1, VisitIs, ProgramLeads, LoopLeads
  <1> QED
    BY <1>1, <1>2, PushRestGood, VisitIs, VisitKeeps

\* The end of a match is a register that is never undone.
LEMMA VisitMatchKeeps == BInv /\ (VisitMatch \/ VisitNoMatch \/ VisitFail) => BInv'
  <1> SUFFICES ASSUME BInv, VisitMatch \/ VisitNoMatch \/ VisitFail PROVE BInv'
    OBVIOUS
  <1>1. PICK op : Visiting(op) /\ UNCHANGED <<p, job, visited>>
    BY DEF VisitMatch, VisitNoMatch, VisitFail
  <1>2. Leads
    <2>1. CASE GoOn
      BY <1>1, <2>1, GoOnLeads
    <2>2. CASE ~GoOn
      <3>1. id' = id /\ pc' \in {"pop", "done"}
        BY <2>2 DEF VisitMatch, VisitNoMatch, VisitFail
      <3> QED
        BY <1>1, <3>1, VisitIs DEF Leads
    <2> QED
      BY <2>1, <2>2
  <1>3. cap' = cap \/ cap' = [cap EXCEPT ![1] = p]
    BY DEF VisitMatch, VisitNoMatch, VisitFail
  <1>4. cap' \in [0 .. NCap - 1 -> Int] /\ \A n \in DOMAIN cap : n >= 2 => cap'[n] = cap[n]
    <2>1. cap \in [0 .. NCap - 1 -> Int] /\ p \in Int
      BY <1>1, VisitIs
    <2>2. CASE cap' = cap
      BY <2>1, <2>2
    <2>3. CASE cap' = [cap EXCEPT ![1] = p]
      <3>1. cap' \in [0 .. NCap - 1 -> Int]
        BY <2>1, <2>3
      <3>2. ASSUME NEW n \in DOMAIN cap, n >= 2 PROVE cap'[n] = cap[n]
        <4>1. n # 1
          BY <3>2
        <4> QED
          BY <2>3, <4>1
      <3> QED
        BY <3>1, <3>2
    <2> QED
      BY <1>3, <2>2, <2>3
  <1>5. \A n \in DOMAIN cap : n >= 2 => Restored(job', cap', n)
    BY <1>1, <1>4, VisitIs DEF Restored
  <1> QED
    BY <1>1, <1>2, <1>4, <1>5, VisitIs, VisitKeeps

-----------------------------------------------------------------------------
(***************************************************************************)
(* Search and the popping of jobs.                                         *)
(***************************************************************************)
LEMMA TurnKeeps == BInv /\ (Reject \/ Begin \/ NoStartLeft \/ UNCHANGED vars) => BInv'
  <1> SUFFICES ASSUME BInv, Reject \/ Begin \/ NoStartLeft \/ UNCHANGED vars PROVE BInv'
    OBVIOUS
  <1>1. UNCHANGED <<prog, call, start, id, p, job, visited, cap>>
    BY DEF Reject, Begin, NoStartLeft, vars
  <1>2. pc' = pc \/ pc' = "done" \/ (pc = "search" /\ pc' = "start")
    BY DEF Reject, Begin, NoStartLeft, vars
  <1>3. BTypes' /\ Where'
    BY <1>1, <1>2 DEF BInv, BTypes, Where, Id, Span, NCap
  <1>4. JobsOK' /\ VisitedOK' /\ RestoredOK'
    BY <1>1 DEF BInv, JobsOK, JobOK, VisitedOK, RestoredOK, Restored, Undoes, Id, Lists, Span
  <1> QED
    BY <1>3, <1>4 DEF BInv

\* A start position: nothing is on the stack, so no submatch is set.
LEMMA TrySearchKeeps == BInv /\ TrySearch => BInv'
  <1> SUFFICES ASSUME BInv, TrySearch PROVE BInv'
    OBVIOUS
  <1>1. /\ pc = "start" /\ pc' = "pop" /\ start <= call.e /\ start' = Skipped
        /\ cap' = [cap EXCEPT ![0] = start']
        /\ visited' = visited \cup {<<ListId(prog, prog.start), start'>>}
        /\ job' = (IF ShouldVisit(prog.start, start') THEN Push(prog.start, start', << >>)
                   ELSE << >>)
        /\ UNCHANGED <<prog, call, id, p>>
    BY DEF TrySearch
  <1>2. /\ prog \in Progs /\ call \in Calls /\ id \in Id /\ job = << >>
        /\ cap \in [0 .. NCap - 1 -> Int] /\ start \in Int /\ start >= call.b
        /\ call.b \in Nat /\ call.e \in Nat /\ start \in Nat
    BY <1>1, CallIs DEF BInv, BTypes, Where
  <1>3. start' \in Span /\ start' \in Int
    <2>1. PrefixAccel(prog, call.text, start, call.e) \in start .. call.e
      BY <1>1, <1>2, ProgsAssumption, AccelStays
    <2>2. start' \in start .. call.e
      BY <1>1, <1>2, <2>1 DEF Skipped
    <2> QED
      BY <1>2, <2>2 DEF Span
  <1>4. cap' \in [0 .. NCap - 1 -> Int] /\ \A n \in DOMAIN cap : n >= 2 => cap'[n] = cap[n]
    <2>1. cap' \in [0 .. NCap - 1 -> Int]
      BY <1>1, <1>2, <1>3
    <2>2. ASSUME NEW n \in DOMAIN cap, n >= 2 PROVE cap'[n] = cap[n]
      <3>1. n # 0
        BY <2>2
      <3> QED
        BY <1>1, <3>1
    <2> QED
      BY <2>1, <2>2
  <1>5. Good(job') /\ \A n \in DOMAIN cap : n >= 2 => Restored(job', cap', n)
    <2>1. Good(<< >>)
      BY DEF Good
    <2>2. ASSUME NEW n \in DOMAIN cap, n >= 2
          PROVE  Restored(<< >>, cap, n) /\ cap'[n] = cap[n]
      BY <1>2, <1>4, <2>2 DEF BInv, RestoredOK
    <2>3. CASE ShouldVisit(prog.start, start')
      <3>1. prog.start \in Id /\ prog.start \in Int /\ ~(prog.start < 0)
        BY <1>2, ProgramLeads
      <3>2. PICK x, y : x = prog.start /\ y = start'
        OBVIOUS
      <3>3. x \in Int /\ y \in Int /\ JobOK(Job(x, y, 0))
        BY <1>3, <3>1, <3>2 DEF JobOK, Job
      <3>4. job' = Push(x, y, << >>)
        BY <1>1, <2>3, <3>2
      <3>5. Good(Push(x, y, << >>))
        BY <1>2, <2>1, <3>3, PushGood
      <3>6. ASSUME NEW n \in DOMAIN cap, n >= 2 PROVE Restored(Push(x, y, << >>), cap', n)
        <4>1. Restored(<< >>, cap, n) /\ cap'[n] = cap[n] /\ ~(x < 0)
          BY <2>2, <3>1, <3>2, <3>6
        <4> QED
          BY <1>2, <2>1, <3>3, <4>1, PushGood
      <3> QED
        BY <3>4, <3>5, <3>6
    <2>4. CASE ~ShouldVisit(prog.start, start')
      <3>1. job' = << >>
        BY <1>1, <2>4
      <3> QED
        BY <2>1, <2>2, <3>1 DEF Restored
    <2> QED
      BY <2>3, <2>4
  <1>6. visited' \subseteq Lists \X Span
    <2>1. ListId(prog, prog.start) \in Lists
      BY <1>2, ProgramLeads
    <2> QED
      BY <1>1, <1>3, <2>1 DEF BInv, VisitedOK
  <1>7. BTypes' /\ Where'
    <2>1. start' \in call.b .. call.e + 1
      BY <1>2, <1>3, SMTT(30) DEF Span
    <2> QED
      BY <1>1, <1>2, <1>3, <1>4, <1>5, <2>1 DEF BTypes, Where, Good, Id, Span, NCap
  <1>8. JobsOK' /\ VisitedOK' /\ RestoredOK'
    <2>1. DOMAIN cap' = DOMAIN cap
      BY <1>2, <1>4
    <2> QED
      BY <1>1, <1>5, <1>6, <2>1
      DEF Good, JobsOK, JobOK, VisitedOK, RestoredOK, Restored, Undoes, Id, Lists, Span
  <1> QED
    BY <1>7, <1>8 DEF BInv

LEMMA DrainedKeeps == BInv /\ Drained => BInv'
  <1> SUFFICES ASSUME BInv, Drained PROVE BInv'
    OBVIOUS
  <1>1. /\ pc = "pop" /\ job = << >>
        /\ \/ pc' = "done" /\ start' = start
           \/ pc' = "start" /\ start' = start + 1
        /\ UNCHANGED <<prog, call, id, p, job, visited, cap>>
    BY DEF Drained
  <1>2. start' \in call.b .. call.e + 1
    BY <1>1, CallIs DEF BInv, BTypes, Where, Span
  <1>3. BTypes' /\ Where'
    BY <1>1, <1>2 DEF BInv, BTypes, Where, Id, Span, NCap
  <1>4. JobsOK' /\ VisitedOK' /\ RestoredOK'
    BY <1>1 DEF BInv, JobsOK, JobOK, VisitedOK, RestoredOK, Restored, Undoes, Id, Lists, Span
  <1> QED
    BY <1>3, <1>4 DEF BInv

\* Popping leaves the other jobs as they are.
LEMMA TailGood ==
  ASSUME NEW js, Good(js), js # << >>
  PROVE  Good(Tail(js)) /\ Head(js) \in Jobs /\ JobOK(Head(js)) /\ js[1] = Head(js)
  <1>1. js \in Seq(Jobs) /\ \A k \in DOMAIN js : JobOK(js[k])
    BY DEF Good
  <1>2. /\ Head(js) \in Jobs /\ Tail(js) \in Seq(Jobs) /\ 1 \in DOMAIN js /\ js[1] = Head(js)
        /\ \A k \in DOMAIN Tail(js) : k + 1 \in DOMAIN js /\ Tail(js)[k] = js[k + 1]
    BY <1>1, TailIs
  <1>3. \A k \in DOMAIN Tail(js) : JobOK(Tail(js)[k])
    BY <1>1, <1>2
  <1>4. JobOK(Head(js))
    <2>1. JobOK(js[1])
      BY <1>1, <1>2
    <2> QED
      BY <1>2, <2>1
  <1> QED
    BY <1>2, <1>3, <1>4 DEF Good

\* The steps from one job to the next.
LEMMA PopKeeps ==
  ASSUME BInv, pc = "pop", UNCHANGED <<prog, call, start, visited>>, id' \in Id,
         pc' = "pop" \/ (pc' = "visit" /\ p' \in Span), Good(job'),
         cap' \in [0 .. NCap - 1 -> Int],
         \A n \in DOMAIN cap : n >= 2 => Restored(job', cap', n)
  PROVE  BInv'
  <1>1. DOMAIN cap' = DOMAIN cap
    BY DEF BInv, BTypes
  <1>2. BTypes' /\ Where'
    BY DEF BInv, BTypes, Where, Good, Id, Span, NCap
  <1>3. JobsOK' /\ VisitedOK' /\ RestoredOK'
    BY <1>1
    DEF BInv, Good, JobsOK, JobOK, VisitedOK, RestoredOK, Restored, Undoes, Id, Lists, Span
  <1> QED
    BY <1>2, <1>3 DEF BInv

LEMMA PopCaptureKeeps == BInv /\ PopCapture => BInv'
  <1> SUFFICES ASSUME BInv, PopCapture PROVE BInv'
    OBVIOUS
  <1>1. PICK x : x = prog.inst[-Head(job).id].cap
    OBVIOUS
  <1>2. /\ pc = "pop" /\ pc' = pc /\ job # << >> /\ Head(job).id < 0 /\ job' = Tail(job)
        /\ cap' = [cap EXCEPT ![x] = Head(job).p]
        /\ UNCHANGED <<prog, call, start, id, p, visited>>
    BY <1>1 DEF PopCapture
  <1>3. Good(job) /\ id \in Id /\ cap \in [0 .. NCap - 1 -> Int] /\ job \in Seq(Jobs)
    BY DEF BInv, BTypes, JobsOK, Good
  <1>4. Good(job') /\ Head(job).p \in Int
    BY <1>2, <1>3, TailGood DEF Jobs
  <1>5. cap' \in [0 .. NCap - 1 -> Int]
    BY <1>2, <1>3, <1>4
  <1>6. ASSUME NEW n \in DOMAIN cap, n >= 2 PROVE Restored(job', cap', n)
    <2>1. Restored(job, cap, n)
      BY <1>6 DEF BInv, RestoredOK
    <2>2. cap'[n] = IF Undoes(Head(job), n) THEN Head(job).p ELSE cap[n]
      BY <1>1, <1>2, <1>6 DEF Undoes
    <2> QED
      BY <1>2, <1>3, <2>1, <2>2, RestoredByTail
  <1> QED
    BY <1>2, <1>3, <1>4, <1>5, <1>6, PopKeeps

LEMMA PopJobKeeps == BInv /\ PopJob => BInv'
  <1> SUFFICES ASSUME BInv, PopJob PROVE BInv'
    OBVIOUS
  <1>1. PICK top : top = Head(job)
    OBVIOUS
  <1>2. /\ pc = "pop" /\ pc' = "visit" /\ job # << >> /\ top.id >= 0
        /\ id' = top.id /\ p' = top.p + top.rle
        /\ job' = (IF top.rle > 0 THEN [job EXCEPT ![1].rle = @ - 1] ELSE Tail(job))
        /\ UNCHANGED <<prog, call, start, visited, cap>>
    BY <1>1 DEF PopJob
  <1>3. /\ Good(job) /\ job \in Seq(Jobs) /\ cap \in [0 .. NCap - 1 -> Int]
        /\ \A n \in DOMAIN cap : n >= 2 => Restored(job, cap, n)
    BY DEF BInv, BTypes, JobsOK, RestoredOK, Good
  <1>4. top \in Jobs /\ JobOK(top) /\ job[1] = top /\ Good(Tail(job)) /\ 1 \in DOMAIN job
    BY <1>1, <1>2, <1>3, TailGood, TailIs
  <1>5. top.id \in Int /\ top.p \in Int /\ top.rle \in Nat
    BY <1>4 DEF Jobs
  <1>6. id' \in Id /\ p' \in Span
    BY <1>2, <1>4, <1>5 DEF JobOK
  <1>7. Good(job') /\ \A n \in DOMAIN cap : n >= 2 => Restored(job', cap', n)
    <2>1. CASE top.rle > 0
      <3> DEFINE m == top.rle - 1
                 f == [job EXCEPT ![1].rle = m]
      <3>1. m \in Nat /\ job' = f
        BY <1>2, <1>4, <1>5, <2>1
      <3>2. /\ f \in Seq(Jobs) /\ DOMAIN f = DOMAIN job
            /\ f[1].id = top.id /\ f[1].p = top.p /\ f[1].rle = m
            /\ \A k \in DOMAIN job : k # 1 => f[k] = job[k]
        <4>1. job[1] \in Jobs /\ m \in Nat /\ job[1] = top
          BY <1>4, <3>1
        <4> HIDE DEF m
        <4> QED
          BY <1>3, <1>4, <4>1, SMTT(30) DEF Jobs
      <3>3. top.p + m \in Span
        <4>1. top.p \in Span /\ top.p + top.rle \in Span
          BY <1>2, <1>4, <1>5 DEF JobOK
        <4>2. call.b \in Int /\ call.e \in Int
          BY CallIs DEF BInv, BTypes
        <4> QED
          BY <1>5, <2>1, <4>1, <4>2 DEF Span
      <3>4. JobOK(f[1])
        BY <1>2, <1>4, <1>5, <3>2, <3>3 DEF JobOK
      <3>5. Good(f)
        BY <1>3, <3>2, <3>4 DEF Good
      <3>6. ASSUME NEW n \in DOMAIN cap, n >= 2 PROVE Restored(f, cap, n)
        <4>1. Restored(job, cap, n) /\ job[1].id >= 0
          BY <1>2, <1>3, <1>4, <3>6
        <4> HIDE DEF m
        <4> QED
          BY <1>2, <1>3, <3>1, <4>1, RestoredByRun
      <3> HIDE DEF f
      <3> QED
        BY <1>2, <3>1, <3>5, <3>6
    <2>2. CASE ~(top.rle > 0)
      <3>1. job' = Tail(job) /\ Good(job')
        BY <1>2, <1>4, <2>2
      <3>2. ASSUME NEW n \in DOMAIN cap, n >= 2 PROVE Restored(Tail(job), cap, n)
        <4>1. Restored(job, cap, n) /\ ~Undoes(Head(job), n)
          BY <1>1, <1>2, <1>3, <1>5, <3>2 DEF Undoes
        <4> QED
          BY <1>2, <1>3, <4>1, RestoredByTail
      <3> QED
        BY <1>2, <3>1, <3>2
    <2> QED
      BY <2>1, <2>2
  <1> QED
    BY <1>2, <1>3, <1>6, <1>7, PopKeeps

-----------------------------------------------------------------------------
(***************************************************************************)
(* The invariant and what follows from it.                                 *)
(***************************************************************************)
LEMMA InitHolds == Init => BInv
  <1> SUFFICES ASSUME Init PROVE BInv
    OBVIOUS
  <1>1. /\ prog \in Progs /\ call \in Calls /\ pc = "search" /\ start = call.b /\ id = 0
        /\ job = << >> /\ visited = {} /\ cap = [n \in 0 .. NCap - 1 |-> NoPos]
    BY DEF Init
  <1>2. BTypes
    <2>1. 0 \in Id /\ call.b \in call.b .. call.e + 1
      BY <1>1, ProgramLeads, CallIs
    <2> QED
      BY <1>1, <2>1 DEF BTypes, NoPos
  <1>3. RestoredOK
    BY <1>1 DEF RestoredOK, Restored
  <1> QED
    BY <1>1, <1>2, <1>3 DEF BInv, Where, JobsOK, VisitedOK

THEOREM BitStateInvariance == Spec => []BInv
  <1>1. BInv /\ [Next]_vars => BInv'
    <2> SUFFICES ASSUME BInv, [Next]_vars PROVE BInv'
      OBVIOUS
    <2>1. CASE VisitAny
      BY <2>1, VisitAltMatchKeeps, VisitByteRangeKeeps, VisitCaptureKeeps,
         VisitEmptyWidthKeeps, VisitNopKeeps, VisitMatchKeeps DEF VisitAny
    <2>2. CASE Reject \/ Begin \/ NoStartLeft \/ Done \/ UNCHANGED vars
      BY <2>2, TurnKeeps DEF Done
    <2>3. CASE TrySearch \/ Drained \/ PopCapture \/ PopJob
      BY <2>3, TrySearchKeeps, DrainedKeeps, PopCaptureKeeps, PopJobKeeps
    <2> QED
      BY <2>1, <2>2, <2>3 DEF Next
  <1> QED
    BY <1>1, InitHolds, PTL DEF Spec

\* The positions of a sequence are naturals.
LEMMA SeqDomain ==
  ASSUME NEW S, NEW s \in Seq(S)
  PROVE  DOMAIN s \subseteq Nat
  OBVIOUS

\* Whatever has been tried, the undo jobs on the stack take every register of a
\* submatch back to unset: no start position and no alternative inherits one
\* from another that failed (bitstate.cc:112-137, 151-160).
THEOREM CapturesAreUndone == Spec => []CapturesUndone
  <1>1. BInv => CapturesUndone
    <2> SUFFICES ASSUME BInv, NEW n \in DOMAIN cap, n >= 2
                 PROVE  Undone(job)[n] = NoPos
      BY DEF CapturesUndone
    <2> DEFINE last == {k \in DOMAIN job : job[k].id < 0 /\ prog.inst[-job[k].id].cap = n}
    <2>1. Restored(job, cap, n)
      BY DEF BInv, RestoredOK
    <2>2. Undone(job)[n] = IF last = {} THEN cap[n]
                           ELSE job[CHOOSE k \in last : \A m \in last : m <= k].p
      BY DEF Undone
    <2>3. \A k \in DOMAIN job : k \in Nat /\ (k \in last <=> Undoes(job[k], n))
      <3>1. DOMAIN job \subseteq Nat
        <4>1. job \in Seq(Jobs)
          BY Zenon DEF BInv, BTypes
        <4> QED
          BY <4>1, SeqDomain, Zenon
      <3> QED
        BY <3>1, Zenon DEF Undoes
    <2>4. CASE cap[n] = NoPos /\ \A k \in DOMAIN job : ~Undoes(job[k], n)
      <3>1. last = {}
        BY <2>3, <2>4
      <3> QED
        BY <2>2, <2>4, <3>1
    <2>5. CASE \E k \in DOMAIN job : /\ Undoes(job[k], n) /\ job[k].p = NoPos
                                     /\ \A m \in DOMAIN job : Undoes(job[m], n) => m <= k
      <3>1. PICK k \in DOMAIN job : /\ Undoes(job[k], n) /\ job[k].p = NoPos
                                    /\ \A m \in DOMAIN job : Undoes(job[m], n) => m <= k
        BY <2>5
      <3>2. k \in last /\ last # {} /\ \A m \in last : m <= k /\ m \in Nat
        BY <2>3, <3>1
      <3> HIDE DEF last
      <3> DEFINE j == CHOOSE j \in last : \A m \in last : m <= j
      <3>3. j \in last /\ \A m \in last : m <= j
        BY <3>2
      <3> HIDE DEF j
      <3>4. j = k
        BY <3>2, <3>3
      <3> QED
        BY <2>2, <3>1, <3>2, <3>4 DEF j
    <2> QED
      BY <2>1, <2>4, <2>5 DEF Restored
  <1> QED
    BY <1>1, BitStateInvariance, PTL

\* The search stays in the text that it was given, and the bitmap with a bit
\* for each list at each position of it has one for all that is visited
\* (ShouldVisit, bitstate.cc:89-96, and the size set in 308-312).
InText ==
  /\ pc = "visit" => p \in call.b .. call.e
  /\ visited \subseteq (DOMAIN prog.heads) \X (call.b .. call.e)
THEOREM StaysInText == Spec => []InText
  <1>1. BInv => InText
    BY DEF BInv, Where, VisitedOK, InText, Lists, Span
  <1> QED
    BY <1>1, BitStateInvariance, PTL

-----------------------------------------------------------------------------
(***************************************************************************)
(* The answer.  What is found is a path.                                   *)
(***************************************************************************)
\* The registers after job j: it puts one back, if it is there to undo.
Undo(pr, j, f) == IF j.id < 0 THEN [f EXCEPT ![pr.inst[-j.id].cap] = j.p] ELSE f

\* A run of positions waits for paths in P that are there with registers f.
RunIn(j, f, P) == j.id >= 0 => \A q \in j.p .. j.p + j.rle : At(j.id, q, f) \in P

\* With registers fs[k] the k-th job is met, and all that wait wait for paths.
Backed(pr, c, js, regs, P) ==
  \E fs : /\ fs[1] = Kept(c, regs)
          /\ \A k \in DOMAIN js : /\ fs[k + 1] = Undo(pr, js[k], fs[k])
                                  /\ RunIn(js[k], fs[k], P)

SInv ==
  /\ pc \in {"search", "start", "pop", "visit"} => ~found
  /\ pc \in {"search", "start"} => match = NoMatch
  /\ pc \in {"start", "pop", "visit"} => AnchorsFit(prog, call)
  /\ pc \in {"pop", "visit"} =>
       /\ start \in Starts(prog, call)
       /\ Backed(prog, call, job, cap, Paths(prog, call, start))
       /\ match # NoMatch => Reports(prog, call, start, match)
  /\ pc = "visit" => At(id, p, Kept(call, cap)) \in Paths(prog, call, start)

(***************************************************************************)
(* No path is missed.                                                      *)
(***************************************************************************)
\* What waits on the stack.
Waiting(pr, c, js) ==
  {x \in Pairs(pr, c) :
     \E k \in DOMAIN js : /\ js[k].id >= 0 /\ x[1] = js[k].id
                          /\ x[2] \in js[k].p .. js[k].p + js[k].rle}

\* Where the search goes from n.  An AltMatch stands for a loop over any bytes,
\* and a match; where as many bytes as possible are wanted the match is behind
\* all that are left.
Loops(pr, c, n) ==
  pr.inst[n].op = "altmatch" /\ (Greedy(pr.inst, pr.inst[n]) \/ Longest(pr, c))
Goes(pr, c, n, q, m, r) ==
  IF Loops(pr, c, n) THEN m = MatchArm(pr, n) /\ r = c.e ELSE Follows(pr, c, n, q, m, r)

\* All that x goes to is in T; and if x is a match, a better one is known.
Settled(pr, c, x, T, m) ==
  /\ \A y \in Pairs(pr, c) : Goes(pr, c, x[1], x[2], y[1], y[2]) => y \in T
  /\ Ends(pr, c, x[1], x[2]) => Longest(pr, c) /\ m # NoMatch /\ x[2] <= m[1]

\* T has the heads of lists that were visited, and all of it is settled but
\* what is still to come, F.
Explored(pr, c, v, T) ==
  \A n \in Heads(pr), q \in c.b .. c.e : <<ListId(pr, n), q>> \in v => <<n, q>> \in T
Covered(pr, c, T, F, m) == \A x \in T : x \in F \/ Settled(pr, c, x, T, m)

Front == Waiting(prog, call, job) \cup (IF pc = "visit" THEN {<<id, p>>} ELSE {})

CInv ==
  /\ pc = "search" => visited = {} /\ start = call.b
  /\ pc \in {"start", "pop", "visit"} =>
       /\ \A t \in Starts(prog, call) : t < start => MatchesFrom(prog, call, t) = {}
       /\ \E T \in SUBSET Pairs(prog, call) :
            /\ Explored(prog, call, visited, T)
            /\ Covered(prog, call, T, Front, match)
            /\ pc \in {"pop", "visit"} => <<prog.start, start>> \in T

(***************************************************************************)
(* The answer.                                                             *)
(***************************************************************************)
\* A match is found if and only if the program has a path that matches; what
\* is reported is the end and the submatches of such a path, from the first
\* position where one begins, and the longest from there if the longest is
\* asked for (SearchBitState, bitstate.cc:293-375).
FindsTheMatch ==
  pc = "done" =>
    /\ found <=> \E s \in Starts(prog, call) : MatchesFrom(prog, call, s) # {}
    /\ found /\ NMatch(call) # 0 =>
         \E s \in Starts(prog, call) :
           /\ \A t \in Starts(prog, call) : t < s => MatchesFrom(prog, call, t) = {}
           /\ Reports(prog, call, s, match)
           /\ Longest(prog, call) => \A y \in MatchesFrom(prog, call, s) : y.q <= match[1]

PInv == BInv /\ SInv /\ CInv /\ FindsTheMatch

-----------------------------------------------------------------------------
(***************************************************************************)
(* Paths.                                                                  *)
(***************************************************************************)

-----------------------------------------------------------------------------
(***************************************************************************)
(* The registers below each job.                                           *)
(***************************************************************************)
\* A job more, which keeps what is below it.
LEMMA BackedCons ==
  ASSUME NEW pr, NEW c, NEW js \in Seq(Jobs), NEW e \in Jobs, NEW regs, NEW regs2, NEW P,
         Backed(pr, c, js, regs, P),
         Undo(pr, e, Kept(c, regs2)) = Kept(c, regs), RunIn(e, Kept(c, regs2), P)
  PROVE  Backed(pr, c, <<e>> \o js, regs2, P)
  <1> DEFINE r == <<e>> \o js
  <1>1. /\ r[1] = e /\ DOMAIN r \subseteq Nat
        /\ \A k \in DOMAIN r : k # 1 => k - 1 \in DOMAIN js /\ k - 1 \in Nat /\ r[k] = js[k - 1]
    <2>1. /\ r \in Seq(Jobs) /\ r[1] = e
          /\ \A k \in DOMAIN r : k # 1 => k - 1 \in DOMAIN js /\ r[k] = js[k - 1]
      BY ConsIs
    <2>2. DOMAIN r \subseteq Nat /\ DOMAIN js \subseteq Nat
      BY <2>1, SeqDomain
    <2> QED
      BY <2>1, <2>2
  <1> HIDE DEF r
  <1>2. PICK fs : /\ fs[1] = Kept(c, regs)
                  /\ \A k \in DOMAIN js : /\ fs[k + 1] = Undo(pr, js[k], fs[k])
                                          /\ RunIn(js[k], fs[k], P)
    BY DEF Backed
  <1> DEFINE gs == [k \in Nat |-> IF k = 1 THEN Kept(c, regs2) ELSE fs[k - 1]]
  <1>3. gs[1] = Kept(c, regs2) /\ gs[2] = fs[1] /\ \A k \in Nat : k # 1 => gs[k] = fs[k - 1]
    OBVIOUS
  <1> HIDE DEF gs
  <1>4. ASSUME NEW k \in DOMAIN r PROVE gs[k + 1] = Undo(pr, r[k], gs[k]) /\ RunIn(r[k], gs[k], P)
    <2>1. CASE k = 1
      <3>1. k + 1 = 2
        BY <2>1
      <3> QED
        BY <1>1, <1>2, <1>3, <2>1, <3>1
    <2>2. CASE k # 1
      <3>1. k \in Nat /\ k - 1 \in Nat /\ k - 1 \in DOMAIN js /\ r[k] = js[k - 1]
        BY <1>1, <2>2
      <3>2. k + 1 \in Nat /\ k + 1 # 1 /\ (k + 1) - 1 = k /\ (k - 1) + 1 = k
        BY <3>1
      <3>3. gs[k + 1] = fs[k] /\ gs[k] = fs[k - 1]
        BY <1>3, <2>2, <3>1, <3>2
      <3> QED
        BY <1>2, <3>1, <3>2, <3>3
    <2> QED
      BY <2>1, <2>2
  <1> QED
    BY <1>3, <1>4 DEF Backed, r

\* A job less, which has put back what it kept.
LEMMA BackedTail ==
  ASSUME NEW pr, NEW c, NEW js \in Seq(Jobs), js # << >>, NEW regs, NEW regs2, NEW P,
         Backed(pr, c, js, regs, P),
         Undo(pr, Head(js), Kept(c, regs)) = Kept(c, regs2)
  PROVE  Backed(pr, c, Tail(js), regs2, P)
  <1> DEFINE r == Tail(js)
  <1>1. /\ 1 \in DOMAIN js /\ js[1] = Head(js)
        /\ \A k \in DOMAIN r : k \in Nat /\ k + 1 \in DOMAIN js /\ r[k] = js[k + 1]
    BY TailIs
  <1> HIDE DEF r
  <1>2. PICK fs : /\ fs[1] = Kept(c, regs)
                  /\ \A k \in DOMAIN js : /\ fs[k + 1] = Undo(pr, js[k], fs[k])
                                          /\ RunIn(js[k], fs[k], P)
    BY DEF Backed
  <1> DEFINE gs == [k \in Nat |-> fs[k + 1]]
  <1>3. \A k \in Nat : gs[k] = fs[k + 1]
    OBVIOUS
  <1> HIDE DEF gs
  <1>4. gs[1] = Kept(c, regs2)
    BY <1>1, <1>2, <1>3
  <1>5. ASSUME NEW k \in DOMAIN r PROVE gs[k + 1] = Undo(pr, r[k], gs[k]) /\ RunIn(r[k], gs[k], P)
    <2>1. k \in Nat /\ k + 1 \in Nat /\ k + 1 \in DOMAIN js /\ r[k] = js[k + 1]
      BY <1>1
    <2>2. gs[k] = fs[k + 1] /\ gs[k + 1] = fs[(k + 1) + 1]
      BY <1>3, <2>1
    <2> QED
      BY <1>2, <2>1, <2>2
  <1> QED
    BY <1>4, <1>5 DEF Backed, r

\* A longer or shorter run on top.
LEMMA BackedRun ==
  ASSUME NEW pr, NEW c, NEW js \in Seq(Jobs), js # << >>, js[1].id >= 0, NEW m \in Nat,
         NEW regs, NEW P, Backed(pr, c, js, regs, P),
         \A q \in js[1].p .. js[1].p + m : At(js[1].id, q, Kept(c, regs)) \in P
  PROVE  Backed(pr, c, [js EXCEPT ![1].rle = m], regs, P)
  <1> DEFINE r == [js EXCEPT ![1].rle = m]
  <1>1. DOMAIN r = DOMAIN js /\ 1 \in DOMAIN js /\ \A k \in DOMAIN js : k # 1 => r[k] = js[k]
    BY TailIs
  <1>2. r[1].id = js[1].id /\ r[1].p = js[1].p /\ r[1].rle = m
    BY <1>1, TailIs DEF Jobs
  <1>3. js[1].id \in Int
    BY TailIs DEF Jobs
  <1> HIDE DEF r
  <1>4. PICK fs : /\ fs[1] = Kept(c, regs)
                  /\ \A k \in DOMAIN js : /\ fs[k + 1] = Undo(pr, js[k], fs[k])
                                          /\ RunIn(js[k], fs[k], P)
    BY DEF Backed
  <1>5. Undo(pr, r[1], fs[1]) = fs[1] /\ Undo(pr, js[1], fs[1]) = fs[1] /\ RunIn(r[1], fs[1], P)
    BY <1>2, <1>3, <1>4 DEF Undo, RunIn
  <1>6. \A k \in DOMAIN r : fs[k + 1] = Undo(pr, r[k], fs[k]) /\ RunIn(r[k], fs[k], P)
    BY <1>1, <1>4, <1>5
  <1> QED
    BY <1>4, <1>6 DEF Backed, r

\* The run on top is of paths with the registers as they are.
LEMMA TopRun ==
  ASSUME NEW pr, NEW c, NEW js \in Seq(Jobs), js # << >>, js[1].id >= 0, NEW regs, NEW P,
         Backed(pr, c, js, regs, P)
  PROVE  \A q \in js[1].p .. js[1].p + js[1].rle : At(js[1].id, q, Kept(c, regs)) \in P
  <1>1. 1 \in DOMAIN js
    BY TailIs
  <1> QED
    BY <1>1 DEF Backed, RunIn

\* Push.
LEMMA BackedPush ==
  ASSUME NEW pr, NEW c, NEW js \in Seq(Jobs), NEW n \in Int, NEW q \in Int,
         NEW regs, NEW regs2, NEW P, Backed(pr, c, js, regs, P),
         Undo(pr, Job(n, q, 0), Kept(c, regs2)) = Kept(c, regs),
         n >= 0 => At(n, q, Kept(c, regs2)) \in P
  PROVE  Backed(pr, c, Push(n, q, js), regs2, P)
  <1> DEFINE e == Job(n, q, 0)
  <1>1. e \in Jobs /\ e.id = n /\ e.p = q /\ e.rle = 0
    BY DEF Job, Jobs
  <1>2. CASE n >= 0 /\ js # << >> /\ js[1].id = n /\ q = js[1].p + js[1].rle + 1
    <2>1. js[1] \in Jobs
      BY <1>2, TailIs
    <2>2. PICK m \in Nat, b \in Int : m = js[1].rle + 1 /\ b = js[1].p
      BY <2>1 DEF Jobs
    <2>3. Push(n, q, js) = [js EXCEPT ![1].rle = m]
      BY <1>2, <2>2 DEF Push
    <2>4. Kept(c, regs2) = Kept(c, regs)
      BY <1>1, <1>2 DEF Undo
    <2>5. PICK l \in Nat : l = js[1].rle /\ m = l + 1 /\ q = b + l + 1
      BY <1>2, <2>1, <2>2 DEF Jobs
    <2>6. ASSUME NEW k \in b .. b + m PROVE At(n, k, Kept(c, regs2)) \in P
      <3>1. CASE k = b + m
        <4>1. k = q
          BY <2>5, <3>1, SMTT(30)
        <4> QED
          BY <1>2, <4>1
      <3>2. CASE k # b + m
        <4>1. k \in b .. b + l
          BY <2>5, <3>2, SMTT(30)
        <4>2. \A y \in js[1].p .. js[1].p + js[1].rle : At(js[1].id, y, Kept(c, regs)) \in P
          BY <1>2, TopRun
        <4>3. At(js[1].id, k, Kept(c, regs)) \in P
          BY <2>2, <2>5, <4>1, <4>2
        <4> QED
          BY <1>2, <2>4, <4>3
      <3> QED
        BY <3>1, <3>2
    <2>7. Backed(pr, c, [js EXCEPT ![1].rle = m], regs, P)
      BY <1>2, <2>2, <2>4, <2>6, BackedRun
    <2> QED
      BY <2>3, <2>4, <2>7 DEF Backed
  <1>3. CASE ~(n >= 0 /\ js # << >> /\ js[1].id = n /\ q = js[1].p + js[1].rle + 1)
    <2>1. Push(n, q, js) = <<e>> \o js
      BY <1>3 DEF Push
    <2>2. RunIn(e, Kept(c, regs2), P)
      <3>1. \A k \in e.p .. e.p + e.rle : k = q
        BY <1>1
      <3> QED
        BY <1>1, <3>1 DEF RunIn
    <2> HIDE DEF e
    <2>3. Undo(pr, e, Kept(c, regs2)) = Kept(c, regs)
      BY DEF e
    <2> QED
      BY <1>1, <2>1, <2>2, <2>3, BackedCons
  <1> QED
    BY <1>2, <1>3

-----------------------------------------------------------------------------
(***************************************************************************)
(* Visits: what is found is a path.                                        *)
(***************************************************************************)

\* What is known when an instruction is visited.
LEMMA VisitPath ==
  ASSUME SInv, NEW op, Visiting(op)
  PROVE  /\ At(id, p, Kept(call, cap)) \in Paths(prog, call, start)
         /\ start \in Starts(prog, call) /\ AnchorsFit(prog, call) /\ ~found
         /\ Backed(prog, call, job, cap, Paths(prog, call, start))
         /\ match # NoMatch => Reports(prog, call, start, match)
  BY DEF SInv, Visiting

\* From one visit or job to the next.
LEMMA SKeeps ==
  ASSUME SInv, pc \in {"pop", "visit"}, UNCHANGED <<prog, call, start, found>>,
         pc' \in {"pop", "visit"},
         Backed(prog, call, job', cap', Paths(prog, call, start)),
         match' # NoMatch => Reports(prog, call, start, match'),
         pc' = "visit" => At(id', p', Kept(call, cap')) \in Paths(prog, call, start)
  PROVE  SInv'
  <1>1. AnchorsFit(prog, call) /\ start \in Starts(prog, call) /\ ~found
    BY DEF SInv
  <1> QED
    BY <1>1 DEF SInv, NoMatch

\* No instruction but an AltMatch leaves its list.
LEMMA NextInList ==
  ASSUME BInv, NEW op, Visiting(op), op # "altmatch", ~ip.last
  PROVE  id + 1 \in Id /\ Rest(prog, id, p, id + 1, p)
  BY VisitIs, ProgramLeads DEF Rest

LEMMA GoOnPath ==
  ASSUME BInv, SInv, NEW op, Visiting(op), op # "altmatch", ~ip.last
  PROVE  At(id + 1, p, Kept(call, cap)) \in Paths(prog, call, start)
  <1>1. id + 1 \in DOMAIN prog.inst /\ p \in call.b .. call.e
    BY NextInList, VisitIs DEF Id, Span
  <1> QED
    BY <1>1, NextInList, VisitPath, RestPath

LEMMA NoUndo ==
  ASSUME NEW pr, NEW n \in Nat, NEW q, NEW f
  PROVE  Undo(pr, Job(n, q, 0), f) = f
  BY DEF Undo, Job

LEMMA PushRestBacked ==
  ASSUME BInv, SInv, NEW op, Visiting(op), op # "altmatch"
  PROVE  Backed(prog, call, PushRest, cap, Paths(prog, call, start))
  <1>1. CASE ip.last
    BY <1>1, VisitPath DEF PushRest
  <1>2. CASE ~ip.last
    <2>1. id + 1 \in Int /\ id + 1 \in Nat /\ p \in Int /\ job \in Seq(Jobs)
      BY VisitIs DEF Good
    <2>2. At(id + 1, p, Kept(call, cap)) \in Paths(prog, call, start)
      BY <1>2, GoOnPath
    <2>3. PICK n \in Nat : n = id + 1
      BY <2>1
    <2>4. Backed(prog, call, Push(n, p, job), cap, Paths(prog, call, start))
      BY <2>1, <2>2, <2>3, VisitPath, NoUndo, BackedPush
    <2> QED
      BY <1>2, <2>3, <2>4 DEF PushRest
  <1> QED
    BY <1>1, <1>2

\* GoOn, when no more is done.
LEMMA GoOnS ==
  ASSUME BInv, SInv, NEW op, Visiting(op), op # "altmatch", GoOn,
         UNCHANGED <<p, job, found>>, Kept(call, cap') = Kept(call, cap),
         match' # NoMatch => Reports(prog, call, start, match')
  PROVE  SInv'
  <1>1. pc = "visit" /\ pc' \in {"pop", "visit"} /\ UNCHANGED <<prog, call, start>>
    BY DEF GoOn, Visiting
  <1>2. pc' = "visit" => At(id', p', Kept(call, cap')) \in Paths(prog, call, start)
    BY <1>1, GoOnPath DEF GoOn
  <1>3. Backed(prog, call, job', cap', Paths(prog, call, start))
    BY VisitPath DEF Backed
  <1> QED
    BY <1>1, <1>2, <1>3, SKeeps

\* CheckAndLoop, when it is to a path.
LEMMA LoopS ==
  ASSUME BInv, SInv, NEW op, Visiting(op), NEW n, NEW q, CheckAndLoop(n, q),
         At(n, q, Kept(call, cap')) \in Paths(prog, call, start),
         Backed(prog, call, job', cap', Paths(prog, call, start)),
         UNCHANGED <<match, found>>
  PROVE  SInv'
  <1>1. pc = "visit" /\ pc' \in {"pop", "visit"} /\ UNCHANGED <<prog, call, start>>
    BY DEF CheckAndLoop, Visiting
  <1>2. pc' = "visit" => At(id', p', Kept(call, cap')) \in Paths(prog, call, start)
    BY <1>1 DEF CheckAndLoop
  <1> QED
    BY <1>1, <1>2, VisitPath, SKeeps

LEMMA VisitFailS == BInv /\ SInv /\ VisitFail => SInv'
  <1> SUFFICES ASSUME BInv, SInv, VisitFail PROVE SInv'
    OBVIOUS
  <1>1. Visiting("fail") /\ pc = "visit" /\ pc' = "pop"
        /\ UNCHANGED <<prog, call, start, job, cap, match, found>>
    BY DEF VisitFail, Visiting
  <1> QED
    BY <1>1, VisitPath, SKeeps

LEMMA AltMatchGoes ==
  ASSUME BInv, VisitAltMatch
  PROVE  /\ Visiting("altmatch") /\ prog.inst[id].op = "altmatch" /\ prog \in Progs
         /\ call \in Calls /\ id \in DOMAIN prog.inst /\ p \in call.b .. call.e
         /\ Loops(prog, call, id) => id' = MatchArm(prog, id) /\ p' = call.e
         /\ ~Loops(prog, call, id) => Rest(prog, id, p, id', p')
         /\ id' \in DOMAIN prog.inst /\ p' \in call.b .. call.e
  <1>1. Visiting("altmatch")
    BY DEF VisitAltMatch
  <1>2. /\ ip = prog.inst[id] /\ ip.op = "altmatch" /\ id \in Id
        /\ p \in Span /\ call.e \in Span /\ prog \in Progs /\ call \in Calls
    BY <1>1, VisitIs
  <1>3. ~prog.inst[id].last
    BY <1>2, InstIs DEF Id
  <1>4. id' \in Id /\ p' \in Span
    BY <1>1, <1>2, VisitIs, ProgramLeads DEF VisitAltMatch
  <1>5. Loops(prog, call, id) => id' = MatchArm(prog, id) /\ p' = call.e
    BY <1>2 DEF VisitAltMatch, Loops, MatchArm
  <1>6. ~Loops(prog, call, id) => Rest(prog, id, p, id', p')
    BY <1>2, <1>3 DEF VisitAltMatch, Loops, Rest
  <1> QED
    BY <1>1, <1>2, <1>4, <1>5, <1>6 DEF Id, Span

LEMMA VisitAltMatchS == BInv /\ SInv /\ VisitAltMatch => SInv'
  <1> SUFFICES ASSUME BInv, SInv, VisitAltMatch PROVE SInv'
    OBVIOUS
  <1>1. Visiting("altmatch") /\ pc = "visit" /\ pc' = pc
        /\ UNCHANGED <<prog, call, start, job, cap, match, found>>
    BY DEF VisitAltMatch, Visiting
  <1>2. PICK n, q, f : n = id' /\ q = p' /\ f = Kept(call, cap)
    OBVIOUS
  <1>3. At(id, p, f) \in Paths(prog, call, start)
    BY <1>1, <1>2, VisitPath
  <1>4. At(n, q, f) \in Paths(prog, call, start)
    <2>1. CASE Loops(prog, call, id)
      BY <1>2, <1>3, <2>1, AltMatchGoes, LoopPath
    <2>2. CASE ~Loops(prog, call, id)
      BY <1>2, <1>3, <2>2, AltMatchGoes, RestPath
    <2> QED
      BY <2>1, <2>2
  <1> QED
    BY <1>1, <1>2, <1>4, VisitPath, SKeeps

\* A byte range that matches is before the end of the text.
LEMMA ByteIsThere ==
  ASSUME BInv, Visiting("byte"), Matches(ip, ByteAt(call.text, p, call.e))
  PROVE  p + 1 \in Span /\ ByteAt(call.text, p, call.e) \in Byte
  <1>1. /\ ip = prog.inst[id] /\ p \in Span /\ p \in Nat /\ call \in Calls
        /\ ip.lo \in Byte /\ ip.fold \in BOOLEAN
    BY VisitIs, InstIs DEF Id
  <1>2. p < call.e
    BY <1>1, MatchesByte DEF ByteAt
  <1>3. p + 1 \in Span
    BY <1>1, <1>2, CallIs DEF Span
  <1>4. call.text \in Seq(Byte) /\ call.e <= Len(call.text) /\ call.e \in Nat
    BY <1>1, CallIs
  <1>5. p + 1 \in 1 .. Len(call.text)
    BY <1>1, <1>2, <1>4
  <1>6. call.text[p + 1] \in Byte
    BY <1>4, <1>5
  <1> QED
    BY <1>2, <1>3, <1>6 DEF ByteAt

LEMMA VisitByteRangeS == BInv /\ SInv /\ VisitByteRange => SInv'
  <1> SUFFICES ASSUME BInv, SInv, VisitByteRange PROVE SInv'
    OBVIOUS
  <1>1. Visiting("byte") /\ UNCHANGED <<cap, match, found>>
    BY DEF VisitByteRange
  <1>2. CASE ~Matches(ip, ByteAt(call.text, p, call.e))
    <2>1. GoOn /\ UNCHANGED <<p, job, visited>>
      BY <1>2 DEF VisitByteRange
    <2> QED
      BY <1>1, <2>1, VisitPath, GoOnS
  <1>3. CASE Matches(ip, ByteAt(call.text, p, call.e))
    <2>1. PICK n, q, f : n = ip.out /\ q = p + 1 /\ f = Kept(call, cap)
      OBVIOUS
    <2>2. CheckAndLoop(n, q)
      BY <1>3, <2>1 DEF VisitByteRange
    <2>3. n \in DOMAIN prog.inst /\ q \in call.b .. call.e /\ p \in Int
      BY <1>1, <1>3, <2>1, ByteIsThere, VisitIs, ProgramLeads DEF Id, Span
    <2>4. Taken(prog, call, id, p, n, q) /\ prog.inst[id].op = "byte"
      BY <1>1, <1>3, <2>1, VisitIs DEF Taken
    <2>5. At(n, q, f) \in Paths(prog, call, start)
      BY <1>1, <2>1, <2>3, <2>4, VisitPath, TakenPath
    <2>6. Backed(prog, call, job', cap, Paths(prog, call, start))
      <3>1. CASE ip.hint = 0
        <4>1. job' = job
          BY <1>3, <3>1 DEF VisitByteRange
        <4> QED
          BY <1>1, <4>1, VisitPath
      <3>2. CASE ip.hint # 0
        <4>1. PICK j : j = id + ip.hint
          OBVIOUS
        <4>2. job' = Push(j, p, job)
          BY <1>3, <3>2, <4>1 DEF VisitByteRange
        <4>3. /\ SameList(prog, id, j) /\ j \in Nat /\ j <= id + ip.hint
              /\ p \in call.b .. call.e /\ job \in Seq(Jobs)
          BY <1>1, <3>2, <4>1, VisitIs, InstIs, ProgramLeads DEF Span, Good, Id
        <4>4. At(j, p, f) \in Paths(prog, call, start)
          BY <1>1, <2>1, <2>4, <4>3, VisitIs, VisitPath, SkipReached DEF Id
        <4>5. Backed(prog, call, Push(j, p, job), cap, Paths(prog, call, start))
          BY <1>1, <2>1, <2>3, <4>3, <4>4, VisitPath, NoUndo, BackedPush
        <4> QED
          BY <4>2, <4>5
      <3> QED
        BY <3>1, <3>2
    <2>7. At(n, q, Kept(call, cap')) \in Paths(prog, call, start)
      BY <1>1, <2>1, <2>5
    <2>8. Backed(prog, call, job', cap', Paths(prog, call, start))
      BY <1>1, <2>6
    <2> QED
      BY <1>1, <2>2, <2>7, <2>8, LoopS
  <1> QED
    BY <1>2, <1>3

\* A register that is set, as a path sees it.
Put(f, x, v) == [f EXCEPT ![x] = v]
LEMMA KeptSet ==
  ASSUME call \in Calls, NEW f \in [0 .. NCap - 1 -> Int], NEW x \in Nat, NEW v \in Int
  PROVE  /\ Kept(call, Put(f, x, v)) = Put(Kept(call, f), x, v)
         /\ x \notin 0 .. NCap - 1 => Put(Kept(call, f), x, v) = Kept(call, f)
         /\ x = 1 => Put(Kept(call, f), x, v) = Kept(call, f)
  <1>1. Regs(call) \subseteq 0 .. NCap - 1 /\ 1 \notin Regs(call)
    BY DEF Regs, NCap
  <1>2. DOMAIN f = 0 .. NCap - 1
    OBVIOUS
  <1>3. ASSUME NEW r \in Regs(call)
        PROVE  [f EXCEPT ![x] = v][r] = IF r = x THEN v ELSE f[r]
    BY <1>1, <1>2
  <1>4. Kept(call, [f EXCEPT ![x] = v]) = [Kept(call, f) EXCEPT ![x] = v]
    <2>1. Kept(call, [f EXCEPT ![x] = v]) = [r \in Regs(call) |-> IF r = x THEN v ELSE f[r]]
      BY <1>3 DEF Kept
    <2>2. [Kept(call, f) EXCEPT ![x] = v] = [r \in Regs(call) |-> IF r = x THEN v ELSE f[r]]
      BY DEF Kept
    <2> QED
      BY <2>1, <2>2
  <1>5. x \notin Regs(call) => [Kept(call, f) EXCEPT ![x] = v] = Kept(call, f)
    BY DEF Kept
  <1> QED
    BY <1>1, <1>4, <1>5 DEF Put

LEMMA VisitCaptureS == BInv /\ SInv /\ VisitCapture => SInv'
  <1> SUFFICES ASSUME BInv, SInv, VisitCapture PROVE SInv'
    OBVIOUS
  <1>1. Visiting("cap") /\ CheckAndLoop(ip.out, p) /\ UNCHANGED <<match, found>>
    BY DEF VisitCapture
  <1>2. PICK n, x, f : x \in Nat /\ n = ip.out /\ x = ip.cap /\ f = Kept(call, cap)
    BY <1>1, VisitIs, ProgramLeads
  <1>3. /\ n \in DOMAIN prog.inst /\ p \in call.b .. call.e /\ p \in Int
        /\ prog.inst[id].op = "cap" /\ prog.inst[id].cap = x
        /\ cap \in [0 .. NCap - 1 -> Int] /\ call \in Calls
    BY <1>1, <1>2, VisitIs, ProgramLeads DEF Id, Span
  <1>4. Taken(prog, call, id, p, n, p)
    BY <1>1, <1>2, VisitIs DEF Taken
  <1>5. At(n, p, [f EXCEPT ![x] = p]) \in Paths(prog, call, start)
    BY <1>1, <1>2, <1>3, <1>4, VisitPath, TakenPath
  <1>6. Backed(prog, call, PushRest, cap, Paths(prog, call, start))
    BY <1>1, PushRestBacked
  <1>7. CASE ~(x < NCap)
    <2>1. job' = PushRest /\ cap' = cap
      BY <1>2, <1>7 DEF VisitCapture
    <2>2. NCap \in Nat
      BY <1>3, CallIs
    <2>3. x \notin 0 .. NCap - 1
      BY <1>7, <2>2
    <2>4. [f EXCEPT ![x] = p] = f
      <3>1. Put(Kept(call, cap), x, p) = Kept(call, cap)
        BY <1>2, <1>3, <2>3, KeptSet
      <3> QED
        BY <1>2, <3>1 DEF Put
    <2> QED
      BY <1>1, <1>2, <1>5, <1>6, <2>1, <2>4, LoopS
  <1>8. CASE x < NCap
    <2>1. job' = Push(-id, cap[x], PushRest) /\ cap' = [cap EXCEPT ![x] = p]
      BY <1>2, <1>8 DEF VisitCapture
    <2>2. x \in 0 .. NCap - 1 /\ cap[x] \in Int
      <3>1. NCap \in Nat
        BY <1>3, CallIs
      <3> QED
        BY <1>2, <1>3, <1>8, <3>1
    <2>3. Kept(call, cap') = [f EXCEPT ![x] = p]
      <3>1. Kept(call, Put(cap, x, p)) = Put(Kept(call, cap), x, p)
        BY <1>2, <1>3, KeptSet
      <3> QED
        BY <1>2, <2>1, <3>1 DEF Put
    <2>4. PICK o \in Int, v \in Int : o = -id /\ o < 0 /\ -o = id /\ v = cap[x]
      <3>1. id # 0
        BY <1>1, VisitIs, ProgramLeads
      <3> QED
        BY <1>1, <2>2, <3>1, VisitIs
    <2>5. Undo(prog, Job(o, v, 0), Kept(call, cap')) = Kept(call, cap)
      <3>1. Undo(prog, Job(o, v, 0), Kept(call, cap')) = [Kept(call, cap') EXCEPT ![x] = v]
        BY <1>3, <2>4 DEF Undo, Job
      <3>2. [[f EXCEPT ![x] = p] EXCEPT ![x] = v] = f
        BY <1>2, <2>4 DEF Kept
      <3> QED
        BY <1>2, <2>3, <3>1, <3>2
    <2>6. PICK g : g = cap'
      OBVIOUS
    <2>7. Backed(prog, call, Push(o, v, PushRest), g, Paths(prog, call, start))
      <3>1. PushRest \in Seq(Jobs)
        BY <1>1, PushRestGood DEF Good
      <3>2. PICK js \in Seq(Jobs) : js = PushRest
        BY <3>1
      <3>3. Backed(prog, call, js, cap, Paths(prog, call, start))
        BY <1>6, <3>2
      <3>4. Undo(prog, Job(o, v, 0), Kept(call, g)) = Kept(call, cap)
        BY <2>5, <2>6
      <3>5. Backed(prog, call, Push(o, v, js), g, Paths(prog, call, start))
        BY <2>4, <3>3, <3>4, BackedPush
      <3> QED
        BY <3>2, <3>5
    <2>8. Backed(prog, call, job', cap', Paths(prog, call, start))
      BY <2>1, <2>4, <2>6, <2>7
    <2>9. At(n, p, Kept(call, cap')) \in Paths(prog, call, start)
      BY <1>5, <2>3
    <2> QED
      BY <1>1, <1>2, <2>8, <2>9, LoopS
  <1> QED
    BY <1>7, <1>8

LEMMA VisitEmptyWidthS == BInv /\ SInv /\ VisitEmptyWidth => SInv'
  <1> SUFFICES ASSUME BInv, SInv, VisitEmptyWidth PROVE SInv'
    OBVIOUS
  <1>1. Visiting("empty") /\ UNCHANGED <<cap, match, found>>
    BY DEF VisitEmptyWidth
  <1>2. CASE ip.empty \subseteq EmptyFlags(call.text, p)
    <2>1. PICK n : n = ip.out
      OBVIOUS
    <2>2. job' = PushRest /\ CheckAndLoop(n, p)
      BY <1>2, <2>1 DEF VisitEmptyWidth
    <2>3. n \in DOMAIN prog.inst /\ p \in call.b .. call.e /\ p \in Int
      BY <1>1, <2>1, VisitIs, ProgramLeads DEF Id, Span
    <2>4. Taken(prog, call, id, p, n, p) /\ prog.inst[id].op = "empty"
      BY <1>1, <1>2, <2>1, VisitIs DEF Taken
    <2>5. At(n, p, Kept(call, cap)) \in Paths(prog, call, start)
      BY <1>1, <2>3, <2>4, VisitPath, TakenPath
    <2>6. Backed(prog, call, PushRest, cap, Paths(prog, call, start))
      BY <1>1, PushRestBacked
    <2> QED
      BY <1>1, <2>2, <2>5, <2>6, LoopS
  <1>3. CASE ~(ip.empty \subseteq EmptyFlags(call.text, p))
    <2>1. GoOn /\ UNCHANGED <<p, job, visited>>
      BY <1>3 DEF VisitEmptyWidth
    <2> QED
      BY <1>1, <2>1, VisitPath, GoOnS
  <1> QED
    BY <1>2, <1>3

LEMMA VisitNopS == BInv /\ SInv /\ VisitNop => SInv'
  <1> SUFFICES ASSUME BInv, SInv, VisitNop PROVE SInv'
    OBVIOUS
  <1>1. PICK n : n = ip.out
    OBVIOUS
  <1>2. /\ Visiting("nop") /\ UNCHANGED <<cap, match, found>> /\ job' = PushRest
        /\ CheckAndLoop(n, p)
    BY <1>1 DEF VisitNop
  <1>3. n \in DOMAIN prog.inst /\ p \in call.b .. call.e /\ p \in Int
    BY <1>1, <1>2, VisitIs, ProgramLeads DEF Id, Span
  <1>4. Taken(prog, call, id, p, n, p) /\ prog.inst[id].op = "nop"
    BY <1>1, <1>2, VisitIs DEF Taken
  <1>5. At(n, p, Kept(call, cap)) \in Paths(prog, call, start)
    BY <1>2, <1>3, <1>4, VisitPath, TakenPath
  <1>6. Backed(prog, call, PushRest, cap, Paths(prog, call, start))
    BY <1>2, PushRestBacked
  <1> QED
    BY <1>2, <1>5, <1>6, LoopS

LEMMA VisitNoMatchS == BInv /\ SInv /\ VisitNoMatch => SInv'
  <1> SUFFICES ASSUME BInv, SInv, VisitNoMatch PROVE SInv'
    OBVIOUS
  <1>1. Visiting("match") /\ GoOn /\ UNCHANGED <<p, job, cap, match, found>>
    BY DEF VisitNoMatch
  <1> QED
    BY <1>1, VisitPath, GoOnS

\* What is reported ends in the text.
LEMMA ReportEnds ==
  ASSUME NEW pr, NEW c \in Calls, NEW s, NEW m, Reports(pr, c, s, m)
  PROVE  m[1] \in c.b .. c.e /\ c.b \in Nat /\ c.e \in Nat /\ MatchesFrom(pr, c, s) # {}
  <1>1. PICK x \in MatchesFrom(pr, c, s) : m[1] = x.q
    BY DEF Reports
  <1>2. x \in Configs(pr, c)
    BY DEF MatchesFrom, Paths
  <1>3. c.b \in Nat /\ c.e \in Nat
    BY CallsAssumption
  <1> QED
    BY <1>1, <1>2, <1>3 DEF Configs

\* A match that is met is reported, unless a better one is known.
LEMMA MatchReports ==
  ASSUME BInv, SInv, VisitMatch, NMatch(call) # 0
  PROVE  /\ match' # NoMatch /\ Reports(prog, call, start, match')
         /\ Kept(call, cap') = Kept(call, cap)
         /\ Longest(prog, call) => p <= match'[1]
         /\ match # NoMatch => \A q \in call.b .. call.e : q <= match[1] => q <= match'[1]
  <1> DEFINE ends == [cap EXCEPT ![1] = p]
             better == match = NoMatch \/ (Longest(prog, call) /\ p > match[1])
  <1>1. /\ Visiting("match") /\ EndsHere /\ cap' = ends
        /\ match' = IF better THEN ends ELSE match
    BY DEF VisitMatch
  <1>2. /\ cap \in [0 .. NCap - 1 -> Int] /\ NCap \in Nat /\ NCap >= 2 /\ p \in Int
        /\ call \in Calls /\ p \in call.b .. call.e
    BY <1>1, VisitIs, CallIs DEF Span
  <1>3. /\ ends[1] = p /\ DOMAIN ends = 0 .. NCap - 1 /\ 0 \in DOMAIN ends
        /\ \A r \in Regs(call) : ends[r] = Kept(call, cap)[r]
    <2>1. \A r \in Regs(call) : r # 1
      BY DEF Regs
    <2> QED
      BY <1>2, <2>1 DEF Kept
  <1>4. Kept(call, ends) = Kept(call, cap)
    <2>1. Kept(call, Put(cap, 1, p)) = Kept(call, cap)
      BY <1>2, KeptSet
    <2> QED
      BY <2>1 DEF Put
  <1>5. ends # NoMatch
    <2> HIDE DEF ends
    <2>1. 0 \notin DOMAIN NoMatch
      BY DEF NoMatch
    <2> QED
      BY <1>3, <2>1, Zenon
  <1>6. Reports(prog, call, start, ends)
    <2>1. At(id, p, Kept(call, cap)) \in MatchesFrom(prog, call, start)
      BY <1>1, VisitPath, VisitIs DEF MatchesFrom, Ends, EndsHere, At
    <2> QED
      BY <1>3, <2>1 DEF Reports, At
  <1> HIDE DEF ends
  <1>7. CASE better
    <2>1. match' = ends
      BY <1>1, <1>7
    <2>2. match # NoMatch => \A q \in call.b .. call.e : q <= match[1] => q <= p
      <3> SUFFICES ASSUME match # NoMatch, NEW q \in call.b .. call.e, q <= match[1]
                   PROVE  q <= p
        OBVIOUS
      <3>1. p > match[1]
        BY <1>7
      <3>2. match[1] \in Int /\ q \in Int
        BY <1>1, <1>2, VisitPath, ReportEnds
      <3> QED
        BY <1>2, <3>1, <3>2
    <2>3. match'[1] = p
      BY <1>3, <2>1
    <2> QED
      BY <1>1, <1>2, <1>4, <1>5, <1>6, <2>1, <2>2, <2>3
  <1>8. CASE ~better
    <2>1. match' = match /\ match # NoMatch /\ Reports(prog, call, start, match)
      BY <1>1, <1>8, VisitPath
    <2>2. match[1] \in Int
      BY <1>2, <2>1, ReportEnds
    <2>3. Longest(prog, call) => p <= match[1]
      BY <1>2, <1>8, <2>2
    <2> QED
      BY <1>1, <1>4, <2>1, <2>3
  <1> QED
    BY <1>7, <1>8

\* Unless it is the last.
IsLast == NMatch(call) = 0 \/ ~Longest(prog, call) \/ p = call.e

LEMMA VisitMatchS == BInv /\ SInv /\ VisitMatch => SInv'
  <1> SUFFICES ASSUME BInv, SInv, VisitMatch PROVE SInv'
    OBVIOUS
  <1>1. Visiting("match") /\ UNCHANGED <<p, job>>
    BY DEF VisitMatch
  <1>2. CASE IsLast
    <2>1. pc' = "done"
      BY <1>2 DEF VisitMatch, IsLast
    <2> QED
      BY <2>1 DEF SInv
  <1>3. CASE ~IsLast
    <2>1. GoOn /\ UNCHANGED found /\ NMatch(call) # 0
      BY <1>3 DEF VisitMatch, IsLast
    <2> QED
      BY <1>1, <2>1, MatchReports, GoOnS
  <1> QED
    BY <1>2, <1>3

-----------------------------------------------------------------------------
(***************************************************************************)
(* Search and jobs: what is found is a path.                               *)
(***************************************************************************)

\* A start position is one of the program's, and none is left out before it.
LEMMA StartIs ==
  ASSUME BInv, SInv, TrySearch
  PROVE  /\ start' \in Starts(prog, call) /\ start' \in Span /\ start' \in Int
         /\ \A t \in Starts(prog, call) : t < start' => t < start
  <1>1. /\ pc = "start" /\ start <= call.e /\ (Anchored(prog, call) => start = call.b)
        /\ start' = Skipped
    BY DEF TrySearch
  <1>2. /\ AnchorsFit(prog, call) /\ prog \in Progs /\ call \in Calls
        /\ start \in call.b .. call.e + 1
    BY <1>1 DEF SInv, BInv, BTypes
  <1>3. /\ call.b \in Nat /\ call.e \in Nat /\ start \in Nat /\ start \in call.b .. call.e
        /\ call.e \in call.b .. call.e /\ prog.prefix.bytes \in Seq(Byte)
    BY <1>1, <1>2, CallIs, ProgsAssumption
  <1>4. CASE Anchored(prog, call)
    <2>1. start' = start /\ Starts(prog, call) = {start}
      BY <1>1, <1>2, <1>4 DEF Skipped, Starts
    <2> QED
      BY <1>3, <2>1 DEF Span
  <1>5. CASE ~Anchored(prog, call) /\ ~(start < call.e /\ CanPrefixAccel(prog))
    <2>1. start' = start
      BY <1>1, <1>5 DEF Skipped
    <2>2. start' \in Starts(prog, call)
      BY <1>2, <1>3, <1>5, <2>1 DEF Starts
    <2> QED
      BY <1>3, <2>1, <2>2 DEF Span
  <1>6. CASE ~Anchored(prog, call) /\ start < call.e /\ CanPrefixAccel(prog)
    <2> DEFINE hit(t) == /\ t + AccelSize(prog.prefix) <= call.e
                         /\ Occurs(prog.prefix, call.text, t)
    <2>1. PICK q : q = PrefixAccel(prog, call.text, start, call.e)
      OBVIOUS
    <2>2. start' = q
      BY <1>1, <1>6, <2>1 DEF Skipped
    <2>3. /\ q \in start .. call.e /\ (q = call.e \/ hit(q))
          /\ \A t \in start .. call.e : t < q => ~hit(t)
      BY <1>1, <1>3, <2>1, AccelStarts
    <2>4. Starts(prog, call) = {s \in call.b .. call.e : s = call.e \/ hit(s)}
      BY <1>2, <1>6 DEF Starts
    <2> HIDE DEF hit
    <2>5. q \in Starts(prog, call) /\ q \in call.b .. call.e
      BY <1>3, <2>3, <2>4
    <2>6. ASSUME NEW t \in Starts(prog, call), t < q PROVE t < start
      <3>1. t \in call.b .. call.e /\ (t = call.e \/ hit(t))
        BY <2>4
      <3> QED
        BY <1>3, <2>3, <2>6, <3>1
    <2> QED
      BY <1>3, <2>2, <2>5, <2>6 DEF Span
  <1> QED
    BY <1>4, <1>5, <1>6

\* No job, no registers to take back.
LEMMA NoneWait ==
  ASSUME NEW pr, NEW c, NEW regs, NEW P
  PROVE  Backed(pr, c, << >>, regs, P)
  <1>1. [k \in Nat |-> Kept(c, regs)][1] = Kept(c, regs)
    OBVIOUS
  <1>2. \A k \in DOMAIN << >> : FALSE
    OBVIOUS
  <1> QED
    BY <1>1, <1>2 DEF Backed

LEMMA TrySearchS == BInv /\ SInv /\ TrySearch => SInv'
  <1> SUFFICES ASSUME BInv, SInv, TrySearch PROVE SInv'
    OBVIOUS
  <1>1. /\ pc = "start" /\ pc' = "pop" /\ cap' = [cap EXCEPT ![0] = start']
        /\ job' = IF ShouldVisit(prog.start, start') THEN Push(prog.start, start', << >>)
                  ELSE << >>
        /\ UNCHANGED <<prog, call, match, found>>
    BY DEF TrySearch
  <1>2. /\ prog \in Progs /\ call \in Calls /\ cap \in [0 .. NCap - 1 -> Int]
        /\ \A n \in DOMAIN cap : n >= 2 => Restored(job, cap, n)
        /\ job = << >> /\ ~found /\ match = NoMatch /\ AnchorsFit(prog, call)
    BY <1>1 DEF BInv, BTypes, Where, RestoredOK, SInv
  <1>3. PICK s, g : s = start' /\ g = cap'
    OBVIOUS
  <1>4. s \in Starts(prog, call) /\ s \in call.b .. call.e /\ s \in Int
    BY <1>3, StartIs DEF Span
  <1>5. prog.start \in DOMAIN prog.inst /\ prog.start \in Nat
    BY <1>2, ProgramLeads DEF Id
  <1>6. Kept(call, g) = [r \in Regs(call) |-> IF r = 0 THEN s ELSE NoPos]
    <2>1. Regs(call) \subseteq 0 .. NCap - 1 /\ \A r \in Regs(call) : r = 0 \/ r >= 2
      <3>1. NCap \in Nat
        BY <1>2, CallIs
      <3> QED
        BY <3>1 DEF Regs, NCap
    <2>2. ASSUME NEW r \in Regs(call), r # 0 PROVE cap[r] = NoPos
      <3>1. Restored(<< >>, cap, r)
        BY <1>2, <2>1, <2>2
      <3>2. \A k \in DOMAIN << >> : FALSE
        OBVIOUS
      <3> QED
        BY <3>1, <3>2 DEF Restored
    <2>3. ASSUME NEW r \in Regs(call) PROVE g[r] = IF r = 0 THEN s ELSE NoPos
      BY <1>1, <1>2, <1>3, <2>1, <2>2
    <2> QED
      BY <2>3 DEF Kept
  <1>7. At(prog.start, s, Kept(call, g)) \in Paths(prog, call, s)
    <2>1. At(prog.start, s, Kept(call, g)) = First(prog, call, s)
      BY <1>6 DEF First
    <2> QED
      BY <1>4, <1>5, <2>1, FirstReached
  <1>8. Backed(prog, call, job', g, Paths(prog, call, s))
    <2>1. CASE ~ShouldVisit(prog.start, start')
      BY <1>1, <2>1, NoneWait
    <2>2. CASE ShouldVisit(prog.start, start')
      <3>1. PICK n \in Nat : n = prog.start
        BY <1>5
      <3>2. << >> \in Seq(Jobs) /\ n \in Int
        OBVIOUS
      <3>3. Backed(prog, call, << >>, g, Paths(prog, call, s))
        BY NoneWait
      <3>4. Undo(prog, Job(n, s, 0), Kept(call, g)) = Kept(call, g)
        BY NoUndo
      <3>5. Backed(prog, call, Push(n, s, << >>), g, Paths(prog, call, s))
        BY <1>4, <1>7, <3>1, <3>2, <3>3, <3>4, BackedPush
      <3> QED
        BY <1>1, <1>3, <2>2, <3>1, <3>5
    <2> QED
      BY <2>1, <2>2
  <1> QED
    BY <1>1, <1>2, <1>3, <1>4, <1>8 DEF SInv

LEMMA DrainedS == BInv /\ SInv /\ Drained => SInv'
  <1> SUFFICES ASSUME BInv, SInv, Drained PROVE SInv'
    OBVIOUS
  <1>1. pc = "pop" /\ UNCHANGED <<prog, call, match>> /\ ~found /\ AnchorsFit(prog, call)
    BY DEF Drained, SInv
  <1>2. CASE match # NoMatch
    <2>1. pc' = "done"
      BY <1>2 DEF Drained
    <2> QED
      BY <2>1 DEF SInv
  <1>3. CASE match = NoMatch
    <2>1. pc' = "start" /\ UNCHANGED found
      BY <1>3 DEF Drained
    <2> QED
      BY <1>1, <1>3, <2>1 DEF SInv, NoMatch
  <1> QED
    BY <1>2, <1>3

LEMMA PopCaptureS == BInv /\ SInv /\ PopCapture => SInv'
  <1> SUFFICES ASSUME BInv, SInv, PopCapture PROVE SInv'
    OBVIOUS
  <1>1. PICK top : top = Head(job)
    OBVIOUS
  <1>2. /\ pc = "pop" /\ pc' = pc /\ job # << >> /\ top.id < 0 /\ job' = Tail(job)
        /\ cap' = [cap EXCEPT ![prog.inst[-top.id].cap] = top.p]
        /\ UNCHANGED <<prog, call, start, match, found>>
    BY <1>1 DEF PopCapture
  <1>3. /\ prog \in Progs /\ call \in Calls /\ cap \in [0 .. NCap - 1 -> Int]
        /\ job \in Seq(Jobs) /\ Good(job)
    BY DEF BInv, BTypes, JobsOK, Good
  <1>4. top \in Jobs /\ JobOK(top)
    <2>1. 1 \in DOMAIN job /\ job[1] = top
      BY <1>1, <1>2, <1>3, TailIs
    <2> QED
      BY <1>1, <1>2, <1>3, <2>1, TailIs DEF Good
  <1>5. top.p \in Int /\ -top.id \in Id
    BY <1>2, <1>4 DEF Jobs, JobOK
  <1>6. PICK x, g : x \in Nat /\ x = prog.inst[-top.id].cap /\ g = cap'
    BY <1>3, <1>5, ProgramLeads
  <1>7. Undo(prog, Head(job), Kept(call, cap)) = Kept(call, g)
    <2>1. Kept(call, Put(cap, x, top.p)) = Put(Kept(call, cap), x, top.p)
      BY <1>3, <1>5, <1>6, KeptSet
    <2>2. g = Put(cap, x, top.p)
      BY <1>2, <1>6 DEF Put
    <2>3. Undo(prog, top, Kept(call, cap)) = Put(Kept(call, cap), x, top.p)
      BY <1>2, <1>6 DEF Undo, Put
    <2> QED
      BY <1>1, <2>1, <2>2, <2>3
  <1>8. /\ Backed(prog, call, job, cap, Paths(prog, call, start))
        /\ match # NoMatch => Reports(prog, call, start, match)
    BY <1>2 DEF SInv
  <1>9. Backed(prog, call, Tail(job), g, Paths(prog, call, start))
    BY <1>2, <1>3, <1>7, <1>8, BackedTail
  <1> QED
    BY <1>2, <1>6, <1>8, <1>9, SKeeps

LEMMA PopJobS == BInv /\ SInv /\ PopJob => SInv'
  <1> SUFFICES ASSUME BInv, SInv, PopJob PROVE SInv'
    OBVIOUS
  <1>1. PICK top : top = Head(job)
    OBVIOUS
  <1>2. /\ pc = "pop" /\ pc' = "visit" /\ job # << >> /\ top.id >= 0
        /\ id' = top.id /\ p' = top.p + top.rle
        /\ job' = (IF top.rle > 0 THEN [job EXCEPT ![1].rle = @ - 1] ELSE Tail(job))
        /\ UNCHANGED <<prog, call, start, cap, match, found>>
    BY <1>1 DEF PopJob
  <1>3. job \in Seq(Jobs)
    BY DEF BInv, BTypes
  <1>4. job[1] = top /\ top.id \in Int /\ top.p \in Int /\ top.rle \in Nat
    <2>1. job[1] = top /\ top \in Jobs
      BY <1>1, <1>2, <1>3, TailIs
    <2> QED
      BY <2>1 DEF Jobs
  <1> DEFINE P == Paths(prog, call, start)
  <1>5. /\ Backed(prog, call, job, cap, P)
        /\ match # NoMatch => Reports(prog, call, start, match)
    BY <1>2 DEF SInv
  <1> HIDE DEF P
  <1>6. \A q \in top.p .. top.p + top.rle : At(top.id, q, Kept(call, cap)) \in P
    BY <1>2, <1>3, <1>4, <1>5, TopRun
  <1>7. At(id', p', Kept(call, cap)) \in P
    <2>1. top.p + top.rle \in top.p .. top.p + top.rle
      BY <1>4
    <2> QED
      BY <1>2, <1>6, <2>1
  <1>8. Backed(prog, call, job', cap, P)
    <2>1. CASE top.rle > 0
      <3>1. PICK m \in Nat : m = top.rle - 1
        BY <1>4, <2>1
      <3>2. job' = [job EXCEPT ![1].rle = m]
        BY <1>2, <1>4, <2>1, <3>1
      <3>3. \A q \in job[1].p .. job[1].p + m : At(job[1].id, q, Kept(call, cap)) \in P
        <4>1. top.p .. top.p + m \subseteq top.p .. top.p + top.rle
          BY <1>4, <3>1
        <4> QED
          BY <1>4, <1>6, <4>1
      <3>4. Backed(prog, call, [job EXCEPT ![1].rle = m], cap, P)
        BY <1>2, <1>3, <1>4, <1>5, <3>3, BackedRun
      <3> QED
        BY <3>2, <3>4
    <2>2. CASE ~(top.rle > 0)
      <3>1. Undo(prog, Head(job), Kept(call, cap)) = Kept(call, cap)
        BY <1>1, <1>2, <1>4 DEF Undo
      <3>2. Backed(prog, call, Tail(job), cap, P)
        BY <1>2, <1>3, <1>5, <3>1, BackedTail
      <3> QED
        BY <1>2, <2>2, <3>2
    <2> QED
      BY <2>1, <2>2
  <1> QED
    BY <1>2, <1>5, <1>7, <1>8, SKeeps DEF P

LEMMA TurnS == SInv /\ (Reject \/ Begin \/ NoStartLeft \/ UNCHANGED vars) => SInv'
  <1>1. SInv /\ (Reject \/ NoStartLeft) => SInv'
    BY DEF SInv, Reject, NoStartLeft
  <1>2. SInv /\ Begin => SInv'
    BY DEF SInv, Begin, NoMatch
  <1>3. SInv /\ UNCHANGED vars => SInv'
    BY DEF SInv, vars, NoMatch
  <1> QED
    BY <1>1, <1>2, <1>3

-----------------------------------------------------------------------------
(***************************************************************************)
(* What is settled.                                                        *)
(***************************************************************************)
\* A match that is as good as m, or better.
NoWorse(c, m, m2) ==
  m # NoMatch => m2 # NoMatch /\ \A q \in c.b .. c.e : q <= m[1] => q <= m2[1]

\* With N more, what is settled stays so.
LEMMA CoverGrows ==
  ASSUME NEW pr, NEW c, NEW T \in SUBSET Pairs(pr, c), NEW N, NEW F, NEW F2, NEW m, NEW m2,
         Covered(pr, c, T, F, m), NoWorse(c, m, m2),
         \A x \in F : x \in F2 \/ Settled(pr, c, x, T \cup N, m2),
         \A x \in N : x \in T \cup F2 \/ Settled(pr, c, x, T \cup N, m2)
  PROVE  Covered(pr, c, T \cup N, F2, m2)
  <1>1. ASSUME NEW x \in T, Settled(pr, c, x, T, m) PROVE Settled(pr, c, x, T \cup N, m2)
    <2>1. x[2] \in c.b .. c.e
      BY DEF Pairs
    <2> QED
      BY <1>1, <2>1 DEF Settled, NoWorse
  <1>2. ASSUME NEW x \in T PROVE x \in F2 \/ Settled(pr, c, x, T \cup N, m2)
    BY <1>1 DEF Covered
  <1> QED
    BY <1>2 DEF Covered

\* When nothing is left to come, an AltMatch has found a match up to the end.
LEMMA LoopSettled ==
  ASSUME NEW pr \in Progs, NEW c \in Calls, NEW T \in SUBSET Pairs(pr, c), NEW m,
         Covered(pr, c, T, {}, m), NEW x \in T, Loops(pr, c, x[1])
  PROVE  Longest(pr, c) /\ m # NoMatch /\ c.e <= m[1]
  <1>1. PICK n \in DOMAIN pr.inst : n = x[1]
    BY DEF Pairs
  <1>2. /\ \A y \in T : Settled(pr, c, y, T, m)
        /\ c.e \in c.b .. c.e
    BY CallsAssumption DEF Covered
  <1>3. pr.inst[n].op = "altmatch"
    BY <1>1 DEF Loops
  <1>4. PICK a : a = MatchArm(pr, n)
    OBVIOUS
  <1>5. a \in DOMAIN pr.inst /\ ChainTo(pr, a)
    BY <1>3, <1>4, InstIs, MatchIsBehind DEF MatchArm
  <1>6. PICK k \in Nat : \E f : Chain(pr, a, f, k)
    BY <1>5 DEF ChainTo
  <1>7. PICK f : Chain(pr, a, f, k)
    BY <1>6
  <1>8. /\ f[0] = a /\ pr.inst[f[k]].op = "match"
        /\ \A j \in 1 .. k : f[j] = AfterCaptures(pr, f[j - 1])
    BY <1>7 DEF Chain
  <1>9. <<a, c.e>> \in T
    <2>1. <<a, c.e>> \in Pairs(pr, c)
      BY <1>2, <1>5 DEF Pairs
    <2>2. Goes(pr, c, x[1], x[2], a, c.e)
      BY <1>1, <1>4 DEF Goes
    <2> QED
      BY <1>2, <2>1, <2>2 DEF Settled
  <1>10. ASSUME NEW l, <<l, c.e>> \in T PROVE <<AfterCaptures(pr, l), c.e>> \in T
    <2>1. l \in DOMAIN pr.inst
      BY <1>10 DEF Pairs
    <2>2. CASE pr.inst[l].op \notin {"cap", "nop"}
      BY <1>10, <2>2 DEF AfterCaptures
    <2>3. CASE pr.inst[l].op \in {"cap", "nop"}
      <3>1. pr.inst[l].out \in DOMAIN pr.inst
        BY <2>1, <2>3, InstIs
      <3>2. <<pr.inst[l].out, c.e>> \in Pairs(pr, c)
        BY <1>2, <3>1 DEF Pairs
      <3>3. Goes(pr, c, l, c.e, pr.inst[l].out, c.e)
        BY <2>3 DEF Goes, Loops, Follows, Taken
      <3> QED
        BY <1>2, <1>10, <2>3, <3>2, <3>3 DEF Settled, AfterCaptures
    <2> QED
      BY <2>2, <2>3
  <1> DEFINE Bad == {j \in 0 .. k : <<f[j], c.e>> \notin T}
  <1>11. Bad = {}
    <2> SUFFICES ASSUME Bad # {} PROVE FALSE
      OBVIOUS
    <2>1. PICK j \in Bad : \A i \in Bad : j <= i
      <3>1. Bad \in SUBSET Nat
        OBVIOUS
      <3> HIDE DEF Bad
      <3> QED
        BY <3>1, LeastNumber
    <2>2. j # 0
      BY <1>8, <1>9
    <2>3. j \in 1 .. k /\ j - 1 \in 0 .. k /\ ~(j <= j - 1)
      BY <2>2
    <2>4. <<f[j - 1], c.e>> \in T
      BY <2>1, <2>3
    <2> QED
      BY <1>8, <1>10, <2>3, <2>4
  <1>12. <<f[k], c.e>> \in T
    BY <1>11
  <1>13. Ends(pr, c, f[k], c.e)
    BY <1>8 DEF Ends
  <1> QED
    BY <1>2, <1>12, <1>13 DEF Settled

\* And no path from s is missed.
LEMMA SearchedAll ==
  ASSUME NEW pr \in Progs, NEW c \in Calls, NEW s \in c.b .. c.e, pr.start \in DOMAIN pr.inst,
         NEW T \in SUBSET Pairs(pr, c), NEW m, m # NoMatch => m[1] \in Int,
         Covered(pr, c, T, {}, m), <<pr.start, s>> \in T,
         NEW y \in MatchesFrom(pr, c, s)
  PROVE  Longest(pr, c) /\ m # NoMatch /\ y.q <= m[1]
  <1>1. CASE \E x \in T : Loops(pr, c, x[1])
    <2>1. Longest(pr, c) /\ m # NoMatch /\ c.e <= m[1]
      BY <1>1, LoopSettled
    <2>2. y.q \in c.b .. c.e /\ c.b \in Nat /\ c.e \in Nat
      BY CallsAssumption DEF MatchesFrom, Paths, Configs
    <2>3. y.q \in Nat /\ y.q <= c.e
      BY <2>2
    <2> QED
      BY <2>1, <2>2, <2>3
  <1>2. CASE \A x \in T : ~Loops(pr, c, x[1])
    <2> DEFINE S == {x \in Configs(pr, c) : <<x.n, x.q>> \in T}
    <2>1. First(pr, c, s) \in S
      <3>1. First(pr, c, s) \in Configs(pr, c)
        BY CallsAssumption, FirstReached DEF Paths
      <3> QED
        BY <3>1 DEF First, At
    <2>2. \A x \in S : Settled(pr, c, <<x.n, x.q>>, T, m) /\ ~Loops(pr, c, x.n)
      BY <1>2 DEF Covered
    <2>3. Closed(pr, c, S)
      <3> SUFFICES ASSUME NEW x \in S, NEW z \in Configs(pr, c), Step(pr, c, x, z)
                   PROVE  <<z.n, z.q>> \in T
        BY DEF Closed
      <3>1. Goes(pr, c, x.n, x.q, z.n, z.q)
        BY <2>2 DEF Step, Follows, Goes
      <3>2. <<z.n, z.q>> \in Pairs(pr, c)
        BY DEF Configs, Pairs
      <3> QED
        BY <2>2, <3>1, <3>2 DEF Settled
    <2>4. y \in S
      <3> HIDE DEF S
      <3>1. S \in SUBSET Configs(pr, c)
        BY DEF S
      <3> QED
        BY <2>1, <2>3, <3>1, PathsWithin DEF MatchesFrom
    <2> QED
      BY <2>2, <2>4 DEF Settled, MatchesFrom
  <1> QED
    BY <1>1, <1>2

-----------------------------------------------------------------------------
(***************************************************************************)
(* What waits.                                                             *)
(***************************************************************************)
LEMMA WaitingCons ==
  ASSUME NEW pr, NEW c, NEW js \in Seq(Jobs), NEW e \in Jobs
  PROVE  /\ Waiting(pr, c, js) \subseteq Waiting(pr, c, <<e>> \o js)
         /\ e.id >= 0 /\ <<e.id, e.p>> \in Pairs(pr, c) =>
              <<e.id, e.p>> \in Waiting(pr, c, <<e>> \o js)
  <1> DEFINE r == <<e>> \o js
  <1>1. /\ 1 \in DOMAIN r /\ r[1] = e
        /\ \A k \in DOMAIN js : k + 1 \in DOMAIN r /\ r[k + 1] = js[k]
    BY ConsIs
  <1> HIDE DEF r
  <1>2. Waiting(pr, c, js) \subseteq Waiting(pr, c, r)
    BY <1>1 DEF Waiting
  <1>3. e.p \in e.p .. e.p + e.rle
    BY DEF Jobs
  <1> QED
    BY <1>1, <1>2, <1>3 DEF Waiting, r

\* What no run but that on top has to do with, and what that has.
LEMMA WaitingTop ==
  ASSUME NEW pr, NEW c, NEW js \in Seq(Jobs), js # << >>, NEW x \in Waiting(pr, c, js)
  PROVE  \/ x \in Waiting(pr, c, Tail(js))
         \/ js[1].id >= 0 /\ x[1] = js[1].id /\ x[2] \in js[1].p .. js[1].p + js[1].rle
  <1>1. PICK k \in DOMAIN js : /\ js[k].id >= 0 /\ x[1] = js[k].id
                               /\ x[2] \in js[k].p .. js[k].p + js[k].rle
    BY DEF Waiting
  <1>2. CASE k = 1
    BY <1>1, <1>2
  <1>3. CASE k # 1
    <2>1. k - 1 \in DOMAIN Tail(js) /\ js[k] = Tail(js)[k - 1]
      BY <1>3, TailIs
    <2> QED
      BY <1>1, <2>1 DEF Waiting
  <1> QED
    BY <1>2, <1>3

\* The run on top with other positions.
LEMMA WaitingRun ==
  ASSUME NEW pr, NEW c, NEW js \in Seq(Jobs), js # << >>, NEW m \in Nat, js[1].id >= 0
  PROVE  LET r == [js EXCEPT ![1].rle = m] IN
         /\ Waiting(pr, c, Tail(js)) \subseteq Waiting(pr, c, r)
         /\ \A x \in Pairs(pr, c) : x[1] = js[1].id /\ x[2] \in js[1].p .. js[1].p + m =>
              x \in Waiting(pr, c, r)
  <1> DEFINE r == [js EXCEPT ![1].rle = m]
  <1>1. DOMAIN r = DOMAIN js /\ 1 \in DOMAIN js /\ \A k \in DOMAIN js : k # 1 => r[k] = js[k]
    BY TailIs
  <1>2. r[1].id = js[1].id /\ r[1].p = js[1].p /\ r[1].rle = m
    BY <1>1, TailIs DEF Jobs
  <1> HIDE DEF r
  <1>3. ASSUME NEW k \in DOMAIN Tail(js)
        PROVE  k + 1 \in DOMAIN r /\ r[k + 1] = Tail(js)[k]
    <2>1. k \in Nat /\ k + 1 \in DOMAIN js /\ Tail(js)[k] = js[k + 1]
      BY TailIs
    <2>2. k # 0
      OBVIOUS
    <2>3. k + 1 # 1
      BY <2>1, <2>2
    <2> QED
      BY <1>1, <2>1, <2>3
  <1>4. Waiting(pr, c, Tail(js)) \subseteq Waiting(pr, c, r)
    BY <1>3 DEF Waiting
  <1>5. \A x \in Pairs(pr, c) : x[1] = js[1].id /\ x[2] \in js[1].p .. js[1].p + m =>
          x \in Waiting(pr, c, r)
    BY <1>1, <1>2 DEF Waiting
  <1> QED
    BY <1>4, <1>5 DEF r

LEMMA WaitingPush ==
  ASSUME NEW pr, NEW c, NEW js \in Seq(Jobs), NEW n \in Int, NEW q \in Int
  PROVE  /\ Waiting(pr, c, js) \subseteq Waiting(pr, c, Push(n, q, js))
         /\ n >= 0 /\ <<n, q>> \in Pairs(pr, c) => <<n, q>> \in Waiting(pr, c, Push(n, q, js))
  <1>1. CASE n >= 0 /\ js # << >> /\ js[1].id = n /\ q = js[1].p + js[1].rle + 1
    <2>1. js[1] \in Jobs
      BY <1>1, TailIs
    <2>2. PICK b \in Int, l \in Nat, m \in Nat :
            b = js[1].p /\ l = js[1].rle /\ m = l + 1 /\ q = b + m
      <3>1. js[1].p \in Int /\ js[1].rle \in Nat
        BY <2>1 DEF Jobs
      <3> QED
        BY <1>1, <3>1
    <2>3. Push(n, q, js) = [js EXCEPT ![1].rle = m]
      BY <1>1, <2>2 DEF Push
    <2> DEFINE r == [js EXCEPT ![1].rle = m]
    <2>4. /\ Waiting(pr, c, Tail(js)) \subseteq Waiting(pr, c, r)
          /\ \A x \in Pairs(pr, c) : x[1] = n /\ x[2] \in b .. b + m => x \in Waiting(pr, c, r)
      BY <1>1, <2>2, WaitingRun
    <2> HIDE DEF r
    <2>5. ASSUME NEW x \in Waiting(pr, c, js) PROVE x \in Waiting(pr, c, r)
      <3>1. x \in Pairs(pr, c)
        BY DEF Waiting
      <3>2. \/ x \in Waiting(pr, c, Tail(js))
            \/ x[1] = n /\ x[2] \in b .. b + l
        BY <1>1, <2>2, WaitingTop
      <3>3. b .. b + l \subseteq b .. b + m
        BY <2>2, SMTT(30)
      <3> QED
        BY <2>4, <3>1, <3>2, <3>3
    <2>6. <<n, q>> \in Pairs(pr, c) => <<n, q>> \in Waiting(pr, c, r)
      <3>1. q \in b .. b + m
        BY <2>2
      <3> QED
        BY <2>4, <3>1
    <2> QED
      BY <2>3, <2>5, <2>6 DEF r
  <1>2. CASE ~(n >= 0 /\ js # << >> /\ js[1].id = n /\ q = js[1].p + js[1].rle + 1)
    <2>1. PICK e \in Jobs : e = Job(n, q, 0) /\ e.id = n /\ e.p = q
      <3>1. Job(n, q, 0) \in Jobs /\ Job(n, q, 0).id = n /\ Job(n, q, 0).p = q
        BY DEF Job, Jobs
      <3> QED
        BY <3>1
    <2>2. Push(n, q, js) = <<e>> \o js
      BY <1>2, <2>1 DEF Push
    <2> QED
      BY <2>1, <2>2, WaitingCons
  <1> QED
    BY <1>1, <1>2

-----------------------------------------------------------------------------
(***************************************************************************)
(* Steps: no path is missed.                                               *)
(***************************************************************************)
\* With the pairs N more, and all that was to come settled or still to come.
LEMMA CKeeps ==
  ASSUME BInv, CInv, pc \in {"start", "pop", "visit"}, UNCHANGED <<prog, call>>,
         pc' \in {"start", "pop", "visit"}, NEW N \in SUBSET Pairs(prog, call),
         NoWorse(call, match, match'),
         \A t \in Starts(prog, call) : t < start' => t < start \/ MatchesFrom(prog, call, t) = {},
         \A T : \A x \in Front : x \in Front' \/ Settled(prog, call, x, T \cup N, match'),
         \A T : Explored(prog, call, visited, T) =>
           \A x \in N : x \in T \cup Front' \/ Settled(prog, call, x, T \cup N, match'),
         \A n \in Heads(prog), q \in call.b .. call.e :
           <<ListId(prog, n), q>> \in visited' =>
             <<ListId(prog, n), q>> \in visited \/ <<n, q>> \in N,
         pc' \in {"pop", "visit"} =>
           \/ start' = start /\ pc \in {"pop", "visit"}
           \/ <<prog.start, start'>> \in N
  PROVE  CInv'
  <1>1. PICK T \in SUBSET Pairs(prog, call) :
          /\ Explored(prog, call, visited, T)
          /\ Covered(prog, call, T, Front, match)
          /\ pc \in {"pop", "visit"} => <<prog.start, start>> \in T
    BY DEF CInv
  <1>2. PICK F, F2, m, m2 : F = Front /\ F2 = Front' /\ m = match /\ m2 = match'
    OBVIOUS
  <1>3. Covered(prog, call, T \cup N, F2, m2)
    <2>1. Covered(prog, call, T, F, m) /\ NoWorse(call, m, m2)
      BY <1>1, <1>2
    <2>2. \A x \in F : x \in F2 \/ Settled(prog, call, x, T \cup N, m2)
      BY <1>2
    <2>3. \A x \in N : x \in T \cup F2 \/ Settled(prog, call, x, T \cup N, m2)
      BY <1>1, <1>2
    <2> QED
      BY <2>1, <2>2, <2>3, CoverGrows
  <1>4. Explored(prog, call, visited', T \cup N)
    BY <1>1 DEF Explored
  <1>5. pc' \in {"pop", "visit"} => <<prog.start, start'>> \in T \cup N
    BY <1>1
  <1>6. T \cup N \in SUBSET Pairs(prog, call)
    OBVIOUS
  <1>7. \E U \in SUBSET Pairs(prog, call) :
          /\ Explored(prog, call, visited', U)
          /\ Covered(prog, call, U, Front', match')
          /\ pc' \in {"pop", "visit"} => <<prog.start, start'>> \in U
    BY <1>2, <1>3, <1>4, <1>5, <1>6
  <1>8. \A t \in Starts(prog, call) : t < start' => MatchesFrom(prog, call, t) = {}
    BY DEF CInv
  <1> QED
    BY <1>7, <1>8 DEF CInv

\* A visit from which N follows.
LEMMA VisitC ==
  ASSUME BInv, CInv, NEW op, Visiting(op), pc' \in {"pop", "visit"},
         NEW N \in SUBSET Pairs(prog, call), NoWorse(call, match, match'),
         Waiting(prog, call, job) \subseteq Front',
         \A y \in Pairs(prog, call) : Goes(prog, call, id, p, y[1], y[2]) => y \in N,
         Ends(prog, call, id, p) => Longest(prog, call) /\ match' # NoMatch /\ p <= match'[1],
         \A T : Explored(prog, call, visited, T) =>
           \A x \in N : x \in T \cup Front' \/ Settled(prog, call, x, T \cup N, match'),
         \A n \in Heads(prog), q \in call.b .. call.e :
           <<ListId(prog, n), q>> \in visited' =>
             <<ListId(prog, n), q>> \in visited \/ <<n, q>> \in N
  PROVE  CInv'
  <1>1. pc = "visit" /\ UNCHANGED <<prog, call, start>>
    BY DEF Visiting
  <1>2. \A T : Settled(prog, call, <<id, p>>, T \cup N, match')
    BY DEF Settled
  <1>3. \A T : \A x \in Front : x \in Front' \/ Settled(prog, call, x, T \cup N, match')
    BY <1>1, <1>2 DEF Front
  <1> QED
    BY <1>1, <1>3, CKeeps

\* Where a visit goes on.
LEMMA FrontHas ==
  ASSUME UNCHANGED <<prog, call>>
  PROVE  /\ Waiting(prog, call, job') \subseteq Front'
         /\ pc' = "visit" => <<id', p'>> \in Front'
  BY DEF Front

\* A list that is gone to was visited, or is visited now.
LEMMA LoopTo ==
  ASSUME BInv, NEW op, Visiting(op), NEW n \in Heads(prog), NEW q \in call.b .. call.e,
         CheckAndLoop(n, q)
  PROVE  /\ \A T : Explored(prog, call, visited, T) => <<n, q>> \in T \cup Front'
         /\ \A h \in Heads(prog), r \in call.b .. call.e :
              <<ListId(prog, h), r>> \in visited' =>
                <<ListId(prog, h), r>> \in visited \/ <<h, r>> = <<n, q>>
  <1>1. pc = "visit" /\ UNCHANGED <<prog, call>>
    BY DEF Visiting
  <1>2. CASE ~ShouldVisit(n, q)
    BY <1>2 DEF CheckAndLoop, ShouldVisit, Explored
  <1>3. CASE ShouldVisit(n, q)
    <2>1. visited' = visited \cup {<<ListId(prog, n), q>>} /\ id' = n /\ p' = q /\ pc' = pc
      BY <1>3 DEF CheckAndLoop
    <2>2. <<n, q>> \in Front'
      BY <1>1, <2>1, FrontHas
    <2>3. \A h \in Heads(prog) : ListId(prog, h) = ListId(prog, n) => h = n
      BY DEF Heads, ListId
    <2> QED
      BY <2>1, <2>2, <2>3
  <1> QED
    BY <1>2, <1>3

\* Nothing better is known, nor needed, when the match is as it was.
LEMMA NoneWorse == ASSUME NEW c, NEW m PROVE NoWorse(c, m, m)
  BY DEF NoWorse

LEMMA VisitFailC == BInv /\ CInv /\ VisitFail => CInv'
  <1> SUFFICES ASSUME BInv, CInv, VisitFail PROVE CInv'
    OBVIOUS
  <1>1. Visiting("fail") /\ pc' = "pop" /\ UNCHANGED <<prog, call, job, visited, match>>
    BY DEF VisitFail, Visiting
  <1>2. prog \in Progs /\ id \in Id /\ prog.inst[id].op = "fail" /\ prog.inst[id].last
    BY <1>1, VisitIs, InstIs DEF Id
  <1>3. \A m, r : ~Goes(prog, call, id, p, m, r)
    BY <1>2 DEF Goes, Follows, Rest, Taken, Loops
  <1>4. ~Ends(prog, call, id, p)
    BY <1>2 DEF Ends
  <1>5. Waiting(prog, call, job) \subseteq Front' /\ NoWorse(call, match, match')
    BY <1>1, FrontHas, NoneWorse
  <1>6. {} \in SUBSET Pairs(prog, call) /\ pc' \in {"pop", "visit"}
    BY <1>1
  <1> QED
    BY <1>1, <1>3, <1>4, <1>5, <1>6, VisitC

LEMMA VisitAltMatchC == BInv /\ CInv /\ VisitAltMatch => CInv'
  <1> SUFFICES ASSUME BInv, CInv, VisitAltMatch PROVE CInv'
    OBVIOUS
  <1>1. Visiting("altmatch") /\ pc' = "visit" /\ UNCHANGED <<prog, call, job, visited, match>>
    BY DEF VisitAltMatch, Visiting
  <1>2. PICK x : x = <<id', p'>>
    OBVIOUS
  <1>3. prog.inst[id].op = "altmatch" /\ x \in Pairs(prog, call)
    BY <1>2, AltMatchGoes DEF Pairs
  <1>4. \A y \in Pairs(prog, call) : Goes(prog, call, id, p, y[1], y[2]) => y \in {x}
    <2> SUFFICES ASSUME NEW y \in Pairs(prog, call), Goes(prog, call, id, p, y[1], y[2])
                 PROVE  y = x
      OBVIOUS
    <2>1. y[1] = id' /\ y[2] = p'
      BY <1>3, AltMatchGoes DEF Goes, Follows, Taken, Rest
    <2>2. y = <<y[1], y[2]>>
      BY DEF Pairs
    <2> QED
      BY <1>2, <2>1, <2>2
  <1>5. ~Ends(prog, call, id, p)
    BY <1>3 DEF Ends
  <1>6. /\ Waiting(prog, call, job) \subseteq Front' /\ NoWorse(call, match, match')
        /\ x \in Front'
    BY <1>1, <1>2, FrontHas, NoneWorse
  <1>7. {x} \in SUBSET Pairs(prog, call) /\ pc' \in {"pop", "visit"}
    BY <1>1, <1>3
  <1> QED
    BY <1>1, <1>4, <1>5, <1>6, <1>7, VisitC

\* The rest of the list.
RestOf == IF prog.inst[id].last THEN {} ELSE {<<id + 1, p>>}

LEMMA RestOfIs ==
  ASSUME BInv, NEW op, Visiting(op), op # "altmatch"
  PROVE  /\ RestOf \subseteq Pairs(prog, call)
         /\ \A y \in Pairs(prog, call) : Rest(prog, id, p, y[1], y[2]) => y \in RestOf
  <1>1. prog.inst[id].op # "altmatch" /\ p \in call.b .. call.e
    BY VisitIs DEF Span
  <1>2. ~prog.inst[id].last => id + 1 \in DOMAIN prog.inst
    BY VisitIs, ProgramLeads DEF Id
  <1>3. ASSUME NEW y \in Pairs(prog, call), Rest(prog, id, p, y[1], y[2])
        PROVE  y \in RestOf
    <2>1. ~prog.inst[id].last /\ y[1] = id + 1 /\ y[2] = p
      BY <1>1, <1>3 DEF Rest
    <2>2. y = <<y[1], y[2]>>
      BY DEF Pairs
    <2> QED
      BY <2>1, <2>2 DEF RestOf
  <1> QED
    BY <1>1, <1>2, <1>3 DEF RestOf, Pairs

\* GoOn, when there is nothing else to do.
LEMMA GoOnC ==
  ASSUME BInv, CInv, NEW op, Visiting(op), op # "altmatch", GoOn,
         UNCHANGED <<p, job, visited>>, NoWorse(call, match, match'),
         \A m, r : ~Taken(prog, call, id, p, m, r),
         Ends(prog, call, id, p) => Longest(prog, call) /\ match' # NoMatch /\ p <= match'[1]
  PROVE  CInv'
  <1>1. pc = "visit" /\ UNCHANGED <<prog, call>> /\ ip = prog.inst[id]
    BY VisitIs
  <1>2. RestOf \in SUBSET Pairs(prog, call)
    BY RestOfIs
  <1>3. \A y \in Pairs(prog, call) : Goes(prog, call, id, p, y[1], y[2]) => y \in RestOf
    BY <1>1, RestOfIs DEF Goes, Follows, Loops, Visiting
  <1>4. RestOf \subseteq Front' /\ pc' \in {"pop", "visit"}
    BY <1>1, FrontHas DEF RestOf, GoOn
  <1>5. Waiting(prog, call, job) \subseteq Front'
    BY <1>1, FrontHas
  <1>6. PICK N : N = RestOf
    OBVIOUS
  <1> QED
    BY <1>2, <1>3, <1>4, <1>5, <1>6, VisitC

LEMMA RestWaits ==
  ASSUME BInv, NEW op, Visiting(op), op # "altmatch"
  PROVE  /\ PushRest \in Seq(Jobs)
         /\ Waiting(prog, call, job) \cup RestOf \subseteq Waiting(prog, call, PushRest)
  <1>1. PushRest \in Seq(Jobs)
    BY PushRestGood DEF Good
  <1>2. id \in Nat /\ p \in Int /\ job \in Seq(Jobs) /\ ip = prog.inst[id]
    BY VisitIs DEF Good
  <1>3. PICK n \in Nat : n = id + 1
    BY <1>2
  <1>4. RestOf \subseteq Pairs(prog, call)
    BY RestOfIs
  <1>5. CASE ip.last
    BY <1>1, <1>2, <1>5 DEF PushRest, RestOf
  <1>6. CASE ~ip.last
    <2>1. RestOf = {<<n, p>>} /\ PushRest = Push(n, p, job)
      BY <1>2, <1>3, <1>6 DEF RestOf, PushRest
    <2>2. n \in Int /\ n >= 0 /\ <<n, p>> \in Pairs(prog, call)
      BY <1>4, <2>1
    <2>3. /\ Waiting(prog, call, job) \subseteq Waiting(prog, call, Push(n, p, job))
          /\ <<n, p>> \in Waiting(prog, call, Push(n, p, job))
      BY <1>2, <2>2, WaitingPush
    <2> QED
      BY <1>1, <2>1, <2>3
  <1> QED
    BY <1>5, <1>6

\* Go on at the head of a list, and leave the rest of this one for later.
LEMMA LoopC ==
  ASSUME BInv, CInv, NEW op, Visiting(op), op \in {"cap", "empty", "nop"},
         CheckAndLoop(ip.out, p), UNCHANGED match,
         Waiting(prog, call, PushRest) \subseteq Waiting(prog, call, job')
  PROVE  CInv'
  <1>1. /\ UNCHANGED <<prog, call>> /\ ip = prog.inst[id] /\ prog \in Progs /\ id \in Id
        /\ p \in call.b .. call.e /\ prog.inst[id].op = op /\ pc = "visit"
    BY VisitIs DEF Span
  <1>2. PICK n : n = ip.out
    OBVIOUS
  <1>3. n \in Heads(prog) /\ n \in DOMAIN prog.inst
    BY <1>1, <1>2, ProgramLeads DEF Id
  <1>4. PICK N : N = RestOf \cup {<<n, p>>}
    OBVIOUS
  <1>5. CheckAndLoop(n, p) /\ pc' \in {"pop", "visit"}
    BY <1>1, <1>2 DEF CheckAndLoop
  <1>6. /\ \A T : Explored(prog, call, visited, T) => <<n, p>> \in T \cup Front'
        /\ \A h \in Heads(prog), r \in call.b .. call.e :
             <<ListId(prog, h), r>> \in visited' =>
               <<ListId(prog, h), r>> \in visited \/ <<h, r>> = <<n, p>>
    BY <1>1, <1>3, <1>5, LoopTo
  <1>7. N \in SUBSET Pairs(prog, call)
    BY <1>1, <1>3, <1>4, RestOfIs DEF Pairs
  <1>8. \A y \in Pairs(prog, call) : Goes(prog, call, id, p, y[1], y[2]) => y \in N
    <2> SUFFICES ASSUME NEW y \in Pairs(prog, call), Goes(prog, call, id, p, y[1], y[2])
                 PROVE  y \in N
      OBVIOUS
    <2>1. CASE Rest(prog, id, p, y[1], y[2])
      BY <1>4, <2>1, RestOfIs
    <2>2. CASE Taken(prog, call, id, p, y[1], y[2])
      <3>1. y[1] = n /\ y[2] = p /\ y = <<y[1], y[2]>>
        BY <1>1, <1>2, <2>2 DEF Taken, Pairs
      <3> QED
        BY <1>4, <3>1
    <2> QED
      BY <1>1, <2>1, <2>2 DEF Goes, Follows, Loops
  <1>9. Waiting(prog, call, job) \cup RestOf \subseteq Front'
    BY <1>1, RestWaits, FrontHas
  <1>10. ~Ends(prog, call, id, p) /\ NoWorse(call, match, match')
    BY <1>1, NoneWorse DEF Ends
  <1>11. \A T : Explored(prog, call, visited, T) => \A x \in N : x \in T \cup Front'
    BY <1>4, <1>6, <1>9
  <1>12. \A h \in Heads(prog), r \in call.b .. call.e :
           <<ListId(prog, h), r>> \in visited' =>
             <<ListId(prog, h), r>> \in visited \/ <<h, r>> \in N
    BY <1>4, <1>6
  <1> QED
    BY <1>5, <1>7, <1>8, <1>9, <1>10, <1>11, <1>12, VisitC

LEMMA VisitNopC == BInv /\ CInv /\ VisitNop => CInv'
  <1> SUFFICES ASSUME BInv, CInv, VisitNop PROVE CInv'
    OBVIOUS
  <1>1. /\ Visiting("nop") /\ CheckAndLoop(ip.out, p) /\ UNCHANGED match
        /\ job' = PushRest
    BY DEF VisitNop
  <1> QED
    BY <1>1, LoopC

LEMMA VisitEmptyWidthC == BInv /\ CInv /\ VisitEmptyWidth => CInv'
  <1> SUFFICES ASSUME BInv, CInv, VisitEmptyWidth PROVE CInv'
    OBVIOUS
  <1>1. Visiting("empty") /\ UNCHANGED match
    BY DEF VisitEmptyWidth
  <1>2. ip = prog.inst[id] /\ prog.inst[id].op = "empty"
    BY <1>1, VisitIs
  <1>3. CASE ip.empty \subseteq EmptyFlags(call.text, p)
    <2>1. CheckAndLoop(ip.out, p) /\ job' = PushRest
      BY <1>3 DEF VisitEmptyWidth
    <2> QED
      BY <1>1, <2>1, LoopC
  <1>4. CASE ~(ip.empty \subseteq EmptyFlags(call.text, p))
    <2>1. GoOn /\ UNCHANGED <<p, job, visited>>
      BY <1>4 DEF VisitEmptyWidth
    <2>2. \A m, r : ~Taken(prog, call, id, p, m, r)
      BY <1>2, <1>4 DEF Taken
    <2>3. ~Ends(prog, call, id, p) /\ NoWorse(call, match, match')
      BY <1>1, <1>2, NoneWorse DEF Ends
    <2> QED
      BY <1>1, <2>1, <2>2, <2>3, GoOnC
  <1> QED
    BY <1>3, <1>4

LEMMA VisitCaptureC == BInv /\ CInv /\ VisitCapture => CInv'
  <1> SUFFICES ASSUME BInv, CInv, VisitCapture PROVE CInv'
    OBVIOUS
  <1>1. Visiting("cap") /\ CheckAndLoop(ip.out, p) /\ UNCHANGED match
    BY DEF VisitCapture
  <1>2. PICK js \in Seq(Jobs) : js = PushRest
    BY <1>1, RestWaits
  <1>3. Waiting(prog, call, js) \subseteq Waiting(prog, call, job')
    <2>1. CASE ~(ip.cap < NCap)
      BY <1>2, <2>1 DEF VisitCapture
    <2>2. CASE ip.cap < NCap
      <3>1. /\ id \in Nat /\ cap \in [0 .. NCap - 1 -> Int] /\ ip.cap \in Nat /\ NCap \in Nat
        BY <1>1, VisitIs, ProgramLeads, CallIs
      <3>2. cap[ip.cap] \in Int
        BY <2>2, <3>1
      <3>3. PICK o \in Int, v \in Int : o = -id /\ v = cap[ip.cap]
        BY <3>1, <3>2
      <3>4. job' = Push(o, v, js)
        BY <1>2, <2>2, <3>3 DEF VisitCapture
      <3> QED
        BY <3>4, WaitingPush
    <2> QED
      BY <2>1, <2>2
  <1> QED
    BY <1>1, <1>2, <1>3, LoopC

LEMMA VisitByteRangeC == BInv /\ CInv /\ VisitByteRange => CInv'
  <1> SUFFICES ASSUME BInv, CInv, VisitByteRange PROVE CInv'
    OBVIOUS
  <1>1. Visiting("byte") /\ UNCHANGED match
    BY DEF VisitByteRange
  <1>2. /\ UNCHANGED <<prog, call>> /\ ip = prog.inst[id] /\ prog \in Progs /\ id \in Id
        /\ id \in Nat /\ p \in call.b .. call.e /\ p \in Nat /\ prog.inst[id].op = "byte"
        /\ pc = "visit" /\ job \in Seq(Jobs)
    BY <1>1, VisitIs DEF Span, Good
  <1>3. ~Ends(prog, call, id, p) /\ NoWorse(call, match, match')
    BY <1>1, <1>2, NoneWorse DEF Ends
  <1>4. CASE ~Matches(ip, ByteAt(call.text, p, call.e))
    <2>1. GoOn /\ UNCHANGED <<p, job, visited>>
      BY <1>4 DEF VisitByteRange
    <2>2. \A m, r : ~Taken(prog, call, id, p, m, r)
      BY <1>2, <1>4 DEF Taken
    <2> QED
      BY <1>1, <1>3, <2>1, <2>2, GoOnC
  <1>5. CASE Matches(ip, ByteAt(call.text, p, call.e))
    <2>1. PICK n, q, h : n = ip.out /\ q = p + 1 /\ h = ip.hint
      OBVIOUS
    <2>2. /\ n \in Heads(prog) /\ n \in DOMAIN prog.inst /\ q \in call.b .. call.e
          /\ h \in Nat /\ ByteAt(call.text, p, call.e) \in Byte
      BY <1>1, <1>2, <1>5, <2>1, ByteIsThere, ProgramLeads DEF Id, Span
    <2>3. CheckAndLoop(n, q) /\ pc' \in {"pop", "visit"}
      BY <1>2, <1>5, <2>1 DEF VisitByteRange, CheckAndLoop
    <2>4. /\ \A T : Explored(prog, call, visited, T) => <<n, q>> \in T \cup Front'
          /\ \A l \in Heads(prog), r \in call.b .. call.e :
               <<ListId(prog, l), r>> \in visited' =>
                 <<ListId(prog, l), r>> \in visited \/ <<l, r>> = <<n, q>>
      BY <1>1, <2>2, <2>3, LoopTo
    <2>5. PICK N : N = {<<j, p>> : j \in Skips(prog, id)} \cup {<<n, q>>}
      OBVIOUS
    <2>6. N \in SUBSET Pairs(prog, call)
      BY <1>2, <2>2, <2>5 DEF Skips, Pairs
    <2>7. \A y \in Pairs(prog, call) : Goes(prog, call, id, p, y[1], y[2]) => y \in N
      <3> SUFFICES ASSUME NEW y \in Pairs(prog, call), Goes(prog, call, id, p, y[1], y[2])
                   PROVE  y \in N
        OBVIOUS
      <3>1. y = <<y[1], y[2]>>
        BY DEF Pairs
      <3>2. CASE Rest(prog, id, p, y[1], y[2])
        <4>1. ~prog.inst[id].last /\ y[1] = id + 1 /\ y[2] = p
          BY <1>2, <3>2 DEF Rest
        <4>2. prog.inst[id].hint = 0 \/ id < id + prog.inst[id].hint
          BY <1>2, <2>1, <2>2
        <4>3. id + 1 \in Skips(prog, id)
          BY <1>2, <4>1, <4>2, SkipsOn DEF Id
        <4> QED
          BY <2>5, <3>1, <4>1, <4>3
      <3>3. CASE Taken(prog, call, id, p, y[1], y[2])
        <4>1. y[1] = n /\ y[2] = q
          BY <1>2, <2>1, <3>3 DEF Taken
        <4> QED
          BY <2>5, <3>1, <4>1
      <3> QED
        BY <1>2, <3>2, <3>3 DEF Goes, Follows, Loops
    <2>8. /\ Waiting(prog, call, job) \subseteq Waiting(prog, call, job')
          /\ h # 0 /\ <<id + h, p>> \in Pairs(prog, call) =>
               <<id + h, p>> \in Waiting(prog, call, job')
      <3>1. CASE h = 0
        <4>1. job' = job
          BY <1>5, <2>1, <3>1 DEF VisitByteRange
        <4> QED
          BY <3>1, <4>1
      <3>2. CASE h # 0
        <4>1. PICK j \in Nat : j = id + h
          BY <1>2, <2>2
        <4>2. job' = Push(j, p, job)
          BY <1>5, <2>1, <3>2, <4>1 DEF VisitByteRange
        <4>3. j \in Int /\ j >= 0 /\ p \in Int
          BY <1>2, <4>1
        <4> QED
          BY <1>2, <4>1, <4>2, <4>3, WaitingPush
      <3> QED
        BY <3>1, <3>2
    <2>9. Waiting(prog, call, job) \subseteq Front'
      BY <1>2, <2>8, FrontHas
    <2>10. ASSUME NEW T, Explored(prog, call, visited, T), NEW x \in N, NEW m
           PROVE  x \in T \cup Front' \/ Settled(prog, call, x, T \cup N, m)
      <3>1. CASE x = <<n, q>>
        BY <2>4, <2>10, <3>1
      <3>2. CASE x \in {<<j, p>> : j \in Skips(prog, id)}
        <4>1. PICK j \in DOMAIN prog.inst :
                /\ x = <<j, p>> /\ SameList(prog, id, j)
                /\ prog.inst[id].hint = 0 \/ j <= id + prog.inst[id].hint
          BY <3>2 DEF Skips
        <4>2. j \in Nat /\ j \in Id
          BY <1>2, ProgramLeads DEF Id
        <4>3. CASE h # 0 /\ j = id + h
          <5>1. x \in Waiting(prog, call, job')
            BY <2>6, <2>8, <4>1, <4>3
          <5> QED
            BY <1>2, <5>1, FrontHas
        <4>4. CASE ~(h # 0 /\ j = id + h)
          <5>1. prog.inst[id].hint = 0 \/ j < id + prog.inst[id].hint
            <6>1. h = prog.inst[id].hint
              BY <1>2, <2>1
            <6>2. h = 0 \/ j <= id + h
              BY <4>1, <6>1
            <6>3. h = 0 \/ j < id + h
              BY <1>2, <2>2, <4>2, <4>4, <6>2
            <6> QED
              BY <6>1, <6>3
          <5>2. ~prog.inst[j].last => <<j + 1, p>> \in T \cup N
            BY <1>2, <2>5, <4>1, <4>2, <5>1, SkipsOn DEF Id
          <5>3. Settled(prog, call, <<j, p>>, T \cup N, m)
            <6>1. /\ id \in DOMAIN prog.inst /\ j \in Jumped(prog, id)
                  /\ Matches(prog.inst[id], ByteAt(call.text, p, call.e))
                  /\ ByteAt(call.text, p, call.e) \in Byte
                  /\ prog \in Progs /\ prog.inst[id].op = "byte"
              BY <1>2, <1>5, <2>2, <4>1, <5>1 DEF Id, Jumped
            <6>2. prog.inst[j].op = "byte" /\ ~Ends(prog, call, j, p)
              BY <6>1, SkipFollows
            <6>3. ASSUME NEW y \in Pairs(prog, call), Follows(prog, call, j, p, y[1], y[2])
                  PROVE  y \in T \cup N
              <7>1. ~prog.inst[j].last /\ y[1] = j + 1 /\ y[2] = p
                BY <6>1, <6>3, SkipFollows
              <7>2. y = <<y[1], y[2]>>
                BY DEF Pairs
              <7> QED
                BY <5>2, <7>1, <7>2
            <6> QED
              BY <6>2, <6>3 DEF Settled, Goes, Loops
          <5> QED
            BY <4>1, <5>3
        <4> QED
          BY <4>3, <4>4
      <3> QED
        BY <2>5, <3>1, <3>2
    <2>11. \A l \in Heads(prog), r \in call.b .. call.e :
             <<ListId(prog, l), r>> \in visited' =>
               <<ListId(prog, l), r>> \in visited \/ <<l, r>> \in N
      BY <2>4, <2>5
    <2> QED
      BY <1>1, <1>3, <2>3, <2>6, <2>7, <2>9, <2>10, <2>11, VisitC
  <1> QED
    BY <1>4, <1>5

LEMMA VisitNoMatchC == BInv /\ CInv /\ VisitNoMatch => CInv'
  <1> SUFFICES ASSUME BInv, CInv, VisitNoMatch PROVE CInv'
    OBVIOUS
  <1>1. Visiting("match") /\ ~EndsHere /\ GoOn /\ UNCHANGED <<p, job, visited, match>>
    BY DEF VisitNoMatch
  <1>2. prog.inst[id].op = "match"
    BY <1>1, VisitIs
  <1>3. \A m, r : ~Taken(prog, call, id, p, m, r)
    BY <1>2 DEF Taken
  <1>4. ~Ends(prog, call, id, p) /\ NoWorse(call, match, match')
    BY <1>1, NoneWorse DEF Ends, EndsHere
  <1> QED
    BY <1>1, <1>3, <1>4, GoOnC

LEMMA VisitMatchC == BInv /\ SInv /\ CInv /\ VisitMatch => CInv'
  <1> SUFFICES ASSUME BInv, SInv, CInv, VisitMatch PROVE CInv'
    OBVIOUS
  <1>1. Visiting("match") /\ UNCHANGED <<p, job, visited>>
    BY DEF VisitMatch
  <1>2. CASE IsLast
    <2>1. pc' = "done"
      BY <1>2 DEF VisitMatch, IsLast
    <2> QED
      BY <2>1 DEF CInv
  <1>3. CASE ~IsLast
    <2>1. GoOn /\ Longest(prog, call) /\ NMatch(call) # 0
      BY <1>3 DEF VisitMatch, IsLast
    <2>2. prog.inst[id].op = "match"
      BY <1>1, VisitIs
    <2>3. \A m, r : ~Taken(prog, call, id, p, m, r)
      BY <2>2 DEF Taken
    <2>4. NoWorse(call, match, match') /\ match' # NoMatch /\ p <= match'[1]
      BY <2>1, MatchReports DEF NoWorse
    <2> QED
      BY <1>1, <2>1, <2>3, <2>4, GoOnC
  <1> QED
    BY <1>2, <1>3

LEMMA TrySearchC == BInv /\ SInv /\ CInv /\ TrySearch => CInv'
  <1> SUFFICES ASSUME BInv, SInv, CInv, TrySearch PROVE CInv'
    OBVIOUS
  <1>1. /\ pc = "start" /\ pc' = "pop" /\ UNCHANGED <<prog, call, match>>
        /\ job' = IF ShouldVisit(prog.start, start') THEN Push(prog.start, start', << >>)
                  ELSE << >>
        /\ visited' = visited \cup {<<ListId(prog, prog.start), start'>>}
    BY DEF TrySearch
  <1>2. prog \in Progs /\ job = << >>
    BY <1>1 DEF BInv, BTypes, Where
  <1>3. PICK n \in Nat, s \in Int : n = prog.start /\ s = start'
    BY <1>2, ProgramLeads, StartIs
  <1>4. /\ n \in Heads(prog) /\ n \in DOMAIN prog.inst /\ s \in call.b .. call.e
        /\ \A t \in Starts(prog, call) : t < s => t < start
    BY <1>2, <1>3, ProgramLeads, StartIs DEF Id, Span
  <1>5. Front = {}
    <2>1. \A k \in DOMAIN << >> : FALSE
      OBVIOUS
    <2> QED
      BY <1>1, <1>2, <2>1 DEF Front, Waiting
  <1>6. {<<n, s>>} \in SUBSET Pairs(prog, call)
    BY <1>4 DEF Pairs
  <1>7. ASSUME NEW T, Explored(prog, call, visited, T) PROVE <<n, s>> \in T \cup Front'
    <2>1. CASE ~ShouldVisit(n, s)
      BY <1>4, <1>7, <2>1 DEF ShouldVisit, Explored
    <2>2. CASE ShouldVisit(n, s)
      <3>1. << >> \in Seq(Jobs) /\ n \in Int /\ n >= 0
        OBVIOUS
      <3>2. <<n, s>> \in Waiting(prog, call, Push(n, s, << >>))
        BY <1>6, <3>1, WaitingPush
      <3> QED
        BY <1>1, <1>3, <2>2, <3>2, FrontHas
    <2> QED
      BY <2>1, <2>2
  <1>8. \A h \in Heads(prog), q \in call.b .. call.e :
          <<ListId(prog, h), q>> \in visited' =>
            <<ListId(prog, h), q>> \in visited \/ <<h, q>> \in {<<n, s>>}
    <2>1. \A h \in Heads(prog) : ListId(prog, h) = ListId(prog, n) => h = n
      BY <1>4 DEF Heads, ListId
    <2> QED
      BY <1>1, <1>3, <2>1
  <1>9. NoWorse(call, match, match')
    BY <1>1, NoneWorse
  <1>10. PICK N \in SUBSET Pairs(prog, call) : N = {<<n, s>>}
    BY <1>6
  <1>11. \A T : Explored(prog, call, visited, T) => \A x \in N : x \in T \cup Front'
    BY <1>7, <1>10
  <1>12. <<prog.start, start'>> \in N
    BY <1>3, <1>10
  <1> QED
    BY <1>1, <1>3, <1>4, <1>5, <1>8, <1>9, <1>10, <1>11, <1>12, CKeeps

\* All that was to be tried from a start position has been tried.
LEMMA NoneLeft ==
  ASSUME BInv, SInv, CInv, pc = "pop", job = << >>, NEW y \in MatchesFrom(prog, call, start)
  PROVE  Longest(prog, call) /\ match # NoMatch /\ y.q <= match[1]
  <1>1. /\ prog \in Progs /\ call \in Calls /\ start \in call.b .. call.e
    BY DEF BInv, BTypes, Where, Span
  <1>2. start \in Int /\ prog.start \in DOMAIN prog.inst
    BY <1>1, ProgramLeads, CallIs DEF Id
  <1>3. Front = {}
    <2>1. \A k \in DOMAIN << >> : FALSE
      OBVIOUS
    <2> QED
      BY <2>1 DEF Front, Waiting
  <1>4. PICK T \in SUBSET Pairs(prog, call) :
          Covered(prog, call, T, {}, match) /\ <<prog.start, start>> \in T
    BY <1>3 DEF CInv
  <1>5. match # NoMatch => match[1] \in Int
    <2>1. match # NoMatch => Reports(prog, call, start, match)
      BY DEF SInv
    <2> QED
      BY <1>1, <2>1, CallsAssumption DEF Reports, MatchesFrom, Paths, Configs
  <1> QED
    BY <1>1, <1>2, <1>4, <1>5, SearchedAll

LEMMA DrainedC == BInv /\ SInv /\ CInv /\ Drained => CInv'
  <1> SUFFICES ASSUME BInv, SInv, CInv, Drained PROVE CInv'
    OBVIOUS
  <1>1. pc = "pop" /\ job = << >> /\ UNCHANGED <<prog, call, job, visited, match>>
    BY DEF Drained
  <1>2. CASE match # NoMatch
    <2>1. pc' = "done"
      BY <1>2 DEF Drained
    <2> QED
      BY <2>1 DEF CInv
  <1>3. CASE match = NoMatch
    <2>1. pc' = "start" /\ start' = start + 1
      BY <1>3 DEF Drained
    <2>2. MatchesFrom(prog, call, start) = {}
      BY <1>1, <1>3, NoneLeft
    <2>3. ASSUME NEW t \in Starts(prog, call), t < start'
          PROVE  t < start \/ MatchesFrom(prog, call, t) = {}
      <3>1. call \in Calls /\ start \in call.b .. call.e
        BY <1>1 DEF BInv, BTypes, Where, Span
      <3>2. start \in Int /\ t \in Int
        BY <3>1, CallIs DEF Starts
      <3>3. t < start \/ t = start
        BY <2>1, <2>3, <3>2
      <3> QED
        BY <2>2, <3>3
    <2>4. Front = {}
      <3>1. \A k \in DOMAIN << >> : FALSE
        OBVIOUS
      <3> QED
        BY <1>1, <3>1 DEF Front, Waiting
    <2>5. NoWorse(call, match, match') /\ {} \in SUBSET Pairs(prog, call)
      BY <1>1, NoneWorse
    <2> QED
      BY <1>1, <2>1, <2>3, <2>4, <2>5, CKeeps
  <1> QED
    BY <1>2, <1>3

\* When what waits is popped it is visited, or it undoes a capture.
LEMMA PopC ==
  ASSUME BInv, CInv, pc = "pop", pc' \in {"pop", "visit"},
         UNCHANGED <<prog, call, start, visited, match>>,
         Waiting(prog, call, job) \subseteq Front'
  PROVE  CInv'
  <1>1. Front \subseteq Front'
    BY DEF Front
  <1>2. NoWorse(call, match, match') /\ {} \in SUBSET Pairs(prog, call)
    BY NoneWorse
  <1>3. PICK N : N = {}
    OBVIOUS
  <1>4. \A t \in Starts(prog, call) :
          t < start' => t < start \/ MatchesFrom(prog, call, t) = {}
    OBVIOUS
  <1> QED
    BY <1>1, <1>2, <1>3, <1>4, CKeeps

LEMMA PopCaptureC == BInv /\ CInv /\ PopCapture => CInv'
  <1> SUFFICES ASSUME BInv, CInv, PopCapture PROVE CInv'
    OBVIOUS
  <1>1. /\ pc = "pop" /\ pc' = pc /\ job # << >> /\ Head(job).id < 0 /\ job' = Tail(job)
        /\ UNCHANGED <<prog, call, start, visited, match>>
    BY DEF PopCapture
  <1>2. job \in Seq(Jobs)
    BY DEF BInv, BTypes
  <1>3. ~(job[1].id >= 0)
    <2>1. job[1] = Head(job) /\ Head(job) \in Jobs
      BY <1>1, <1>2, TailIs
    <2> QED
      BY <1>1, <2>1 DEF Jobs
  <1>4. Waiting(prog, call, job) \subseteq Waiting(prog, call, job')
    BY <1>1, <1>2, <1>3, WaitingTop
  <1> QED
    BY <1>1, <1>4, FrontHas, PopC

LEMMA PopJobC == BInv /\ CInv /\ PopJob => CInv'
  <1> SUFFICES ASSUME BInv, CInv, PopJob PROVE CInv'
    OBVIOUS
  <1>1. PICK top : top = Head(job)
    OBVIOUS
  <1>2. /\ pc = "pop" /\ pc' = "visit" /\ job # << >> /\ top.id >= 0
        /\ id' = top.id /\ p' = top.p + top.rle
        /\ job' = (IF top.rle > 0 THEN [job EXCEPT ![1].rle = @ - 1] ELSE Tail(job))
        /\ UNCHANGED <<prog, call, start, visited, match>>
    BY <1>1 DEF PopJob
  <1>3. job \in Seq(Jobs)
    BY DEF BInv, BTypes
  <1>4. /\ job[1] = top /\ job[1].id >= 0 /\ job[1].rle = top.rle
        /\ top.id \in Int /\ top.p \in Int /\ top.rle \in Nat
    <2>1. job[1] = top /\ top \in Jobs
      BY <1>1, <1>2, <1>3, TailIs
    <2> QED
      BY <1>2, <2>1 DEF Jobs
  <1>5. ASSUME NEW x \in Waiting(prog, call, job) PROVE x \in Front'
    <2>1. x \in Pairs(prog, call) /\ x = <<x[1], x[2]>>
      BY DEF Waiting, Pairs
    <2>2. /\ <<top.id, top.p + top.rle>> \in Front'
          /\ Waiting(prog, call, job') \subseteq Front'
      BY <1>2, FrontHas
    <2>3. \/ x \in Waiting(prog, call, Tail(job))
          \/ x[1] = top.id /\ x[2] \in top.p .. top.p + top.rle
      BY <1>2, <1>3, <1>4, WaitingTop
    <2>4. CASE x = <<top.id, top.p + top.rle>>
      BY <2>2, <2>4
    <2>5. CASE x # <<top.id, top.p + top.rle>>
      <3>1. CASE top.rle > 0
        <4>1. PICK m \in Nat, l \in Nat, b \in Int : l = top.rle /\ m = l - 1 /\ b = top.p
          <5>1. top.rle - 1 \in Nat
            BY <1>4, <3>1
          <5> QED
            BY <1>4, <5>1
        <4> DEFINE r == [job EXCEPT ![1].rle = m]
        <4>2. job' = r
          BY <1>2, <1>4, <3>1, <4>1
        <4>3. /\ Waiting(prog, call, Tail(job)) \subseteq Waiting(prog, call, job')
              /\ \A y \in Pairs(prog, call) :
                   y[1] = top.id /\ y[2] \in b .. b + m => y \in Waiting(prog, call, job')
          <5>1. /\ Waiting(prog, call, Tail(job)) \subseteq Waiting(prog, call, r)
                /\ \A y \in Pairs(prog, call) :
                     y[1] = job[1].id /\ y[2] \in job[1].p .. job[1].p + m =>
                       y \in Waiting(prog, call, r)
            BY <1>2, <1>3, <1>4, <4>1, WaitingRun
          <5> HIDE DEF r
          <5> QED
            BY <1>4, <4>1, <4>2, <5>1
        <4>4. x[2] \in b .. b + l /\ x[2] # b + l => x[2] \in b .. b + m
          BY <4>1
        <4>5. x[1] = top.id => x[2] # b + l
          BY <2>1, <2>5, <4>1
        <4> QED
          BY <2>1, <2>2, <2>3, <4>1, <4>3, <4>4, <4>5
      <3>2. CASE ~(top.rle > 0)
        <4>1. job' = Tail(job)
          BY <1>2, <3>2
        <4>2. top.rle = 0
          BY <1>4, <3>2
        <4>3. x[1] = top.id /\ x[2] \in top.p .. top.p + top.rle =>
                x[2] = top.p + top.rle
          BY <1>4, <4>2
        <4>4. x \in Waiting(prog, call, Tail(job))
          BY <2>1, <2>3, <2>5, <4>3
        <4> QED
          BY <2>2, <4>1, <4>4
      <3> QED
        BY <3>1, <3>2
    <2> QED
      BY <2>4, <2>5
  <1> QED
    BY <1>2, <1>5, PopC

LEMMA TurnC == BInv /\ CInv /\ (Reject \/ Begin \/ NoStartLeft \/ UNCHANGED vars) => CInv'
  <1>1. CInv /\ (Reject \/ NoStartLeft) => CInv'
    BY DEF CInv, Reject, NoStartLeft
  <1>2. ASSUME BInv, CInv, Begin PROVE CInv'
    <2>1. /\ visited' = {} /\ start' = call.b /\ pc' = "start" /\ UNCHANGED <<prog, call>>
          /\ call \in Calls
      BY <1>2 DEF CInv, Begin, BInv, BTypes
    <2>2. ASSUME NEW t \in Starts(prog, call) PROVE ~(t < start')
      <3>1. t \in call.b .. call.e \/ t = call.b
        BY DEF Starts
      <3> QED
        BY <2>1, <3>1, CallIs
    <2>3. Explored(prog, call, visited', {}) /\ Covered(prog, call, {}, Front', match')
      BY <2>1 DEF Explored, Covered
    <2> QED
      BY <2>1, <2>2, <2>3 DEF CInv
  <1>3. CInv /\ UNCHANGED vars => CInv'
    <2> SUFFICES ASSUME CInv, UNCHANGED vars PROVE CInv'
      OBVIOUS
    <2>1. UNCHANGED <<prog, call, pc, start, id, p, job, visited, cap, match, found>>
      BY DEF vars
    <2>2. Front' = Front
      BY <2>1 DEF Front
    <2> QED
      BY <2>1, <2>2 DEF CInv
  <1> QED
    BY <1>1, <1>2, <1>3

-----------------------------------------------------------------------------
(***************************************************************************)
(* The answer.                                                             *)
(***************************************************************************)
LEMMA AnswersMatch ==
  ASSUME BInv, SInv, CInv, VisitMatch
  PROVE  FindsTheMatch'
  <1>1. Visiting("match") /\ EndsHere /\ pc = "visit" /\ UNCHANGED <<prog, call, start>>
    BY DEF VisitMatch, Visiting
  <1>2. SUFFICES ASSUME pc' = "done" PROVE FindsTheMatch'
    BY DEF FindsTheMatch
  <1>3. IsLast /\ found'
    BY <1>1, <1>2 DEF VisitMatch, IsLast, GoOn
  <1>4. start \in Starts(prog, call) /\ At(id, p, Kept(call, cap)) \in Paths(prog, call, start)
    BY <1>1, VisitPath
  <1>5. MatchesFrom(prog, call, start) # {}
    BY <1>1, <1>4, VisitIs DEF MatchesFrom, Ends, EndsHere, At
  <1>6. ASSUME NMatch(call) # 0
        PROVE  /\ \A t \in Starts(prog, call) : t < start => MatchesFrom(prog, call, t) = {}
               /\ Reports(prog, call, start, match')
               /\ Longest(prog, call) => \A y \in MatchesFrom(prog, call, start) : y.q <= match'[1]
    <2>1. Reports(prog, call, start, match') /\ (Longest(prog, call) => p <= match'[1])
      BY <1>6, MatchReports
    <2>2. \A t \in Starts(prog, call) : t < start => MatchesFrom(prog, call, t) = {}
      BY <1>1 DEF CInv
    <2>3. ASSUME Longest(prog, call), NEW y \in MatchesFrom(prog, call, start)
          PROVE  y.q <= match'[1]
      <3>1. y.q \in call.b .. call.e /\ call \in Calls
        BY <1>1, VisitIs DEF MatchesFrom, Paths, Configs
      <3>2. PICK m : m = match'
        OBVIOUS
      <3>3. m[1] \in call.b .. call.e /\ call.b \in Nat /\ call.e \in Nat
        BY <2>1, <3>1, <3>2, ReportEnds
      <3>4. p = call.e /\ p <= m[1]
        BY <1>3, <1>6, <2>1, <2>3, <3>2 DEF IsLast
      <3> QED
        BY <3>1, <3>2, <3>3, <3>4
    <2> QED
      BY <2>1, <2>2, <2>3
  <1> QED
    BY <1>1, <1>3, <1>4, <1>5, <1>6 DEF FindsTheMatch

LEMMA AnswersDrained ==
  ASSUME BInv, SInv, CInv, Drained
  PROVE  FindsTheMatch'
  <1>1. pc = "pop" /\ job = << >> /\ UNCHANGED <<prog, call, match>>
    BY DEF Drained
  <1>2. SUFFICES ASSUME pc' = "done" PROVE FindsTheMatch'
    BY DEF FindsTheMatch
  <1>3. match # NoMatch /\ found' /\ UNCHANGED start
    BY <1>2 DEF Drained
  <1>4. /\ start \in Starts(prog, call) /\ Reports(prog, call, start, match)
        /\ \A t \in Starts(prog, call) : t < start => MatchesFrom(prog, call, t) = {}
    BY <1>1, <1>3 DEF SInv, CInv
  <1>5. MatchesFrom(prog, call, start) # {}
    BY <1>4 DEF Reports
  <1>6. \A y \in MatchesFrom(prog, call, start) : y.q <= match[1]
    BY <1>1, NoneLeft
  <1> QED
    BY <1>1, <1>3, <1>4, <1>5, <1>6 DEF FindsTheMatch

LEMMA AnswersNone ==
  ASSUME BInv, SInv, CInv, Reject \/ NoStartLeft
  PROVE  FindsTheMatch'
  <1>1. UNCHANGED <<prog, call, found>>
    BY DEF Reject, NoStartLeft
  <1>2. ~found
    BY DEF Reject, NoStartLeft, SInv
  <1>3. \A s \in Starts(prog, call) : MatchesFrom(prog, call, s) = {}
    <2>1. CASE Reject
      BY <2>1 DEF Reject, Starts
    <2>2. CASE NoStartLeft
      <3>1. /\ pc = "start" /\ ~(start <= call.e /\ (Anchored(prog, call) => start = call.b))
            /\ call \in Calls /\ start \in call.b .. call.e + 1 /\ AnchorsFit(prog, call)
        BY <2>2 DEF NoStartLeft, BInv, BTypes, SInv
      <3>2. call.b \in Nat /\ call.e \in Nat /\ call.b <= call.e
        BY <3>1, CallIs
      <3>3. ASSUME NEW s \in Starts(prog, call) PROVE s < start
        <4>1. s \in call.b .. call.e /\ (Anchored(prog, call) => s = call.b)
          BY <3>1, <3>2 DEF Starts
        <4> QED
          BY <3>1, <3>2, <4>1
      <3> QED
        BY <3>1, <3>3 DEF CInv
    <2> QED
      BY <2>1, <2>2
  <1> QED
    BY <1>1, <1>2, <1>3 DEF FindsTheMatch

LEMMA PathsInit == Init => PInv
  <1> SUFFICES ASSUME Init PROVE PInv
    OBVIOUS
  <1>1. BInv
    BY InitHolds
  <1>2. pc = "search" /\ start = call.b /\ visited = {} /\ match = NoMatch /\ found = FALSE
    BY DEF Init
  <1>3. SInv /\ CInv /\ FindsTheMatch
    BY <1>2 DEF SInv, CInv, FindsTheMatch
  <1> QED
    BY <1>1, <1>3 DEF PInv

LEMMA PathsStep ==
  ASSUME BInv, SInv, CInv, FindsTheMatch, [Next]_vars
  PROVE  SInv' /\ CInv' /\ FindsTheMatch'
  <1>1. CASE VisitMatch
    BY <1>1, VisitMatchS, VisitMatchC, AnswersMatch
  <1>2. CASE VisitAny /\ ~VisitMatch
    <2>1. SInv'
      BY <1>2, VisitFailS, VisitAltMatchS, VisitByteRangeS, VisitCaptureS, VisitEmptyWidthS,
         VisitNopS, VisitNoMatchS DEF VisitAny
    <2>2. CInv'
      BY <1>2, VisitFailC, VisitAltMatchC, VisitByteRangeC, VisitCaptureC, VisitEmptyWidthC,
         VisitNopC, VisitNoMatchC DEF VisitAny
    <2>3. pc' # "done"
      <3>1. VisitFail \/ VisitAltMatch \/ VisitByteRange \/ VisitCapture \/ VisitEmptyWidth
            \/ VisitNop \/ VisitNoMatch
        BY <1>2 DEF VisitAny
      <3> QED
        BY <3>1 DEF VisitFail, VisitAltMatch, VisitByteRange, VisitCapture, VisitEmptyWidth,
           VisitNop, VisitNoMatch, Visiting, CheckAndLoop, GoOn
    <2> QED
      BY <2>1, <2>2, <2>3 DEF FindsTheMatch
  <1>3. CASE Reject \/ NoStartLeft
    BY <1>3, TurnS, TurnC, AnswersNone
  <1>4. CASE Drained
    BY <1>4, DrainedS, DrainedC, AnswersDrained
  <1>5. CASE Begin \/ TrySearch \/ PopCapture \/ PopJob
    <2>1. pc' # "done"
      BY <1>5 DEF Begin, TrySearch, PopCapture, PopJob
    <2>2. SInv' /\ CInv'
      BY <1>5, TurnS, TurnC, TrySearchS, TrySearchC, PopCaptureS, PopCaptureC, PopJobS, PopJobC
    <2> QED
      BY <2>1, <2>2 DEF FindsTheMatch
  <1>6. CASE UNCHANGED vars
    <2>1. FindsTheMatch'
      BY <1>6 DEF vars, FindsTheMatch
    <2> QED
      BY <1>6, <2>1, TurnS, TurnC
  <1> QED
    BY <1>1, <1>2, <1>3, <1>4, <1>5, <1>6 DEF Next, Done

\* The backtracker finds a match if and only if the program has a path that
\* matches from a position where one may begin, and what it reports is the end
\* and the submatches of such a path, from the first position there is and, if
\* asked for, the longest from there.  So the bitmap of visited lists, the runs
\* of jobs, the undo jobs, the hints and the literal prefix change no answer but
\* in the order in which paths are preferred (bitstate.cc:83-375).
THEOREM BacktrackerIsRight == Spec => []FindsTheMatch
  <1>1. PInv /\ [Next]_vars /\ BInv' => PInv'
    BY PathsStep DEF PInv
  <1>2. PInv => FindsTheMatch
    BY DEF PInv
  <1> QED
    BY <1>1, <1>2, PathsInit, BitStateInvariance, PTL DEF Spec
=============================================================================
