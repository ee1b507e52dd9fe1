----------------------------- MODULE NFAProofs ------------------------------
(***************************************************************************)
(* The Pike machine for every program and every call: its threads are      *)
(* counted and recycled right, its queues hold each instruction at most    *)
(* once, the stack of AddToThreadq never needs more than was allocated,    *)
(* and its answer is right by the paths of the program.                    *)
(*                                                                         *)
(* The counts are a matter of bookkeeping: Owed(t) adds up the entries     *)
(* that hold thread t where the machine is, and each step moves entries    *)
(* between the queues, the stack and t0, or makes the count follow.  The   *)
(* stack is paid for: what an instruction pushes it pushes once, when it   *)
(* enters the queue.                                                       *)
(*                                                                         *)
(* The answer takes two more invariants: SInv says that a thread stands    *)
(* for a path of the program, so that what is found is one; CInv says that *)
(* no path is overlooked for which another is not found that began before  *)
(* it, or went on for longer.                                              *)
(***************************************************************************)
EXTENDS NFA, SearchPaths, FiniteSetTheorems, SequenceTheorems, TLAPS

Entries == [id : Nat, t : Nat]
Holding(t) == [id : Nat, t : {t}]

\* How many entries of a queue are in S, from the j-th on.
From(q, j, S) == Cardinality({k \in DOMAIN q : k >= j /\ q[k] \in S})
Hold(q, S) == From(q, 1, S)

Id == DOMAIN prog.inst

NTypes ==
  /\ prog \in Progs /\ i \in Nat
  /\ ref \in Seq(Nat) /\ free \in Seq(Nat)
  /\ runq \in Seq(Entries) /\ nextq \in Seq(Entries) /\ stk \in Seq(Entries)
  /\ t0 \in Nat /\ at \in Id \cup {None}

\* What there is to do at each place.
Where ==
  /\ pc # "add" => t0 = NoThread /\ stk = << >>
  /\ pc = "add" => t0 # NoThread /\ (i # 0 => i <= Len(runq))
  /\ pc \in {"step", "cut"} => i # 0
  /\ i # 0 => pc \in {"add", "step", "cut"} /\ i <= Len(runq) + 1
  /\ i = 0 => runq = << >>
  /\ pc \in {"search", "done"} => nextq = << >>

\* Entries are for instructions, and a queue has one for each at most.
Distinct(q) == \A j, k \in DOMAIN q : q[j].id = q[k].id => j = k
QueuesOK ==
  /\ Distinct(runq) /\ Distinct(nextq)
  /\ \A k \in DOMAIN runq : runq[k].id \in Id
  /\ \A k \in DOMAIN nextq : nextq[k].id \in Id
  /\ \A k \in DOMAIN stk : stk[k].id \in Id

RunFrom == IF i = 0 THEN 1 ELSE IF pc = "add" THEN i + 1 ELSE i
Owed(t) ==
  From(runq, RunFrom, Holding(t)) + Hold(nextq, Holding(t)) + Hold(stk, Holding(t))
  + (IF t0 = t THEN 1 ELSE 0)
Count(t) == IF t \in DOMAIN ref THEN ref[t] ELSE 0
Thread == Nat \ {NoThread}
Counted == \A t \in Thread : Count(t) = Owed(t)

FreeOK ==
  /\ \A j, k \in DOMAIN free : free[j] = free[k] => j = k
  /\ \A t \in Thread : (\E k \in DOMAIN free : free[k] = t) <=> (t \in DOMAIN ref /\ ref[t] = 0)
  /\ \A k \in DOMAIN free : free[k] # NoThread

\* What has been pushed was pushed by instructions that are in the queue.
Of(op) == [id : {n \in Id : Inst(n).op = op}, t : Nat]
StackPaid ==
  Len(stk) <= 2 * Hold(nextq, Of("cap")) + Hold(nextq, Of("empty")) + Hold(nextq, Of("nop"))

NFAInv == NTypes /\ Where /\ QueuesOK /\ Counted /\ FreeOK /\ StackPaid

-----------------------------------------------------------------------------
(***************************************************************************)
(* Counting the entries of a queue.                                        *)
(***************************************************************************)
LEMMA FromIsNat ==
  ASSUME NEW q \in Seq(Entries), NEW j, NEW S
  PROVE  /\ IsFiniteSet({k \in DOMAIN q : k >= j /\ q[k] \in S})
         /\ From(q, j, S) \in Nat
  <1>1. DOMAIN q = 1 .. Len(q) /\ Len(q) \in Nat
    OBVIOUS
  <1>2. IsFiniteSet(DOMAIN q)
    BY <1>1, FS_Interval
  <1> QED
    BY <1>2, FS_Subset, FS_CardinalityType DEF From

\* The entries from the j-th on are the j-th and those after it.
LEMMA FromStep ==
  ASSUME NEW q \in Seq(Entries), NEW j \in 1 .. Len(q), NEW S
  PROVE  From(q, j, S) = From(q, j + 1, S) + (IF q[j] \in S THEN 1 ELSE 0)
  <1> DEFINE K == {k \in DOMAIN q : k >= j /\ q[k] \in S}
             L == {k \in DOMAIN q : k >= j + 1 /\ q[k] \in S}
  <1>1. IsFiniteSet(L) /\ Cardinality(L) \in Nat
    BY FromIsNat DEF From
  <1>2. K = IF q[j] \in S THEN L \cup {j} ELSE L
    OBVIOUS
  <1>3. j \notin L
    OBVIOUS
  <1> HIDE DEF K, L
  <1>4. Cardinality(L \cup {j}) = Cardinality(L) + 1
    BY <1>1, <1>3, FS_AddElement
  <1>5. Cardinality(K) = Cardinality(L) + (IF q[j] \in S THEN 1 ELSE 0)
    BY <1>1, <1>2, <1>4
  <1> QED
    BY <1>5 DEF From, K, L

LEMMA FromEnd ==
  ASSUME NEW q \in Seq(Entries), NEW j \in Nat, j > Len(q), NEW S
  PROVE  From(q, j, S) = 0
  <1>1. {k \in DOMAIN q : k >= j /\ q[k] \in S} = {}
    OBVIOUS
  <1> QED
    BY <1>1, FS_EmptySet DEF From

LEMMA HoldEmpty ==
  ASSUME NEW S
  PROVE  Hold(<< >>, S) = 0
  <1>1. << >> \in Seq(Entries) /\ 1 > Len(<< >>)
    OBVIOUS
  <1> QED
    BY <1>1, FromEnd DEF Hold

LEMMA HoldAppend ==
  ASSUME NEW q \in Seq(Entries), NEW e \in Entries, NEW S
  PROVE  Hold(Append(q, e), S) = Hold(q, S) + (IF e \in S THEN 1 ELSE 0)
  <1> DEFINE K == {k \in DOMAIN Append(q, e) : k >= 1 /\ Append(q, e)[k] \in S}
             L == {k \in DOMAIN q : k >= 1 /\ q[k] \in S}
  <1>1. IsFiniteSet(L) /\ Cardinality(L) \in Nat
    BY FromIsNat DEF From
  <1>2. K = IF e \in S THEN L \cup {Len(q) + 1} ELSE L
    <2>1. /\ DOMAIN Append(q, e) = 1 .. Len(q) + 1 /\ DOMAIN q = 1 .. Len(q)
          /\ \A k \in 1 .. Len(q) : Append(q, e)[k] = q[k]
          /\ Append(q, e)[Len(q) + 1] = e /\ Len(q) \in Nat
      OBVIOUS
    <2> QED
      BY <2>1
  <1>3. Len(q) + 1 \notin L
    OBVIOUS
  <1> HIDE DEF K, L
  <1>4. Cardinality(L \cup {Len(q) + 1}) = Cardinality(L) + 1
    BY <1>1, <1>3, FS_AddElement
  <1>5. Cardinality(K) = Cardinality(L) + (IF e \in S THEN 1 ELSE 0)
    BY <1>1, <1>2, <1>4
  <1> QED
    BY <1>5 DEF Hold, From, K, L

LEMMA HoldCons ==
  ASSUME NEW q \in Seq(Entries), NEW e \in Entries, NEW S
  PROVE  Hold(<<e>> \o q, S) = Hold(q, S) + (IF e \in S THEN 1 ELSE 0)
  <1> DEFINE r == <<e>> \o q
             L == {k \in DOMAIN q : k >= 1 /\ q[k] \in S}
             M == {k \in DOMAIN r : k >= 2 /\ r[k] \in S}
             f == [k \in L |-> k + 1]
  <1>1. /\ r \in Seq(Entries) /\ Len(r) = Len(q) + 1 /\ Len(q) \in Nat
        /\ DOMAIN r = 1 .. Len(q) + 1 /\ DOMAIN q = 1 .. Len(q)
        /\ r[1] = e
        /\ \A k \in 1 .. Len(q) : r[k + 1] = q[k]
        /\ \A k \in 2 .. Len(q) + 1 : r[k] = q[k - 1]
    OBVIOUS
  <1> HIDE DEF r
  <1>2. From(r, 1, S) = From(r, 2, S) + (IF e \in S THEN 1 ELSE 0)
    <2>1. 1 \in 1 .. Len(r) /\ 1 + 1 = 2
      BY <1>1
    <2> QED
      BY <1>1, <2>1, FromStep
  <1>3. f \in [L -> M]
    BY <1>1
  <1>4. f \in Injection(L, M)
    BY <1>1, <1>3 DEF Injection, IsInjective
  <1>5. \A m \in M : \E k \in L : f[k] = m
    <2> SUFFICES ASSUME NEW m \in M PROVE \E k \in L : f[k] = m
      OBVIOUS
    <2>1. m - 1 \in L
      BY <1>1
    <2>2. f[m - 1] = m
      BY <1>1, <2>1
    <2> QED
      BY <2>1, <2>2
  <1>6. f \in Bijection(L, M)
    BY <1>3, <1>4, <1>5 DEF Bijection, Surjection
  <1>7. IsFiniteSet(L) /\ Cardinality(L) \in Nat
    BY FromIsNat DEF From
  <1> HIDE DEF f, L, M
  <1>8. Cardinality(M) = Cardinality(L)
    BY <1>6, <1>7, FS_Bijection DEF ExistsBijection
  <1> QED
    BY <1>2, <1>7, <1>8 DEF Hold, From, L, M, r

LEMMA HoldTail ==
  ASSUME NEW q \in Seq(Entries), q # << >>, NEW S
  PROVE  /\ Head(q) \in Entries /\ Tail(q) \in Seq(Entries)
         /\ Hold(q, S) = Hold(Tail(q), S) + (IF Head(q) \in S THEN 1 ELSE 0)
  <1>1. Head(q) \in Entries /\ Tail(q) \in Seq(Entries) /\ q = <<Head(q)>> \o Tail(q)
    OBVIOUS
  <1>2. PICK e \in Entries, r \in Seq(Entries) : e = Head(q) /\ r = Tail(q)
    BY <1>1
  <1>3. Hold(<<e>> \o r, S) = Hold(r, S) + (IF e \in S THEN 1 ELSE 0)
    BY HoldCons
  <1>4. q = <<e>> \o r
    BY <1>1, <1>2
  <1>5. Hold(q, S) = Hold(r, S) + (IF e \in S THEN 1 ELSE 0)
    BY <1>3, <1>4
  <1> QED
    BY <1>1, <1>2, <1>5

\* With an entry for an instruction there comes a count of one at least.
LEMMA HoldSome ==
  ASSUME NEW q \in Seq(Entries), NEW j \in Nat, NEW k \in DOMAIN q, k >= j, NEW S, q[k] \in S
  PROVE  From(q, j, S) > 0
  <1> DEFINE K == {l \in DOMAIN q : l >= j /\ q[l] \in S}
  <1>1. IsFiniteSet(K) /\ Cardinality(K) \in Nat
    BY FromIsNat DEF From
  <1>2. K # {}
    OBVIOUS
  <1> HIDE DEF K
  <1>3. Cardinality(K) # 0
    BY <1>1, <1>2, FS_EmptySet
  <1> QED
    BY <1>1, <1>3 DEF From, K
-----------------------------------------------------------------------------
(***************************************************************************)
(* The arena.                                                              *)
(***************************************************************************)
Arena == ref \in Seq(Nat) /\ free \in Seq(Nat) /\ Counted /\ FreeOK

LEMMA OwedIsNat ==
  ASSUME NTypes, NEW t
  PROVE  /\ From(runq, RunFrom, Holding(t)) \in Nat
         /\ Hold(nextq, Holding(t)) \in Nat /\ Hold(stk, Holding(t)) \in Nat
         /\ Owed(t) \in Nat
  <1>1. runq \in Seq(Entries) /\ nextq \in Seq(Entries) /\ stk \in Seq(Entries)
    BY DEF NTypes
  <1>2. From(runq, RunFrom, Holding(t)) \in Nat
    BY <1>1, FromIsNat
  <1>3. Hold(nextq, Holding(t)) \in Nat /\ Hold(stk, Holding(t)) \in Nat
    BY <1>1, FromIsNat DEF Hold
  <1> QED
    BY <1>2, <1>3 DEF Owed

\* A thread that is owed to someone is allocated and not on the free list.
LEMMA OwedIsLive ==
  ASSUME Arena, NEW x \in Thread, Owed(x) \in Nat, Owed(x) > 0
  PROVE  /\ x \in DOMAIN ref /\ ref[x] = Owed(x) /\ ref[x] \in Nat
         /\ \A k \in DOMAIN free : free[k] # x
  <1>1. Count(x) = Owed(x)
    BY DEF Arena, Counted
  <1> QED
    BY <1>1 DEF Arena, FreeOK, Count

LEMMA IncrefKeeps ==
  ASSUME Arena, NEW x \in Thread, Incref(x), free' = free,
         \A t \in Thread : Owed(t) \in Nat, Owed(x) > 0,
         \A t \in Thread : Owed(t)' = Owed(t) + (IF t = x THEN 1 ELSE 0)
  PROVE  Arena'
  <1>1. x \in DOMAIN ref /\ ref \in Seq(Nat) /\ ref[x] = Owed(x) /\ ref[x] \in Nat
    BY OwedIsLive DEF Arena
  <1>2. /\ ref' \in Seq(Nat) /\ DOMAIN ref' = DOMAIN ref /\ ref'[x] = ref[x] + 1
        /\ \A t \in DOMAIN ref : t # x => ref'[t] = ref[t]
    BY <1>1 DEF Incref
  <1>3. Counted'
    BY <1>1, <1>2 DEF Arena, Counted, Count
  <1>4. FreeOK'
    BY <1>1, <1>2 DEF Arena, FreeOK
  <1> QED
    BY <1>2, <1>3, <1>4 DEF Arena

LEMMA DecrefKeeps ==
  ASSUME Arena, NEW x \in Thread, Decref(x),
         \A t \in Thread : Owed(t) \in Nat, Owed(x) > 0,
         \A t \in Thread : Owed(t)' = Owed(t) - (IF t = x THEN 1 ELSE 0)
  PROVE  Arena'
  <1>1. /\ x \in DOMAIN ref /\ ref \in Seq(Nat) /\ ref[x] = Owed(x) /\ ref[x] \in Nat
        /\ \A k \in DOMAIN free : free[k] # x
        /\ free \in Seq(Nat)
    BY OwedIsLive DEF Arena
  <1>2. /\ ref' \in Seq(Nat) /\ DOMAIN ref' = DOMAIN ref /\ ref'[x] = ref[x] - 1
        /\ \A t \in DOMAIN ref : t # x => ref'[t] = ref[t]
    BY <1>1 DEF Decref
  <1>3. Counted'
    BY <1>1, <1>2 DEF Arena, Counted, Count
  <1>4. free' \in Seq(Nat) /\ FreeOK'
    <2>1. CASE ref[x] # 1
      <3>1. free' = free
        BY <2>1 DEF Decref
      <3> QED
        BY <1>1, <1>2, <2>1, <3>1 DEF Arena, FreeOK
    <2>2. CASE ref[x] = 1
      <3>1. free' = <<x>> \o free /\ x \in Nat /\ x # NoThread
        BY <2>2 DEF Decref, Thread
      <3>2. /\ free' \in Seq(Nat) /\ Len(free') = Len(free) + 1 /\ Len(free) \in Nat
            /\ DOMAIN free' = 1 .. Len(free) + 1 /\ DOMAIN free = 1 .. Len(free)
            /\ free'[1] = x
            /\ \A k \in 1 .. Len(free) : free'[k + 1] = free[k]
            /\ \A k \in 2 .. Len(free) + 1 : free'[k] = free[k - 1]
        BY <1>1, <3>1
      <3>3. \A k \in DOMAIN free' : \/ k = 1 /\ free'[k] = x
                                    \/ k - 1 \in DOMAIN free /\ free'[k] = free[k - 1]
        BY <3>2
      <3>4. \A j, k \in DOMAIN free' : free'[j] = free'[k] => j = k
        <4> SUFFICES ASSUME NEW j \in DOMAIN free', NEW k \in DOMAIN free',
                            free'[j] = free'[k]
                     PROVE  j = k
          OBVIOUS
        <4>1. CASE j = 1 \/ k = 1
          BY <4>1, <3>2, <3>3, <1>1, SMTT(30)
        <4>2. CASE j # 1 /\ k # 1
          <5>1. j - 1 = k - 1
            BY <4>2, <3>3 DEF Arena, FreeOK
          <5> QED
            BY <5>1, <3>2
        <4> QED
          BY <4>1, <4>2
      <3>5. \A t : (\E k \in DOMAIN free' : free'[k] = t)
                     <=> (t = x \/ \E k \in DOMAIN free : free[k] = t)
        <4> TAKE t
        <4>1. ASSUME NEW k \in DOMAIN free, free[k] = t
              PROVE  \E l \in DOMAIN free' : free'[l] = t
          <5>1. k + 1 \in DOMAIN free' /\ free'[k + 1] = t
            BY <3>2, <4>1
          <5> QED
            BY <5>1
        <4>2. t = x => \E l \in DOMAIN free' : free'[l] = t
          <5>1. 1 \in DOMAIN free' /\ free'[1] = x
            BY <3>2
          <5> QED
            BY <5>1
        <4> QED
          BY <3>3, <4>1, <4>2
      <3>6. \A t \in Thread : (\E k \in DOMAIN free' : free'[k] = t)
                                <=> (t \in DOMAIN ref' /\ ref'[t] = 0)
        <4> TAKE t \in Thread
        <4>1. (\E k \in DOMAIN free : free[k] = t) <=> (t \in DOMAIN ref /\ ref[t] = 0)
          BY DEF Arena, FreeOK
        <4>2. (\E k \in DOMAIN free' : free'[k] = t)
                 <=> (t = x \/ \E k \in DOMAIN free : free[k] = t)
          BY <3>5
        <4>3. (t \in DOMAIN ref' /\ ref'[t] = 0) <=> (t = x \/ (t \in DOMAIN ref /\ ref[t] = 0))
          BY <1>1, <1>2, <2>2
        <4> QED
          BY <4>1, <4>2, <4>3
      <3>7. \A k \in DOMAIN free' : free'[k] # NoThread
        BY <3>1, <3>3 DEF Arena, FreeOK
      <3> QED
        BY <3>2, <3>4, <3>6, <3>7 DEF FreeOK
    <2> QED
      BY <2>1, <2>2
  <1> QED
    BY <1>2, <1>3, <1>4 DEF Arena

LEMMA SameKeeps ==
  ASSUME Arena, ref' = ref, free' = free, \A t \in Thread : Owed(t)' = Owed(t)
  PROVE  Arena'
  BY DEF Arena, Counted, Count, FreeOK

\* The thread that AllocThread returns is nobody's, and gets the one reference
\* of whoever asked for it.
LEMMA NewIsNobodys ==
  ASSUME Arena
  PROVE  NewThread \in Thread /\ Owed(NewThread) = 0
  <1>1. CASE free # << >>
    <2>1. 1 \in DOMAIN free /\ NewThread = free[1] /\ free[1] \in Nat
      BY <1>1 DEF Arena, NewThread
    <2>2. NewThread \in Thread
      BY <2>1 DEF Arena, FreeOK, Thread
    <2>3. NewThread \in DOMAIN ref /\ ref[NewThread] = 0
      BY <2>1, <2>2 DEF Arena, FreeOK
    <2> QED
      BY <2>2, <2>3 DEF Arena, Counted, Count
  <1>2. CASE free = << >>
    <2>1. NewThread = Len(ref) + 1 /\ Len(ref) \in Nat /\ DOMAIN ref = 1 .. Len(ref)
      BY <1>2 DEF Arena, NewThread
    <2>2. NewThread \in Thread /\ NewThread \notin DOMAIN ref
      BY <2>1 DEF Thread, NoThread
    <2> QED
      BY <2>2 DEF Arena, Counted, Count
  <1> QED
    BY <1>1, <1>2

LEMMA AllocKeeps ==
  ASSUME Arena, NEW capture, AllocThread(capture),
         \A t \in Thread : Owed(t) \in Nat,
         \A t \in Thread : Owed(t)' = Owed(t) + (IF t = NewThread THEN 1 ELSE 0)
  PROVE  Arena'
  <1>1. PICK x : x = NewThread
    OBVIOUS
  <1>2. x \in Thread /\ Owed(x) = 0 /\ Count(x) = 0 /\ ref \in Seq(Nat) /\ free \in Seq(Nat)
    BY <1>1, NewIsNobodys DEF Arena, Counted
  <1>3. CASE free # << >>
    <2>1. free' = Tail(free) /\ ref' = [ref EXCEPT ![x] = 1] /\ x = free[1] /\ 1 \in DOMAIN free
      BY <1>1, <1>2, <1>3 DEF AllocThread, NewThread
    <2>2. x \in DOMAIN ref /\ ref[x] = 0
      BY <1>2, <2>1 DEF Arena, FreeOK
    <2>3. /\ ref' \in Seq(Nat) /\ DOMAIN ref' = DOMAIN ref /\ ref'[x] = 1
          /\ \A t \in DOMAIN ref : t # x => ref'[t] = ref[t]
      BY <1>2, <2>1, <2>2
    <2>4. /\ free' \in Seq(Nat) /\ DOMAIN free' = 1 .. Len(free) - 1 /\ Len(free) \in Nat
          /\ DOMAIN free = 1 .. Len(free)
          /\ \A k \in 1 .. Len(free) - 1 : free'[k] = free[k + 1]
      BY <1>2, <1>3, <2>1
    <2>5. Counted'
      BY <1>1, <1>2, <2>2, <2>3 DEF Arena, Counted, Count
    <2>6. \A k \in DOMAIN free' : /\ k + 1 \in DOMAIN free /\ free'[k] = free[k + 1]
                                  /\ free'[k] # x
      <3> TAKE k \in DOMAIN free'
      <3>1. k + 1 \in DOMAIN free /\ free'[k] = free[k + 1] /\ k + 1 # 1
        BY <2>4
      <3> QED
        BY <3>1, <2>1 DEF Arena, FreeOK
    <2>7. \A j, k \in DOMAIN free' : free'[j] = free'[k] => j = k
      <3> SUFFICES ASSUME NEW j \in DOMAIN free', NEW k \in DOMAIN free', free'[j] = free'[k]
                   PROVE  j = k
        OBVIOUS
      <3>1. j + 1 = k + 1
        BY <2>6 DEF Arena, FreeOK
      <3> QED
        BY <3>1, <2>4
    <2>8. \A t \in Thread : (\E k \in DOMAIN free' : free'[k] = t)
                              <=> (t # x /\ \E k \in DOMAIN free : free[k] = t)
      <3> TAKE t \in Thread
      <3>1. ASSUME t # x, NEW k \in DOMAIN free, free[k] = t
            PROVE  \E l \in DOMAIN free' : free'[l] = t
        <4>1. k # 1
          BY <3>1, <2>1
        <4>2. k - 1 \in DOMAIN free' /\ free'[k - 1] = t
          BY <4>1, <3>1, <2>4
        <4> QED
          BY <4>2
      <3> QED
        BY <2>6, <3>1
    <2>9. FreeOK'
      <3>1. \A t \in Thread : (\E k \in DOMAIN free' : free'[k] = t)
                                <=> (t \in DOMAIN ref' /\ ref'[t] = 0)
        BY <2>2, <2>3, <2>8, SMTT(30) DEF Arena, FreeOK
      <3>2. \A k \in DOMAIN free' : free'[k] # NoThread
        BY <2>6 DEF Arena, FreeOK
      <3> QED
        BY <2>7, <3>1, <3>2 DEF FreeOK
    <2> QED
      BY <2>3, <2>4, <2>5, <2>9 DEF Arena
  <1>4. CASE free = << >>
    <2>1. free' = free /\ ref' = Append(ref, 1) /\ x = Len(ref) + 1
      BY <1>1, <1>4 DEF AllocThread, NewThread
    <2>2. /\ ref' \in Seq(Nat) /\ DOMAIN ref' = DOMAIN ref \cup {x} /\ ref'[x] = 1
          /\ x \notin DOMAIN ref
          /\ \A t \in DOMAIN ref : ref'[t] = ref[t]
      BY <1>2, <2>1
    <2>3. Counted'
      BY <1>1, <1>2, <2>2 DEF Arena, Counted, Count
    <2>4. FreeOK'
      BY <2>1, <2>2 DEF Arena, FreeOK
    <2> QED
      BY <1>2, <2>1, <2>2, <2>3, <2>4 DEF Arena
  <1> QED
    BY <1>3, <1>4
-----------------------------------------------------------------------------
(***************************************************************************)
(* What a well-formed program guarantees: whoever follows its instructions *)
(* stays among them.                                                       *)
(***************************************************************************)
LEMMA ProgramLeads ==
  ASSUME prog \in Progs
  PROVE  /\ Id \subseteq Nat /\ 0 \in Id /\ None \notin Id /\ prog.start \in Id
         /\ IsFiniteSet(Id)
         /\ \A n \in Id :
              /\ Inst(n).op \in {"byte", "cap", "empty", "nop"} => Inst(n).out \in Id
              /\ ~Inst(n).last => n + 1 \in Id
              /\ Inst(n).op = "altmatch" => n + 1 \in Id
              /\ Inst(n).op = "byte" /\ Inst(n).hint # 0 => n + Inst(n).hint \in Id
  <1> DEFINE m == Cardinality(Id)
  <1>1. WellFormed(prog)
    BY ProgsAssumption
  <1>2. IsFiniteSet(Id) /\ m \in Nat /\ m > 0 /\ Id = 0 .. m - 1 /\ prog.heads \in Seq(Id)
    BY <1>1, FS_CardinalityType DEF WellFormed, Id
  <1>3. Heads(prog) \subseteq Id
    BY <1>2 DEF Heads
  <1>4. prog.start \in Id /\ Id \subseteq Nat /\ 0 \in Id /\ None \notin Id
    BY <1>1, <1>2, <1>3 DEF WellFormed, None
  <1> HIDE DEF m
  <1>5. ASSUME NEW n \in Id
        PROVE  /\ Inst(n).op \in {"byte", "cap", "empty", "nop"} => Inst(n).out \in Id
               /\ ~Inst(n).last => n + 1 \in Id
               /\ Inst(n).op = "altmatch" => n + 1 \in Id
               /\ Inst(n).op = "byte" /\ Inst(n).hint # 0 => n + Inst(n).hint \in Id
    <2>1. InstOK(prog, n)
      BY <1>1 DEF WellFormed, Id
    <2>2. Inst(n).op \in {"byte", "cap", "empty", "nop"} => Inst(n).out \in Id
      BY <2>1, <1>3 DEF InstOK, Inst
    <2>3. ~Inst(n).last => n + 1 \in Id
      BY <2>1 DEF InstOK, Inst, Id
    <2>4. Inst(n).op = "altmatch" => n + 1 \in Id
      <3>1. Inst(n).op = "altmatch" => n + 2 \in Id
        BY <2>1 DEF InstOK, SameList, Inst, Id
      <3> QED
        BY <3>1, <1>2
    <2>5. Inst(n).op = "byte" /\ Inst(n).hint # 0 => n + Inst(n).hint \in Id
      BY <2>1 DEF InstOK, SameList, Inst, Id
    <2> QED
      BY <2>2, <2>3, <2>4, <2>5
  <1> QED
    BY <1>2, <1>4, <1>5

-----------------------------------------------------------------------------
(***************************************************************************)
(* AddToThreadq.                                                           *)
(***************************************************************************)
\* Who is owed what when an instruction enters nextq with thread x, or none.
LEMMA EnteredOwes ==
  ASSUME NTypes, at \in Nat, NEW x \in Nat, UNCHANGED <<pc, runq, i>>,
         nextq' = Append(nextq, Entry(at, x))
  PROVE  \A t \in Thread :
           Owed(t)' = From(runq, RunFrom, Holding(t))
                      + (Hold(nextq, Holding(t)) + (IF x = t THEN 1 ELSE 0))
                      + Hold(stk', Holding(t)) + (IF t0' = t THEN 1 ELSE 0)
  <1> TAKE t \in Thread
  <1>1. Entry(at, x) \in Entries /\ (Entry(at, x) \in Holding(t) <=> x = t)
    BY DEF Entry, Entries, Holding
  <1>2. Hold(nextq', Holding(t)) = Hold(nextq, Holding(t)) + (IF x = t THEN 1 ELSE 0)
    BY <1>1, HoldAppend DEF NTypes
  <1>3. RunFrom' = RunFrom
    BY DEF RunFrom
  <1> QED
    BY <1>2, <1>3 DEF Owed

\* The sum: what an instruction of operation op pays for is what it pushes.
LEMMA PushesArePaid ==
  ASSUME NEW l \in Nat, NEW m \in Nat, NEW cs \in Nat, NEW e \in Nat, NEW n \in Nat, NEW op,
         l <= 2 * cs + e + n,
         m <= l + (IF op = "cap" THEN 2 ELSE IF op \in {"empty", "nop"} THEN 1 ELSE 0)
  PROVE  m <= 2 * (cs + (IF op = "cap" THEN 1 ELSE 0)) + (e + (IF op = "empty" THEN 1 ELSE 0))
              + (n + (IF op = "nop" THEN 1 ELSE 0))
  <1>1. CASE op = "cap"
    BY <1>1
  <1>2. CASE op = "empty"
    BY <1>2
  <1>3. CASE op = "nop"
    BY <1>3
  <1>4. CASE op \notin {"cap", "empty", "nop"}
    BY <1>4
  <1> QED
    BY <1>1, <1>2, <1>3, <1>4, Zenon

\* An instruction enters nextq, with x, and pushes no more than it pays for.
LEMMA EnteredKeeps ==
  ASSUME NFAInv, pc = "add", at \in Id, ~HasIndex(nextq, at), NEW x \in Nat,
         UNCHANGED <<prog, pc, runq, i>>, nextq' = Append(nextq, Entry(at, x)),
         stk' \in Seq(Entries), \A k \in DOMAIN stk' : stk'[k].id \in Id,
         Len(stk') <= Len(stk) + (IF Inst(at).op = "cap" THEN 2
                                  ELSE IF Inst(at).op \in {"empty", "nop"} THEN 1 ELSE 0),
         t0' \in Thread, at' \in Id \cup {None}, Arena'
  PROVE  NFAInv'
  <1>1. Id \subseteq Nat /\ nextq \in Seq(Entries) /\ stk \in Seq(Entries)
    BY ProgramLeads DEF NFAInv, NTypes
  <1>2. Entry(at, x) \in Entries /\ Entry(at, x).id = at
    BY <1>1 DEF Entry, Entries
  <1>3. /\ nextq' \in Seq(Entries) /\ DOMAIN nextq' = 1 .. Len(nextq) + 1
        /\ DOMAIN nextq = 1 .. Len(nextq) /\ Len(nextq) \in Nat
        /\ \A k \in 1 .. Len(nextq) : nextq'[k] = nextq[k]
        /\ nextq'[Len(nextq) + 1].id = at
    BY <1>1, <1>2
  <1>4. NTypes'
    BY <1>3 DEF NFAInv, NTypes, Id, Arena, Thread
  <1>5. Where'
    BY DEF NFAInv, Where, Thread
  <1>6. QueuesOK'
    <2>1. Distinct(nextq)'
      BY <1>3 DEF NFAInv, QueuesOK, Distinct, HasIndex
    <2>2. \A k \in DOMAIN nextq' : nextq'[k].id \in Id
      BY <1>3 DEF NFAInv, QueuesOK
    <2> QED
      BY <2>1, <2>2 DEF NFAInv, QueuesOK, Distinct, Id
  <1>7. StackPaid'
    <2>1. \A op : Of(op)' = Of(op)
      BY DEF Of, Id, Inst
    <2>2. \A op : /\ Hold(nextq, Of(op)) \in Nat
                  /\ Hold(nextq, Of(op))' = Hold(nextq, Of(op))
                                              + (IF Inst(at).op = op THEN 1 ELSE 0)
      <3> TAKE op
      <3>1. Entry(at, x) \in Of(op) <=> Inst(at).op = op
        BY DEF Of, Entry
      <3>2. Hold(nextq', Of(op)) = Hold(nextq, Of(op)) + (IF Inst(at).op = op THEN 1 ELSE 0)
        BY <1>1, <1>2, <3>1, HoldAppend
      <3>3. Hold(nextq, Of(op))' = Hold(nextq', Of(op))
        BY <2>1 DEF Hold, From
      <3>4. Hold(nextq, Of(op)) \in Nat
        BY <1>1, FromIsNat DEF Hold
      <3>5. Hold(nextq, Of(op))' = Hold(nextq, Of(op)) + (IF Inst(at).op = op THEN 1 ELSE 0)
        BY <3>2, <3>3, Zenon
      <3> QED
        BY <3>4, <3>5, Zenon
    <2>3. Len(stk) \in Nat /\ Len(stk') \in Nat
      BY <1>1
    <2>4. PICK cs \in Nat, e \in Nat, n \in Nat :
            cs = Hold(nextq, Of("cap")) /\ e = Hold(nextq, Of("empty")) /\ n = Hold(nextq, Of("nop"))
      BY <2>2
    <2>5. /\ Hold(nextq, Of("cap"))' = cs + (IF Inst(at).op = "cap" THEN 1 ELSE 0)
          /\ Hold(nextq, Of("empty"))' = e + (IF Inst(at).op = "empty" THEN 1 ELSE 0)
          /\ Hold(nextq, Of("nop"))' = n + (IF Inst(at).op = "nop" THEN 1 ELSE 0)
      BY <2>2, <2>4
    <2>6. Len(stk) <= 2 * cs + e + n
      BY <2>4 DEF NFAInv, StackPaid
    <2>7. Len(stk') <= 2 * (cs + (IF Inst(at).op = "cap" THEN 1 ELSE 0))
                       + (e + (IF Inst(at).op = "empty" THEN 1 ELSE 0))
                       + (n + (IF Inst(at).op = "nop" THEN 1 ELSE 0))
      <3>1. PICK l, m, o : /\ l \in Nat /\ m \in Nat /\ l = Len(stk) /\ m = Len(stk')
                           /\ o = Inst(at).op
        BY <2>3
      <3>2. m <= l + (IF o = "cap" THEN 2 ELSE IF o \in {"empty", "nop"} THEN 1 ELSE 0)
        BY <3>1, Zenon
      <3>3. l <= 2 * cs + e + n
        BY <2>6, <3>1, Zenon
      <3>4. m <= 2 * (cs + (IF o = "cap" THEN 1 ELSE 0)) + (e + (IF o = "empty" THEN 1 ELSE 0))
                 + (n + (IF o = "nop" THEN 1 ELSE 0))
        <4>1. l \in Nat /\ m \in Nat
          BY <3>1, Zenon
        <4> QED
          BY <3>2, <3>3, <4>1, PushesArePaid
      <3> QED
        BY <3>1, <3>4, Zenon
    <2> QED
      BY <2>5, <2>7 DEF StackPaid
  <1> QED
    BY <1>4, <1>5, <1>6, <1>7 DEF NFAInv, Arena

\* One more entry on top of a stack.
LEMMA PutOnTop ==
  ASSUME NEW q \in Seq(Entries), NEW e \in Entries, NEW I, e.id \in I,
         \A k \in DOMAIN q : q[k].id \in I
  PROVE  /\ <<e>> \o q \in Seq(Entries) /\ Len(<<e>> \o q) = Len(q) + 1
         /\ \A k \in DOMAIN (<<e>> \o q) : (<<e>> \o q)[k].id \in I
  <1> DEFINE r == <<e>> \o q
  <1>1. /\ r \in Seq(Entries) /\ Len(r) = Len(q) + 1 /\ Len(q) \in Nat
        /\ DOMAIN r = 1 .. Len(q) + 1 /\ DOMAIN q = 1 .. Len(q)
        /\ r[1] = e
        /\ \A k \in 2 .. Len(q) + 1 : r[k] = q[k - 1]
    OBVIOUS
  <1> HIDE DEF r
  <1>2. ASSUME NEW k \in DOMAIN r PROVE r[k].id \in I
    <2>1. CASE k = 1
      BY <1>1, <2>1
    <2>2. CASE k # 1
      <3>1. k - 1 \in DOMAIN q /\ r[k] = q[k - 1]
        BY <1>1, <2>2
      <3> QED
        BY <3>1
    <2> QED
      BY <2>1, <2>2
  <1> QED
    BY <1>1, <1>2 DEF r

\* The stack with the rest of the list on it.
Below == (IF Inst(at).last THEN << >> ELSE <<Entry(at + 1, NoThread)>>) \o stk

\* PushRest puts the rest of the list on the stack, if there is one.
LEMMA PushRestPuts ==
  ASSUME NTypes, \A k \in DOMAIN stk : stk[k].id \in Id, at \in Id
  PROVE  /\ Below \in Seq(Entries) /\ Len(Below) <= Len(stk) + 1 /\ Len(Below) \in Nat
         /\ \A k \in DOMAIN Below : Below[k].id \in Id
         /\ \A t \in Thread : Hold(Below, Holding(t)) = Hold(stk, Holding(t))
         /\ PushRest(<< >>) => stk' = Below
         /\ \A e \in Entries : PushRest(<<e>>) => stk' = <<e>> \o Below
  <1>1. stk \in Seq(Entries) /\ Id \subseteq Nat /\ Len(stk) \in Nat
    BY ProgramLeads DEF NTypes
  <1>2. CASE Inst(at).last
    <2>1. Below = stk
      BY <1>1, <1>2, ConcatEmptySeq DEF Below
    <2>2. PushRest(<< >>) => stk' = stk
      BY <1>1, <1>2, ConcatEmptySeq, EmptySeq DEF PushRest
    <2>3. ASSUME NEW e \in Entries, PushRest(<<e>>)
          PROVE  stk' = <<e>> \o stk
      <3>1. <<e>> \in Seq(Entries) /\ <<e>> \o << >> = <<e>>
        BY ConcatEmptySeq
      <3> QED
        BY <1>2, <2>3, <3>1 DEF PushRest
    <2> QED
      BY <1>1, <2>1, <2>2, <2>3
  <1>3. CASE ~Inst(at).last
    <2> DEFINE e == Entry(at + 1, NoThread)
    <2>1. at + 1 \in Id
      BY <1>3, ProgramLeads DEF NTypes
    <2>2. e \in Entries /\ e.id \in Id /\ \A t \in Thread : e \notin Holding(t)
      BY <1>1, <2>1 DEF Entry, Entries, Holding, Thread, NoThread
    <2> HIDE DEF e
    <2>3. /\ <<e>> \o stk \in Seq(Entries) /\ Len(<<e>> \o stk) = Len(stk) + 1
          /\ \A k \in DOMAIN (<<e>> \o stk) : (<<e>> \o stk)[k].id \in Id
      BY <1>1, <2>2, PutOnTop
    <2>4. ASSUME NEW t \in Thread
          PROVE  Hold(<<e>> \o stk, Holding(t)) = Hold(stk, Holding(t))
      <3>1. Hold(<<e>> \o stk, Holding(t)) = Hold(stk, Holding(t)) + 0
        BY <1>1, <2>2, HoldCons
      <3>2. Hold(stk, Holding(t)) \in Nat
        BY <1>1, FromIsNat DEF Hold
      <3> QED
        BY <3>1, <3>2
    <2>5. Below = <<e>> \o stk
      BY <1>3 DEF Below, e
    <2>6. <<e>> \in Seq(Entries) /\ << >> \o <<e>> = <<e>>
      BY <2>2, ConcatEmptySeq
    <2>7. PushRest(<< >>) => stk' = Below
      BY <1>3, <2>5, <2>6 DEF PushRest, e
    <2>8. ASSUME NEW f \in Entries, PushRest(<<f>>)
          PROVE  stk' = <<f>> \o Below
      <3>1. <<f>> \in Seq(Entries)
        BY <2>8
      <3>2. stk' = (<<f>> \o <<e>>) \o stk
        BY <1>3, <2>8 DEF PushRest, e
      <3> QED
        BY <1>1, <2>5, <2>6, <3>1, <3>2, ConcatAssociative
    <2> QED
      <3>1. /\ Below \in Seq(Entries) /\ Len(Below) = Len(stk) + 1
            /\ \A k \in DOMAIN Below : Below[k].id \in Id
        BY <2>3, <2>5
      <3>2. Len(Below) <= Len(stk) + 1 /\ Len(Below) \in Nat
        BY <1>1, <3>1
      <3>3. \A t \in Thread : Hold(Below, Holding(t)) = Hold(stk, Holding(t))
        BY <2>4, <2>5
      <3> QED
        BY <2>7, <2>8, <3>1, <3>2, <3>3
  <1> QED
    BY <1>2, <1>3


\* Where AddToThreadq is when it processes an instruction.
LEMMA AddingIs ==
  ASSUME NFAInv, NEW op, Adding(op)
  PROVE  /\ pc = "add" /\ at \in Id /\ at \in Nat /\ ~HasIndex(nextq, at)
         /\ Inst(at).op = op
         /\ UNCHANGED <<prog, pc, runq, i>>
         /\ t0 \in Thread /\ Owed(t0) > 0
         /\ NTypes /\ Arena
         /\ nextq \in Seq(Entries) /\ stk \in Seq(Entries) /\ Len(stk) \in Nat
         /\ \A k \in DOMAIN stk : stk[k].id \in Id
         /\ \A t \in Thread : Owed(t) \in Nat
  <1>1. /\ pc = "add" /\ at \in Id /\ ~HasIndex(nextq, at) /\ Inst(at).op = op
        /\ UNCHANGED <<prog, pc, runq, i>>
    BY DEF NFAInv, NTypes, Adding
  <1>2. t0 \in Thread
    BY <1>1 DEF NFAInv, NTypes, Where, Thread
  <1>3. NTypes /\ Arena
    BY DEF NFAInv, Arena, NTypes
  <1>4. Owed(t0) > 0
    BY <1>3, OwedIsNat DEF Owed
  <1>5. \A t \in Thread : Owed(t) \in Nat
    BY <1>3, OwedIsNat
  <1>6. at \in Nat
    BY <1>1, <1>3, ProgramLeads DEF NTypes
  <1> QED
    BY <1>1, <1>2, <1>3, <1>4, <1>5, <1>6 DEF NFAInv, NTypes, QueuesOK

\* The instruction enters the queue with t0, which goes on to be held here.
LEMMA WithThreadKeeps ==
  ASSUME NFAInv, NEW op, Adding(op), AddEntry(t0), Incref(t0), UNCHANGED <<free, stk, t0>>,
         at' \in Id \cup {None}
  PROVE  NFAInv'
  <1>1. PICK x : x = t0
    OBVIOUS
  <1>2. /\ x \in Thread /\ x \in Nat /\ Owed(x) > 0 /\ Incref(x) /\ t0' = x
        /\ nextq' = Append(nextq, Entry(at, x))
    BY <1>1, AddingIs DEF Thread, AddEntry
  <1>3. \A t \in Thread : Owed(t)' = Owed(t) + (IF t = x THEN 1 ELSE 0)
    <2> TAKE t \in Thread
    <2>1. Owed(t)' = From(runq, RunFrom, Holding(t))
                     + (Hold(nextq, Holding(t)) + (IF x = t THEN 1 ELSE 0))
                     + Hold(stk, Holding(t)) + (IF t0 = t THEN 1 ELSE 0)
      BY <1>1, <1>2, AddingIs, EnteredOwes
    <2>2. /\ From(runq, RunFrom, Holding(t)) \in Nat
          /\ Hold(nextq, Holding(t)) \in Nat /\ Hold(stk, Holding(t)) \in Nat
      BY AddingIs, OwedIsNat
    <2> QED
      BY <2>1, <2>2 DEF Owed
  <1>4. Arena'
    BY <1>2, <1>3, AddingIs, IncrefKeeps
  <1>5. Len(stk') <= Len(stk) + (IF Inst(at).op = "cap" THEN 2
                                 ELSE IF Inst(at).op \in {"empty", "nop"} THEN 1 ELSE 0)
    BY AddingIs
  <1> QED
    BY <1>1, <1>2, <1>4, <1>5, AddingIs, EnteredKeeps

\* The instruction enters the queue with no thread and pushes the rest of its list.
LEMMA PushingKeeps ==
  ASSUME NFAInv, NEW op \in {"cap", "empty", "nop"}, Adding(op), AddEntry(NoThread),
         PushRest(<< >>), UNCHANGED <<ref, free, t0>>, at' \in Id \cup {None}
  PROVE  NFAInv'
  <1>1. nextq' = Append(nextq, Entry(at, NoThread)) /\ NoThread \in Nat
    BY DEF AddEntry, NoThread
  <1>2. /\ stk' \in Seq(Entries) /\ Len(stk') <= Len(stk) + 1 /\ Len(stk') \in Nat
        /\ \A k \in DOMAIN stk' : stk'[k].id \in Id
        /\ \A t \in Thread : Hold(stk', Holding(t)) = Hold(stk, Holding(t))
    BY AddingIs, PushRestPuts
  <1>3. \A t \in Thread : Owed(t)' = Owed(t)
    <2> TAKE t \in Thread
    <2>1. Owed(t)' = From(runq, RunFrom, Holding(t))
                     + (Hold(nextq, Holding(t)) + (IF NoThread = t THEN 1 ELSE 0))
                     + Hold(stk', Holding(t)) + (IF t0' = t THEN 1 ELSE 0)
      BY <1>1, AddingIs, EnteredOwes
    <2>2. /\ From(runq, RunFrom, Holding(t)) \in Nat
          /\ Hold(nextq, Holding(t)) \in Nat /\ Hold(stk, Holding(t)) \in Nat
      BY AddingIs, OwedIsNat
    <2>3. NoThread # t
      BY DEF Thread
    <2> QED
      BY <1>2, <2>1, <2>2, <2>3 DEF Owed
  <1>4. Arena'
    BY <1>3, AddingIs, SameKeeps
  <1>5. Len(stk') <= Len(stk) + (IF Inst(at).op = "cap" THEN 2
                                 ELSE IF Inst(at).op \in {"empty", "nop"} THEN 1 ELSE 0)
    BY <1>2, AddingIs
  <1>6. t0' \in Thread
    BY AddingIs
  <1> QED
    BY <1>1, <1>2, <1>4, <1>5, <1>6, AddingIs, EnteredKeeps

LEMMA AddNopKeeps == NFAInv /\ AddNop => NFAInv'
  <1> SUFFICES ASSUME NFAInv, AddNop PROVE NFAInv'
    OBVIOUS
  <1>1. Adding("nop") /\ AddEntry(NoThread) /\ PushRest(<< >>) /\ UNCHANGED <<ref, free, t0>>
    BY DEF AddNop, arena
  <1>2. at' \in Id
    BY <1>1, AddingIs, ProgramLeads DEF AddNop, NTypes
  <1> QED
    BY <1>1, <1>2, PushingKeeps

LEMMA AddEmptyWidthKeeps == NFAInv /\ AddEmptyWidth => NFAInv'
  <1> SUFFICES ASSUME NFAInv, AddEmptyWidth PROVE NFAInv'
    OBVIOUS
  <1>1. Adding("empty") /\ AddEntry(NoThread) /\ PushRest(<< >>) /\ UNCHANGED <<ref, free, t0>>
    BY DEF AddEmptyWidth, arena
  <1>2. at' \in Id \cup {None}
    BY <1>1, AddingIs, ProgramLeads DEF AddEmptyWidth, NTypes
  <1> QED
    BY <1>1, <1>2, PushingKeeps

LEMMA AddAltMatchKeeps == NFAInv /\ AddAltMatch => NFAInv'
  <1> SUFFICES ASSUME NFAInv, AddAltMatch PROVE NFAInv'
    OBVIOUS
  <1>1. Adding("altmatch") /\ AddEntry(t0) /\ Incref(t0) /\ UNCHANGED <<free, stk, t0>>
    BY DEF AddAltMatch
  <1>2. at' \in Id
    BY <1>1, AddingIs, ProgramLeads DEF AddAltMatch, NTypes
  <1> QED
    BY <1>1, <1>2, WithThreadKeeps

\* After an instruction that is not the last of its list comes another.
LEMMA AfterThisLeads ==
  ASSUME NFAInv, NEW op, Adding(op)
  PROVE  AfterThis \in Id \cup {None}
  BY AddingIs, ProgramLeads DEF AfterThis, NTypes

LEMMA AddMatchKeeps == NFAInv /\ AddMatch => NFAInv'
  <1> SUFFICES ASSUME NFAInv, AddMatch PROVE NFAInv'
    OBVIOUS
  <1>1. Adding("match") /\ AddEntry(t0) /\ Incref(t0) /\ UNCHANGED <<free, stk, t0>>
    BY DEF AddMatch
  <1>2. at' \in Id \cup {None}
    BY <1>1, AfterThisLeads DEF AddMatch
  <1> QED
    BY <1>1, <1>2, WithThreadKeeps

LEMMA AddByteRangeKeeps == NFAInv /\ AddByteRange => NFAInv'
  <1> SUFFICES ASSUME NFAInv, AddByteRange PROVE NFAInv'
    OBVIOUS
  <1>1. Adding("byte") /\ UNCHANGED <<free, stk, t0>>
    BY DEF AddByteRange
  <1>2. CASE Matches(Inst(at), c)
    <2>1. AddEntry(t0) /\ Incref(t0)
      BY <1>2 DEF AddByteRange
    <2>2. at' \in Id \cup {None}
      BY <1>1, <1>2, AddingIs, ProgramLeads DEF AddByteRange, NTypes
    <2> QED
      BY <1>1, <2>1, <2>2, WithThreadKeeps
  <1>3. CASE ~Matches(Inst(at), c)
    <2>1. AddEntry(NoThread) /\ UNCHANGED ref /\ at' = AfterThis
      BY <1>3 DEF AddByteRange
    <2>2. nextq' = Append(nextq, Entry(at, NoThread)) /\ NoThread \in Nat
      BY <2>1 DEF AddEntry, NoThread
    <2>3. \A t \in Thread : Owed(t)' = Owed(t)
      <3> TAKE t \in Thread
      <3>1. Owed(t)' = From(runq, RunFrom, Holding(t))
                       + (Hold(nextq, Holding(t)) + (IF NoThread = t THEN 1 ELSE 0))
                       + Hold(stk, Holding(t)) + (IF t0 = t THEN 1 ELSE 0)
        BY <1>1, <2>2, AddingIs, EnteredOwes
      <3>2. /\ From(runq, RunFrom, Holding(t)) \in Nat
            /\ Hold(nextq, Holding(t)) \in Nat /\ Hold(stk, Holding(t)) \in Nat
        BY <1>1, AddingIs, OwedIsNat
      <3>3. NoThread # t
        BY DEF Thread
      <3> QED
        BY <3>1, <3>2, <3>3 DEF Owed
    <2>4. Arena'
      BY <1>1, <2>1, <2>3, AddingIs, SameKeeps
    <2>5. at' \in Id \cup {None}
      BY <1>1, <2>1, AfterThisLeads
    <2>6. /\ stk' \in Seq(Entries) /\ \A k \in DOMAIN stk' : stk'[k].id \in Id
          /\ t0' \in Thread
          /\ Len(stk') <= Len(stk) + (IF Inst(at).op = "cap" THEN 2
                                      ELSE IF Inst(at).op \in {"empty", "nop"} THEN 1 ELSE 0)
      BY <1>1, AddingIs
    <2> QED
      BY <1>1, <2>2, <2>4, <2>5, <2>6, AddingIs, EnteredKeeps
  <1> QED
    BY <1>2, <1>3

\* A capture is recorded in a new thread; the dummy on the stack keeps the old.
LEMMA AddCaptureKeeps == NFAInv /\ AddCapture => NFAInv'
  <1> SUFFICES ASSUME NFAInv, AddCapture PROVE NFAInv'
    OBVIOUS
  <1>1. Adding("cap") /\ AddEntry(NoThread)
    BY DEF AddCapture
  <1>2. at' \in Id
    BY <1>1, AddingIs, ProgramLeads DEF AddCapture, NTypes
  <1>3. CASE ~(Inst(at).cap < NCapture)
    <2>1. PushRest(<< >>) /\ UNCHANGED <<ref, free, t0>>
      BY <1>3 DEF AddCapture, arena
    <2> QED
      BY <1>1, <1>2, <2>1, PushingKeeps
  <1>4. CASE Inst(at).cap < NCapture
    <2>1. PICK x : x = t0
      OBVIOUS
    <2>2. PICK y : y = NewThread
      OBVIOUS
    <2>3. /\ AllocThread([caps[t0] EXCEPT ![Inst(at).cap] = p])
          /\ PushRest(<<Entry(0, x)>>) /\ t0' = y
      BY <1>4, <2>1, <2>2 DEF AddCapture
    <2>4. x \in Thread /\ y \in Thread /\ x \in Nat
      BY <1>1, <2>1, <2>2, AddingIs, NewIsNobodys DEF Thread
    <2>5. Entry(0, x) \in Entries /\ Entry(0, x).id = 0 /\ 0 \in Id
      BY <1>1, <2>4, AddingIs, ProgramLeads DEF Entry, Entries, NTypes
    <2>6. /\ Below \in Seq(Entries) /\ Len(Below) <= Len(stk) + 1 /\ Len(Below) \in Nat
          /\ \A k \in DOMAIN Below : Below[k].id \in Id
          /\ \A t \in Thread : Hold(Below, Holding(t)) = Hold(stk, Holding(t))
          /\ stk' = <<Entry(0, x)>> \o Below
      BY <1>1, <2>3, <2>5, AddingIs, PushRestPuts
    <2>7. /\ stk' \in Seq(Entries) /\ Len(stk') = Len(Below) + 1
          /\ \A k \in DOMAIN stk' : stk'[k].id \in Id
      BY <2>5, <2>6, PutOnTop
    <2>8. nextq' = Append(nextq, Entry(at, NoThread)) /\ NoThread \in Nat
      BY <1>1 DEF AddEntry, NoThread
    <2>9. \A t \in Thread : Owed(t)' = Owed(t) + (IF t = y THEN 1 ELSE 0)
      <3> TAKE t \in Thread
      <3>1. Owed(t)' = From(runq, RunFrom, Holding(t))
                       + (Hold(nextq, Holding(t)) + (IF NoThread = t THEN 1 ELSE 0))
                       + Hold(stk', Holding(t)) + (IF t0' = t THEN 1 ELSE 0)
        BY <1>1, <2>8, AddingIs, EnteredOwes
      <3>2. /\ From(runq, RunFrom, Holding(t)) \in Nat
            /\ Hold(nextq, Holding(t)) \in Nat /\ Hold(stk, Holding(t)) \in Nat
        BY <1>1, AddingIs, OwedIsNat
      <3>3. Hold(stk', Holding(t)) = Hold(stk, Holding(t)) + (IF x = t THEN 1 ELSE 0)
        <4>1. Entry(0, x) \in Holding(t) <=> x = t
          BY DEF Entry, Holding
        <4>2. Hold(stk', Holding(t)) = Hold(Below, Holding(t))
                                         + (IF Entry(0, x) \in Holding(t) THEN 1 ELSE 0)
          BY <2>5, <2>6, HoldCons
        <4> QED
          BY <2>6, <4>1, <4>2
      <3>4. NoThread # t
        BY DEF Thread
      <3> QED
        BY <2>1, <2>3, <3>1, <3>2, <3>3, <3>4 DEF Owed
    <2>10. Arena'
      <3>1. \A t \in Thread : Owed(t)' = Owed(t) + (IF t = NewThread THEN 1 ELSE 0)
        BY <2>2, <2>9
      <3> QED
        BY <1>1, <2>3, <3>1, AddingIs, AllocKeeps
    <2>11. /\ t0' \in Thread
           /\ Len(stk') <= Len(stk) + (IF Inst(at).op = "cap" THEN 2
                                       ELSE IF Inst(at).op \in {"empty", "nop"} THEN 1 ELSE 0)
      BY <1>1, <2>3, <2>4, <2>6, <2>7, AddingIs
    <2> QED
      BY <1>1, <1>2, <2>7, <2>8, <2>10, <2>11, AddingIs, EnteredKeeps
  <1> QED
    BY <1>3, <1>4

LEMMA InvIs ==
  ASSUME NFAInv
  PROVE  /\ NTypes /\ Arena
         /\ runq \in Seq(Entries) /\ nextq \in Seq(Entries) /\ stk \in Seq(Entries)
         /\ Len(runq) \in Nat /\ i \in Nat
         /\ \A t \in Thread : Owed(t) \in Nat
  BY OwedIsNat DEF NFAInv, Arena, NTypes

\* A stack that grows no further stays paid for, and an empty one costs nothing.
LEMMA PaidKeeps ==
  ASSUME NTypes, StackPaid, UNCHANGED <<prog, nextq>>, stk' \in Seq(Entries),
         Len(stk') <= Len(stk)
  PROVE  StackPaid'
  <1>1. \A op : Of(op)' = Of(op)
    BY DEF Of, Id, Inst
  <1>2. \A op : Hold(nextq, Of(op)) \in Nat /\ Hold(nextq, Of(op))' = Hold(nextq, Of(op))
    BY <1>1, FromIsNat DEF NTypes, Hold, From
  <1>3. Len(stk) \in Nat /\ Len(stk') \in Nat
    BY DEF NTypes
  <1> QED
    BY <1>2, <1>3 DEF StackPaid

LEMMA NothingToPay ==
  ASSUME nextq' \in Seq(Entries), stk' = << >>
  PROVE  StackPaid'
  <1>1. \A S : Hold(nextq', S) \in Nat
    BY FromIsNat DEF Hold
  <1>2. \A op : Hold(nextq, Of(op))' \in Nat
    BY <1>1 DEF Hold
  <1>3. Len(stk') = 0
    OBVIOUS
  <1> QED
    BY <1>2, <1>3 DEF StackPaid

LEMMA AddPopKeeps == NFAInv /\ AddPop => NFAInv'
  <1> SUFFICES ASSUME NFAInv, AddPop PROVE NFAInv'
    OBVIOUS
  <1>1. PICK x, y : x = t0 /\ y = Head(stk).t
    OBVIOUS
  <1>2. /\ stk # << >> /\ pc = "add" /\ stk' = Tail(stk) /\ at' = Head(stk).id
        /\ UNCHANGED <<prog, pc, runq, i, nextq>>
    BY DEF AddPop
  <1>3. /\ x \in Thread /\ Head(stk) \in Entries /\ y \in Nat /\ Head(stk) = stk[1]
        /\ stk' \in Seq(Entries) /\ Len(stk') = Len(stk) - 1 /\ Len(stk) \in Nat
        /\ 1 \in DOMAIN stk
        /\ \A k \in DOMAIN stk' : k + 1 \in DOMAIN stk /\ stk'[k] = stk[k + 1]
    <2>1. x \in Thread
      BY <1>1, <1>2 DEF NFAInv, NTypes, Where, Thread
    <2>2. /\ stk \in Seq(Entries) /\ Len(stk) \in Nat /\ Len(stk) > 0
          /\ DOMAIN stk = 1 .. Len(stk) /\ Head(stk) = stk[1]
      BY <1>2, InvIs
    <2>3. Head(stk) \in Entries /\ y \in Nat
      <3>1. 1 \in 1 .. Len(stk)
        BY <2>2
      <3>2. stk[1] \in Entries
        BY <2>2, <3>1
      <3> QED
        BY <1>1, <2>2, <3>2 DEF Entries
    <2>4. /\ stk' \in Seq(Entries) /\ Len(stk') = Len(stk) - 1
          /\ DOMAIN stk' = 1 .. Len(stk) - 1
          /\ \A k \in 1 .. Len(stk) - 1 : stk'[k] = stk[k + 1]
      BY <1>2, <2>2
    <2> QED
      BY <2>1, <2>2, <2>3, <2>4
  <1>4. NTypes' /\ Where' /\ QueuesOK' /\ Arena'
    <2>1. at' \in Id /\ \A k \in DOMAIN stk' : stk'[k].id \in Id
      BY <1>2, <1>3 DEF NFAInv, QueuesOK
    <2>2. t0' \in Thread
      BY <1>1, <1>3 DEF AddPop, Thread
    <2>3. Arena'
      <3>1. \A t \in Thread :
              Owed(t)' = From(runq, RunFrom, Holding(t)) + Hold(nextq, Holding(t))
                         + (Hold(stk, Holding(t)) - (IF y = t THEN 1 ELSE 0))
                         + (IF t0' = t THEN 1 ELSE 0)
        <4> TAKE t \in Thread
        <4>1. Head(stk) \in Holding(t) <=> y = t
          BY <1>1, <1>3 DEF Holding, Entries
        <4>2. Hold(stk, Holding(t)) = Hold(stk', Holding(t)) + (IF y = t THEN 1 ELSE 0)
          BY <1>2, <4>1, InvIs, HoldTail
        <4>3. Hold(stk', Holding(t)) \in Nat
          BY <1>3, FromIsNat DEF Hold
        <4>4. Hold(stk', Holding(t)) = Hold(stk, Holding(t)) - (IF y = t THEN 1 ELSE 0)
          BY <4>2, <4>3
        <4>5. RunFrom' = RunFrom
          BY <1>2 DEF RunFrom
        <4> QED
          BY <1>2, <4>4, <4>5 DEF Owed
      <3>2. \A t \in Thread : /\ From(runq, RunFrom, Holding(t)) \in Nat
                              /\ Hold(nextq, Holding(t)) \in Nat
                              /\ Hold(stk, Holding(t)) \in Nat
        BY InvIs, OwedIsNat
      <3>3. CASE y # NoThread
        <4>1. Decref(x) /\ t0' = y
          BY <1>1, <3>3 DEF AddPop
        <4>2. \A t \in Thread : Owed(t)' = Owed(t) - (IF t = x THEN 1 ELSE 0)
          BY <1>1, <3>1, <3>2, <4>1 DEF Owed
        <4>3. Owed(x) > 0
          BY <1>1, <1>3, <3>2 DEF Owed
        <4> QED
          BY <1>3, <4>1, <4>2, <4>3, InvIs, DecrefKeeps
      <3>4. CASE y = NoThread
        <4>1. UNCHANGED <<ref, free, t0>>
          BY <1>1, <3>4 DEF AddPop
        <4>2. \A t \in Thread : y # t
          BY <3>4 DEF Thread
        <4>3. \A t \in Thread : Owed(t)' = Owed(t)
          BY <3>1, <3>2, <4>1, <4>2 DEF Owed
        <4> QED
          BY <4>1, <4>3, InvIs, SameKeeps
      <3> QED
        BY <3>3, <3>4
    <2>4. NTypes'
      BY <1>2, <1>3, <2>1, <2>2, <2>3 DEF NFAInv, NTypes, Arena, Thread, Id
    <2>5. Where'
      BY <1>2, <2>2 DEF NFAInv, Where, Thread
    <2>6. QueuesOK'
      BY <1>2, <2>1 DEF NFAInv, QueuesOK, Distinct, Id
    <2> QED
      BY <2>3, <2>4, <2>5, <2>6
  <1>5. StackPaid'
    <2>1. Len(stk') <= Len(stk)
      BY <1>3
    <2> QED
      BY <1>2, <1>3, <2>1, PaidKeeps DEF NFAInv
  <1> QED
    BY <1>4, <1>5 DEF NFAInv, Arena

LEMMA AddSeenKeeps == NFAInv /\ AddSeen => NFAInv'
  <1> SUFFICES ASSUME NFAInv, AddSeen PROVE NFAInv'
    OBVIOUS
  <1>1. at' = None /\ UNCHANGED <<prog, pc, runq, i, nextq, ref, free, stk, t0>>
    BY DEF AddSeen, arena
  <1>2. \A t \in Thread : Owed(t)' = Owed(t)
    BY <1>1 DEF Owed, RunFrom, From, Hold
  <1>3. Arena'
    BY <1>1, <1>2, InvIs, SameKeeps
  <1>4. NTypes' /\ Where' /\ QueuesOK'
    BY <1>1, <1>3 DEF NFAInv, NTypes, Where, QueuesOK, Distinct, Id
  <1>5. StackPaid'
    BY <1>1, InvIs, PaidKeeps DEF NFAInv
  <1> QED
    BY <1>3, <1>4, <1>5 DEF NFAInv, Arena

\* AddToThreadq is done: its own hold on t0 ends, and Step passes on.
LEMMA AddDoneKeeps == NFAInv /\ AddDone => NFAInv'
  <1> SUFFICES ASSUME NFAInv, AddDone PROVE NFAInv'
    OBVIOUS
  <1>1. PICK x : x = t0
    OBVIOUS
  <1>2. /\ pc = "add" /\ stk = << >> /\ t0' = NoThread /\ Decref(x)
        /\ UNCHANGED <<prog, runq, nextq, stk, at>>
        /\ IF i = 0 THEN pc' = "spawned" /\ i' = i ELSE pc' = "step" /\ i' = i + 1
    BY <1>1 DEF AddDone
  <1>3. x \in Thread
    BY <1>1, <1>2 DEF NFAInv, NTypes, Where, Thread
  <1>4. RunFrom' = RunFrom
    BY <1>2, InvIs DEF RunFrom
  <1>5. \A t \in Thread : Owed(t)' = Owed(t) - (IF t = x THEN 1 ELSE 0)
    <2> TAKE t \in Thread
    <2>1. Owed(t)' = From(runq, RunFrom, Holding(t)) + Hold(nextq, Holding(t))
                     + Hold(stk, Holding(t))
      <3>1. NoThread # t
        BY DEF Thread
      <3>2. /\ From(runq, RunFrom, Holding(t)) \in Nat
            /\ Hold(nextq, Holding(t)) \in Nat /\ Hold(stk, Holding(t)) \in Nat
        BY InvIs, OwedIsNat
      <3> QED
        BY <1>2, <1>4, <3>1, <3>2 DEF Owed
    <2>2. /\ From(runq, RunFrom, Holding(t)) \in Nat
          /\ Hold(nextq, Holding(t)) \in Nat /\ Hold(stk, Holding(t)) \in Nat
      BY InvIs, OwedIsNat
    <2> QED
      BY <1>1, <2>1, <2>2 DEF Owed
  <1>6. Owed(x) > 0
    BY <1>1, <1>3, InvIs, OwedIsNat DEF Owed
  <1>7. Arena'
    BY <1>2, <1>3, <1>5, <1>6, InvIs, DecrefKeeps
  <1>8. NTypes' /\ Where' /\ QueuesOK'
    <2>1. NTypes'
      BY <1>2, <1>7 DEF NFAInv, NTypes, Arena, Id, NoThread
    <2>2. Where'
      BY <1>2, InvIs DEF NFAInv, Where
    <2>3. QueuesOK'
      BY <1>2 DEF NFAInv, QueuesOK, Distinct, Id
    <2> QED
      BY <2>1, <2>2, <2>3
  <1>9. StackPaid'
    BY <1>2, InvIs, NothingToPay
  <1> QED
    BY <1>7, <1>8, <1>9 DEF NFAInv, Arena

-----------------------------------------------------------------------------
(***************************************************************************)
(* Step.                                                                   *)
(***************************************************************************)
LEMMA RunningIs ==
  ASSUME NFAInv, pc \in {"step", "cut"}, i <= Len(runq)
  PROVE  /\ i \in 1 .. Len(runq) /\ i # 0 /\ RunFrom = i
         /\ runq[i] \in Entries /\ T \in Nat /\ runq[i].id \in Id
         /\ t0 = NoThread /\ stk = << >>
         /\ \A t \in Thread :
              /\ From(runq, i + 1, Holding(t)) \in Nat
              /\ From(runq, i, Holding(t)) = From(runq, i + 1, Holding(t))
                                             + (IF T = t THEN 1 ELSE 0)
  <1>1. /\ i # 0 /\ t0 = NoThread /\ stk = << >>
    BY DEF NFAInv, Where
  <1>2. i \in 1 .. Len(runq) /\ runq \in Seq(Entries) /\ i \in DOMAIN runq
    BY <1>1, InvIs
  <1>3. runq[i] \in Entries /\ RunFrom = i /\ runq[i].id \in Id
    BY <1>1, <1>2 DEF RunFrom, NFAInv, QueuesOK
  <1>4. T \in Nat
    BY <1>3 DEF T, Entries
  <1>5. ASSUME NEW t \in Thread
        PROVE  /\ From(runq, i + 1, Holding(t)) \in Nat
               /\ From(runq, i, Holding(t)) = From(runq, i + 1, Holding(t))
                                              + (IF T = t THEN 1 ELSE 0)
    <2>1. From(runq, i, Holding(t)) = From(runq, i + 1, Holding(t))
                                      + (IF runq[i] \in Holding(t) THEN 1 ELSE 0)
      BY <1>2, FromStep
    <2>2. runq[i] \in Holding(t) <=> T = t
      BY <1>3 DEF Holding, Entries, T
    <2> QED
      BY <1>2, <2>1, <2>2, FromIsNat
  <1> QED
    BY <1>1, <1>2, <1>3, <1>4, <1>5

\* Entry i of runq is done with: its thread is released and the next one is run.
LEMMA NextKeeps ==
  ASSUME NFAInv, pc \in {"step", "cut"}, i <= Len(runq), Next_i,
         pc' \in {"step", "cut"}, UNCHANGED <<prog, runq, nextq, adding>>,
         T # NoThread => Decref(T), T = NoThread => UNCHANGED <<ref, free>>
  PROVE  NFAInv'
  <1>1. PICK x : x = T
    OBVIOUS
  <1>2. /\ i' = i + 1 /\ i \in Nat /\ i # 0 /\ i' # 0 /\ i' <= Len(runq) + 1
        /\ UNCHANGED <<prog, runq, nextq, stk, at, t0>>
    BY InvIs, RunningIs DEF Next_i, adding
  <1>3. RunFrom = i /\ RunFrom' = i + 1
    BY <1>2, RunningIs DEF RunFrom
  <1>4. \A t \in Thread : Owed(t)' = Owed(t) - (IF x = t THEN 1 ELSE 0)
    <2> TAKE t \in Thread
    <2>1. Owed(t)' = From(runq, i + 1, Holding(t)) + Hold(nextq, Holding(t))
                     + Hold(stk, Holding(t)) + (IF t0 = t THEN 1 ELSE 0)
      BY <1>2, <1>3 DEF Owed
    <2>2. /\ From(runq, i + 1, Holding(t)) \in Nat
          /\ From(runq, i, Holding(t)) = From(runq, i + 1, Holding(t))
                                         + (IF x = t THEN 1 ELSE 0)
      BY <1>1, RunningIs
    <2>3. Hold(nextq, Holding(t)) \in Nat /\ Hold(stk, Holding(t)) \in Nat
      BY InvIs, OwedIsNat
    <2> QED
      BY <1>3, <2>1, <2>2, <2>3 DEF Owed
  <1>5. Arena'
    <2>1. CASE x = NoThread
      <3>1. \A t \in Thread : x # t
        BY <2>1 DEF Thread
      <3>2. \A t \in Thread : Owed(t)' = Owed(t)
        BY <1>4, <3>1, InvIs
      <3> QED
        BY <1>1, <2>1, <3>2, InvIs, SameKeeps
    <2>2. CASE x # NoThread
      <3>1. x \in Thread /\ Decref(x)
        BY <1>1, <2>2, RunningIs DEF Thread
      <3>2. \A t \in Thread : Owed(t)' = Owed(t) - (IF t = x THEN 1 ELSE 0)
        BY <1>4
      <3>3. Owed(x) > 0
        <4>1. Owed(x) = From(runq, i, Holding(x)) + Hold(nextq, Holding(x))
                        + Hold(stk, Holding(x)) + (IF t0 = x THEN 1 ELSE 0)
          BY <1>3 DEF Owed
        <4>2. /\ From(runq, i + 1, Holding(x)) \in Nat
              /\ From(runq, i, Holding(x)) = From(runq, i + 1, Holding(x)) + 1
          BY <1>1, <3>1, RunningIs
        <4>3. Hold(nextq, Holding(x)) \in Nat /\ Hold(stk, Holding(x)) \in Nat
          BY InvIs, OwedIsNat
        <4> QED
          BY <4>1, <4>2, <4>3
      <3>4. NTypes /\ Arena /\ \A t \in Thread : Owed(t) \in Nat
        BY InvIs, OwedIsNat
      <3> QED
        BY <3>1, <3>2, <3>3, <3>4, DecrefKeeps
    <2> QED
      BY <2>1, <2>2
  <1>6. NTypes'
    BY <1>2, <1>5 DEF NFAInv, NTypes, Arena, Id
  <1>7. Where'
    BY <1>2, RunningIs DEF NFAInv, Where
  <1>8. QueuesOK'
    BY <1>2 DEF NFAInv, QueuesOK, Distinct, Id
  <1>9. StackPaid'
    BY <1>2, InvIs, NothingToPay, RunningIs
  <1> QED
    BY <1>5, <1>6, <1>7, <1>8, <1>9 DEF NFAInv, Arena

LEMMA StepKeeps ==
  NFAInv /\ (StepEmpty \/ StepSkip \/ StepAltMatch \/ StepMatch \/ CutOff) => NFAInv'
  <1> SUFFICES ASSUME NFAInv, StepEmpty \/ StepSkip \/ StepAltMatch \/ StepMatch \/ CutOff
               PROVE  NFAInv'
    OBVIOUS
  <1>1. /\ pc \in {"step", "cut"} /\ i <= Len(runq) /\ Next_i
        /\ UNCHANGED <<prog, runq, nextq, adding>>
    BY DEF StepEmpty, StepSkip, StepAltMatch, StepMatch, CutOff, Running, Stepping
  <1>2. pc' \in {"step", "cut"}
    BY <1>1 DEF StepEmpty, StepSkip, StepAltMatch, StepMatch, CutOff, Running, Stepping
  <1>3. (T # NoThread => Decref(T)) /\ (T = NoThread => UNCHANGED <<ref, free>>)
    BY DEF StepEmpty, StepSkip, StepAltMatch, StepMatch, CutOff, Running, Stepping
  <1> QED
    BY <1>1, <1>2, <1>3, NextKeeps

\* The thread of entry i goes to AddToThreadq, which holds it in its place.
LEMMA StepByteRangeKeeps == NFAInv /\ StepByteRange => NFAInv'
  <1> SUFFICES ASSUME NFAInv, StepByteRange PROVE NFAInv'
    OBVIOUS
  <1>1. /\ pc = "step" /\ i <= Len(runq) /\ T # NoThread /\ Inst(runq[i].id).op = "byte"
        /\ pc' = "add" /\ at' = Inst(runq[i].id).out /\ t0' = T /\ stk' = << >>
        /\ UNCHANGED <<prog, runq, i, nextq, ref, free>>
    BY DEF StepByteRange, Stepping, Running, StartAdd
  <1>2. RunFrom = i /\ RunFrom' = i + 1
    BY <1>1, RunningIs DEF RunFrom
  <1>3. \A t \in Thread : Owed(t)' = Owed(t)
    <2> TAKE t \in Thread
    <2>1. Owed(t)' = From(runq, i + 1, Holding(t)) + Hold(nextq, Holding(t))
                     + Hold(<< >>, Holding(t)) + (IF T = t THEN 1 ELSE 0)
      BY <1>1, <1>2 DEF Owed
    <2>2. /\ From(runq, i + 1, Holding(t)) \in Nat
          /\ From(runq, i, Holding(t)) = From(runq, i + 1, Holding(t))
                                         + (IF T = t THEN 1 ELSE 0)
          /\ stk = << >> /\ t0 = NoThread
      BY <1>1, RunningIs
    <2>3. Hold(nextq, Holding(t)) \in Nat /\ Hold(stk, Holding(t)) \in Nat /\ NoThread # t
      BY InvIs, OwedIsNat DEF Thread
    <2> QED
      BY <1>2, <2>1, <2>2, <2>3 DEF Owed
  <1>4. Arena'
    BY <1>1, <1>3, InvIs, SameKeeps
  <1>5. at' \in Id /\ t0' \in Thread
    BY <1>1, RunningIs, ProgramLeads, InvIs DEF NTypes, Thread
  <1>6. NTypes'
    BY <1>1, <1>4, <1>5 DEF NFAInv, NTypes, Arena, Id, Thread
  <1>7. Where'
    BY <1>1, <1>5 DEF NFAInv, Where, Thread
  <1>8. QueuesOK'
    BY <1>1 DEF NFAInv, QueuesOK, Distinct, Id
  <1>9. StackPaid'
    BY <1>1, InvIs, NothingToPay
  <1> QED
    BY <1>4, <1>6, <1>7, <1>8, <1>9 DEF NFAInv, Arena

-----------------------------------------------------------------------------
(***************************************************************************)
(* Search.                                                                 *)
(***************************************************************************)
\* Outside of AddToThreadq and Step nothing is on the stack or in runq.
LEMMA SearchIs ==
  ASSUME NFAInv, pc \notin {"add", "step", "cut"}
  PROVE  /\ i = 0 /\ runq = << >> /\ stk = << >> /\ t0 = NoThread
         /\ \A t \in Thread : Hold(nextq, Holding(t)) \in Nat /\ Owed(t) = Hold(nextq, Holding(t))
  <1>1. i = 0 /\ runq = << >> /\ stk = << >> /\ t0 = NoThread
    BY DEF NFAInv, Where
  <1>2. ASSUME NEW t \in Thread
        PROVE  Hold(nextq, Holding(t)) \in Nat /\ Owed(t) = Hold(nextq, Holding(t))
    <2>1. From(runq, RunFrom, Holding(t)) = 0 /\ Hold(stk, Holding(t)) = 0
      BY <1>1, HoldEmpty DEF RunFrom, Hold
    <2>2. Hold(nextq, Holding(t)) \in Nat /\ NoThread # t
      BY InvIs, OwedIsNat DEF Thread
    <2> QED
      BY <1>1, <2>1, <2>2 DEF Owed
  <1> QED
    BY <1>1, <1>2

\* The same of a state that a step leads to.
LEMMA SearchOwes ==
  ASSUME i' = 0, pc' # "add", runq' = << >>, stk' = << >>, t0' = NoThread,
         nextq' \in Seq(Entries)
  PROVE  \A t \in Thread : Owed(t)' = Hold(nextq', Holding(t))
  <1> TAKE t \in Thread
  <1>1. RunFrom' = 1
    BY DEF RunFrom
  <1>2. From(runq', 1, Holding(t)) = 0 /\ Hold(stk', Holding(t)) = 0
    BY HoldEmpty DEF Hold
  <1>3. Hold(nextq', Holding(t)) \in Nat /\ NoThread # t
    BY FromIsNat DEF Hold, Thread
  <1> QED
    BY <1>1, <1>2, <1>3 DEF Owed

\* Steps that only decide where the search goes on.
LEMMA GoOnKeeps == NFAInv /\ (Reject \/ Shortcut) => NFAInv'
  <1> SUFFICES ASSUME NFAInv, Reject \/ Shortcut PROVE NFAInv'
    OBVIOUS
  <1>1. /\ pc \in {"search", "shortcut"} /\ pc' \in {"done", "shortcut", "drain"}
        /\ UNCHANGED <<prog, runq, i, nextq, ref, free, stk, at, t0>>
    BY DEF Reject, Shortcut, arena, adding
  <1>2. /\ i' = 0 /\ pc' # "add" /\ runq' = << >> /\ stk' = << >> /\ t0' = NoThread
        /\ nextq' \in Seq(Entries)
    BY <1>1, SearchIs, InvIs
  <1>3. \A t \in Thread : Owed(t)' = Owed(t)
    BY <1>1, <1>2, SearchIs, SearchOwes
  <1>4. Arena'
    BY <1>1, <1>3, InvIs, SameKeeps
  <1>5. NTypes' /\ QueuesOK'
    BY <1>1, <1>4 DEF NFAInv, NTypes, QueuesOK, Distinct, Id
  <1>6. Where'
    <2>1. pc' = "done" => nextq' = << >>
      BY DEF Reject, Shortcut, NFAInv, Where
    <2> QED
      BY <1>1, <1>2, <2>1 DEF Where
  <1>7. StackPaid'
    BY <1>2, NothingToPay
  <1> QED
    BY <1>4, <1>5, <1>6, <1>7 DEF NFAInv, Arena

\* The queue that a search starts with is empty.
LEMMA BeginKeeps == NFAInv /\ Begin => NFAInv'
  <1> SUFFICES ASSUME NFAInv, Begin PROVE NFAInv'
    OBVIOUS
  <1>1. /\ pc = "search" /\ pc' = "step" /\ i' = 1
        /\ UNCHANGED <<prog, runq, nextq, ref, free, stk, at, t0>>
    BY DEF Begin, arena, adding
  <1>2. RunFrom = 1 /\ RunFrom' = 1
    BY <1>1, SearchIs DEF RunFrom
  <1>3. \A t \in Thread : Owed(t)' = Owed(t)
    BY <1>1, <1>2 DEF Owed
  <1>4. Arena'
    BY <1>1, <1>3, InvIs, SameKeeps
  <1>5. NTypes' /\ QueuesOK'
    BY <1>1, <1>4 DEF NFAInv, NTypes, QueuesOK, Distinct, Id
  <1>6. Where'
    BY <1>1, SearchIs, InvIs DEF NFAInv, Where
  <1>7. StackPaid'
    BY <1>1, InvIs, SearchIs, NothingToPay
  <1> QED
    BY <1>4, <1>5, <1>6, <1>7 DEF NFAInv, Arena

\* All of runq is done with, so clearing it lets go of nobody.
LEMMA StepDoneKeeps == NFAInv /\ StepDone => NFAInv'
  <1> SUFFICES ASSUME NFAInv, StepDone PROVE NFAInv'
    OBVIOUS
  <1>1. /\ pc \in {"step", "cut"} /\ i > Len(runq) /\ runq' = << >> /\ i' = 0
        /\ pc' \in {"shortcut", "drain", "spawn", "spawned"}
        /\ UNCHANGED <<prog, nextq, ref, free, stk, at, t0>>
    BY DEF StepDone, arena, adding
  <1>2. stk = << >> /\ t0 = NoThread /\ RunFrom = i
    BY <1>1 DEF NFAInv, Where, RunFrom
  <1>3. \A t \in Thread : Owed(t)' = Owed(t)
    <2> TAKE t \in Thread
    <2>1. Owed(t)' = Hold(nextq, Holding(t))
      BY <1>1, <1>2, InvIs, SearchOwes
    <2>2. From(runq, RunFrom, Holding(t)) = 0
      BY <1>1, <1>2, InvIs, FromEnd
    <2>3. Hold(stk, Holding(t)) = 0 /\ NoThread # t /\ Hold(nextq, Holding(t)) \in Nat
      BY <1>2, HoldEmpty, InvIs, OwedIsNat DEF Thread
    <2> QED
      BY <1>2, <2>1, <2>2, <2>3 DEF Owed
  <1>4. Arena'
    BY <1>1, <1>3, InvIs, SameKeeps
  <1>5. NTypes'
    <2>1. runq' \in Seq(Entries)
      BY <1>1
    <2> QED
      BY <1>1, <1>4, <2>1 DEF NFAInv, NTypes, Arena, Id
  <1>6. QueuesOK'
    BY <1>1 DEF NFAInv, QueuesOK, Distinct, Id
  <1>7. Where'
    BY <1>1, <1>2 DEF Where
  <1>8. StackPaid'
    BY <1>1, <1>2, InvIs, NothingToPay
  <1> QED
    BY <1>4, <1>5, <1>6, <1>7, <1>8 DEF NFAInv, Arena

\* A thread of Search's own, which AddToThreadq is given.
LEMMA SpawnKeeps == NFAInv /\ Spawn => NFAInv'
  <1> SUFFICES ASSUME NFAInv, Spawn PROVE NFAInv'
    OBVIOUS
  <1>1. PICK x, capture : x = NewThread /\ capture = [match EXCEPT ![0] = p']
    OBVIOUS
  <1>2. /\ pc = "spawn" /\ pc' = "add" /\ at' = prog.start /\ t0' = x /\ stk' = << >>
        /\ AllocThread(capture) /\ UNCHANGED <<prog, runq, i, nextq>>
    BY <1>1 DEF Spawn, StartAdd
  <1>3. /\ i = 0 /\ runq = << >> /\ stk = << >> /\ t0 = NoThread
        /\ x \in Thread /\ at' \in Id
    BY <1>1, <1>2, SearchIs, InvIs, NewIsNobodys, ProgramLeads DEF NTypes
  <1>4. \A t \in Thread : Owed(t)' = Owed(t) + (IF t = x THEN 1 ELSE 0)
    <2> TAKE t \in Thread
    <2>1. RunFrom' = 1
      BY <1>2, <1>3 DEF RunFrom
    <2>2. From(<< >>, 1, Holding(t)) = 0 /\ Hold(<< >>, Holding(t)) = 0
      BY HoldEmpty DEF Hold
    <2>3. Hold(nextq, Holding(t)) \in Nat /\ Owed(t) = Hold(nextq, Holding(t))
      BY <1>2, SearchIs
    <2> QED
      BY <1>2, <1>3, <2>1, <2>2, <2>3 DEF Owed
  <1>5. Arena'
    <2>1. \A t \in Thread : Owed(t)' = Owed(t) + (IF t = NewThread THEN 1 ELSE 0)
      BY <1>1, <1>4
    <2> QED
      BY <1>2, <2>1, InvIs, AllocKeeps
  <1>6. NTypes'
    <2>1. stk' \in Seq(Entries)
      BY <1>2
    <2> QED
      BY <1>2, <1>3, <1>5, <2>1 DEF NFAInv, NTypes, Arena, Id, Thread
  <1>7. Where'
    BY <1>2, <1>3 DEF NFAInv, Where, Thread
  <1>8. QueuesOK'
    BY <1>2 DEF NFAInv, QueuesOK, Distinct, Id
  <1>9. StackPaid'
    BY <1>2, InvIs, NothingToPay
  <1> QED
    BY <1>5, <1>6, <1>7, <1>8, <1>9 DEF NFAInv, Arena

\* The queues change places, and what nextq held runq holds from now on.
LEMMA AdvanceKeeps == NFAInv /\ Advance => NFAInv'
  <1> SUFFICES ASSUME NFAInv, Advance PROVE NFAInv'
    OBVIOUS
  <1>1. /\ pc = "spawned" /\ runq' = nextq /\ nextq' = << >>
        /\ UNCHANGED <<prog, ref, free, stk, at, t0>>
        /\ IF nextq = << >> THEN pc' = "drain" /\ i' = i ELSE pc' = "step" /\ i' = 1
    BY DEF Advance, arena, adding
  <1>2. i = 0 /\ runq = << >> /\ stk = << >> /\ t0 = NoThread
    BY <1>1, SearchIs
  <1>3. \A t \in Thread : Owed(t)' = Owed(t)
    <2> TAKE t \in Thread
    <2>1. RunFrom' = 1
      BY <1>1, <1>2 DEF RunFrom
    <2>2. Hold(<< >>, Holding(t)) = 0
      BY HoldEmpty
    <2>3. Hold(nextq, Holding(t)) \in Nat /\ Owed(t) = Hold(nextq, Holding(t)) /\ NoThread # t
      BY <1>1, SearchIs DEF Thread
    <2>4. From(runq', 1, Holding(t)) = Hold(nextq, Holding(t))
      BY <1>1 DEF Hold
    <2> QED
      BY <1>1, <1>2, <2>1, <2>2, <2>3, <2>4 DEF Owed
  <1>4. Arena'
    BY <1>1, <1>3, InvIs, SameKeeps
  <1>5. runq' \in Seq(Entries) /\ nextq' \in Seq(Entries) /\ i' \in Nat
    BY <1>1, <1>2, InvIs
  <1>6. NTypes'
    BY <1>1, <1>4, <1>5 DEF NFAInv, NTypes, Arena, Id
  <1>7. Where'
    BY <1>1, <1>2, <1>5 DEF Where
  <1>8. QueuesOK'
    BY <1>1 DEF NFAInv, QueuesOK, Distinct, Id
  <1>9. StackPaid'
    BY <1>1, <1>2, <1>5, NothingToPay
  <1> QED
    BY <1>4, <1>6, <1>7, <1>8, <1>9 DEF NFAInv, Arena

\* What is still queued is released, one after the other.
LEMMA DrainKeeps == NFAInv /\ Drain => NFAInv'
  <1> SUFFICES ASSUME NFAInv, Drain PROVE NFAInv'
    OBVIOUS
  <1>1. /\ pc = "drain" /\ pc' \in {"drain", "done"}
        /\ UNCHANGED <<prog, runq, i, stk, at, t0>>
    BY DEF Drain, adding
  <1>2. i = 0 /\ runq = << >> /\ stk = << >> /\ t0 = NoThread
    BY <1>1, SearchIs
  <1>3. PICK x : x = Head(nextq).t
    OBVIOUS
  <1>4. Arena' /\ nextq' \in Seq(Entries) /\ QueuesOK'
    <2>1. CASE nextq = << >>
      <3>1. UNCHANGED <<nextq, ref, free>>
        BY <2>1 DEF Drain
      <3>2. \A t \in Thread : Owed(t)' = Owed(t)
        BY <1>1, <1>2, <3>1, InvIs, SearchIs, SearchOwes
      <3>3. Arena'
        BY <3>1, <3>2, InvIs, SameKeeps
      <3> QED
        BY <1>1, <3>1, <3>3, InvIs DEF NFAInv, QueuesOK, Distinct, Id
    <2>2. CASE nextq # << >>
      <3>1. /\ nextq' = Tail(nextq)
            /\ IF x # NoThread THEN Decref(x) ELSE UNCHANGED <<ref, free>>
        BY <1>3, <2>2 DEF Drain
      <3>2. /\ nextq \in Seq(Entries) /\ Head(nextq) \in Entries /\ nextq' \in Seq(Entries)
            /\ Len(nextq) \in Nat /\ DOMAIN nextq' = 1 .. Len(nextq) - 1
            /\ DOMAIN nextq = 1 .. Len(nextq)
            /\ \A k \in 1 .. Len(nextq) - 1 : nextq'[k] = nextq[k + 1]
        BY <2>2, <3>1, InvIs
      <3>3. x \in Nat
        BY <1>3, <3>2 DEF Entries
      <3>4. \A t \in Thread :
              /\ Owed(t) = Hold(nextq, Holding(t)) /\ Owed(t) \in Nat
              /\ Owed(t) = Owed(t)' + (IF x = t THEN 1 ELSE 0)
              /\ Owed(t)' \in Nat
        <4> TAKE t \in Thread
        <4>1. Head(nextq) \in Holding(t) <=> x = t
          BY <1>3, <3>2 DEF Holding, Entries
        <4>2. Hold(nextq, Holding(t)) = Hold(nextq', Holding(t)) + (IF x = t THEN 1 ELSE 0)
          BY <2>2, <3>1, <3>2, <4>1, HoldTail
        <4>3. Owed(t)' = Hold(nextq', Holding(t))
          BY <1>1, <1>2, <3>2, SearchOwes
        <4>4. Hold(nextq', Holding(t)) \in Nat
          BY <3>2, FromIsNat DEF Hold
        <4> QED
          BY <1>1, <4>2, <4>3, <4>4, SearchIs
      <3>5. Arena'
        <4>1. CASE x = NoThread
          <5>1. \A t \in Thread : Owed(t)' = Owed(t)
            BY <3>4, <4>1 DEF Thread
          <5> QED
            BY <3>1, <4>1, <5>1, InvIs, SameKeeps
        <4>2. CASE x # NoThread
          <5>1. x \in Thread /\ Decref(x) /\ Owed(x) > 0
            BY <3>1, <3>3, <3>4, <4>2 DEF Thread
          <5>2. \A t \in Thread : Owed(t)' = Owed(t) - (IF t = x THEN 1 ELSE 0)
            BY <3>4
          <5> QED
            BY <5>1, <5>2, InvIs, DecrefKeeps
        <4> QED
          BY <4>1, <4>2
      <3>6. \A k \in DOMAIN nextq' : k + 1 \in DOMAIN nextq /\ nextq'[k] = nextq[k + 1]
        BY <3>2
      <3>7. Distinct(nextq)'
        <4> SUFFICES ASSUME NEW j \in DOMAIN nextq', NEW k \in DOMAIN nextq',
                            nextq'[j].id = nextq'[k].id
                     PROVE  j = k
          BY DEF Distinct
        <4>1. j + 1 = k + 1
          BY <3>6 DEF NFAInv, QueuesOK, Distinct
        <4> QED
          BY <3>2, <4>1
      <3>8. QueuesOK'
        BY <1>1, <3>6, <3>7 DEF NFAInv, QueuesOK, Distinct, Id
      <3> QED
        BY <3>2, <3>5, <3>8
    <2> QED
      BY <2>1, <2>2
  <1>5. NTypes'
    BY <1>1, <1>4 DEF NFAInv, NTypes, Arena, Id
  <1>6. Where'
    <2>1. pc' = "done" => nextq' = << >>
      BY <1>1 DEF Drain
    <2> QED
      BY <1>1, <1>2, <2>1 DEF Where
  <1>7. StackPaid'
    BY <1>1, <1>2, <1>4, NothingToPay
  <1> QED
    BY <1>4, <1>5, <1>6, <1>7 DEF NFAInv, Arena

-----------------------------------------------------------------------------
(***************************************************************************)
(* The invariant and what follows from it.                                 *)
(***************************************************************************)
LEMMA InitHolds == Init => NFAInv
  <1> SUFFICES ASSUME Init PROVE NFAInv
    OBVIOUS
  <1>1. /\ prog \in Progs /\ pc = "search" /\ i = 0 /\ runq = << >> /\ nextq = << >>
        /\ stk = << >> /\ ref = << >> /\ free = << >> /\ at = None /\ t0 = NoThread
    BY DEF Init
  <1>2. NTypes
    BY <1>1 DEF NTypes, NoThread
  <1>3. Where
    BY <1>1 DEF Where
  <1>4. QueuesOK /\ FreeOK
    BY <1>1 DEF QueuesOK, Distinct, FreeOK
  <1>5. Counted
    <2> SUFFICES ASSUME NEW t \in Thread PROVE Count(t) = Owed(t)
      BY DEF Counted
    <2>1. From(<< >>, 1, Holding(t)) = 0 /\ Hold(<< >>, Holding(t)) = 0 /\ RunFrom = 1
      BY <1>1, HoldEmpty DEF Hold, RunFrom
    <2>2. Owed(t) = 0
      BY <1>1, <2>1 DEF Owed, Thread
    <2>3. Count(t) = 0
      BY <1>1 DEF Count
    <2> QED
      BY <2>2, <2>3
  <1>6. StackPaid
    <2>1. \A op : Hold(nextq, Of(op)) = 0
      BY <1>1, HoldEmpty
    <2> QED
      BY <1>1, <2>1 DEF StackPaid
  <1> QED
    BY <1>2, <1>3, <1>4, <1>5, <1>6 DEF NFAInv

LEMMA StutterKeeps == NFAInv /\ UNCHANGED vars => NFAInv'
  <1> SUFFICES ASSUME NFAInv, UNCHANGED vars PROVE NFAInv'
    OBVIOUS
  <1>1. UNCHANGED <<prog, pc, runq, i, nextq, ref, free, stk, at, t0>>
    BY DEF vars
  <1>2. \A t \in Thread : Owed(t)' = Owed(t)
    BY <1>1 DEF Owed, RunFrom, From, Hold
  <1>3. Arena'
    BY <1>1, <1>2, InvIs, SameKeeps
  <1>4. NTypes' /\ Where' /\ QueuesOK'
    BY <1>1 DEF NFAInv, NTypes, Where, QueuesOK, Distinct, Id
  <1>5. StackPaid'
    BY <1>1, InvIs, PaidKeeps DEF NFAInv
  <1> QED
    BY <1>3, <1>4, <1>5 DEF NFAInv, Arena

THEOREM NFAInvariance == Spec => []NFAInv
  <1>1. NFAInv /\ [Next]_vars => NFAInv'
    <2> SUFFICES ASSUME NFAInv, [Next]_vars PROVE NFAInv'
      OBVIOUS
    <2>1. CASE AddInst
      BY <2>1, AddPopKeeps, AddSeenKeeps, AddAltMatchKeeps, AddNopKeeps, AddCaptureKeeps,
         AddByteRangeKeeps, AddMatchKeeps, AddEmptyWidthKeeps, AddDoneKeeps DEF AddInst
    <2>2. CASE StepInst
      BY <2>2, StepKeeps, StepByteRangeKeeps DEF StepInst
    <2>3. CASE Reject \/ Shortcut \/ Begin \/ StepDone
      BY <2>3, GoOnKeeps, BeginKeeps, StepDoneKeeps
    <2>4. CASE Spawn \/ Advance \/ Drain
      BY <2>4, SpawnKeeps, AdvanceKeeps, DrainKeeps
    <2>5. CASE Done \/ UNCHANGED vars
      BY <2>5, StutterKeeps DEF Done
    <2> QED
      BY <2>1, <2>2, <2>3, <2>4, <2>5 DEF Next
  <1> QED
    BY <1>1, InitHolds, PTL DEF Spec

LEMMA OnTheFreeList ==
  ASSUME FreeOK, NEW t \in Thread, t \in DOMAIN ref
  PROVE  Cardinality({k \in DOMAIN free : free[k] = t}) = IF ref[t] = 0 THEN 1 ELSE 0
  <1>1. CASE ref[t] = 0
    <2>1. PICK k \in DOMAIN free : free[k] = t
      BY <1>1 DEF FreeOK
    <2>2. {l \in DOMAIN free : free[l] = t} = {k}
      BY <2>1 DEF FreeOK
    <2> QED
      BY <1>1, <2>2, FS_Singleton
  <1>2. CASE ref[t] # 0
    <2>1. {l \in DOMAIN free : free[l] = t} = {}
      BY <1>2 DEF FreeOK
    <2> QED
      BY <1>2, <2>1, FS_EmptySet
  <1> QED
    BY <1>1, <1>2

\* For every program and every call, whatever is shared, copied, dropped or
\* recycled on the way: a thread's count is that of the queue entries, stack
\* dummies and callers holding it, and the free list has it exactly when there
\* are none (nfa.cc:159-189, whose union of count and link needs this).
THEOREM ThreadsAreCounted == Spec => []ThreadsCounted
  <1>1. NFAInv => ThreadsCounted
    <2> SUFFICES ASSUME NFAInv, NEW t \in DOMAIN ref
                 PROVE  /\ ref[t] = Holders(t)
                        /\ Cardinality({k \in DOMAIN free : free[k] = t})
                             = IF ref[t] = 0 THEN 1 ELSE 0
      BY DEF ThreadsCounted
    <2>1. t \in Thread
      <3>1. DOMAIN ref = 1 .. Len(ref)
        BY DEF NFAInv, NTypes
      <3> QED
        BY <3>1 DEF Thread, NoThread
    <2>2. ref[t] = Owed(t)
      BY <2>1 DEF NFAInv, Counted, Count
    <2>3. {k \in DOMAIN runq : k >= i /\ i > 0 /\ runq[k].t = t /\ ~(pc = "add" /\ k = i)}
          = {k \in DOMAIN runq : k >= RunFrom /\ runq[k] \in Holding(t)}
      <3>1. \A k \in DOMAIN runq : k \in Nat /\ (runq[k] \in Holding(t) <=> runq[k].t = t)
        <4>1. \A k \in DOMAIN runq : k \in Nat /\ runq[k] \in Entries
          BY InvIs
        <4> QED
          BY <4>1 DEF Entries, Holding
      <3>2. CASE i = 0
        BY <3>2, InvIs DEF NFAInv, Where
      <3>3. CASE i # 0
        BY <3>1, <3>3, InvIs DEF RunFrom
      <3> QED
        BY <3>2, <3>3
    <2>4. /\ {k \in DOMAIN nextq : nextq[k].t = t}
             = {k \in DOMAIN nextq : k >= 1 /\ nextq[k] \in Holding(t)}
          /\ {k \in DOMAIN stk : stk[k].t = t}
             = {k \in DOMAIN stk : k >= 1 /\ stk[k] \in Holding(t)}
      <3>1. ASSUME NEW q \in Seq(Entries)
            PROVE  {k \in DOMAIN q : q[k].t = t} = {k \in DOMAIN q : k >= 1 /\ q[k] \in Holding(t)}
        <4>1. \A k \in DOMAIN q : k >= 1 /\ q[k] \in Entries
          BY <3>1
        <4> QED
          BY <4>1 DEF Entries, Holding
      <3> QED
        BY <3>1, InvIs
    <2>5. Holders(t) = Owed(t)
      BY <2>3, <2>4 DEF Holders, Owed, Hold, From
    <2> QED
      BY <2>1, <2>2, <2>5, OnTheFreeList DEF NFAInv
  <1> QED
    BY <1>1, NFAInvariance, PTL

\* How many entries there can be for instructions of one kind.
LEMMA HoldBounded ==
  ASSUME NEW q \in Seq(Entries), Distinct(q), NEW I, IsFiniteSet(I), NEW S,
         \A k \in DOMAIN q : q[k] \in S => q[k].id \in I
  PROVE  Hold(q, S) <= Cardinality(I)
  <1> DEFINE K == {k \in DOMAIN q : k >= 1 /\ q[k] \in S}
             f == [k \in K |-> q[k].id]
  <1>1. f \in [K -> I]
    OBVIOUS
  <1>2. f \in Injection(K, I)
    BY <1>1 DEF Injection, IsInjective, Distinct
  <1> HIDE DEF f, K
  <1>3. Cardinality(K) <= Cardinality(I)
    BY <1>2, FS_Injection
  <1> QED
    BY <1>3 DEF Hold, From, K

\* The stack that NFA::NFA allocates is never too small (the DCHECK_LE of
\* nfa.cc:212), and an entry stays free for the instruction to begin with.
StackFits == Len(stk) < NStack
THEOREM StackSuffices == Spec => []StackFits
  <1>1. NFAInv => StackFits
    <2> SUFFICES ASSUME NFAInv PROVE StackFits
      OBVIOUS
    <2>1. ASSUME NEW op
          PROVE  /\ Hold(nextq, Of(op)) \in Nat /\ InstCount(prog, op) \in Nat
                 /\ Hold(nextq, Of(op)) <= InstCount(prog, op)
      <3> DEFINE I == {n \in Id : Inst(n).op = op}
      <3>1. I \subseteq Id /\ IsFiniteSet(Id)
        BY InvIs, ProgramLeads DEF NTypes
      <3>2. IsFiniteSet(I) /\ Cardinality(I) \in Nat
        BY <3>1, FS_Subset, FS_CardinalityType
      <3>3. \A k \in DOMAIN nextq : nextq[k] \in Of(op) => nextq[k].id \in I
        BY DEF Of
      <3>4. Hold(nextq, Of(op)) <= Cardinality(I)
        BY <3>2, <3>3, HoldBounded, InvIs DEF NFAInv, QueuesOK
      <3>5. Cardinality(I) = InstCount(prog, op)
        BY DEF InstCount, Inst, Id
      <3>6. Hold(nextq, Of(op)) \in Nat
        BY InvIs, FromIsNat DEF Hold
      <3> QED
        BY <3>2, <3>4, <3>5, <3>6, SMTT(30)
    <2>2. Len(stk) \in Nat
      BY InvIs
    <2> QED
      BY <2>1, <2>2, SMTT(30) DEF NFAInv, StackPaid, StackFits, NStack
  <1> QED
    BY <1>1, NFAInvariance, PTL

\* The queues, sparse arrays of the size of the program (nfa.cc:141-142), never
\* need to hold more, and have an instruction once.
QueuesFit ==
  \A q \in {runq, nextq} :
    /\ Len(q) <= Cardinality(Id)
    /\ \A j, k \in DOMAIN q : q[j].id = q[k].id => j = k
THEOREM QueuesSuffice == Spec => []QueuesFit
  <1>1. NFAInv => QueuesFit
    <2> SUFFICES ASSUME NFAInv, NEW q \in {runq, nextq}
                 PROVE  Len(q) <= Cardinality(Id) /\ Distinct(q)
      BY DEF QueuesFit, Distinct
    <2>1. /\ q \in Seq(Entries) /\ Distinct(q) /\ Len(q) \in Nat
          /\ \A k \in DOMAIN q : q[k].id \in Id
      BY InvIs DEF NFAInv, QueuesOK
    <2>2. IsFiniteSet(Id)
      BY InvIs, ProgramLeads DEF NTypes
    <2>3. Hold(q, Entries) <= Cardinality(Id)
      BY <2>1, <2>2, HoldBounded
    <2>4. Hold(q, Entries) = Len(q)
      <3>1. {k \in DOMAIN q : k >= 1 /\ q[k] \in Entries} = 1 .. Len(q)
        <4>1. DOMAIN q = 1 .. Len(q) /\ Len(q) \in Nat
          BY <2>1
        <4>2. \A k \in DOMAIN q : q[k] \in Entries
          BY <2>1
        <4>3. \A k \in 1 .. Len(q) : k >= 1
          BY <4>1, SMT
        <4> QED
          BY <4>1, <4>2, <4>3, ZenonT(40)
      <3>2. Cardinality(1 .. Len(q)) = Len(q)
        <4>1. PICK n \in Nat : n = Len(q)
          BY <2>1
        <4>2. Cardinality(1 .. n) = IF 1 > n THEN 0 ELSE n - 1 + 1
          BY FS_Interval
        <4>3. (IF 1 > n THEN 0 ELSE n - 1 + 1) = n
          OBVIOUS
        <4> QED
          BY <4>1, <4>2, <4>3, Zenon
      <3>3. Hold(q, Entries) = Cardinality({k \in DOMAIN q : k >= 1 /\ q[k] \in Entries})
        BY DEF Hold, From
      <3> QED
        BY <3>1, <3>2, <3>3, Zenon
    <2> QED
      BY <2>1, <2>3, <2>4
  <1> QED
    BY <1>1, NFAInvariance, PTL

\* When the search is over nobody holds a thread any more: all of them are on
\* the free list (nfa.cc:612-628).
AllReturned == pc = "done" => \A t \in DOMAIN ref : ref[t] = 0
THEOREM ThreadsReturned == Spec => []AllReturned
  <1>1. NFAInv => AllReturned
    <2> SUFFICES ASSUME NFAInv, pc = "done", NEW t \in DOMAIN ref PROVE ref[t] = 0
      BY DEF AllReturned
    <2>1. t \in Thread
      <3>1. DOMAIN ref = 1 .. Len(ref)
        BY DEF NFAInv, NTypes
      <3> QED
        BY <3>1 DEF Thread, NoThread
    <2>2. nextq = << >>
      BY DEF NFAInv, Where
    <2>3. Owed(t) = 0
      BY <2>1, <2>2, SearchIs, HoldEmpty
    <2> QED
      BY <2>1, <2>3 DEF NFAInv, Counted, Count
  <1> QED
    BY <1>1, NFAInvariance, PTL

-----------------------------------------------------------------------------
(***************************************************************************)
(* What is found is a path.  The captures of a thread are those that one   *)
(* path has recorded, though threads are shared, copied when they record,  *)
(* and given back from the stack.                                          *)
(***************************************************************************)
Going == pc # "search" /\ prog.start # 0 /\ AnchorsFit(prog, call)
Begins == IF Anchored(prog, call) THEN {call.b} ELSE call.b .. call.e
Captures == [0 .. NCapture - 1 -> Int]
Unset == [r \in 0 .. NCapture - 1 |-> NoPos]

Form ==
  /\ call \in Calls /\ matched \in BOOLEAN
  /\ caps \in Seq(Captures) /\ Len(caps) = Len(ref)
  /\ pc \in {"search", "step", "cut", "spawn", "spawned", "add", "shortcut", "drain", "done"}
  /\ pc \notin {"search", "done"} => Going
  /\ Going => match \in Captures /\ p \in call.b .. call.e + 1
  /\ Going /\ ~matched => match = Unset
  /\ ~Going => ~matched
  /\ pc \in {"spawn", "spawned", "add"} \/ nextq # << >> => p <= call.e
  /\ runq # << >> => p - 1 \in call.b .. call.e
  /\ (pc = "step" /\ i = 1) \/ pc \in {"shortcut", "drain"} \/ (pc = "cut" /\ id # 0)
       => nextq = << >>
  /\ id # 0 => pc \in {"cut", "shortcut", "drain", "done"}
  /\ pc \in {"cut", "shortcut"} => matched
  /\ pc = "spawn" => Start

\* A thread stands for a path, from where it began.
Reached(n, q, f) == f[0] \in Begins /\ At(n, q, Kept(call, f)) \in Paths(prog, call, f[0])
Fits(n, q) == Inst(n).op = "byte" => Matches(Inst(n), ByteAt(call.text, q, call.e))
Good(e, q) == Reached(e.id, q, caps[e.t]) /\ Fits(e.id, q)

RunsRight ==
  pc \in {"step", "add"} =>
    \A k \in DOMAIN runq : k >= RunFrom /\ runq[k].t # NoThread => Good(runq[k], p - 1)
NextRight == \A k \in DOMAIN nextq : nextq[k].t # NoThread => Good(nextq[k], p)

\* The thread that AddToThreadq, with h in its hand, has when it comes to entry
\* k of a stack s; and what is on the stack is right for that thread.
Held(s, h, j) == IF j = 0 THEN h ELSE s[j].t
Current(s, h, u, k) ==
  u # NoThread /\ \E j \in 0 .. k : Held(s, h, j) = u /\ \A l \in j + 1 .. k : Held(s, h, l) = NoThread
Backed(s, h, cp) ==
  \A k \in DOMAIN s :
    /\ s[k].t # NoThread => s[k].id = 0 /\ cp[s[k].t][0] = cp[h][0]
    /\ s[k].t = NoThread => \A u : Current(s, h, u, k) => Reached(s[k].id, p, cp[u])

AddRight ==
  pc = "add" =>
    /\ caps[t0][0] \in Begins
    /\ at \notin {None, 0} => Reached(at, p, caps[t0])
    /\ Backed(stk, t0, caps)

MatchRight ==
  matched =>
    IF pc = "shortcut" \/ (pc = "cut" /\ id # 0)
      THEN Reached(id, call.e, match) /\ ChainTo(prog, id)
      ELSE /\ match[0] \in Begins /\ Reports(prog, call, match[0], match)
           /\ id # 0 => match[1] = call.e

SInv == Form /\ RunsRight /\ NextRight /\ AddRight /\ MatchRight

-----------------------------------------------------------------------------
LEMMA CallIs ==
  ASSUME call \in Calls
  PROVE  /\ call.b \in Nat /\ call.e \in Nat /\ call.b <= call.e
         /\ NCapture \in Nat /\ NCapture >= 2 /\ Regs(call) = (0 .. NCapture - 1) \ {1}
         /\ Begins \subseteq call.b .. call.e
         /\ \A q : ByteAt(call.text, q, call.e) # NoByte => q < call.e
         /\ \A q \in call.b .. call.e : ByteAt(call.text, q, call.e) \in Byte \cup {NoByte}
  <1>1. /\ call.b \in Nat /\ call.e \in Nat /\ call.b <= call.e /\ call.nmatch \in Nat
        /\ call.text \in Seq(Byte) /\ call.e <= Len(call.text)
    BY CallsAssumption
  <1>2. NMatch(call) \in Nat
    BY <1>1 DEF NMatch
  <1>3. NCapture \in Nat /\ NCapture >= 2 /\ Regs(call) = (0 .. NCapture - 1) \ {1}
    BY <1>2 DEF NCapture, Regs
  <1>4. Begins \subseteq call.b .. call.e
    BY <1>1 DEF Begins
  <1>5. \A q : ByteAt(call.text, q, call.e) # NoByte => q < call.e
    BY DEF ByteAt
  <1>6. \A q \in call.b .. call.e : ByteAt(call.text, q, call.e) \in Byte \cup {NoByte}
    <2> TAKE q \in call.b .. call.e
    <2>1. q < call.e => q + 1 \in DOMAIN call.text
      BY <1>1
    <2> QED
      BY <1>1, <2>1 DEF ByteAt
  <1> QED
    BY <1>1, <1>3, <1>4, <1>5, <1>6

LEMMA KeptIs ==
  ASSUME call \in Calls, NEW f \in Captures
  PROVE  /\ Kept(call, f) \in [Regs(call) -> Int]
         /\ f[0] \in Int /\ f[1] \in Int
         /\ \A x \in Int : Kept(call, [f EXCEPT ![1] = x]) = Kept(call, f)
                           /\ [f EXCEPT ![1] = x] \in Captures
                           /\ [f EXCEPT ![1] = x][0] = f[0]
                           /\ [f EXCEPT ![1] = x][1] = x
         /\ \A r \in Nat, x \in Int : r >= 2 =>
              /\ [f EXCEPT ![r] = x] \in Captures /\ [f EXCEPT ![r] = x][0] = f[0]
              /\ Kept(call, [f EXCEPT ![r] = x]) = [Kept(call, f) EXCEPT ![r] = x]
              /\ r >= NCapture => [Kept(call, f) EXCEPT ![r] = x] = Kept(call, f)
  <1>1. /\ NCapture \in Nat /\ NCapture >= 2 /\ Regs(call) = (0 .. NCapture - 1) \ {1}
        /\ f \in [0 .. NCapture - 1 -> Int] /\ DOMAIN f = 0 .. NCapture - 1
    BY CallIs DEF Captures
  <1>2. Kept(call, f) \in [Regs(call) -> Int] /\ f[0] \in Int /\ f[1] \in Int
    BY <1>1 DEF Kept
  <1>3. ASSUME NEW x \in Int
        PROVE  /\ Kept(call, [f EXCEPT ![1] = x]) = Kept(call, f)
               /\ [f EXCEPT ![1] = x] \in Captures
               /\ [f EXCEPT ![1] = x][0] = f[0] /\ [f EXCEPT ![1] = x][1] = x
    <2>1. Kept(call, [f EXCEPT ![1] = x]) = Kept(call, f)
      BY <1>1 DEF Kept
    <2> QED
      BY <1>1, <2>1 DEF Captures
  <1>4. ASSUME NEW r \in Nat, NEW x \in Int, r >= 2
        PROVE  /\ [f EXCEPT ![r] = x] \in Captures /\ [f EXCEPT ![r] = x][0] = f[0]
               /\ Kept(call, [f EXCEPT ![r] = x]) = [Kept(call, f) EXCEPT ![r] = x]
               /\ r >= NCapture => [Kept(call, f) EXCEPT ![r] = x] = Kept(call, f)
    <2>1. [f EXCEPT ![r] = x] \in Captures /\ [f EXCEPT ![r] = x][0] = f[0]
      <3>1. 0 \in DOMAIN f /\ r # 0
        BY <1>1, <1>4
      <3> QED
        BY <1>1, <1>4, <3>1 DEF Captures
    <2>2. \A s \in Regs(call) : [f EXCEPT ![r] = x][s] = IF s = r THEN x ELSE f[s]
      BY <1>1, <1>4
    <2>3. Kept(call, [f EXCEPT ![r] = x]) = [Kept(call, f) EXCEPT ![r] = x]
      BY <1>1, <1>4, <2>2 DEF Kept
    <2>4. r >= NCapture => [Kept(call, f) EXCEPT ![r] = x] = Kept(call, f)
      BY <1>1, <1>2, <1>4
    <2> QED
      BY <2>1, <2>3, <2>4
  <1> QED
    BY <1>2, <1>3, <1>4

LEMMA RecordedIs ==
  ASSUME call \in Calls, NEW f \in Captures, NEW r \in Nat, r >= 2, NEW x \in Int
  PROVE  [f EXCEPT ![r] = x] \in Captures /\ [f EXCEPT ![r] = x][0] = f[0]
  <1>1. NCapture \in Nat /\ NCapture >= 2 /\ f \in [0 .. NCapture - 1 -> Int]
    BY CallIs DEF Captures
  <1>2. 0 \in DOMAIN f /\ r # 0
    BY <1>1
  <1> QED
    BY <1>1, <1>2 DEF Captures

-----------------------------------------------------------------------------
(***************************************************************************)
(* Threads that are held are not recycled.                                 *)
(***************************************************************************)
IsHeld(u) == u \in DOMAIN caps /\ u # NewThread /\ caps[u] \in Captures /\ u # NoThread

LEMMA HeldIs ==
  ASSUME NFAInv, Form
  PROVE  /\ \A k \in DOMAIN runq : k >= RunFrom /\ runq[k].t # NoThread => IsHeld(runq[k].t)
         /\ \A k \in DOMAIN nextq : nextq[k].t # NoThread => IsHeld(nextq[k].t)
         /\ \A k \in DOMAIN stk : stk[k].t # NoThread => IsHeld(stk[k].t)
         /\ t0 # NoThread => IsHeld(t0)
  <1>1. /\ NTypes /\ Arena /\ RunFrom \in Nat
        /\ runq \in Seq(Entries) /\ nextq \in Seq(Entries) /\ stk \in Seq(Entries)
        /\ DOMAIN caps = DOMAIN ref /\ caps \in Seq(Captures)
    BY InvIs DEF Form, RunFrom
  <1>2. ASSUME NEW u \in Thread, Owed(u) > 0 PROVE IsHeld(u)
    <2>1. u \in DOMAIN ref /\ u # NewThread
      BY <1>1, <1>2, InvIs, OwedIsLive, NewIsNobodys
    <2>2. caps[u] \in Captures
      BY <1>1, <2>1
    <2> QED
      BY <1>1, <2>1, <2>2 DEF IsHeld, Thread
  <1>3. ASSUME NEW q \in Seq(Entries), NEW k \in DOMAIN q, q[k].t # NoThread
        PROVE  q[k].t \in Thread /\ q[k] \in Holding(q[k].t) /\ k \in Nat /\ k >= 1
    <2>1. q[k] \in Entries /\ k \in Nat /\ k >= 1
      OBVIOUS
    <2>2. q[k].t \in Nat /\ q[k].id \in Nat /\ q[k] = [id |-> q[k].id, t |-> q[k].t]
      BY <2>1 DEF Entries
    <2>3. q[k] \in Holding(q[k].t)
      BY <2>2 DEF Holding
    <2> QED
      BY <1>3, <2>1, <2>2, <2>3 DEF Thread
  <1>4. \A u \in Thread : /\ From(runq, RunFrom, Holding(u)) \in Nat
                          /\ Hold(nextq, Holding(u)) \in Nat /\ Hold(stk, Holding(u)) \in Nat
    BY <1>1, OwedIsNat
  <1>5. ASSUME NEW k \in DOMAIN runq, k >= RunFrom, runq[k].t # NoThread PROVE IsHeld(runq[k].t)
    <2>1. From(runq, RunFrom, Holding(runq[k].t)) > 0 /\ runq[k].t \in Thread
      BY <1>1, <1>3, <1>5, HoldSome
    <2> QED
      BY <1>2, <1>4, <2>1 DEF Owed
  <1>6. ASSUME NEW k \in DOMAIN nextq, nextq[k].t # NoThread PROVE IsHeld(nextq[k].t)
    <2>1. Hold(nextq, Holding(nextq[k].t)) > 0 /\ nextq[k].t \in Thread
      BY <1>1, <1>3, <1>6, HoldSome DEF Hold
    <2> QED
      BY <1>2, <1>4, <2>1 DEF Owed
  <1>7. ASSUME NEW k \in DOMAIN stk, stk[k].t # NoThread PROVE IsHeld(stk[k].t)
    <2>1. Hold(stk, Holding(stk[k].t)) > 0 /\ stk[k].t \in Thread
      BY <1>1, <1>3, <1>7, HoldSome DEF Hold
    <2> QED
      BY <1>2, <1>4, <2>1 DEF Owed
  <1>8. t0 # NoThread => IsHeld(t0)
    <2>1. t0 # NoThread => t0 \in Thread
      BY <1>1 DEF NTypes, Thread
    <2> QED
      BY <1>2, <1>4, <2>1 DEF Owed
  <1> QED
    BY <1>5, <1>6, <1>7, <1>8

\* What a thread that is held has recorded does not change.
CapsKept ==
  \A u \in DOMAIN caps : u # NewThread => u \in DOMAIN caps' /\ caps'[u] = caps[u]

LEMMA AllocIs ==
  ASSUME NFAInv, Form, NEW f \in Captures, AllocThread(f), call' = call
  PROVE  /\ caps' \in Seq(Captures') /\ Len(caps') = Len(ref') /\ CapsKept
         /\ NewThread \in DOMAIN caps' /\ caps'[NewThread] = f
         /\ NewThread # NoThread
  <1>1. /\ Arena /\ caps \in Seq(Captures) /\ Len(caps) = Len(ref) /\ ref \in Seq(Nat)
        /\ Captures' = Captures /\ DOMAIN caps = DOMAIN ref /\ DOMAIN caps = 1 .. Len(caps)
    BY InvIs DEF Form, Captures, NCapture, NTypes
  <1>2. NewThread # NoThread
    BY <1>1, NewIsNobodys DEF Thread
  <1>3. CASE free # << >>
    <2>1. NewThread \in DOMAIN caps
      <3>1. 1 \in DOMAIN free /\ NewThread = free[1]
        BY <1>1, <1>3 DEF Arena, NewThread
      <3> QED
        BY <1>1, <3>1, NewIsNobodys DEF Arena, FreeOK
    <2>2. caps' = [caps EXCEPT ![NewThread] = f] /\ ref' = [ref EXCEPT ![NewThread] = 1]
      BY <1>3 DEF AllocThread
    <2>3. caps' \in Seq(Captures) /\ Len(caps') = Len(ref') /\ DOMAIN caps' = DOMAIN caps
      BY <1>1, <2>1, <2>2
    <2> QED
      BY <1>1, <1>2, <2>1, <2>2, <2>3 DEF CapsKept
  <1>4. CASE free = << >>
    <2>1. NewThread = Len(caps) + 1
      BY <1>1, <1>4 DEF NewThread
    <2>2. caps' = Append(caps, f) /\ ref' = Append(ref, 1)
      BY <1>4 DEF AllocThread
    <2>3. /\ caps' \in Seq(Captures) /\ Len(caps') = Len(caps) + 1 /\ Len(ref') = Len(ref) + 1
          /\ DOMAIN caps' = 1 .. Len(caps) + 1 /\ Len(caps) \in Nat
          /\ caps'[Len(caps) + 1] = f /\ \A u \in DOMAIN caps : caps'[u] = caps[u]
      BY <1>1, <2>2
    <2> QED
      BY <1>1, <1>2, <2>1, <2>3 DEF CapsKept
  <1> QED
    BY <1>3, <1>4

-----------------------------------------------------------------------------
(***************************************************************************)
(* Paths of threads.                                                       *)
(***************************************************************************)
LEMMA ReachedRest ==
  ASSUME prog \in Progs, NEW n \in Id, NEW q \in call.b .. call.e, NEW f, Reached(n, q, f),
         ~Inst(n).last
  PROVE  Reached(n + 1, q, f)
  <1>1. n + 1 \in Id
    BY ProgramLeads
  <1>2. Rest(prog, n, q, n + 1, q)
    BY DEF Rest, Inst
  <1> QED
    BY <1>1, <1>2, RestPath DEF Reached, Id

LEMMA ReachedTaken ==
  ASSUME prog \in Progs, call \in Calls, NEW n \in Id, NEW q \in call.b .. call.e,
         NEW f \in Captures, Reached(n, q, f),
         NEW r \in call.b .. call.e, Taken(prog, call, n, q, Inst(n).out, r)
  PROVE  /\ Inst(n).op # "cap" => Reached(Inst(n).out, r, f)
         /\ Inst(n).op = "cap" =>
              Reached(Inst(n).out, r, IF Inst(n).cap < NCapture THEN [f EXCEPT ![Inst(n).cap] = q]
                                      ELSE f)
  <1>1. Inst(n).out \in Id /\ q \in Int
    <2>1. Inst(n).op \in {"byte", "cap", "nop", "empty"}
      BY DEF Taken, Inst
    <2> QED
      BY <2>1, ProgramLeads, CallIs
  <1> DEFINE g == [Kept(call, f) EXCEPT ![Inst(n).cap] = q]
  <1>2. /\ Inst(n).op # "cap" =>
             At(Inst(n).out, r, Kept(call, f)) \in Paths(prog, call, f[0])
        /\ Inst(n).op = "cap" => At(Inst(n).out, r, g) \in Paths(prog, call, f[0])
    <2>1. At(n, q, Kept(call, f)) \in Paths(prog, call, f[0])
      BY DEF Reached
    <2> QED
      BY <1>1, <2>1, TakenPath DEF Id, Inst
  <1>3. ASSUME Inst(n).op = "cap"
        PROVE  Reached(Inst(n).out, r, IF Inst(n).cap < NCapture THEN [f EXCEPT ![Inst(n).cap] = q]
                                       ELSE f)
    <2>1. Inst(n).cap \in Nat /\ Inst(n).cap >= 2
      BY <1>3, ProgsAssumption DEF WellFormed, InstOK, Inst, Id
    <2>2. PICK k \in Nat : k = Inst(n).cap /\ k >= 2
      BY <2>1
    <2>3. /\ [f EXCEPT ![k] = q][0] = f[0]
          /\ Kept(call, [f EXCEPT ![k] = q]) = [Kept(call, f) EXCEPT ![k] = q]
          /\ k >= NCapture => [Kept(call, f) EXCEPT ![k] = q] = Kept(call, f)
      BY <1>1, <2>2, KeptIs
    <2>4. k < NCapture \/ k >= NCapture
      BY <2>2, CallIs
    <2> QED
      BY <1>2, <1>3, <2>2, <2>3, <2>4 DEF Reached
  <1> QED
    BY <1>2, <1>3 DEF Reached

\* What is put on top of a stack, and taken off.
LEMMA OnTop ==
  ASSUME NEW e \in Entries, NEW s \in Seq(Entries)
  PROVE  /\ Len(<<e>> \o s) = Len(s) + 1 /\ Len(s) \in Nat
         /\ DOMAIN (<<e>> \o s) = 1 .. Len(s) + 1 /\ DOMAIN s = 1 .. Len(s)
         /\ (<<e>> \o s)[1] = e
         /\ \A k \in 1 .. Len(s) : (<<e>> \o s)[k + 1] = s[k]
         /\ \A k \in 1 .. Len(s) + 1 : k # 1 => k - 1 \in 1 .. Len(s) /\ (<<e>> \o s)[k] = s[k - 1]
  OBVIOUS

LEMMA BackedRest ==
  ASSUME NEW s \in Seq(Entries), NEW h, NEW cp, Backed(s, h, cp), NEW n \in Nat, Reached(n, p, cp[h])
  PROVE  Backed(<<Entry(n, NoThread)>> \o s, h, cp)
  <1> DEFINE e == Entry(n, NoThread)
             z == <<e>> \o s
  <1>1. e \in Entries /\ e.id = n /\ e.t = NoThread
    BY DEF Entry, Entries, NoThread
  <1>2. /\ Len(s) \in Nat /\ DOMAIN z = 1 .. Len(s) + 1 /\ DOMAIN s = 1 .. Len(s) /\ z[1] = e
        /\ \A k \in 1 .. Len(s) : z[k + 1] = s[k]
        /\ \A k \in 1 .. Len(s) + 1 : k # 1 => k - 1 \in 1 .. Len(s) /\ z[k] = s[k - 1]
    BY <1>1, OnTop
  <1> HIDE DEF e, z
  <1> SUFFICES ASSUME NEW k \in DOMAIN z
               PROVE  /\ z[k].t # NoThread => z[k].id = 0 /\ cp[z[k].t][0] = cp[h][0]
                      /\ z[k].t = NoThread => \A u : Current(z, h, u, k) => Reached(z[k].id, p, cp[u])
    BY DEF Backed, z, e
  <1>3. CASE k = 1
    <2>1. \A u : Current(z, h, u, 1) => u = h
      BY <1>1, <1>2 DEF Current, Held
    <2> QED
      BY <1>1, <1>2, <1>3, <2>1
  <1>4. CASE k # 1
    <2>1. k - 1 \in DOMAIN s /\ z[k] = s[k - 1] /\ k \in Nat /\ k - 1 \in Nat
      BY <1>2, <1>4
    <2>2. ASSUME NEW u, Current(z, h, u, k) PROVE Current(s, h, u, k - 1)
      <3>1. PICK j \in 0 .. k : Held(z, h, j) = u /\ \A l \in j + 1 .. k : Held(z, h, l) = NoThread
        BY <2>2 DEF Current
      <3>2. u # NoThread
        BY <2>2 DEF Current
      <3>3. CASE j = 0
        <4>1. \A l \in 0 + 1 .. k - 1 : l + 1 \in j + 1 .. k /\ Held(s, h, l) = Held(z, h, l + 1)
          BY <1>2, <2>1, <3>3 DEF Held
        <4>2. Held(s, h, 0) = u /\ 0 \in 0 .. k - 1
          BY <2>1, <3>1, <3>3 DEF Held
        <4> QED
          BY <3>1, <3>2, <4>1, <4>2 DEF Current
      <3>4. CASE j # 0
        <4>1. j # 1
          BY <1>1, <1>2, <3>1, <3>2, <3>4 DEF Held
        <4>2. /\ j - 1 \in 0 .. k - 1 /\ Held(s, h, j - 1) = Held(z, h, j)
              /\ \A l \in (j - 1) + 1 .. k - 1 :
                   l + 1 \in j + 1 .. k /\ Held(s, h, l) = Held(z, h, l + 1)
          BY <1>2, <2>1, <3>4, <4>1 DEF Held
        <4> QED
          BY <3>1, <3>2, <4>2 DEF Current
      <3> QED
        BY <3>3, <3>4
    <2> QED
      BY <2>1, <2>2 DEF Backed
  <1> QED
    BY <1>3, <1>4

\* A dummy brings back the thread h.
LEMMA BackedDummy ==
  ASSUME NEW s \in Seq(Entries), NEW h \in Thread, NEW cp, Backed(s, h, cp),
         NEW g, cp[g][0] = cp[h][0]
  PROVE  Backed(<<Entry(0, h)>> \o s, g, cp)
  <1> DEFINE e == Entry(0, h)
             z == <<e>> \o s
  <1>1. e \in Entries /\ e.id = 0 /\ e.t = h /\ h # NoThread
    BY DEF Entry, Entries, Thread
  <1>2. /\ Len(s) \in Nat /\ DOMAIN z = 1 .. Len(s) + 1 /\ DOMAIN s = 1 .. Len(s) /\ z[1] = e
        /\ \A k \in 1 .. Len(s) : z[k + 1] = s[k]
        /\ \A k \in 1 .. Len(s) + 1 : k # 1 => k - 1 \in 1 .. Len(s) /\ z[k] = s[k - 1]
    BY <1>1, OnTop
  <1> HIDE DEF e, z
  <1> SUFFICES ASSUME NEW k \in DOMAIN z
               PROVE  /\ z[k].t # NoThread => z[k].id = 0 /\ cp[z[k].t][0] = cp[g][0]
                      /\ z[k].t = NoThread => \A u : Current(z, g, u, k) => Reached(z[k].id, p, cp[u])
    BY DEF Backed, z, e
  <1>3. CASE k = 1
    BY <1>1, <1>2, <1>3
  <1>4. CASE k # 1
    <2>1. k - 1 \in DOMAIN s /\ z[k] = s[k - 1] /\ k \in Nat /\ k - 1 \in Nat
      BY <1>2, <1>4
    <2>2. ASSUME NEW u, Current(z, g, u, k) PROVE Current(s, h, u, k - 1)
      <3>1. PICK j \in 0 .. k : Held(z, g, j) = u /\ \A l \in j + 1 .. k : Held(z, g, l) = NoThread
        BY <2>2 DEF Current
      <3>2. u # NoThread
        BY <2>2 DEF Current
      <3>3. j # 0
        <4>1. 1 \in 0 + 1 .. k /\ Held(z, g, 1) # NoThread
          BY <1>1, <1>2, <2>1 DEF Held
        <4> QED
          BY <3>1, <4>1
      <3>4. /\ j - 1 \in 0 .. k - 1 /\ Held(s, h, j - 1) = Held(z, g, j)
            /\ \A l \in (j - 1) + 1 .. k - 1 :
                 l + 1 \in j + 1 .. k /\ Held(s, h, l) = Held(z, g, l + 1)
        BY <1>1, <1>2, <2>1, <3>3 DEF Held
      <3> QED
        BY <3>1, <3>2, <3>4 DEF Current
    <2> QED
      BY <2>1, <2>2 DEF Backed
  <1> QED
    BY <1>3, <1>4

LEMMA BackedPop ==
  ASSUME NEW s \in Seq(Entries), s # << >>, NEW h \in Thread, NEW cp, Backed(s, h, cp)
  PROVE  /\ Backed(Tail(s), IF Head(s).t # NoThread THEN Head(s).t ELSE h, cp)
         /\ Head(s).t # NoThread => Head(s).id = 0 /\ cp[Head(s).t][0] = cp[h][0]
         /\ Head(s).t = NoThread => Reached(Head(s).id, p, cp[h])
  <1> DEFINE z == Tail(s)
             g == IF Head(s).t # NoThread THEN Head(s).t ELSE h
  <1>1. /\ Len(s) \in Nat /\ Len(s) # 0 /\ DOMAIN s = 1 .. Len(s) /\ DOMAIN z = 1 .. Len(s) - 1
        /\ s[1] = Head(s) /\ \A k \in 1 .. Len(s) - 1 : z[k] = s[k + 1] /\ k + 1 \in DOMAIN s
        /\ 1 \in DOMAIN s
    OBVIOUS
  <1>2. h # NoThread
    BY DEF Thread
  <1> HIDE DEF z
  <1>3. /\ Head(s).t # NoThread => Head(s).id = 0 /\ cp[Head(s).t][0] = cp[h][0]
        /\ Head(s).t = NoThread => Reached(Head(s).id, p, cp[h])
    <2>1. Head(s).t = NoThread => Current(s, h, h, 1)
      <3>1. /\ 0 \in 0 .. 1 /\ Held(s, h, 0) = h
            /\ Head(s).t = NoThread => \A l \in 0 + 1 .. 1 : Held(s, h, l) = NoThread
        BY <1>1 DEF Held
      <3> QED
        BY <1>2, <3>1 DEF Current
    <2> QED
      BY <1>1, <2>1 DEF Backed
  <1>4. cp[g][0] = cp[h][0]
    BY <1>3
  <1>5. ASSUME NEW k \in DOMAIN z
        PROVE  /\ z[k].t # NoThread => z[k].id = 0 /\ cp[z[k].t][0] = cp[g][0]
               /\ z[k].t = NoThread => \A u : Current(z, g, u, k) => Reached(z[k].id, p, cp[u])
    <2>1. k + 1 \in DOMAIN s /\ z[k] = s[k + 1] /\ k \in Nat
      BY <1>1
    <2>2. ASSUME NEW u, Current(z, g, u, k) PROVE Current(s, h, u, k + 1)
      <3>1. PICK j \in 0 .. k : Held(z, g, j) = u /\ \A l \in j + 1 .. k : Held(z, g, l) = NoThread
        BY <2>2 DEF Current
      <3>2. u # NoThread
        BY <2>2 DEF Current
      <3>3. \A l \in 1 .. k : Held(s, h, l + 1) = Held(z, g, l)
        BY <1>1 DEF Held
      <3>4. CASE j = 0 /\ Head(s).t = NoThread
        <4>1. Held(s, h, 0) = u /\ 0 \in 0 .. k + 1
          BY <2>1, <3>1, <3>4 DEF Held
        <4>2. ASSUME NEW l \in 0 + 1 .. k + 1 PROVE Held(s, h, l) = NoThread
          <5>1. CASE l = 1
            BY <1>1, <3>4, <5>1 DEF Held
          <5>2. CASE l # 1
            <6>1. l - 1 \in 1 .. k /\ l - 1 \in j + 1 .. k /\ (l - 1) + 1 = l
              BY <2>1, <3>4, <5>2
            <6> QED
              BY <3>1, <3>3, <6>1
          <5> QED
            BY <5>1, <5>2
        <4> QED
          BY <3>2, <4>1, <4>2 DEF Current
      <3>5. CASE j # 0 \/ Head(s).t # NoThread
        <4>1. j + 1 \in 0 .. k + 1 /\ Held(s, h, j + 1) = u
          <5>1. CASE j = 0
            BY <1>1, <2>1, <3>1, <3>5, <5>1 DEF Held
          <5>2. CASE j # 0
            BY <2>1, <3>1, <3>3, <5>2
          <5> QED
            BY <5>1, <5>2
        <4>2. ASSUME NEW l \in (j + 1) + 1 .. k + 1 PROVE Held(s, h, l) = NoThread
          <5>1. l - 1 \in 1 .. k /\ l - 1 \in j + 1 .. k /\ (l - 1) + 1 = l
            BY <2>1
          <5> QED
            BY <3>1, <3>3, <5>1
        <4> QED
          BY <3>2, <4>1, <4>2 DEF Current
      <3> QED
        BY <3>4, <3>5
    <2> QED
      BY <1>4, <2>1, <2>2 DEF Backed
  <1>6. Backed(z, g, cp)
    BY <1>5 DEF Backed
  <1> QED
    BY <1>3, <1>6 DEF z

LEMMA BackedOn ==
  ASSUME NEW s \in Seq(Entries), NEW h, h # NoThread, NEW cp, NEW cp2, Backed(s, h, cp),
         cp2[h] = cp[h], \A k \in DOMAIN s : s[k].t # NoThread => cp2[s[k].t] = cp[s[k].t]
  PROVE  Backed(s, h, cp2)
  <1>1. ASSUME NEW k \in DOMAIN s, NEW u, Current(s, h, u, k) PROVE cp2[u] = cp[u]
    <2>1. PICK j \in 0 .. k : Held(s, h, j) = u
      BY <1>1 DEF Current
    <2>2. u # NoThread
      BY <1>1 DEF Current
    <2>3. j # 0 => j \in DOMAIN s
      OBVIOUS
    <2> QED
      BY <2>1, <2>2, <2>3 DEF Held
  <1> QED
    BY <1>1 DEF Backed

-----------------------------------------------------------------------------
(***************************************************************************)
(* What a step leaves as it was.                                           *)
(***************************************************************************)
LEMMA SamePaths ==
  ASSUME UNCHANGED <<prog, call>>
  PROVE  /\ \A n, q, f : Reached(n, q, f)' <=> Reached(n, q, f)
         /\ \A n, q : Fits(n, q)' <=> Fits(n, q)
         /\ Begins' = Begins /\ Captures' = Captures /\ Id' = Id /\ NCapture' = NCapture
         /\ Unset' = Unset
  BY DEF Reached, Fits, Begins, Captures, Id, Inst, NCapture, Unset

LEMMA BackedNext ==
  ASSUME UNCHANGED <<prog, call, p>>, Backed(stk', t0', caps')
  PROVE  Backed(stk, t0, caps)'
  BY DEF Backed, Reached, Begins, Current, Held

\* The threads of runq stay right as long as they have only to wait.
LEMMA RunsKeep ==
  ASSUME NFAInv, Form, RunsRight, UNCHANGED <<prog, call, p, runq>>, CapsKept,
         pc' \in {"step", "add"} =>
           pc \in {"step", "add"} /\ \A k \in Nat : k >= RunFrom' => k >= RunFrom
  PROVE  RunsRight'
  <1> SUFFICES ASSUME pc' \in {"step", "add"}, NEW k \in DOMAIN runq, k >= RunFrom',
                      runq[k].t # NoThread
               PROVE  Good(runq[k], p - 1)'
    BY SamePaths DEF RunsRight
  <1>1. k >= RunFrom /\ pc \in {"step", "add"}
    <2>1. k \in Nat
      BY InvIs
    <2> QED
      BY <2>1
  <1>2. Good(runq[k], p - 1) /\ IsHeld(runq[k].t)
    BY <1>1, HeldIs DEF RunsRight
  <1>3. caps'[runq[k].t] = caps[runq[k].t]
    BY <1>2 DEF CapsKept, IsHeld
  <1> QED
    BY <1>2, <1>3, SamePaths DEF Good

LEMMA NextKeep ==
  ASSUME NFAInv, Form, NextRight, UNCHANGED <<prog, call, p, nextq>>, CapsKept
  PROVE  NextRight'
  <1> SUFFICES ASSUME NEW k \in DOMAIN nextq, nextq[k].t # NoThread
               PROVE  Good(nextq[k], p)'
    BY DEF NextRight
  <1>1. Good(nextq[k], p) /\ IsHeld(nextq[k].t)
    BY HeldIs DEF NextRight
  <1>2. caps'[nextq[k].t] = caps[nextq[k].t]
    BY <1>1 DEF CapsKept, IsHeld
  <1> QED
    BY <1>1, <1>2, SamePaths DEF Good

LEMMA MatchKeeps ==
  ASSUME MatchRight, UNCHANGED <<prog, call, match, matched, id>>,
         ~(pc' = "shortcut" \/ (pc' = "cut" /\ id # 0)), ~(pc = "shortcut" \/ (pc = "cut" /\ id # 0))
  PROVE  MatchRight'
  BY SamePaths DEF MatchRight

-----------------------------------------------------------------------------
(***************************************************************************)
(* AddToThreadq keeps what is right.                                       *)
(***************************************************************************)
LEMMA AddingForm ==
  ASSUME NFAInv, SInv, pc = "add", UNCHANGED <<prog, call, pc, p, runq, i, best, id>>,
         caps' \in Seq(Captures), Len(caps') = Len(ref'), CapsKept
  PROVE  Form' /\ RunsRight' /\ MatchRight'
  <1>1. id = 0
    BY DEF SInv, Form
  <1>2. RunFrom \in Nat /\ RunFrom' = RunFrom
    BY InvIs DEF RunFrom
  <1>3. RunsRight'
    BY <1>2, RunsKeep DEF SInv
  <1>4. MatchRight'
    BY <1>1, MatchKeeps DEF SInv, best
  <1>5. Form'
    BY <1>1, SamePaths DEF SInv, Form, Going, best
  <1> QED
    BY <1>3, <1>4, <1>5

\* The instruction at hand enters the queue, with the thread at hand or none.
LEMMA EnteringRight ==
  ASSUME NFAInv, SInv, NEW op, Adding(op), NEW x \in {NoThread, t0},
         AddEntry(x), x = t0 => Fits(at, p), CapsKept
  PROVE  NextRight' /\ pc = "add" /\ at \in Id /\ at # 0 /\ at # None /\ Reached(at, p, caps[t0])
         /\ p \in call.b .. call.e /\ prog \in Progs /\ call \in Calls
         /\ UNCHANGED <<prog, call, pc, p, runq, i, best, id>> /\ IsHeld(t0) /\ t0 \in Thread
  <1>1. /\ pc = "add" /\ at \in Id /\ at \in Nat /\ at # 0 /\ at # None
        /\ UNCHANGED <<prog, call, pc, p, runq, i, best, id>>
        /\ nextq \in Seq(Entries) /\ prog \in Progs /\ t0 \in Thread /\ IsHeld(t0)
    <2>1. pc = "add" /\ at \in Id /\ at \in Nat /\ t0 \in Thread /\ nextq \in Seq(Entries)
      BY AddingIs
    <2>2. IsHeld(t0)
      BY <2>1, HeldIs DEF Thread, SInv
    <2> QED
      BY <2>1, <2>2, InvIs DEF Adding, NTypes
  <1>2. Reached(at, p, caps[t0])
    BY <1>1 DEF SInv, AddRight
  <1>3. p \in call.b .. call.e /\ call \in Calls
    BY <1>1, CallIs DEF SInv, Form
  <1>4. ASSUME NEW k \in DOMAIN nextq', nextq'[k].t # NoThread PROVE Good(nextq[k], p)'
    <2>1. nextq' = Append(nextq, Entry(at, x))
      BY DEF AddEntry
    <2>2. CASE k \in DOMAIN nextq
      <3>1. nextq'[k] = nextq[k]
        BY <1>1, <2>1, <2>2
      <3>2. Good(nextq[k], p) /\ IsHeld(nextq[k].t)
        BY <1>4, <2>2, <3>1, HeldIs DEF SInv, NextRight
      <3>3. caps'[nextq[k].t] = caps[nextq[k].t]
        BY <3>2 DEF CapsKept, IsHeld
      <3> QED
        BY <1>1, <3>1, <3>2, <3>3, SamePaths DEF Good
    <2>3. CASE k \notin DOMAIN nextq
      <3>1. nextq'[k] = Entry(at, x)
        BY <1>1, <2>1, <2>3
      <3>2. x = t0 /\ nextq'[k].id = at /\ nextq'[k].t = t0
        BY <1>4, <3>1 DEF Entry
      <3>3. caps'[t0] = caps[t0]
        BY <1>1 DEF CapsKept, IsHeld
      <3> QED
        BY <1>1, <1>2, <3>2, <3>3, SamePaths DEF Good
    <2> QED
      BY <2>2, <2>3
  <1>5. NextRight'
    BY <1>4 DEF NextRight
  <1> QED
    BY <1>1, <1>2, <1>3, <1>5

\* The same stack, and the thread goes on with an instruction that it reaches.
LEMMA GoingOnRight ==
  ASSUME NFAInv, SInv, NEW op, Adding(op), NEW x \in {NoThread, t0},
         AddEntry(x), x = t0 => Fits(at, p), UNCHANGED <<caps, stk, t0>>, Len(ref') = Len(ref),
         at' \notin {None, 0} => Reached(at', p, caps[t0])
  PROVE  SInv'
  <1>1. CapsKept /\ caps \in Seq(Captures) /\ Len(caps) = Len(ref)
    BY DEF CapsKept, SInv, Form
  <1>2. /\ NextRight' /\ pc = "add" /\ UNCHANGED <<prog, call, pc, p, runq, i, best, id>>
    BY <1>1, EnteringRight
  <1>3. Form' /\ RunsRight' /\ MatchRight'
    BY <1>1, <1>2, AddingForm
  <1>4. Backed(stk, t0, caps)'
    BY <1>2, BackedNext DEF SInv, AddRight
  <1>5. AddRight'
    BY <1>2, <1>4, SamePaths DEF SInv, AddRight
  <1> QED
    BY <1>2, <1>3, <1>5 DEF SInv

LEMMA IncrefLen ==
  ASSUME NFAInv, NEW x, Incref(x)
  PROVE  Len(ref') = Len(ref)
  <1>1. ref \in Seq(Nat)
    BY InvIs DEF NTypes
  <1> QED
    BY <1>1 DEF Incref

LEMMA DecrefLen ==
  ASSUME NFAInv, NEW x, Decref(x)
  PROVE  Len(ref') = Len(ref)
  <1>1. ref \in Seq(Nat)
    BY InvIs DEF NTypes
  <1> QED
    BY <1>1 DEF Decref

LEMMA AddAltMatchRight == NFAInv /\ SInv /\ AddAltMatch => SInv'
  <1> SUFFICES ASSUME NFAInv, SInv, AddAltMatch PROVE SInv'
    OBVIOUS
  <1>1. /\ Adding("altmatch") /\ AddEntry(t0) /\ Incref(t0) /\ at' = at + 1
        /\ UNCHANGED <<caps, free, stk, t0>>
    BY DEF AddAltMatch
  <1>2. Inst(at).op = "altmatch" /\ Fits(at, p) /\ CapsKept /\ Len(ref') = Len(ref)
    BY <1>1, IncrefLen DEF Adding, Fits, CapsKept
  <1>3. /\ at \in Id /\ Reached(at, p, caps[t0]) /\ p \in call.b .. call.e /\ prog \in Progs
    BY <1>1, <1>2, EnteringRight
  <1>4. ~Inst(at).last
    BY <1>2, <1>3, InstIs DEF Inst, Id
  <1>5. Reached(at + 1, p, caps[t0])
    BY <1>3, <1>4, ReachedRest
  <1> QED
    BY <1>1, <1>2, <1>5, GoingOnRight

LEMMA AddMatchRight == NFAInv /\ SInv /\ AddMatch => SInv'
  <1> SUFFICES ASSUME NFAInv, SInv, AddMatch PROVE SInv'
    OBVIOUS
  <1>1. /\ Adding("match") /\ AddEntry(t0) /\ Incref(t0) /\ at' = AfterThis
        /\ UNCHANGED <<caps, free, stk, t0>>
    BY DEF AddMatch
  <1>2. Inst(at).op = "match" /\ Fits(at, p) /\ CapsKept /\ Len(ref') = Len(ref)
    BY <1>1, IncrefLen DEF Adding, Fits, CapsKept
  <1>3. /\ at \in Id /\ Reached(at, p, caps[t0]) /\ p \in call.b .. call.e /\ prog \in Progs
    BY <1>1, <1>2, EnteringRight
  <1>4. at' # None => Reached(at', p, caps[t0])
    BY <1>1, <1>3, ReachedRest DEF AfterThis
  <1> QED
    BY <1>1, <1>2, <1>4, GoingOnRight

LEMMA AddByteRangeRight == NFAInv /\ SInv /\ AddByteRange => SInv'
  <1> SUFFICES ASSUME NFAInv, SInv, AddByteRange PROVE SInv'
    OBVIOUS
  <1>1. Adding("byte") /\ UNCHANGED <<caps, stk, t0>> /\ CapsKept
    BY DEF AddByteRange, CapsKept
  <1>2. CASE Matches(Inst(at), c)
    <2>1. /\ AddEntry(t0) /\ Incref(t0)
          /\ at' = IF Inst(at).hint = 0 THEN None ELSE at + Inst(at).hint
      BY <1>2 DEF AddByteRange
    <2>2. Fits(at, p) /\ Len(ref') = Len(ref)
      BY <1>2, <2>1, IncrefLen DEF Fits, c
    <2>3. /\ at \in Id /\ Reached(at, p, caps[t0]) /\ p \in call.b .. call.e /\ prog \in Progs
          /\ Inst(at).op = "byte"
      BY <1>1, <2>1, <2>2, EnteringRight DEF Adding
    <2>4. ASSUME at' # None PROVE Reached(at', p, caps[t0])
      <3>1. SameList(prog, at, at')
        BY <2>1, <2>3, <2>4, InstIs DEF Inst, Id
      <3> QED
        BY <2>3, <3>1, SkipReached DEF Reached, Inst, Id
    <2> QED
      BY <1>1, <2>1, <2>2, <2>4, GoingOnRight
  <1>3. CASE ~Matches(Inst(at), c)
    <2>1. AddEntry(NoThread) /\ at' = AfterThis /\ Len(ref') = Len(ref)
      BY <1>3 DEF AddByteRange
    <2>2. NoThread # t0
      BY <1>1, AddingIs DEF Thread
    <2>3. /\ at \in Id /\ Reached(at, p, caps[t0]) /\ p \in call.b .. call.e /\ prog \in Progs
      BY <1>1, <2>1, <2>2, EnteringRight
    <2>4. at' # None => Reached(at', p, caps[t0])
      BY <2>1, <2>3, ReachedRest DEF AfterThis
    <2> QED
      BY <1>1, <2>1, <2>2, <2>4, GoingOnRight
  <1> QED
    BY <1>2, <1>3

\* What is pushed, when the thread goes on to what the instruction leads to.
LEMMA PushingRight ==
  ASSUME NFAInv, SInv, NEW op, Adding(op), AddEntry(NoThread), PushRest(<< >>),
         UNCHANGED <<arena, t0>>,
         at' \notin {None, 0} => Reached(at', p, caps[t0])
  PROVE  SInv'
  <1>1. CapsKept /\ caps \in Seq(Captures) /\ Len(caps) = Len(ref) /\ UNCHANGED <<ref, caps, free>>
    BY DEF CapsKept, SInv, Form, arena
  <1>2. NoThread # t0 /\ stk \in Seq(Entries) /\ Below \in Seq(Entries) /\ stk' = Below
    BY AddingIs, PushRestPuts DEF Thread
  <1>3. /\ NextRight' /\ pc = "add" /\ UNCHANGED <<prog, call, pc, p, runq, i, best, id>>
        /\ at \in Id /\ Reached(at, p, caps[t0]) /\ p \in call.b .. call.e /\ prog \in Progs
    BY <1>1, <1>2, EnteringRight
  <1>4. Form' /\ RunsRight' /\ MatchRight'
    BY <1>1, <1>3, AddingForm
  <1>5. Backed(Below, t0, caps)
    <2>1. CASE Inst(at).last
      <3>1. Below = stk
        BY <1>2, <2>1, ConcatEmptySeq DEF Below
      <3> QED
        BY <1>3, <3>1 DEF SInv, AddRight
    <2>2. CASE ~Inst(at).last
      <3>1. Below = <<Entry(at + 1, NoThread)>> \o stk
        BY <2>2 DEF Below
      <3>2. Reached(at + 1, p, caps[t0]) /\ at + 1 \in Nat
        BY <1>3, <2>2, ReachedRest, ProgramLeads
      <3> QED
        BY <1>2, <1>3, <3>1, <3>2, BackedRest DEF SInv, AddRight
    <2> QED
      BY <2>1, <2>2
  <1>6. Backed(stk, t0, caps)'
    BY <1>1, <1>2, <1>3, <1>5, BackedNext
  <1>7. AddRight'
    BY <1>1, <1>3, <1>6, SamePaths DEF SInv, AddRight
  <1> QED
    BY <1>3, <1>4, <1>7 DEF SInv

LEMMA AddNopRight == NFAInv /\ SInv /\ AddNop => SInv'
  <1> SUFFICES ASSUME NFAInv, SInv, AddNop PROVE SInv'
    OBVIOUS
  <1>1. /\ Adding("nop") /\ AddEntry(NoThread) /\ PushRest(<< >>) /\ at' = Inst(at).out
        /\ UNCHANGED <<arena, t0>> /\ Inst(at).op = "nop"
    BY DEF AddNop, Adding
  <1>2. CapsKept /\ NoThread # t0
    BY <1>1, AddingIs DEF CapsKept, arena, Thread
  <1>3. /\ at \in Id /\ Reached(at, p, caps[t0]) /\ p \in call.b .. call.e /\ prog \in Progs
        /\ call \in Calls /\ IsHeld(t0)
    BY <1>1, <1>2, EnteringRight
  <1>4. Taken(prog, call, at, p, Inst(at).out, p)
    BY <1>1 DEF Taken, Inst
  <1>5. Reached(Inst(at).out, p, caps[t0])
    BY <1>1, <1>3, <1>4, ReachedTaken DEF IsHeld
  <1> QED
    BY <1>1, <1>5, PushingRight

LEMMA AddEmptyWidthRight == NFAInv /\ SInv /\ AddEmptyWidth => SInv'
  <1> SUFFICES ASSUME NFAInv, SInv, AddEmptyWidth PROVE SInv'
    OBVIOUS
  <1>1. /\ Adding("empty") /\ AddEntry(NoThread) /\ PushRest(<< >>)
        /\ at' = IF Inst(at).empty \subseteq EmptyFlags(call.text, p) THEN Inst(at).out ELSE None
        /\ UNCHANGED <<arena, t0>> /\ Inst(at).op = "empty"
    BY DEF AddEmptyWidth, Adding
  <1>2. CapsKept /\ NoThread # t0
    BY <1>1, AddingIs DEF CapsKept, arena, Thread
  <1>3. /\ at \in Id /\ Reached(at, p, caps[t0]) /\ p \in call.b .. call.e /\ prog \in Progs
        /\ call \in Calls /\ IsHeld(t0)
    BY <1>1, <1>2, EnteringRight
  <1>4. ASSUME at' # None PROVE Reached(at', p, caps[t0])
    <2>1. Taken(prog, call, at, p, Inst(at).out, p) /\ at' = Inst(at).out
      BY <1>1, <1>4 DEF Taken, Inst
    <2> QED
      BY <1>1, <1>3, <2>1, ReachedTaken DEF IsHeld
  <1> QED
    BY <1>1, <1>4, PushingRight

LEMMA AddCaptureRight == NFAInv /\ SInv /\ AddCapture => SInv'
  <1> SUFFICES ASSUME NFAInv, SInv, AddCapture PROVE SInv'
    OBVIOUS
  <1>1. /\ Adding("cap") /\ AddEntry(NoThread) /\ at' = Inst(at).out /\ Inst(at).op = "cap"
    BY DEF AddCapture, Adding
  <1>2. /\ pc = "add" /\ at \in Id /\ NoThread # t0 /\ t0 \in Thread /\ UNCHANGED <<prog, call, p, pc>>
        /\ prog \in Progs
    BY <1>1, AddingIs DEF Thread, Adding, NTypes
  <1>3. /\ Reached(at, p, caps[t0]) /\ p \in call.b .. call.e
        /\ call \in Calls /\ IsHeld(t0) /\ Backed(stk, t0, caps) /\ caps[t0][0] \in Begins
    BY <1>1, <1>2, CallIs, HeldIs DEF SInv, AddRight, Form, Adding
  <1>4. Taken(prog, call, at, p, Inst(at).out, p)
    BY <1>1 DEF Taken, Inst
  <1>5. Reached(Inst(at).out, p, IF Inst(at).cap < NCapture THEN [caps[t0] EXCEPT ![Inst(at).cap] = p]
                                 ELSE caps[t0])
    BY <1>1, <1>2, <1>3, <1>4, ReachedTaken DEF IsHeld
  <1>6. CASE Inst(at).cap >= NCapture
    <2>1. PushRest(<< >>) /\ UNCHANGED <<arena, t0>> /\ ~(Inst(at).cap < NCapture)
      <3>1. Inst(at).cap \in Nat /\ NCapture \in Nat
        BY <1>2, <1>3, CallIs, ProgsAssumption DEF WellFormed, InstOK, Inst, Id
      <3> QED
        BY <1>6, <3>1 DEF AddCapture
    <2> QED
      BY <1>1, <1>5, <2>1, PushingRight
  <1>7. CASE Inst(at).cap < NCapture
    <2> DEFINE f == [caps[t0] EXCEPT ![Inst(at).cap] = p]
    <2>1. AllocThread(f) /\ PushRest(<<Entry(0, t0)>>) /\ t0' = NewThread
      BY <1>7 DEF AddCapture
    <2>2. f \in Captures /\ f[0] = caps[t0][0]
      <3>1. Inst(at).cap \in Nat /\ Inst(at).cap >= 2
        BY <1>1, <1>2, ProgsAssumption DEF WellFormed, InstOK, Inst, Id
      <3>2. p \in Int /\ caps[t0] \in Captures
        BY <1>3, CallIs DEF IsHeld
      <3>3. PICK k \in Nat : k = Inst(at).cap
        BY <3>1
      <3>4. PICK g \in Captures : g = caps[t0]
        BY <3>2
      <3>5. [g EXCEPT ![k] = p] \in Captures /\ [g EXCEPT ![k] = p][0] = g[0]
        <4>1. call \in Calls /\ k >= 2 /\ p \in Int
          BY <1>3, <3>1, <3>2, <3>3
        <4> HIDE DEF f
        <4> QED
          BY <4>1, RecordedIs
      <3> QED
        BY <3>3, <3>4, <3>5
    <2> HIDE DEF f
    <2>3. /\ caps' \in Seq(Captures') /\ Len(caps') = Len(ref') /\ CapsKept
          /\ caps'[NewThread] = f
      BY <1>2, <2>1, <2>2, AllocIs DEF SInv
    <2>4. /\ NextRight' /\ UNCHANGED <<prog, call, pc, p, runq, i, best, id>>
      BY <1>1, <1>2, <2>3, EnteringRight
    <2>5. Form' /\ RunsRight' /\ MatchRight'
      BY <1>2, <2>3, <2>4, AddingForm, SamePaths
    <2>6. /\ Below \in Seq(Entries) /\ stk' = <<Entry(0, t0)>> \o Below /\ stk \in Seq(Entries)
      <3>1. Entry(0, t0) \in Entries
        BY <1>2 DEF Entry, Entries, Thread
      <3> QED
        BY <1>1, <2>1, <3>1, PushRestPuts, AddingIs
    <2>7. Backed(stk, t0, caps')
      <3>1. /\ caps'[t0] = caps[t0]
            /\ \A k \in DOMAIN stk : stk[k].t # NoThread => caps'[stk[k].t] = caps[stk[k].t]
        BY <1>2, <2>3, HeldIs DEF SInv, CapsKept, IsHeld
      <3> QED
        BY <1>2, <1>3, <2>6, <3>1, BackedOn
    <2>8. caps'[t0] = caps[t0]
      BY <1>3, <2>3 DEF CapsKept, IsHeld
    <2>9. Backed(Below, t0, caps')
      <3>1. CASE Inst(at).last
        <4>1. Below = stk
          BY <2>6, <3>1, ConcatEmptySeq DEF Below
        <4> QED
          BY <2>7, <4>1
      <3>2. CASE ~Inst(at).last
        <4>1. Below = <<Entry(at + 1, NoThread)>> \o stk
          BY <3>2 DEF Below
        <4>2. Reached(at + 1, p, caps'[t0]) /\ at + 1 \in Nat
          BY <1>2, <1>3, <2>8, <3>2, ReachedRest, ProgramLeads
        <4> QED
          BY <2>6, <2>7, <4>1, <4>2, BackedRest
      <3> QED
        BY <3>1, <3>2
    <2>10. Backed(<<Entry(0, t0)>> \o Below, NewThread, caps')
      BY <1>2, <2>2, <2>3, <2>6, <2>8, <2>9, BackedDummy
    <2>11. Backed(stk, t0, caps)'
      BY <1>2, <2>1, <2>6, <2>10, BackedNext
    <2>12. Reached(at', p, caps'[t0'])
      BY <1>1, <1>5, <1>7, <2>1, <2>3 DEF f
    <2>13. caps'[t0'][0] \in Begins
      BY <1>3, <2>1, <2>2, <2>3
    <2>14. AddRight'
      BY <1>2, <2>11, <2>12, <2>13, SamePaths DEF AddRight
    <2> QED
      BY <2>4, <2>5, <2>14 DEF SInv
  <1>8. Inst(at).cap < NCapture \/ Inst(at).cap >= NCapture
    BY <1>2, <1>3, CallIs, ProgsAssumption DEF WellFormed, InstOK, Inst, Id
  <1> QED
    BY <1>6, <1>7, <1>8

LEMMA AddPopRight == NFAInv /\ SInv /\ AddPop => SInv'
  <1> SUFFICES ASSUME NFAInv, SInv, AddPop PROVE SInv'
    OBVIOUS
  <1>1. /\ pc = "add" /\ at = None /\ stk # << >> /\ at' = Head(stk).id /\ stk' = Tail(stk)
        /\ t0' = IF Head(stk).t # NoThread THEN Head(stk).t ELSE t0
        /\ Head(stk).t # NoThread => Decref(t0)
        /\ Head(stk).t = NoThread => UNCHANGED ref
        /\ UNCHANGED <<prog, call, pc, p, runq, i, nextq, caps, best, id>>
    BY DEF AddPop
  <1>2. /\ stk \in Seq(Entries) /\ t0 \in Thread /\ Backed(stk, t0, caps) /\ caps[t0][0] \in Begins
    BY <1>1, InvIs DEF NFAInv, Where, NTypes, Thread, SInv, AddRight
  <1>3. CapsKept /\ caps' \in Seq(Captures) /\ Len(caps') = Len(ref')
    BY <1>1, DecrefLen DEF CapsKept, SInv, Form
  <1>4. Form' /\ RunsRight' /\ MatchRight' /\ NextRight'
    BY <1>1, <1>3, AddingForm, NextKeep DEF SInv
  <1>5. /\ Backed(Tail(stk), t0', caps)
        /\ Head(stk).t # NoThread => Head(stk).id = 0 /\ caps[Head(stk).t][0] = caps[t0][0]
        /\ Head(stk).t = NoThread => Reached(Head(stk).id, p, caps[t0])
    BY <1>1, <1>2, BackedPop
  <1>6. Backed(stk, t0, caps)'
    BY <1>1, <1>5, BackedNext
  <1>7. AddRight'
    BY <1>1, <1>2, <1>5, <1>6, SamePaths DEF AddRight
  <1> QED
    BY <1>4, <1>7 DEF SInv

LEMMA AddSeenRight == NFAInv /\ SInv /\ AddSeen => SInv'
  <1> SUFFICES ASSUME NFAInv, SInv, AddSeen PROVE SInv'
    OBVIOUS
  <1>1. /\ pc = "add" /\ at' = None
        /\ UNCHANGED <<prog, call, pc, p, runq, i, nextq, ref, caps, stk, t0, best, id>>
    BY DEF AddSeen, arena
  <1>2. CapsKept /\ caps' \in Seq(Captures) /\ Len(caps') = Len(ref')
    BY <1>1 DEF CapsKept, SInv, Form
  <1>3. Form' /\ RunsRight' /\ MatchRight' /\ NextRight'
    BY <1>1, <1>2, AddingForm, NextKeep DEF SInv
  <1>4. Backed(stk, t0, caps)'
    BY <1>1, BackedNext DEF SInv, AddRight
  <1>5. AddRight'
    BY <1>1, <1>4, SamePaths DEF SInv, AddRight
  <1> QED
    BY <1>3, <1>5 DEF SInv

LEMMA AddDoneRight == NFAInv /\ SInv /\ AddDone => SInv'
  <1> SUFFICES ASSUME NFAInv, SInv, AddDone PROVE SInv'
    OBVIOUS
  <1>1. /\ pc = "add" /\ Decref(t0)
        /\ IF i = 0 THEN pc' = "spawned" /\ i' = i ELSE pc' = "step" /\ i' = i + 1
        /\ UNCHANGED <<prog, call, p, runq, nextq, caps, match, matched, id>>
    BY DEF AddDone, best
  <1>2. i \in Nat /\ CapsKept /\ caps' \in Seq(Captures) /\ Len(caps') = Len(ref') /\ id = 0
    BY <1>1, DecrefLen, InvIs DEF CapsKept, SInv, Form
  <1>3. RunsRight'
    <2>1. ASSUME pc' = "step" PROVE RunFrom' = i + 1 /\ RunFrom = i + 1
      <3>1. i # 0 /\ i' = i + 1 /\ i' # 0 /\ pc' # "add"
        BY <1>1, <1>2, <2>1
      <3> QED
        BY <1>1, <3>1 DEF RunFrom
    <2> QED
      BY <1>1, <1>2, <2>1, RunsKeep DEF SInv
  <1>4. NextRight' /\ MatchRight' /\ AddRight'
    BY <1>1, <1>2, NextKeep, MatchKeeps DEF SInv, AddRight
  <1>5. Form'
    BY <1>1, <1>2, SamePaths DEF SInv, Form, Going
  <1> QED
    BY <1>3, <1>4, <1>5 DEF SInv

-----------------------------------------------------------------------------
(***************************************************************************)
(* Step keeps what is right.                                               *)
(***************************************************************************)
\* The thread that is run.
LEMMA RunIs ==
  ASSUME NFAInv, SInv, Running
  PROVE  /\ UNCHANGED <<prog, call, p, runq, caps>> /\ pc = "step" /\ prog \in Progs /\ call \in Calls
         /\ i \in 1 .. Len(runq) /\ i \in DOMAIN runq /\ i \in Nat /\ RunFrom = i /\ id = 0
         /\ runq[i].id \in Id /\ T = runq[i].t /\ p - 1 \in call.b .. call.e /\ p \in Int
         /\ t0 = NoThread /\ CapsKept /\ Captures' = Captures /\ Going
         /\ T # NoThread => /\ Good(runq[i], p - 1) /\ T \in Thread /\ IsHeld(T)
                            /\ Reached(runq[i].id, p - 1, caps[T])
  <1>1. UNCHANGED <<prog, call, p, runq, caps>> /\ pc = "step" /\ i <= Len(runq)
    BY DEF Running
  <1>2. /\ i \in 1 .. Len(runq) /\ i \in DOMAIN runq /\ i \in Nat /\ RunFrom = i
        /\ runq[i].id \in Id /\ T \in Nat /\ t0 = NoThread
    BY <1>1, RunningIs, InvIs
  <1>3. /\ prog \in Progs /\ call \in Calls /\ id = 0 /\ CapsKept /\ Captures' = Captures /\ Going
        /\ p - 1 \in call.b .. call.e /\ p \in call.b .. call.e + 1
    <2>1. runq # << >>
      BY <1>2
    <2> QED
      BY <1>1, <2>1, InvIs DEF SInv, Form, NTypes, CapsKept, Captures, NCapture
  <1>4. p \in Int
    BY <1>3, CallIs
  <1>5. T # NoThread => Good(runq[i], p - 1) /\ IsHeld(T)
    <2>1. i >= RunFrom
      BY <1>2
    <2> QED
      BY <1>1, <1>2, <2>1, HeldIs DEF SInv, RunsRight, T
  <1> QED
    BY <1>1, <1>2, <1>3, <1>4, <1>5 DEF Good, T, Thread

LEMMA StepOnRight ==
  ASSUME NFAInv, SInv, pc' = pc, pc \in {"step", "cut"}, i <= Len(runq), Next_i, Len(ref') = Len(ref),
         UNCHANGED <<prog, call, p, runq, caps, nextq, adding, best, id>>
  PROVE  SInv'
  <1>1. i \in Nat /\ i # 0 /\ RunFrom = i /\ i' = i + 1 /\ RunFrom' = i + 1
    <2>1. i \in Nat /\ i # 0 /\ RunFrom = i /\ i' = i + 1
      BY RunningIs, InvIs DEF Next_i
    <2> QED
      BY <2>1 DEF RunFrom
  <1>2. CapsKept /\ caps \in Seq(Captures) /\ Len(caps) = Len(ref')
    BY DEF CapsKept, SInv, Form
  <1>3. RunsRight' /\ NextRight'
    BY <1>1, <1>2, RunsKeep, NextKeep DEF SInv
  <1>4. MatchRight' /\ AddRight'
    BY SamePaths DEF SInv, MatchRight, AddRight, best
  <1>5. Form'
    BY <1>1, <1>2, SamePaths DEF SInv, Form, Going, best
  <1> QED
    BY <1>3, <1>4, <1>5 DEF SInv

LEMMA StepRight == NFAInv /\ SInv /\ (StepEmpty \/ StepSkip \/ CutOff) => SInv'
  <1> SUFFICES ASSUME NFAInv, SInv, StepEmpty \/ StepSkip \/ CutOff PROVE SInv'
    OBVIOUS
  <1>1. /\ pc \in {"step", "cut"} /\ i <= Len(runq) /\ Next_i /\ pc' = pc
        /\ UNCHANGED <<prog, call, p, runq, caps, nextq, adding, best, id>>
        /\ Decref(T) \/ UNCHANGED ref
    BY DEF StepEmpty, StepSkip, CutOff, Running
  <1> QED
    BY <1>1, DecrefLen, StepOnRight

\* A byte range that matches leads on, to a position in the text.
LEMMA RunByte ==
  ASSUME NFAInv, SInv, StepByteRange
  PROVE  /\ T # NoThread /\ Inst(runq[i].id).op = "byte"
         /\ p - 1 < call.e /\ p \in call.b .. call.e
         /\ Taken(prog, call, runq[i].id, p - 1, Inst(runq[i].id).out, p)
         /\ Reached(Inst(runq[i].id).out, p, caps[T])
  <1>1. Running /\ T # NoThread /\ Inst(runq[i].id).op = "byte"
    BY DEF StepByteRange, Stepping
  <1>2. /\ prog \in Progs /\ call \in Calls /\ runq[i].id \in Id /\ p - 1 \in call.b .. call.e
        /\ p \in Int /\ Good(runq[i], p - 1) /\ IsHeld(T) /\ Reached(runq[i].id, p - 1, caps[T])
    BY <1>1, RunIs
  <1>3. Matches(Inst(runq[i].id), ByteAt(call.text, p - 1, call.e))
    BY <1>1, <1>2 DEF Good, Fits
  <1>4. ByteAt(call.text, p - 1, call.e) # NoByte
    <2>1. InstOK(prog, runq[i].id)
      BY <1>2, ProgsAssumption DEF WellFormed, Id
    <2>2. Inst(runq[i].id).lo \in Byte /\ Inst(runq[i].id).fold \in BOOLEAN
      BY <2>1 DEF InstOK, Inst
    <2> QED
      BY <1>3, <2>2, MatchesByte
  <1>5. p - 1 < call.e /\ p \in call.b .. call.e /\ (p - 1) + 1 = p
    BY <1>2, <1>4, CallIs
  <1>6. Taken(prog, call, runq[i].id, p - 1, Inst(runq[i].id).out, p)
    BY <1>1, <1>3, <1>5 DEF Taken, Inst
  <1>7. Reached(Inst(runq[i].id).out, p, caps[T])
    BY <1>1, <1>2, <1>5, <1>6, ReachedTaken DEF IsHeld
  <1> QED
    BY <1>1, <1>5, <1>6, <1>7

LEMMA StepByteRangeRight == NFAInv /\ SInv /\ StepByteRange => SInv'
  <1> SUFFICES ASSUME NFAInv, SInv, StepByteRange PROVE SInv'
    OBVIOUS
  <1>1. /\ Running /\ pc' = "add" /\ at' = Inst(runq[i].id).out /\ t0' = T /\ stk' = << >>
        /\ UNCHANGED <<prog, call, p, runq, caps, i, nextq, ref, best, id>>
    BY DEF StepByteRange, Stepping, StartAdd, Running
  <1>2. /\ pc = "step" /\ i \in Nat /\ i # 0 /\ RunFrom = i /\ id = 0 /\ CapsKept /\ Going
        /\ p \in call.b .. call.e /\ Reached(Inst(runq[i].id).out, p, caps[T])
    BY <1>1, RunIs, RunByte
  <1>3. RunFrom' = i + 1
    BY <1>1, <1>2 DEF RunFrom
  <1>4. RunsRight' /\ NextRight'
    BY <1>1, <1>2, <1>3, RunsKeep, NextKeep DEF SInv
  <1>5. MatchRight'
    BY <1>1, <1>2, MatchKeeps DEF SInv, best
  <1>6. Form'
    BY <1>1, <1>2, SamePaths DEF SInv, Form, Going, best
  <1>7. AddRight'
    BY <1>1, <1>2, SamePaths DEF AddRight, Backed, Reached
  <1> QED
    BY <1>4, <1>5, <1>6, <1>7 DEF SInv

\* The match at the end of the text that a thread at an AltMatch is certain of.
LEMMA RunLoop ==
  ASSUME NFAInv, SInv, Stepping("altmatch")
  PROVE  /\ MatchArm(prog, runq[i].id) # 0
         /\ MatchArm(prog, runq[i].id) = IF Greedy(prog.inst, Inst(runq[i].id))
                                         THEN Inst(runq[i].id).out1 ELSE Inst(runq[i].id).out
         /\ Reached(MatchArm(prog, runq[i].id), call.e, caps[T])
         /\ ChainTo(prog, MatchArm(prog, runq[i].id))
  <1> DEFINE n == runq[i].id
  <1>1. /\ Running /\ T # NoThread /\ Inst(n).op = "altmatch"
    BY DEF Stepping
  <1>2. /\ prog \in Progs /\ call \in Calls /\ n \in Id /\ p - 1 \in call.b .. call.e
        /\ Reached(n, p - 1, caps[T])
    BY <1>1, RunIs
  <1>3. n \in DOMAIN prog.inst /\ prog.inst[n].op = "altmatch"
    BY <1>1, <1>2 DEF Id, Inst
  <1> HIDE DEF n
  <1>4. MatchArm(prog, n) = IF Greedy(prog.inst, Inst(n)) THEN Inst(n).out1 ELSE Inst(n).out
    BY DEF MatchArm, Inst
  <1>5. MatchArm(prog, n) # 0
    <2>1. n \in Nat /\ prog.inst[n].out = n + 1 /\ prog.inst[n].out1 = n + 2
      BY <1>2, <1>3, InstIs
    <2> QED
      BY <2>1 DEF MatchArm
  <1>6. Reached(MatchArm(prog, n), call.e, caps[T])
    BY <1>2, <1>3, LoopPath DEF Reached
  <1>7. ChainTo(prog, MatchArm(prog, n))
    BY <1>2, <1>3, MatchIsBehind
  <1> QED
    BY <1>4, <1>5, <1>6, <1>7 DEF n

LEMMA StepAltMatchRight == NFAInv /\ SInv /\ StepAltMatch => SInv'
  <1> SUFFICES ASSUME NFAInv, SInv, StepAltMatch PROVE SInv'
    OBVIOUS
  <1>1. /\ Running /\ Stepping("altmatch") /\ Decref(T) /\ Next_i /\ T # NoThread
        /\ UNCHANGED <<prog, call, p, runq, caps, nextq, adding>>
    BY DEF StepAltMatch, Stepping, Running
  <1>2. /\ pc = "step" /\ i \in Nat /\ i # 0 /\ i <= Len(runq) /\ id = 0 /\ CapsKept /\ Going
        /\ prog \in Progs /\ call \in Calls /\ IsHeld(T) /\ Len(ref') = Len(ref)
    BY <1>1, RunIs, DecrefLen, InvIs
  <1>3. CASE UNCHANGED <<pc, best, id>>
    BY <1>1, <1>2, <1>3, StepOnRight
  <1>4. CASE ~UNCHANGED <<pc, best, id>>
    <2>1. /\ i = 1 /\ match' = caps[T] /\ matched' = TRUE /\ pc' = "cut"
          /\ id' = IF Greedy(prog.inst, Inst(runq[i].id)) THEN Inst(runq[i].id).out1
                   ELSE Inst(runq[i].id).out
      BY <1>4 DEF StepAltMatch
    <2>2. id' # 0 /\ Reached(id', call.e, match') /\ ChainTo(prog, id')
      BY <1>1, <2>1, RunLoop
    <2>3. MatchRight'
      BY <1>1, <2>1, <2>2, SamePaths DEF MatchRight
    <2>4. nextq = << >>
      BY <1>2, <2>1 DEF SInv, Form
    <2>5. RunsRight' /\ NextRight' /\ AddRight'
      BY <1>1, <2>1, <2>4 DEF RunsRight, NextRight, AddRight
    <2>6. match' \in Captures
      BY <1>2, <2>1 DEF IsHeld
    <2>7. Form'
      BY <1>1, <1>2, <2>1, <2>4, <2>6, SamePaths DEF SInv, Form, Going
    <2> QED
      BY <2>3, <2>5, <2>7 DEF SInv
  <1> QED
    BY <1>3, <1>4

\* What a thread at a match reports.
LEMMA RunMatch ==
  ASSUME NFAInv, SInv, Stepping("match"), prog.anchorEnd => p - 1 = call.e
  PROVE  /\ EndsAt(T) \in Captures /\ EndsAt(T)[0] = caps[T][0] /\ EndsAt(T)[1] = p - 1
         /\ EndsAt(T)[0] \in Begins /\ Reports(prog, call, EndsAt(T)[0], EndsAt(T))
  <1>1. /\ Running /\ T # NoThread /\ Inst(runq[i].id).op = "match"
    BY DEF Stepping
  <1>2. /\ prog \in Progs /\ call \in Calls /\ runq[i].id \in Id /\ p - 1 \in call.b .. call.e
        /\ Reached(runq[i].id, p - 1, caps[T]) /\ IsHeld(T) /\ p \in Int
    BY <1>1, RunIs
  <1>3. PICK f \in Captures : f = caps[T]
    BY <1>2 DEF IsHeld
  <1>4. PICK x \in Int : x = p - 1
    BY <1>2
  <1> DEFINE g == [f EXCEPT ![1] = x]
  <1>5. EndsAt(T) = g
    BY <1>3, <1>4 DEF EndsAt
  <1>6. g \in Captures /\ g[0] = f[0] /\ g[1] = x /\ Kept(call, g) = Kept(call, f)
    BY <1>2, KeptIs
  <1>7. At(runq[i].id, p - 1, Kept(call, f)) \in MatchesFrom(prog, call, f[0])
    BY <1>1, <1>2, <1>3 DEF Reached, MatchesFrom, Ends, At, Inst
  <1> HIDE DEF g
  <1>8. Reports(prog, call, g[0], g)
    <2>1. \A r \in Regs(call) : g[r] = Kept(call, f)[r]
      <3>1. \A r \in Regs(call) : Kept(call, g)[r] = g[r]
        BY DEF Kept
      <3> QED
        BY <1>6, <3>1
    <2>2. At(runq[i].id, p - 1, Kept(call, f)).q = p - 1
          /\ At(runq[i].id, p - 1, Kept(call, f)).regs = Kept(call, f)
      BY DEF At
    <2> QED
      BY <1>4, <1>6, <1>7, <2>1, <2>2 DEF Reports
  <1> QED
    BY <1>2, <1>3, <1>4, <1>5, <1>6, <1>8 DEF Reached

LEMMA StepMatchRight == NFAInv /\ SInv /\ StepMatch => SInv'
  <1> SUFFICES ASSUME NFAInv, SInv, StepMatch PROVE SInv'
    OBVIOUS
  <1>1. /\ Running /\ Stepping("match") /\ Decref(T) /\ Next_i /\ T # NoThread
        /\ UNCHANGED <<prog, call, p, runq, caps, nextq, adding, id>> /\ pc' \in {pc, "cut"}
    BY DEF StepMatch, Stepping, Running
  <1>2. /\ pc = "step" /\ i \in Nat /\ i # 0 /\ i <= Len(runq) /\ id = 0 /\ CapsKept /\ Going
        /\ prog \in Progs /\ call \in Calls /\ Len(ref') = Len(ref) /\ RunFrom = i
    BY <1>1, RunIs, DecrefLen, InvIs
  <1>3. CASE UNCHANGED <<pc, best>>
    BY <1>1, <1>2, <1>3, StepOnRight
  <1>4. CASE ~UNCHANGED <<pc, best>>
    <2>1. /\ match' = EndsAt(T) /\ matched' = TRUE /\ (prog.anchorEnd => p - 1 = call.e)
      BY <1>4 DEF StepMatch
    <2>2. /\ EndsAt(T) \in Captures
          /\ EndsAt(T)[0] \in Begins /\ Reports(prog, call, EndsAt(T)[0], EndsAt(T))
      BY <1>1, <2>1, RunMatch
    <2>3. MatchRight'
      BY <1>1, <1>2, <2>1, <2>2, SamePaths DEF MatchRight
    <2>4. i' = i + 1 /\ i' # 0 /\ pc' # "add"
      BY <1>1, <1>2 DEF Next_i
    <2>5. RunFrom' = i + 1
      BY <2>4 DEF RunFrom
    <2>6. RunsRight' /\ NextRight'
      BY <1>1, <1>2, <2>5, RunsKeep, NextKeep DEF SInv
    <2>7. AddRight'
      BY <2>4 DEF AddRight
    <2>8. Form'
      BY <1>1, <1>2, <2>1, <2>2, <2>4, SamePaths DEF SInv, Form, Going
    <2> QED
      BY <2>3, <2>6, <2>7, <2>8 DEF SInv
  <1> QED
    BY <1>3, <1>4

-----------------------------------------------------------------------------
(***************************************************************************)
(* Search keeps what is right.                                             *)
(***************************************************************************)
LEMMA RejectRight == NFAInv /\ SInv /\ Reject => SInv'
  <1> SUFFICES ASSUME NFAInv, SInv, Reject PROVE SInv'
    OBVIOUS
  <1>1. /\ pc = "search" /\ pc' = "done"
        /\ prog.start = 0 \/ ~AnchorsFit(prog, call)
    BY DEF Reject
  <1>2. UNCHANGED <<prog, call, p, runq, i, nextq, ref, caps, stk, at, t0, match, matched, id>>
    BY DEF Reject, arena, adding, best
  <1>3. /\ ~Going /\ ~Going' /\ ~matched /\ nextq = << >> /\ id = 0
    BY <1>1, <1>2 DEF Going, SInv, Form, NFAInv, Where
  <1>4. Form'
    BY <1>1, <1>2, <1>3, SamePaths DEF SInv, Form
  <1> QED
    BY <1>1, <1>2, <1>3, <1>4 DEF SInv, RunsRight, NextRight, AddRight, MatchRight

LEMMA BeginRight == NFAInv /\ SInv /\ Begin => SInv'
  <1> SUFFICES ASSUME NFAInv, SInv, Begin PROVE SInv'
    OBVIOUS
  <1>1. /\ pc = "search" /\ pc' = "step" /\ i' = 1 /\ p' = call.b /\ match' = Unset
        /\ prog.start # 0 /\ AnchorsFit(prog, call)
        /\ UNCHANGED <<prog, call, runq, nextq, ref, caps, stk, at, t0, matched, id>>
    BY DEF Begin, Unset, arena, adding
  <1>2. /\ ~matched /\ nextq = << >> /\ runq = << >> /\ id = 0 /\ call \in Calls /\ Going'
    BY <1>1 DEF Going, SInv, Form, NFAInv, Where
  <1>3. Unset \in Captures
    BY DEF Unset, Captures, NoPos
  <1>4. Form'
    BY <1>1, <1>2, <1>3, CallIs, SamePaths DEF SInv, Form
  <1> QED
    BY <1>1, <1>2, <1>4 DEF SInv, RunsRight, NextRight, AddRight, MatchRight

LEMMA StepDoneRight == NFAInv /\ SInv /\ StepDone => SInv'
  <1> SUFFICES ASSUME NFAInv, SInv, StepDone PROVE SInv'
    OBVIOUS
  <1>1. /\ pc \in {"step", "cut"} /\ runq' = << >> /\ i' = 0
        /\ pc' = IF id # 0 THEN "shortcut" ELSE IF p > call.e THEN "drain"
                 ELSE IF Start THEN "spawn" ELSE "spawned"
        /\ UNCHANGED <<prog, call, p, nextq, ref, caps, stk, at, t0, match, matched, id>>
    BY DEF StepDone, arena, adding, best
  <1>2. /\ Going /\ Going' /\ call \in Calls /\ p \in call.b .. call.e + 1 /\ CapsKept
        /\ id # 0 => pc = "cut"
    BY <1>1 DEF SInv, Form, CapsKept, Going
  <1>3. p > call.e \/ p <= call.e
    BY <1>2, CallIs
  <1>4. p > call.e => nextq = << >>
    BY <1>2, CallIs DEF SInv, Form
  <1>5. Form'
    BY <1>1, <1>2, <1>3, <1>4, SamePaths DEF SInv, Form, Start
  <1>6. NextRight'
    BY <1>1, <1>2, NextKeep DEF SInv
  <1>7. MatchRight'
    <2>1. id # 0 <=> (pc = "shortcut" \/ (pc = "cut" /\ id # 0))
      BY <1>1, <1>2
    <2>2. id # 0 <=> (pc' = "shortcut" \/ (pc' = "cut" /\ id' # 0))
      BY <1>1
    <2> QED
      BY <1>1, <2>1, <2>2, SamePaths DEF SInv, MatchRight
  <1> QED
    BY <1>1, <1>5, <1>6, <1>7 DEF SInv, RunsRight, AddRight

\* The chain to the match goes on.
LEMMA ShortcutRight == NFAInv /\ SInv /\ Shortcut => SInv'
  <1> SUFFICES ASSUME NFAInv, SInv, Shortcut PROVE SInv'
    OBVIOUS
  <1>1. /\ pc = "shortcut" /\ UNCHANGED <<prog, call, p, runq, i, nextq, ref, caps, stk, at, t0>>
    BY DEF Shortcut, arena, adding
  <1>2. /\ Going /\ matched /\ call \in Calls /\ match \in Captures /\ prog \in Progs
        /\ Reached(id, call.e, match) /\ ChainTo(prog, id)
    BY <1>1, InvIs DEF SInv, Form, MatchRight, NTypes
  <1>3. id \in Id /\ call.e \in call.b .. call.e /\ call.e \in Int
    <2>1. At(id, call.e, Kept(call, match)) \in Configs(prog, call)
      BY <1>2 DEF Reached, Paths
    <2> QED
      BY <1>2, <2>1, CallIs DEF Configs, At, Id
  <1>4. nextq = << >> /\ Going'
    BY <1>1, <1>2 DEF SInv, Form, Going, Shortcut
  <1>5. CASE Inst(id).op \in {"cap", "nop"}
    <2>1. /\ match' = IF Inst(id).op = "cap" /\ Inst(id).cap < NCapture
                        THEN [match EXCEPT ![Inst(id).cap] = call.e] ELSE match
          /\ id' = Inst(id).out /\ UNCHANGED <<pc, matched>>
      BY <1>5 DEF Shortcut
    <2>2. Taken(prog, call, id, call.e, Inst(id).out, call.e)
      BY <1>5 DEF Taken, Inst
    <2>3. Reached(id', call.e, match')
      BY <1>2, <1>3, <1>5, <2>1, <2>2, ReachedTaken
    <2>4. ChainTo(prog, id')
      BY <1>2, <1>5, <2>1, ChainOn DEF Inst
    <2>5. match' \in Captures
      <3>1. Inst(id).op = "cap" => Inst(id).cap \in Nat /\ Inst(id).cap >= 2
        BY <1>2, <1>3, ProgsAssumption DEF WellFormed, InstOK, Inst, Id
      <3> QED
        BY <1>2, <1>3, <2>1, <3>1, RecordedIs
    <2>6. Form'
      BY <1>1, <1>2, <1>4, <2>1, <2>5, SamePaths DEF SInv, Form
    <2>7. MatchRight'
      BY <1>1, <1>2, <2>1, <2>3, <2>4, SamePaths DEF MatchRight
    <2> QED
      BY <1>1, <1>4, <2>1, <2>6, <2>7 DEF SInv, RunsRight, NextRight, AddRight
  <1>6. CASE Inst(id).op \notin {"cap", "nop"}
    <2>1. Inst(id).op = "match"
      BY <1>2, <1>6, ChainOn DEF Inst
    <2>2. /\ match' = [match EXCEPT ![1] = call.e] /\ matched' = TRUE /\ pc' = "drain" /\ id' = id
      BY <1>2, <1>6, <2>1 DEF Shortcut
    <2>3. PICK f \in Captures, x \in Int : f = match /\ x = call.e
      BY <1>2, <1>3
    <2> DEFINE g == [f EXCEPT ![1] = x]
    <2>4. g \in Captures /\ g[0] = f[0] /\ g[1] = x /\ Kept(call, g) = Kept(call, f)
      BY <1>2, KeptIs
    <2>5. match' = g
      BY <2>2, <2>3
    <2> HIDE DEF g
    <2>6. At(id, call.e, Kept(call, f)) \in MatchesFrom(prog, call, f[0])
      BY <1>2, <2>1, <2>3 DEF Reached, MatchesFrom, Ends, At, Inst
    <2>7. Reports(prog, call, g[0], g)
      <3>1. \A r \in Regs(call) : g[r] = Kept(call, f)[r]
        <4>1. \A r \in Regs(call) : Kept(call, g)[r] = g[r]
          BY DEF Kept
        <4> QED
          BY <2>4, <4>1
      <3>2. At(id, call.e, Kept(call, f)).q = call.e
            /\ At(id, call.e, Kept(call, f)).regs = Kept(call, f)
        BY DEF At
      <3> QED
        BY <2>3, <2>4, <2>6, <3>1, <3>2 DEF Reports
    <2>8. match'[0] \in Begins /\ match'[1] = call.e
      BY <1>2, <2>3, <2>4, <2>5 DEF Reached
    <2>9. MatchRight'
      BY <1>1, <2>2, <2>5, <2>7, <2>8, SamePaths DEF MatchRight
    <2>10. Form'
      BY <1>1, <1>2, <1>4, <2>2, <2>4, <2>5, SamePaths DEF SInv, Form
    <2> QED
      BY <1>1, <1>4, <2>2, <2>9, <2>10 DEF SInv, RunsRight, NextRight, AddRight
  <1> QED
    BY <1>5, <1>6

\* A new thread is at the first instruction, and has recorded its start only.
LEMMA SpawnIs ==
  ASSUME NFAInv, SInv, Spawn
  PROVE  /\ pc = "spawn" /\ pc' = "add" /\ p' = Skipped
         /\ p' \in call.b .. call.e /\ p' >= p /\ p \in Int
         /\ p' \in Begins
         /\ nextq # << >> => p' = p
         /\ AllocThread([match EXCEPT ![0] = p']) /\ match = Unset /\ Start /\ i = 0 /\ ~matched
         /\ at' = prog.start /\ t0' = NewThread /\ stk' = << >>
         /\ UNCHANGED <<prog, call, runq, i, nextq, match, matched, id>>
         /\ prog \in Progs /\ call \in Calls /\ Going
  <1>1. /\ pc = "spawn" /\ pc' = "add" /\ p' = Skipped
        /\ AllocThread([match EXCEPT ![0] = p'])
        /\ at' = prog.start /\ t0' = NewThread /\ stk' = << >>
        /\ UNCHANGED <<prog, call, runq, i, nextq, match, matched, id>>
    BY DEF Spawn, StartAdd, best
  <1>2. /\ prog \in Progs /\ call \in Calls /\ Going /\ p \in call.b .. call.e + 1 /\ p <= call.e
        /\ Start /\ i = 0
    BY <1>1, InvIs, SearchIs DEF SInv, Form, NTypes
  <1>3. ~matched /\ match = Unset
    BY <1>2 DEF Start, SInv, Form
  <1>4. p \in Int /\ p \in call.b .. call.e
    BY <1>2, CallIs
  <1>5. p' \in p .. call.e
    <2>1. PrefixAccel(prog, call.text, p, call.e) \in p .. call.e
      <3>1. p \in Nat /\ call.e \in Nat /\ prog.prefix.bytes \in Seq(Byte)
        BY <1>2, <1>4, CallIs, ProgsAssumption
      <3> QED
        BY <1>2, <3>1, AccelStays
    <2> QED
      BY <1>1, <1>4, <2>1, CallIs DEF Skipped
  <1>6. p' \in Begins
    BY <1>1, <1>2, <1>4, <1>5, CallIs DEF Begins, Start, Skipped
  <1>7. nextq # << >> => p' = p
    BY <1>1 DEF Skipped
  <1>8. p' \in call.b .. call.e /\ p' >= p
    BY <1>2, <1>4, <1>5, CallIs
  <1> QED
    BY <1>1, <1>2, <1>3, <1>4, <1>6, <1>7, <1>8

LEMMA SpawnRight == NFAInv /\ SInv /\ Spawn => SInv'
  <1> SUFFICES ASSUME NFAInv, SInv, Spawn PROVE SInv'
    OBVIOUS
  <1>0. /\ p' \in Int /\ p' \in Begins /\ at' = prog.start /\ stk' = << >> /\ t0' = NewThread
        /\ UNCHANGED <<prog, call, nextq>>
        /\ nextq # << >> => p' = p
    BY SpawnIs, CallIs
  <1>1. PICK s \in Int : s = p'
    BY <1>0
  <1> DEFINE f == [Unset EXCEPT ![0] = s]
  <1>2. f = [r \in 0 .. NCapture - 1 |-> IF r = 0 THEN s ELSE NoPos] /\ f \in Captures /\ f[0] = s
    <2>1. NCapture \in Nat /\ NCapture >= 2
      BY SpawnIs, CallIs
    <2>2. f = [r \in 0 .. NCapture - 1 |-> IF r = 0 THEN s ELSE NoPos]
      BY <1>1 DEF Unset
    <2>3. 0 \in 0 .. NCapture - 1 /\ NoPos \in Int
      BY <2>1 DEF NoPos
    <2> QED
      BY <2>2, <2>3 DEF Captures
  <1>3. AllocThread(f)
    BY <1>1, SpawnIs
  <1>4. Kept(call, f) = [r \in Regs(call) |-> IF r = 0 THEN s ELSE NoPos]
    BY <1>2, SpawnIs, CallIs DEF Kept
  <1> HIDE DEF f
  <1>5. /\ caps' \in Seq(Captures') /\ Len(caps') = Len(ref') /\ CapsKept /\ caps'[NewThread] = f
    BY <1>2, <1>3, SpawnIs, AllocIs DEF SInv
  <1>6. Reached(prog.start, s, f)
    <2>1. First(prog, call, s) \in Paths(prog, call, s)
      <3>1. prog.start \in DOMAIN prog.inst /\ s \in call.b .. call.e
        BY <1>1, SpawnIs, ProgramLeads DEF Id
      <3> QED
        BY <3>1, FirstReached
    <2>2. First(prog, call, s) = At(prog.start, s, Kept(call, f))
      BY <1>4 DEF First
    <2>3. f[0] = s
      BY <1>2
    <2>4. s \in Begins
      BY <1>0, <1>1
    <2> QED
      BY <2>1, <2>2, <2>3, <2>4 DEF Reached
  <1>7. AddRight'
    <2>1. /\ at' = prog.start /\ p' = s /\ stk' = << >> /\ t0' = NewThread
          /\ UNCHANGED <<prog, call>> /\ caps'[t0'] = f
      BY <1>0, <1>1, <1>5
    <2>2. f[0] \in Begins
      BY <1>0, <1>1, <1>2
    <2>3. Backed(stk, t0, caps)'
      BY <2>1 DEF Backed
    <2>4. Reached(at, p, caps[t0])'
      <3>1. PICK g \in Captures : g = f
        BY <1>2
      <3>2. Reached(prog.start, s, g)'
        BY <1>6, <2>1, <3>1, SamePaths
      <3> QED
        BY <2>1, <3>1, <3>2 DEF Reached
    <2>5. Begins' = Begins
      BY <2>1, SamePaths
    <2> QED
      BY <2>1, <2>2, <2>3, <2>4, <2>5 DEF AddRight
  <1>8. NextRight'
    <2>1. CASE nextq = << >>
      BY <2>1, SpawnIs DEF NextRight
    <2>2. CASE nextq # << >>
      <3>1. UNCHANGED <<prog, call, p, nextq>> /\ NextRight /\ Form
        BY <1>0, <2>2 DEF SInv
      <3> QED
        BY <1>5, <3>1, NextKeep
    <2> QED
      BY <2>1, <2>2
  <1>9. RunsRight' /\ MatchRight'
    <2>1. runq = << >>
      BY SpawnIs, SearchIs
    <2> QED
      BY <2>1, SpawnIs DEF RunsRight, MatchRight
  <1>10. Form'
    <2>1. runq = << >> /\ id = 0
      BY SpawnIs, SearchIs DEF SInv, Form
    <2>2. p' \in call.b .. call.e + 1 /\ p' <= call.e
      BY SpawnIs, CallIs
    <2>3. Going'
      BY SpawnIs DEF Going
    <2> QED
      BY <1>5, <2>1, <2>2, <2>3, SpawnIs, SamePaths DEF SInv, Form
  <1> QED
    BY <1>7, <1>8, <1>9, <1>10 DEF SInv

LEMMA AdvanceRight == NFAInv /\ SInv /\ Advance => SInv'
  <1> SUFFICES ASSUME NFAInv, SInv, Advance PROVE SInv'
    OBVIOUS
  <1>1. /\ pc = "spawned" /\ runq' = nextq /\ nextq' = << >>
        /\ UNCHANGED <<prog, call, ref, caps, stk, at, t0, match, matched, id>>
        /\ IF nextq = << >> THEN pc' = "drain" /\ UNCHANGED <<p, i>>
           ELSE pc' = "step" /\ p' = p + 1 /\ i' = 1
    BY DEF Advance, arena, adding, best
  <1>2. /\ prog \in Progs /\ call \in Calls /\ Going /\ p \in call.b .. call.e + 1 /\ p <= call.e
        /\ id = 0 /\ nextq \in Seq(Entries)
    BY <1>1, InvIs DEF SInv, Form, NTypes
  <1>3. p \in Int /\ p \in call.b .. call.e /\ p + 1 \in call.b .. call.e + 1 /\ (p + 1) - 1 = p
    BY <1>2, CallIs
  <1>4. Going'
    BY <1>1, <1>2 DEF Going
  <1>5. Form'
    BY <1>1, <1>2, <1>3, <1>4, SamePaths DEF SInv, Form
  <1>6. MatchRight'
    BY <1>1, <1>2, MatchKeeps DEF SInv
  <1>7. RunsRight'
    BY <1>1, <1>3, SamePaths DEF SInv, NextRight, RunsRight, Good
  <1>8. NextRight' /\ AddRight'
    BY <1>1 DEF NextRight, AddRight
  <1> QED
    BY <1>5, <1>6, <1>7, <1>8 DEF SInv

LEMMA DrainRight == NFAInv /\ SInv /\ Drain => SInv'
  <1> SUFFICES ASSUME NFAInv, SInv, Drain PROVE SInv'
    OBVIOUS
  <1>1. pc = "drain" /\ nextq = << >> /\ Going /\ prog \in Progs /\ call \in Calls
    BY InvIs DEF Drain, SInv, Form, NTypes
  <1>2. /\ pc' = "done"
        /\ UNCHANGED <<prog, call, p, runq, i, nextq, ref, caps, stk, at, t0, match, matched, id>>
    BY <1>1 DEF Drain, adding, best
  <1>3. Going'
    BY <1>1, <1>2 DEF Going
  <1>4. Form'
    BY <1>1, <1>2, <1>3, SamePaths DEF SInv, Form
  <1>5. MatchRight'
    BY <1>1, <1>2, MatchKeeps DEF SInv
  <1> QED
    BY <1>1, <1>2, <1>4, <1>5 DEF SInv, RunsRight, NextRight, AddRight

LEMMA InitRight == Init => SInv
  <1> SUFFICES ASSUME Init PROVE SInv
    OBVIOUS
  <1>1. /\ prog \in Progs /\ call \in Calls /\ pc = "search" /\ p = 0 /\ i = 0 /\ id = 0
        /\ runq = << >> /\ nextq = << >> /\ stk = << >> /\ ref = << >> /\ caps = << >>
        /\ matched = FALSE
    BY DEF Init
  <1>2. ~Going
    BY <1>1 DEF Going
  <1>4. caps \in Seq(Captures) /\ matched \in BOOLEAN
    <2>1. caps \in Seq(Captures)
      BY <1>1
    <2>2. matched \in BOOLEAN
      BY <1>1, Zenon
    <2> QED
      BY <2>1, <2>2
  <1>5. Len(caps) = Len(ref)
    <2>1. caps = ref
      BY <1>1
    <2> QED
      BY <2>1
  <1>3. Form
    BY <1>1, <1>2, <1>4, <1>5 DEF Form
  <1> QED
    BY <1>1, <1>3 DEF SInv, RunsRight, NextRight, AddRight, MatchRight

LEMMA StutterRight == SInv /\ UNCHANGED vars => SInv'
  <1> SUFFICES ASSUME SInv, UNCHANGED vars PROVE SInv'
    OBVIOUS
  <1>1. UNCHANGED <<prog, call, pc, p, runq, i, nextq, ref, caps, free, stk, at, t0, match, matched, id>>
    BY DEF vars
  <1>2. RunFrom' = RunFrom
    BY <1>1 DEF RunFrom
  <1>3. Form'
    BY <1>1, SamePaths DEF SInv, Form, Going, Start
  <1>4. RunsRight' /\ NextRight'
    BY <1>1, <1>2, SamePaths DEF SInv, RunsRight, NextRight, Good
  <1>5. AddRight'
    <2>1. pc = "add" => Backed(stk, t0, caps)'
      BY <1>1, BackedNext DEF SInv, AddRight
    <2> QED
      BY <1>1, <2>1, SamePaths DEF SInv, AddRight
  <1>6. MatchRight'
    BY <1>1, SamePaths DEF SInv, MatchRight
  <1> QED
    BY <1>3, <1>4, <1>5, <1>6 DEF SInv

LEMMA SearchRight == NFAInv /\ SInv /\ [Next]_vars => SInv'
  <1> SUFFICES ASSUME NFAInv, SInv, [Next]_vars PROVE SInv'
    OBVIOUS
  <1>1. CASE AddInst
    BY <1>1, AddPopRight, AddSeenRight, AddAltMatchRight, AddNopRight, AddCaptureRight,
       AddByteRangeRight, AddMatchRight, AddEmptyWidthRight, AddDoneRight DEF AddInst
  <1>2. CASE StepInst
    BY <1>2, StepRight, StepByteRangeRight, StepAltMatchRight, StepMatchRight DEF StepInst
  <1>3. CASE Reject \/ Begin \/ StepDone \/ Shortcut \/ Spawn \/ Advance \/ Drain
    BY <1>3, RejectRight, BeginRight, StepDoneRight, ShortcutRight, SpawnRight, AdvanceRight,
       DrainRight
  <1>4. CASE Done \/ UNCHANGED vars
    BY <1>4, StutterRight DEF Done
  <1> QED
    BY <1>1, <1>2, <1>3, <1>4 DEF Next

LEMMA SearchIsRight == Spec => [](NFAInv /\ SInv)
  <1>1. NFAInv /\ SInv /\ [Next]_vars => SInv'
    BY SearchRight
  <1>2. Init => SInv
    BY InitRight
  <1> QED
    BY <1>1, <1>2, NFAInvariance, PTL DEF Spec

-----------------------------------------------------------------------------
(***************************************************************************)
(* What is not overlooked.                                                 *)
(*                                                                         *)
(* The machine keeps one thread for all the paths that come to the same    *)
(* instruction at the same position, and it is that of the path that began *)
(* first.  So what it has seen to it has seen to for every path that began *)
(* no earlier: X holds <<n, q, t>> when paths that began at t and come to  *)
(* n at q are seen to, D the positions where paths began, and lo is where  *)
(* the last thread began whose paths are in nextq.                         *)
(***************************************************************************)
Began(u) == caps[u][0]

\* Paths from t still matter, and a match at q of such a path would not.
Live(t) == ~matched \/ t < match[0] \/ (t = match[0] /\ Longest(prog, call) /\ id = 0)
Answered(t, q) ==
  /\ matched /\ match[0] <= t
  /\ Longest(prog, call) /\ match[0] = t => q <= match[1]

\* A thread that is to be run.
Runs(n, t) ==
  /\ pc \in {"step", "add"}
  /\ \E k \in DOMAIN runq :
       k >= RunFrom /\ runq[k].id = n /\ runq[k].t # NoThread /\ Began(runq[k].t) <= t
Queued(n, t) ==
  \E k \in DOMAIN nextq : nextq[k].id = n /\ nextq[k].t # NoThread /\ Began(nextq[k].t) <= t
Waits(n, q, t) ==
  /\ Inst(n).op \in {"byte", "altmatch", "match"}
  /\ (q = p - 1 /\ Runs(n, t)) \/ (q = p /\ Queued(n, t))

\* AddToThreadq comes to n yet.
OnStack(s, n) == \E k \in DOMAIN s : s[k].id = n
Pending(n) == pc = "add" /\ (n = at \/ OnStack(stk, n))

Here(X, n, q, t) == ~Inst(n).last => <<n + 1, q, t>> \in X
Gone(X, n, q, t) ==
  /\ \A r : Taken(prog, call, n, q, Inst(n).out, r) => <<Inst(n).out, r, t>> \in X
  /\ Ends(prog, call, n, q) => Answered(t, q)
Covered(X, n, q, t) == Here(X, n, q, t) /\ (Gone(X, n, q, t) \/ Waits(n, q, t))

Ways(D, X) ==
  /\ \A n, q, t : <<n, q, t>> \in X => n \in Id /\ q \in call.b .. call.e /\ q <= p /\ t \in D
  /\ \A t \in D : <<prog.start, t, t>> \in X
Seen(X) ==
  \A n, q, t : <<n, q, t>> \in X /\ Live(t) =>
    Covered(X, n, q, t) \/ (q = p /\ Pending(n) /\ Began(t0) <= t)
Queue(D, X, lo) ==
  \A t \in D : t >= lo =>
    /\ \A k \in DOMAIN nextq :
         <<nextq[k].id, p, t>> \in X /\ (Live(t) => Covered(X, nextq[k].id, p, t))
    /\ \A n \in Id \ {0} : Pending(n) => <<n, p, t>> \in X

\* Which starts have had their thread: all those before p, and then p too.
Over == pc \in {"shortcut", "drain", "done"}
Before(t) == t < p \/ (t = p /\ (pc = "spawned" \/ (pc = "add" /\ i = 0)))
Tried(D) ==
  /\ D \subseteq Begins /\ \A t \in D : Over \/ Before(t)
  /\ \A t \in Starts(prog, call) : Live(t) /\ (Over \/ Before(t)) => t \in D
  /\ matched => match[0] \in D /\ match[0] < p

\* Threads are in the order in which they began.
Within(s) == matched /\ ~Longest(prog, call) => s <= match[0]
RunOrder(D, lo) ==
  pc \in {"step", "add"} =>
    \A k \in DOMAIN runq : k >= RunFrom /\ runq[k].t # NoThread =>
      /\ Began(runq[k].t) \in D /\ lo <= Began(runq[k].t) /\ Began(runq[k].t) < p
      /\ Within(Began(runq[k].t))
      /\ \A j \in DOMAIN runq : j >= k /\ runq[j].t # NoThread =>
           Began(runq[k].t) <= Began(runq[j].t)
NextOrder(D, lo) ==
  \A k \in DOMAIN nextq : nextq[k].t # NoThread =>
    /\ Began(nextq[k].t) \in D /\ Began(nextq[k].t) <= lo /\ Within(Began(nextq[k].t))
    /\ \A j \in DOMAIN nextq : j >= k /\ nextq[j].t # NoThread =>
         Began(nextq[k].t) <= Began(nextq[j].t)
AddOrder(lo) == pc = "add" => Began(t0) = lo /\ (i > 0 => lo < p) /\ Within(lo)
Order(D, lo) ==
  /\ lo \in Int /\ (pc = "add" \/ nextq # << >> => lo \in D)
  /\ RunOrder(D, lo) /\ NextOrder(D, lo) /\ AddOrder(lo)
  /\ pc = "add" /\ i = 0 => at = prog.start \/ nextq # << >>
  /\ pc = "spawned" /\ Start => nextq # << >>

CInv(D, X, lo) ==
  Going => Ways(D, X) /\ Seen(X) /\ Queue(D, X, lo) /\ Tried(D) /\ Order(D, lo)

-----------------------------------------------------------------------------
(***************************************************************************)
(* What a step leaves seen to.                                             *)
(***************************************************************************)
LEMMA SameWays ==
  ASSUME UNCHANGED <<prog, call>>
  PROVE  /\ \A X, n, q, t : Here(X, n, q, t)' <=> Here(X, n, q, t)
         /\ \A n, q, m, r : Taken(prog, call, n, q, m, r)' <=> Taken(prog, call, n, q, m, r)
         /\ \A n, q : Ends(prog, call, n, q)' <=> Ends(prog, call, n, q)
         /\ \A n : Inst(n)' = Inst(n)
         /\ Starts(prog, call)' = Starts(prog, call) /\ Id' = Id /\ Begins' = Begins
  BY DEF Here, Inst, Id, Begins

LEMMA SameMatch ==
  ASSUME UNCHANGED <<prog, call, match, matched, id>>
  PROVE  /\ \A t : Live(t)' <=> Live(t)
         /\ \A t, q : Answered(t, q)' <=> Answered(t, q)
         /\ \A s : Within(s)' <=> Within(s)
  BY DEF Live, Answered, Within

LEMMA GoneOn ==
  ASSUME UNCHANGED <<prog, call>>,
         NEW X, NEW Y, \A n, q, t : <<n, q, t>> \in X => <<n, q, t>> \in Y,
         NEW n, NEW q, NEW t, Gone(X, n, q, t), Answered(t, q) => Answered(t, q)'
  PROVE  Gone(Y, n, q, t)'
  BY DEF Gone, Inst

LEMMA HereOn ==
  ASSUME UNCHANGED <<prog, call>>,
         NEW X, NEW Y, \A n, q, t : <<n, q, t>> \in X => <<n, q, t>> \in Y,
         NEW n, NEW q, NEW t, Here(X, n, q, t)
  PROVE  Here(Y, n, q, t)'
  BY DEF Here, Inst

LEMMA RunsOn ==
  ASSUME NFAInv, Form, UNCHANGED runq, CapsKept, pc' \in {"step", "add"},
         \A k \in Nat : k >= RunFrom => k >= RunFrom'
  PROVE  \A n, t : Runs(n, t) => Runs(n, t)'
  <1> SUFFICES ASSUME NEW n, NEW t, Runs(n, t) PROVE Runs(n, t)'
    OBVIOUS
  <1>1. PICK k \in DOMAIN runq :
          k >= RunFrom /\ runq[k].id = n /\ runq[k].t # NoThread /\ Began(runq[k].t) <= t
    BY DEF Runs
  <1>2. k \in Nat
    BY InvIs
  <1>3. IsHeld(runq[k].t)
    BY <1>1, HeldIs
  <1>4. Began(runq[k].t)' = Began(runq[k].t)
    BY <1>3 DEF CapsKept, IsHeld, Began
  <1> QED
    BY <1>1, <1>2, <1>4 DEF Runs

LEMMA QueuedOn ==
  ASSUME NFAInv, Form, CapsKept,
         \A k \in DOMAIN nextq : k \in DOMAIN nextq' /\ nextq'[k] = nextq[k]
  PROVE  /\ \A n, t : Queued(n, t) => Queued(n, t)'
         /\ \A k \in DOMAIN nextq : nextq[k].t # NoThread => Began(nextq[k].t)' = Began(nextq[k].t)
  <1>1. ASSUME NEW k \in DOMAIN nextq, nextq[k].t # NoThread
        PROVE  Began(nextq[k].t)' = Began(nextq[k].t)
    <2>1. IsHeld(nextq[k].t)
      BY <1>1, HeldIs
    <2> QED
      BY <2>1 DEF CapsKept, IsHeld, Began
  <1>2. ASSUME NEW n, NEW t, Queued(n, t) PROVE Queued(n, t)'
    <2>1. PICK k \in DOMAIN nextq :
            nextq[k].id = n /\ nextq[k].t # NoThread /\ Began(nextq[k].t) <= t
      BY <1>2 DEF Queued
    <2>2. k \in DOMAIN nextq' /\ nextq'[k] = nextq[k] /\ Began(nextq[k].t)' = Began(nextq[k].t)
      BY <1>1, <2>1
    <2> QED
      BY <2>1, <2>2 DEF Queued
  <1> QED
    BY <1>1, <1>2

LEMMA WaysAre ==
  ASSUME call \in Calls, NEW D, NEW X, Ways(D, X)
  PROVE  \A n, q, t : <<n, q, t>> \in X => n \in Id /\ q \in Int /\ t \in D
  BY CallIs DEF Ways

LEMMA SeenOn ==
  ASSUME UNCHANGED <<prog, call, p>>, NEW D, NEW X, NEW Y, Seen(X),
         \A n, q, t : <<n, q, t>> \in X => <<n, q, t>> \in Y,
         \A n, q, t : <<n, q, t>> \in Y => q \in Int /\ t \in D,
         \A t \in D : Live(t)' => Live(t),
         \A t \in D, q \in Int : Live(t)' /\ Answered(t, q) => Answered(t, q)',
         \A n, q, t : <<n, q, t>> \in X /\ Live(t)' /\ Here(X, n, q, t) /\ Waits(n, q, t) =>
                        Waits(n, q, t)' \/ Gone(Y, n, q, t)',
         \A n, t : <<n, p, t>> \in X /\ Live(t)' /\ Pending(n) /\ Began(t0) <= t =>
                     (Pending(n)' /\ Began(t0)' <= t) \/ Covered(Y, n, p, t)',
         \A n, q, t : <<n, q, t>> \in Y /\ <<n, q, t>> \notin X /\ Live(t)' =>
                        Covered(Y, n, q, t)' \/ (q = p /\ Pending(n)' /\ Began(t0)' <= t)
  PROVE  Seen(Y)'
  <1> SUFFICES ASSUME NEW n, NEW q, NEW t, <<n, q, t>> \in Y, Live(t)'
               PROVE  Covered(Y, n, q, t)' \/ (q = p /\ Pending(n)' /\ Began(t0)' <= t)
    BY DEF Seen
  <1>1. CASE <<n, q, t>> \notin X
    BY <1>1
  <1>2. CASE <<n, q, t>> \in X /\ Covered(X, n, q, t)
    <2>1. Here(Y, n, q, t)' /\ Here(X, n, q, t)
      BY <1>2, HereOn DEF Covered
    <2>2. q \in Int /\ t \in D
      OBVIOUS
    <2>3. Gone(X, n, q, t) => Gone(Y, n, q, t)'
      BY <2>2, GoneOn
    <2> QED
      BY <1>2, <2>1, <2>2, <2>3 DEF Covered
  <1>3. CASE <<n, q, t>> \in X /\ q = p /\ Pending(n) /\ Began(t0) <= t
    <2>1. p' = p
      OBVIOUS
    <2>2. (Pending(n)' /\ Began(t0)' <= t) \/ Covered(Y, n, p, t)'
      BY <1>3
    <2>3. Covered(Y, n, p, t)' <=> Covered(Y, n, q, t)'
      BY <1>3, <2>1 DEF Covered
    <2> QED
      BY <1>3, <2>2, <2>3
  <1> QED
    BY <1>1, <1>2, <1>3 DEF Seen

LEMMA RunOrderOn ==
  ASSUME NFAInv, Form, NEW D, NEW lo, NEW z, RunOrder(D, lo), UNCHANGED <<runq, p>>, CapsKept,
         pc' \in {"step", "add"} =>
           pc \in {"step", "add"} /\ \A k \in Nat : k >= RunFrom' => k >= RunFrom,
         \A k \in DOMAIN runq :
           k >= RunFrom' /\ runq[k].t # NoThread => z <= Began(runq[k].t),
         \A s : Within(s) => Within(s)'
  PROVE  RunOrder(D, z)'
  <1> SUFFICES ASSUME pc' \in {"step", "add"}, NEW k \in DOMAIN runq, k >= RunFrom',
                      runq[k].t # NoThread
               PROVE  /\ Began(runq[k].t)' \in D /\ z <= Began(runq[k].t)' /\ Began(runq[k].t)' < p
                      /\ Within(Began(runq[k].t))'
                      /\ \A j \in DOMAIN runq : j >= k /\ runq[j].t # NoThread =>
                           Began(runq[k].t)' <= Began(runq[j].t)'
    BY DEF RunOrder
  <1>1. \A j \in DOMAIN runq : j \in Nat /\ RunFrom \in Nat
    BY InvIs DEF RunFrom
  <1>2. pc \in {"step", "add"} /\ k >= RunFrom
    BY <1>1
  <1>3. ASSUME NEW j \in DOMAIN runq, j >= k, runq[j].t # NoThread
        PROVE  Began(runq[j].t)' = Began(runq[j].t)
    <2>1. j >= RunFrom
      BY <1>1, <1>2, <1>3
    <2>2. IsHeld(runq[j].t)
      BY <1>3, <2>1, HeldIs
    <2> QED
      BY <2>2 DEF CapsKept, IsHeld, Began
  <1>4. Began(runq[k].t)' = Began(runq[k].t)
    BY <1>1, <1>3
  <1>5. Within(Began(runq[k].t))'
    <2>1. PICK s : s = Began(runq[k].t)
      OBVIOUS
    <2>2. Within(s)'
      BY <1>2, <2>1 DEF RunOrder
    <2> QED
      BY <1>4, <2>1, <2>2 DEF Within
  <1> QED
    BY <1>2, <1>3, <1>4, <1>5 DEF RunOrder

LEMMA NextOrderOn ==
  ASSUME NFAInv, Form, NEW D \in SUBSET Int, NEW lo \in Int, NEW z \in Int, lo <= z,
         NextOrder(D, lo), UNCHANGED nextq, CapsKept,
         \A s \in Int : s <= lo /\ Within(s) => Within(s)'
  PROVE  NextOrder(D, z)'
  <1> SUFFICES ASSUME NEW k \in DOMAIN nextq, nextq[k].t # NoThread
               PROVE  /\ Began(nextq[k].t)' \in D /\ Began(nextq[k].t)' <= z
                      /\ Within(Began(nextq[k].t))'
                      /\ \A j \in DOMAIN nextq : j >= k /\ nextq[j].t # NoThread =>
                           Began(nextq[k].t)' <= Began(nextq[j].t)'
    BY DEF NextOrder
  <1>1. \A j \in DOMAIN nextq : nextq[j].t # NoThread => Began(nextq[j].t)' = Began(nextq[j].t)
    BY QueuedOn
  <1>2. PICK s \in Int : s = Began(nextq[k].t) /\ s \in D /\ s <= lo /\ Within(s)
    BY DEF NextOrder
  <1>3. Within(Began(nextq[k].t))'
    <2>1. Within(s)'
      BY <1>2
    <2> QED
      BY <1>1, <1>2, <2>1 DEF Within
  <1> QED
    BY <1>1, <1>2, <1>3 DEF NextOrder

\* AddToThreadq goes on without taking anything into the queue.
LEMMA AddStays ==
  ASSUME NFAInv, SInv, NEW D, NEW X, NEW lo,
         Ways(D, X), Seen(X), Queue(D, X, lo), Tried(D), Order(D, lo),
         pc = "add", UNCHANGED <<prog, call, p, runq, nextq, caps, match, matched, id>>,
         \/ pc' = "add" /\ i' = i /\ Began(t0)' = Began(t0)
         \/ pc' = "spawned" /\ i = 0 /\ i' = i
         \/ pc' = "step" /\ i # 0 /\ i' = i + 1,
         \A n, t : <<n, p, t>> \in X /\ Live(t) /\ Pending(n) /\ Began(t0) <= t =>
                     (Pending(n)' /\ pc' = "add") \/ Covered(X, n, p, t),
         \A n \in Id \ {0} : Pending(n)' => Pending(n),
         i = 0 => nextq # << >>
  PROVE  CInv(D, X, lo)'
  <1>1. CapsKept /\ Form /\ i \in Nat /\ \A k \in DOMAIN runq : k \in Nat
    BY InvIs DEF CapsKept, SInv
  <1>2. pc' \in {"step", "add"} => RunFrom' = RunFrom
    <2>1. pc' = "step" => i' = i + 1 /\ i' # 0
      BY <1>1
    <2> QED
      BY <2>1 DEF RunFrom
  <1>3. pc' = "spawned" => runq = << >>
    BY <1>1 DEF NFAInv, Where
  <1>4. \A n, q, t : Waits(n, q, t) => Waits(n, q, t)'
    <2>1. \A n, t : Queued(n, t) => Queued(n, t)'
      BY <1>1, QueuedOn
    <2>2. \A n, t : Runs(n, t) => Runs(n, t)'
      <3>1. CASE pc' \in {"step", "add"}
        BY <1>1, <1>2, <3>1, RunsOn
      <3>2. CASE pc' = "spawned"
        BY <1>3, <3>2 DEF Runs
      <3> QED
        BY <3>1, <3>2
    <2> QED
      BY <2>1, <2>2 DEF Waits, Inst
  <1>5. \A n, q, t : Covered(X, n, q, t) => Covered(X, n, q, t)'
    BY <1>4, GoneOn, HereOn, SameMatch DEF Covered
  <1>6. Seen(X)'
    <2>1. \A n, q, t : Waits(n, q, t) => Waits(n, q, t)' \/ Gone(X, n, q, t)'
      BY <1>4
    <2>2. \A n, t : <<n, p, t>> \in X /\ Live(t)' /\ Pending(n) /\ Began(t0) <= t =>
                     (Pending(n)' /\ Began(t0)' <= t) \/ Covered(X, n, p, t)'
      BY <1>5, SameMatch
    <2>3. \A n, q, t : <<n, q, t>> \in X => q \in Int /\ t \in D
      BY <1>1, WaysAre DEF Form
    <2> QED
      BY <2>1, <2>2, <2>3, SeenOn, SameMatch
  <1>7. Queue(D, X, lo)'
    BY <1>5, SameMatch, SameWays DEF Queue
  <1>8. Ways(D, X)'
    BY SameWays DEF Ways
  <1>9. Tried(D)'
    <2>1. \A t : (Over \/ Before(t))' <=> (Over \/ Before(t))
      BY <1>1 DEF Over, Before
    <2> QED
      BY <2>1, SameWays, SameMatch DEF Tried
  <1>10. Order(D, lo)'
    <2>1. RunOrder(D, lo)'
      <3>1. \A k \in DOMAIN runq : k >= RunFrom' /\ runq[k].t # NoThread => lo <= Began(runq[k].t)
        <4>1. CASE pc' \in {"step", "add"}
          BY <1>2, <4>1 DEF Order, RunOrder
        <4>2. CASE pc' = "spawned"
          BY <1>3, <4>2
        <4> QED
          BY <4>1, <4>2
      <3> QED
        BY <1>1, <1>2, <3>1, RunOrderOn, SameMatch DEF Order
    <2>2. D \in SUBSET Int /\ lo \in Int
      BY <1>1, CallIs DEF Tried, Order, Form
    <2>3. NextOrder(D, lo)'
      <3>1. Form /\ CapsKept /\ NextOrder(D, lo) /\ lo <= lo
        BY <1>1, <2>2 DEF Order
      <3>2. \A s \in Int : s <= lo /\ Within(s) => Within(s)'
        BY SameMatch
      <3> QED
        BY <2>2, <3>1, <3>2, NextOrderOn
    <2>4. AddOrder(lo)'
      BY SameMatch DEF Order, AddOrder
    <2> QED
      BY <2>1, <2>2, <2>3, <2>4 DEF Order
  <1> QED
    BY <1>6, <1>7, <1>8, <1>9, <1>10 DEF CInv

\* The first instruction leads nowhere.
LEMMA FailLeadsNowhere ==
  ASSUME prog \in Progs
  PROVE  /\ \A X, q, t : Here(X, 0, q, t) /\ Gone(X, 0, q, t)
         /\ \A q, m, r : ~Follows(prog, call, 0, q, m, r)
         /\ \A q : ~Ends(prog, call, 0, q)
  <1>1. prog.inst[0].op = "fail" /\ prog.inst[0].last
    BY ProgsAssumption DEF WellFormed
  <1> QED
    BY <1>1 DEF Here, Gone, Taken, Rest, Follows, Ends, Inst

LEMMA PopIs ==
  ASSUME NEW s \in Seq(Entries), s # << >>
  PROVE  \A n : OnStack(s, n) <=> n = Head(s).id \/ OnStack(Tail(s), n)
  <1>1. /\ Len(s) \in Nat /\ Len(s) # 0 /\ DOMAIN s = 1 .. Len(s)
        /\ DOMAIN Tail(s) = 1 .. Len(s) - 1 /\ Head(s) = s[1]
        /\ \A k \in 1 .. Len(s) - 1 : Tail(s)[k] = s[k + 1]
    OBVIOUS
  <1>2. ASSUME NEW n, NEW k \in DOMAIN s, s[k].id = n, k # 1 PROVE OnStack(Tail(s), n)
    <2>1. k - 1 \in DOMAIN Tail(s) /\ (k - 1) + 1 = k
      BY <1>1, <1>2
    <2>2. Tail(s)[k - 1] = s[k]
      BY <1>1, <2>1
    <2> QED
      BY <1>2, <2>1, <2>2 DEF OnStack
  <1>3. ASSUME NEW n, NEW k \in DOMAIN Tail(s), Tail(s)[k].id = n PROVE OnStack(s, n)
    <2>1. k + 1 \in DOMAIN s /\ s[k + 1] = Tail(s)[k]
      BY <1>1
    <2> QED
      BY <1>3, <2>1 DEF OnStack
  <1>4. 1 \in DOMAIN s
    BY <1>1
  <1> QED
    BY <1>1, <1>2, <1>3, <1>4 DEF OnStack

LEMMA PushIs ==
  ASSUME NEW s \in Seq(Entries), NEW e \in Entries
  PROVE  \A n : OnStack(<<e>> \o s, n) <=> n = e.id \/ OnStack(s, n)
  <1>1. <<e>> \o s \in Seq(Entries) /\ <<e>> \o s # << >>
    BY OnTop
  <1>2. Head(<<e>> \o s) = e /\ Tail(<<e>> \o s) = s
    OBVIOUS
  <1> QED
    BY <1>1, <1>2, PopIs

\* What is known while AddToThreadq works.
LEMMA AddingKnows ==
  ASSUME NFAInv, SInv, pc = "add", NEW D, NEW X, NEW lo, CInv(D, X, lo)
  PROVE  /\ Going /\ prog \in Progs /\ call \in Calls /\ p \in call.b .. call.e /\ p \in Int
         /\ Ways(D, X) /\ Seen(X) /\ Queue(D, X, lo) /\ Tried(D) /\ Order(D, lo)
         /\ D \in SUBSET Int /\ lo \in D /\ Began(t0) = lo /\ lo <= p
         /\ i \in Nat /\ None \notin Id /\ prog.start # None /\ prog.start # 0
         /\ IsHeld(t0) /\ t0 \in Thread
  <1>1. /\ Going /\ prog \in Progs /\ call \in Calls /\ p \in call.b .. call.e /\ p \in Int
        /\ i \in Nat
    BY InvIs, CallIs DEF SInv, Form, NTypes
  <1>2. Ways(D, X) /\ Seen(X) /\ Queue(D, X, lo) /\ Tried(D) /\ Order(D, lo)
    BY <1>1 DEF CInv
  <1>3. D \in SUBSET Int
    BY <1>1, <1>2, CallIs DEF Tried
  <1>4. lo \in D /\ Began(t0) = lo
    BY <1>2 DEF Order, AddOrder
  <1>5. lo <= p
    BY <1>1, <1>2, <1>3, <1>4 DEF Tried, Before, Over
  <1>6. IsHeld(t0) /\ t0 \in Thread
    BY HeldIs DEF NFAInv, Where, NTypes, Thread, SInv
  <1> QED
    BY <1>1, <1>2, <1>3, <1>4, <1>5, <1>6, ProgramLeads DEF Going

LEMMA AddPopFinds ==
  ASSUME NFAInv, SInv, AddPop, NEW D, NEW X, NEW lo, CInv(D, X, lo)
  PROVE  CInv(D, X, lo)'
  <1>1. /\ pc = "add" /\ at = None /\ stk # << >> /\ at' = Head(stk).id /\ stk' = Tail(stk)
        /\ t0' = IF Head(stk).t # NoThread THEN Head(stk).t ELSE t0
        /\ UNCHANGED <<prog, call, pc, p, runq, i, nextq, caps, match, matched, id>>
    BY DEF AddPop, best
  <1>2. /\ Ways(D, X) /\ Seen(X) /\ Queue(D, X, lo) /\ Tried(D) /\ Order(D, lo)
        /\ t0 \in Thread /\ None \notin Id /\ prog.start # None
    BY <1>1, AddingKnows
  <1>3. stk \in Seq(Entries) /\ Backed(stk, t0, caps)
    BY <1>1, InvIs DEF SInv, AddRight
  <1>4. Began(t0)' = Began(t0)
    BY <1>1, <1>2, <1>3, BackedPop DEF Began
  <1>5. \A n \in Id : Pending(n)' <=> Pending(n)
    <2>1. \A n \in Id : Pending(n) <=> OnStack(stk, n)
      BY <1>1, <1>2 DEF Pending
    <2>2. \A n : Pending(n)' <=> n = Head(stk).id \/ OnStack(Tail(stk), n)
      BY <1>1 DEF Pending, OnStack
    <2>3. \A n : OnStack(stk, n) <=> n = Head(stk).id \/ OnStack(Tail(stk), n)
      BY <1>1, <1>3, PopIs
    <2> QED
      BY <2>1, <2>2, <2>3, Zenon
  <1>6. \A n, q, t : <<n, q, t>> \in X => n \in Id
    BY <1>2 DEF Ways
  <1>7. i = 0 => nextq # << >>
    BY <1>1, <1>2 DEF Order
  <1> QED
    BY <1>1, <1>2, <1>4, <1>5, <1>6, <1>7, AddStays

LEMMA AddSeenFinds ==
  ASSUME NFAInv, SInv, AddSeen, NEW D, NEW X, NEW lo, CInv(D, X, lo)
  PROVE  CInv(D, X, lo)'
  <1>1. /\ pc = "add" /\ at # None
        /\ at = 0 \/ HasIndex(nextq, at)
        /\ at' = None
        /\ UNCHANGED <<prog, call, pc, p, runq, i, nextq, caps, stk, t0, match, matched, id>>
    BY DEF AddSeen, best, arena
  <1>2. /\ Ways(D, X) /\ Seen(X) /\ Queue(D, X, lo) /\ Tried(D) /\ Order(D, lo)
        /\ None \notin Id /\ prog.start # 0 /\ prog \in Progs /\ Began(t0) = lo
    BY <1>1, AddingKnows
  <1>3. \A n \in Id : Pending(n)' => Pending(n)
    BY <1>1, <1>2 DEF Pending, OnStack
  <1>4. \A n : Pending(n) => Pending(n)' \/ n = at
    BY <1>1 DEF Pending, OnStack
  <1>5. ASSUME NEW t, <<at, p, t>> \in X, Live(t), Began(t0) <= t
        PROVE  Covered(X, at, p, t)
    <2>1. CASE at = 0
      BY <1>2, <2>1, FailLeadsNowhere DEF Covered
    <2>2. CASE HasIndex(nextq, at)
      <3>1. PICK k \in DOMAIN nextq : nextq[k].id = at
        BY <2>2 DEF HasIndex
      <3>2. t \in D /\ t >= lo
        BY <1>2, <1>5 DEF Ways
      <3> QED
        BY <1>2, <1>5, <3>1, <3>2 DEF Queue
    <2> QED
      BY <1>1, <2>1, <2>2
  <1>6. i = 0 => nextq # << >>
    <2>1. HasIndex(nextq, at) => nextq # << >>
      BY DEF HasIndex
    <2> QED
      BY <1>1, <1>2, <2>1 DEF Order
  <1>7. Began(t0)' = Began(t0)
    BY <1>1 DEF Began
  <1> QED
    BY <1>1, <1>2, <1>3, <1>4, <1>5, <1>6, <1>7, AddStays

LEMMA AddDoneFinds ==
  ASSUME NFAInv, SInv, AddDone, NEW D, NEW X, NEW lo, CInv(D, X, lo)
  PROVE  CInv(D, X, lo)'
  <1>1. /\ pc = "add" /\ at = None /\ stk = << >>
        /\ IF i = 0 THEN pc' = "spawned" /\ i' = i ELSE pc' = "step" /\ i' = i + 1
        /\ UNCHANGED <<prog, call, p, runq, nextq, caps, match, matched, id>>
    BY DEF AddDone, best
  <1>2. /\ Ways(D, X) /\ Seen(X) /\ Queue(D, X, lo) /\ Tried(D) /\ Order(D, lo)
        /\ None \notin Id /\ prog.start # None
    BY <1>1, AddingKnows
  <1>3. \A n \in Id : ~Pending(n)
    BY <1>1, <1>2 DEF Pending, OnStack
  <1>4. \A n, q, t : <<n, q, t>> \in X => n \in Id
    BY <1>2 DEF Ways
  <1>5. \A n : ~Pending(n)'
    BY <1>1 DEF Pending
  <1>6. i = 0 => nextq # << >>
    BY <1>1, <1>2 DEF Order
  <1> QED
    BY <1>1, <1>2, <1>3, <1>4, <1>5, <1>6, AddStays

\* More is seen to at p, for all that began at lo or later.
More(X, M, v, D, lo) == X \cup {y \in M \X {v} \X D : y[3] >= lo}

LEMMA MoreIs ==
  ASSUME NEW X, NEW M, NEW v, NEW D, NEW lo, NEW n, NEW q, NEW t
  PROVE  <<n, q, t>> \in More(X, M, v, D, lo) <=>
           <<n, q, t>> \in X \/ (n \in M /\ q = v /\ t \in D /\ t >= lo)
  BY DEF More

LEMMA AppendIs ==
  ASSUME NEW s \in Seq(Entries), NEW e
  PROVE  /\ Append(s, e) # << >> /\ Len(s) \in Nat
         /\ DOMAIN s = 1 .. Len(s) /\ DOMAIN Append(s, e) = 1 .. Len(s) + 1
         /\ \A k \in DOMAIN s : Append(s, e)[k] = s[k]
         /\ Append(s, e)[Len(s) + 1] = e
         /\ \A k \in DOMAIN Append(s, e) : k \in DOMAIN s \/ k = Len(s) + 1
  OBVIOUS

\* The instruction at hand enters the queue: M is what AddToThreadq goes on to,
\* or need not.
LEMMA Enters ==
  ASSUME NFAInv, SInv, NEW op, Adding(op), NEW x \in {NoThread, t0}, AddEntry(x),
         CapsKept, Began(t0)' = Began(t0),
         NEW D, NEW X, NEW lo, CInv(D, X, lo), NEW M \in SUBSET Id,
         \A n : Pending(n) /\ n # at => Pending(n)',
         \A n \in Id \ {0} : Pending(n)' => Pending(n) \/ n \in M,
         \A n \in M : Pending(n)' \/ \A Y, t : (\A m \in M : <<m, p, t>> \in Y) =>
                                                Here(Y, n, p, t) /\ Gone(Y, n, p, t),
         ~Inst(at).last => at + 1 \in M,
         \/ x = t0 /\ op \in {"byte", "altmatch", "match"}
         \/ op # "match" /\ \A r : Taken(prog, call, at, p, Inst(at).out, r) =>
                                     r = p /\ Inst(at).out \in M
  PROVE  \E Y : CInv(D, Y, lo)'
  <1>1. /\ pc = "add" /\ at \in Id \ {0} /\ Inst(at).op = op
        /\ UNCHANGED <<prog, call, pc, p, runq, i, match, matched, id>>
        /\ nextq' = Append(nextq, Entry(at, x)) /\ nextq \in Seq(Entries)
        /\ at # None
    <2>1. pc = "add" /\ at \in Id /\ nextq \in Seq(Entries)
      BY AddingIs
    <2> QED
      BY <2>1 DEF Adding, AddEntry, best
  <1>2. /\ Going /\ prog \in Progs /\ call \in Calls /\ p \in call.b .. call.e /\ p \in Int
        /\ Ways(D, X) /\ Seen(X) /\ Queue(D, X, lo) /\ Tried(D) /\ Order(D, lo)
        /\ D \in SUBSET Int /\ lo \in D /\ Began(t0) = lo /\ lo <= p
        /\ IsHeld(t0) /\ Form
    BY <1>1, AddingKnows DEF SInv
  <1>3. PICK v \in Int : v = p
    BY <1>2
  <1>4. PICK a \in Id \ {0} : a = at
    BY <1>1
  <1>5. PICK Y : Y = More(X, M, v, D, lo)
    OBVIOUS
  <1>6. \A n, q, t : <<n, q, t>> \in Y <=>
                      <<n, q, t>> \in X \/ (n \in M /\ q = v /\ t \in D /\ t >= lo)
    BY <1>5, MoreIs
  <1>7. \A n, q, t : <<n, q, t>> \in X => <<n, q, t>> \in Y
    BY <1>6
  <1>8. /\ nextq' # << >> /\ Len(nextq) \in Nat /\ DOMAIN nextq = 1 .. Len(nextq)
        /\ DOMAIN nextq' = 1 .. Len(nextq) + 1
        /\ \A k \in DOMAIN nextq : k \in DOMAIN nextq' /\ nextq'[k] = nextq[k]
        /\ nextq'[Len(nextq) + 1].id = at /\ nextq'[Len(nextq) + 1].t = x
        /\ \A k \in DOMAIN nextq' : k \in DOMAIN nextq \/ k = Len(nextq) + 1
    BY <1>1, AppendIs DEF Entry
  <1>9. RunFrom' = RunFrom /\ \A k \in DOMAIN runq : k \in Nat
    BY <1>1, InvIs DEF RunFrom
  <1>10. /\ \A n, t : Queued(n, t) => Queued(n, t)'
        /\ \A k \in DOMAIN nextq : nextq[k].t # NoThread => Began(nextq[k].t)' = Began(nextq[k].t)
    BY <1>2, <1>8, QueuedOn
  <1>11. \A n, q, t : Waits(n, q, t) => Waits(n, q, t)'
    <2>1. \A n, t : Runs(n, t) => Runs(n, t)'
      BY <1>1, <1>2, <1>9, RunsOn
    <2> QED
      BY <1>1, <1>10, <2>1 DEF Waits, Inst
  <1>12. \A n, q, t : Covered(X, n, q, t) => Covered(Y, n, q, t)'
    BY <1>1, <1>7, <1>11, GoneOn, HereOn, SameMatch DEF Covered
  <1>13. ASSUME NEW t \in D, t >= lo PROVE Covered(Y, a, v, t)'
    <2>1. \A m \in M : <<m, v, t>> \in Y
      BY <1>6, <1>13
    <2>2. Here(Y, a, v, t)'
      BY <1>1, <1>4, <2>1 DEF Here, Inst
    <2>3. CASE x = t0 /\ op \in {"byte", "altmatch", "match"}
      <3>1. Len(nextq) + 1 \in DOMAIN nextq' /\ x # NoThread
        BY <1>2, <1>8, <2>3 DEF IsHeld
      <3>2. caps'[x][0] <= t
        <4>1. caps'[t0] = caps[t0]
          BY <1>2 DEF CapsKept, IsHeld
        <4> QED
          BY <1>2, <1>13, <2>3, <4>1 DEF Began
      <3>3. Queued(a, t)'
        BY <1>8, <1>4, <3>1, <3>2 DEF Queued, Began
      <3>4. Waits(a, v, t)'
        BY <1>1, <1>3, <1>4, <2>3, <3>3 DEF Waits, Inst
      <3> QED
        BY <2>2, <3>4 DEF Covered
    <2>4. CASE op # "match" /\ \A r : Taken(prog, call, at, p, Inst(at).out, r) =>
                                     r = p /\ Inst(at).out \in M
      <3>1. Gone(Y, a, v, t)
        BY <1>1, <1>3, <1>4, <2>1, <2>4 DEF Gone, Ends, Inst
      <3>2. Gone(Y, a, v, t)'
        BY <1>1, <3>1, GoneOn, SameMatch
      <3> QED
        BY <2>2, <3>2 DEF Covered
    <2> QED
      BY <2>3, <2>4
  <1>14. ASSUME NEW n \in M, NEW t \in D, t >= lo PROVE Covered(Y, n, p, t)' \/ Pending(n)'
    <2>1. \A m \in M : <<m, p, t>> \in Y
      BY <1>3, <1>6, <1>14
    <2>2. Pending(n)' \/ (Here(Y, n, p, t) /\ Gone(Y, n, p, t))
      BY <2>1
    <2> QED
      BY <1>1, <2>2, GoneOn, HereOn, SameMatch DEF Covered
  <1>15. Seen(Y)'
    <2>1. \A n, t : <<n, p, t>> \in X /\ Live(t)' /\ Pending(n) /\ Began(t0) <= t =>
                     (Pending(n)' /\ Began(t0)' <= t) \/ Covered(Y, n, p, t)'
      <3> SUFFICES ASSUME NEW n, NEW t, <<n, p, t>> \in X, Pending(n), Began(t0) <= t, n = at
                   PROVE  Covered(Y, n, p, t)'
        OBVIOUS
      <3>1. t \in D /\ t >= lo
        BY <1>2 DEF Ways
      <3>2. Covered(Y, a, v, t)'
        BY <1>13, <3>1
      <3>3. p' = v /\ n = a
        BY <1>1, <1>3, <1>4
      <3> QED
        BY <3>2, <3>3
    <2>2. \A n, q, t : <<n, q, t>> \in Y /\ <<n, q, t>> \notin X /\ Live(t)' =>
                        Covered(Y, n, q, t)' \/ (q = p /\ Pending(n)' /\ Began(t0)' <= t)
      <3> SUFFICES ASSUME NEW n, NEW q, NEW t, <<n, q, t>> \in Y, <<n, q, t>> \notin X
                   PROVE  Covered(Y, n, q, t)' \/ (q = p /\ Pending(n)' /\ Began(t0)' <= t)
        OBVIOUS
      <3>1. n \in M /\ q = v /\ t \in D /\ t >= lo
        BY <1>6
      <3>2. Covered(Y, n, p, t)' \/ Pending(n)'
        BY <1>14, <3>1
      <3>3. p' = v /\ p = v
        BY <1>1, <1>3
      <3>4. Covered(Y, n, p, t)' <=> Covered(Y, n, q, t)'
        BY <3>1, <3>3 DEF Covered
      <3>5. Began(t0)' <= t
        BY <1>2, <3>1
      <3> QED
        BY <3>1, <3>2, <3>3, <3>4, <3>5
    <2>3. \A n, q, t : <<n, q, t>> \in Y => q \in Int /\ t \in D
      BY <1>2, <1>3, <1>6, WaysAre
    <2> QED
      BY <1>1, <1>2, <1>7, <1>11, <2>1, <2>2, <2>3, SeenOn, SameMatch
  <1>16. Queue(D, Y, lo)'
    <2> SUFFICES ASSUME NEW t \in D, t >= lo
                 PROVE  /\ \A k \in DOMAIN nextq' :
                             /\ <<nextq'[k].id, p, t>> \in Y
                             /\ Live(t)' => Covered(Y, nextq[k].id, p, t)'
                        /\ \A n \in Id \ {0} : Pending(n)' => <<n, p, t>> \in Y
      BY <1>1, SameWays DEF Queue
    <2>1. <<at, p, t>> \in X
      BY <1>1, <1>2 DEF Queue, Pending
    <2>2. ASSUME NEW n \in Id \ {0}, Pending(n)' PROVE <<n, p, t>> \in Y
      BY <1>2, <1>3, <1>6, <2>2 DEF Queue
    <2>3. ASSUME NEW k \in DOMAIN nextq'
          PROVE  <<nextq'[k].id, p, t>> \in Y /\ (Live(t)' => Covered(Y, nextq[k].id, p, t)')
      <3>1. CASE k \in DOMAIN nextq
        <4>1. nextq'[k] = nextq[k]
          BY <1>8, <3>1
        <4>2. <<nextq[k].id, p, t>> \in X /\ (Live(t) => Covered(X, nextq[k].id, p, t))
          BY <1>2, <3>1 DEF Queue
        <4>3. PICK n : n = nextq[k].id
          OBVIOUS
        <4>4. Live(t)' => Covered(Y, n, p, t)'
          BY <1>1, <1>3, <1>12, <4>2, <4>3, SameMatch DEF Covered
        <4>5. nextq'[k].id = n
          BY <4>1, <4>3
        <4> QED
          BY <1>7, <4>1, <4>2, <4>4, <4>5 DEF Covered
      <3>2. CASE k = Len(nextq) + 1
        <4>1. nextq'[k].id = at
          BY <1>8, <3>2
        <4>2. Covered(Y, a, v, t)'
          BY <1>13
        <4>3. nextq'[k].id = a /\ p' = v
          BY <1>1, <1>3, <1>4, <4>1
        <4>4. Covered(Y, nextq[k].id, p, t)'
          BY <4>2, <4>3
        <4> QED
          BY <1>7, <2>1, <4>1, <4>4
      <3> QED
        BY <1>8, <3>1, <3>2
    <2> QED
      BY <2>2, <2>3
  <1>17. Ways(D, Y)'
    <2>1. /\ \A n, q, t : <<n, q, t>> \in Y =>
               n \in Id /\ q \in call.b .. call.e /\ q <= p /\ t \in D
          /\ \A t \in D : <<prog.start, t, t>> \in Y
      BY <1>2, <1>3, <1>6, <1>7 DEF Ways
    <2> QED
      BY <1>1, <2>1, SameWays DEF Ways
  <1>18. Tried(D)'
    <2>1. \A t : (Over \/ Before(t))' <=> (Over \/ Before(t))
      BY <1>1 DEF Over, Before
    <2> QED
      BY <1>1, <1>2, <2>1, SameWays, SameMatch DEF Tried
  <1>19. NextOrder(D, lo)'
    <2>1. \A s : Within(s)' <=> Within(s)
      BY <1>1, SameMatch
    <2>2. lo \in Int /\ Within(lo)
      BY <1>1, <1>2 DEF Order, AddOrder
    <2>3. ASSUME NEW k \in DOMAIN nextq', nextq'[k].t # NoThread
          PROVE  \E b \in D : /\ b = Began(nextq[k].t)' /\ b <= lo /\ Within(b)
                              /\ k = Len(nextq) + 1 => b = lo
                              /\ k \in DOMAIN nextq => b = Began(nextq[k].t) /\ nextq[k].t # NoThread
      <3>1. CASE k \in DOMAIN nextq
        <4>1. nextq'[k] = nextq[k] /\ k # Len(nextq) + 1
          BY <1>8, <3>1
        <4>2. Began(nextq[k].t) \in D /\ Began(nextq[k].t) <= lo /\ Within(Began(nextq[k].t))
          BY <1>2, <2>3, <3>1, <4>1 DEF Order, NextOrder
        <4>3. caps'[nextq[k].t][0] = Began(nextq[k].t)
          BY <1>10, <2>3, <3>1, <4>1 DEF Began
        <4> QED
          BY <2>3, <4>1, <4>2, <4>3 DEF Began
      <3>2. CASE k = Len(nextq) + 1
        <4>1. nextq'[k].t = t0 /\ k \notin DOMAIN nextq
          BY <1>8, <2>3, <3>2
        <4>2. caps'[t0][0] = lo
          <5>1. caps'[t0] = caps[t0]
            BY <1>2 DEF CapsKept, IsHeld
          <5> QED
            BY <1>2, <5>1 DEF Began
        <4> QED
          BY <1>2, <2>2, <3>2, <4>1, <4>2 DEF Began
      <3> QED
        BY <1>8, <2>3, <3>1, <3>2
    <2>4. ASSUME NEW k \in DOMAIN nextq', NEW j \in DOMAIN nextq', j >= k,
                 nextq'[k].t # NoThread, nextq'[j].t # NoThread
          PROVE  Began(nextq[k].t)' <= Began(nextq[j].t)'
      <3>1. PICK b \in D : /\ b = Began(nextq[k].t)' /\ b <= lo
                           /\ k = Len(nextq) + 1 => b = lo
                           /\ k \in DOMAIN nextq => b = Began(nextq[k].t) /\ nextq[k].t # NoThread
        BY <2>3, <2>4
      <3>2. PICK d \in D : /\ d = Began(nextq[j].t)' /\ d <= lo
                           /\ j = Len(nextq) + 1 => d = lo
                           /\ j \in DOMAIN nextq => d = Began(nextq[j].t) /\ nextq[j].t # NoThread
        BY <2>3, <2>4
      <3>3. CASE j = Len(nextq) + 1
        BY <3>1, <3>2, <3>3
      <3>4. CASE j \in DOMAIN nextq
        <4>1. k \in DOMAIN nextq
          BY <1>8, <2>4, <3>4
        <4> QED
          BY <1>2, <2>4, <3>1, <3>2, <3>4, <4>1 DEF Order, NextOrder
      <3> QED
        BY <1>8, <3>3, <3>4
    <2>5. ASSUME NEW k \in DOMAIN nextq', nextq'[k].t # NoThread
          PROVE  Began(nextq[k].t)' \in D /\ Began(nextq[k].t)' <= lo /\ Within(Began(nextq[k].t))'
      <3>1. PICK b \in D : b = Began(nextq[k].t)' /\ b <= lo /\ Within(b)
        BY <2>3, <2>5
      <3>2. Within(b)'
        BY <2>1, <3>1
      <3> QED
        BY <3>1, <3>2 DEF Within
    <2> QED
      BY <2>4, <2>5 DEF NextOrder
  <1>20. Order(D, lo)'
    <2>1. RunOrder(D, lo)'
      <3>1. \A k \in DOMAIN runq : k >= RunFrom' /\ runq[k].t # NoThread => lo <= Began(runq[k].t)
        BY <1>1, <1>2, <1>9 DEF Order, RunOrder
      <3> QED
        BY <1>1, <1>2, <1>9, <3>1, RunOrderOn, SameMatch DEF Order
    <2>2. AddOrder(lo)'
      BY <1>1, <1>2, SameMatch DEF Order, AddOrder
    <2> QED
      BY <1>1, <1>2, <1>8, <1>19, <2>1, <2>2 DEF Order
  <1>21. CInv(D, Y, lo)'
    BY <1>15, <1>16, <1>17, <1>18, <1>20 DEF CInv
  <1> QED
    BY <1>21

\* With the thread in the queue, or with no use for it, AddToThreadq goes on
\* with what it has in its hand and on the stack.
LEMMA EntersOn ==
  ASSUME NFAInv, SInv, NEW op, Adding(op), NEW x \in {NoThread, t0}, AddEntry(x),
         UNCHANGED <<caps, stk, t0>>, at' = AfterThis,
         \/ x = t0 /\ op \in {"altmatch", "match"}
         \/ op # "match" /\ \A r : ~Taken(prog, call, at, p, Inst(at).out, r),
         NEW D, NEW X, NEW lo, CInv(D, X, lo)
  PROVE  \E Y : CInv(D, Y, lo)'
  <1>1. /\ pc = "add" /\ pc' = "add" /\ at \in Id /\ CapsKept /\ Began(t0)' = Began(t0)
        /\ prog \in Progs /\ None \notin Id
    BY AddingIs, AddingKnows DEF Adding, CapsKept, Began
  <1> DEFINE M == {m \in Id : ~Inst(at).last /\ m = at + 1}
  <1>2. ~Inst(at).last => at + 1 \in M
    BY <1>1, ProgramLeads
  <1>3. \A n : Pending(n)' <=> n = AfterThis \/ OnStack(stk, n)
    BY <1>1 DEF Pending, OnStack
  <1>4. \A n \in M : Pending(n)'
    BY <1>3 DEF AfterThis
  <1>5. \A n \in Id \ {0} : Pending(n)' => Pending(n) \/ n \in M
    BY <1>1, <1>3 DEF Pending, AfterThis
  <1>6. \A n : Pending(n) /\ n # at => Pending(n)'
    BY <1>3 DEF Pending
  <1>7. M \in SUBSET Id
    OBVIOUS
  <1> HIDE DEF M
  <1> QED
    BY <1>1, <1>2, <1>4, <1>5, <1>6, <1>7, Enters

LEMMA AddAltMatchFinds ==
  ASSUME NFAInv, SInv, AddAltMatch, NEW D, NEW X, NEW lo, CInv(D, X, lo)
  PROVE  \E Y : CInv(D, Y, lo)'
  <1>1. /\ Adding("altmatch") /\ AddEntry(t0) /\ at' = at + 1 /\ UNCHANGED <<caps, stk, t0>>
    BY DEF AddAltMatch
  <1>2. at \in Id /\ prog \in Progs /\ Inst(at).op = "altmatch"
    BY <1>1, AddingIs DEF NTypes
  <1>3. at' = AfterThis
    BY <1>1, <1>2, InstIs DEF AfterThis, Inst, Id
  <1> QED
    BY <1>1, <1>3, EntersOn

LEMMA AddMatchFinds ==
  ASSUME NFAInv, SInv, AddMatch, NEW D, NEW X, NEW lo, CInv(D, X, lo)
  PROVE  \E Y : CInv(D, Y, lo)'
  BY EntersOn DEF AddMatch

\* A byte range that does not match is of no use.
LEMMA AddByteRangeMisses ==
  ASSUME NFAInv, SInv, AddByteRange, ~Matches(Inst(at), c), NEW D, NEW X, NEW lo, CInv(D, X, lo)
  PROVE  \E Y : CInv(D, Y, lo)'
  <1>1. /\ Adding("byte") /\ AddEntry(NoThread) /\ at' = AfterThis /\ UNCHANGED <<caps, stk, t0>>
    BY DEF AddByteRange
  <1>2. at \in Id /\ Inst(at).op = "byte"
    BY <1>1, AddingIs
  <1>3. \A r : ~Taken(prog, call, at, p, Inst(at).out, r)
    BY <1>2 DEF Taken, Inst, c
  <1> QED
    BY <1>1, <1>3, EntersOn

\* One that does is taken into the queue, and what its hint jumps over is not
\* missed: it could not have gone on with this byte.
LEMMA AddByteRangeTakes ==
  ASSUME NFAInv, SInv, AddByteRange, Matches(Inst(at), c), NEW D, NEW X, NEW lo, CInv(D, X, lo)
  PROVE  \E Y : CInv(D, Y, lo)'
  <1>1. /\ Adding("byte") /\ AddEntry(t0) /\ UNCHANGED <<caps, stk, t0>>
        /\ at' = IF Inst(at).hint = 0 THEN None ELSE at + Inst(at).hint
    BY DEF AddByteRange
  <1>2. /\ pc = "add" /\ pc' = "add" /\ at \in Id /\ CapsKept /\ Began(t0)' = Began(t0)
        /\ prog \in Progs /\ Inst(at).op = "byte" /\ None \notin Id /\ call \in Calls
        /\ p \in call.b .. call.e /\ at \in Nat
    BY <1>1, AddingIs, AddingKnows DEF Adding, CapsKept, Began
  <1>3. c \in Byte
    <2>1. c # NoByte
      BY <1>2, InstIs, MatchesByte DEF Inst, Id
    <2> QED
      BY <1>2, <2>1, CallIs DEF c
  <1> DEFINE M == Skips(prog, at)
  <1>4. M \in SUBSET Id
    BY DEF Skips, Id
  <1>5. \A n : Pending(n)' <=> n = at' \/ OnStack(stk, n)
    BY <1>1, <1>2 DEF Pending, OnStack
  <1>6. \A n : Pending(n) /\ n # at => Pending(n)'
    BY <1>5 DEF Pending
  <1>7. \A n \in Id \ {0} : Pending(n)' => Pending(n) \/ n \in M
    <2>1. Inst(at).hint # 0 => at + Inst(at).hint \in M
      <3>1. Inst(at).hint # 0 => SameList(prog, at, at + Inst(at).hint)
        BY <1>2, InstIs DEF Inst, Id
      <3>2. Inst(at).hint \in Nat
        BY <1>2, InstIs DEF Inst, Id
      <3> QED
        BY <1>2, <3>1, <3>2 DEF Skips, SameList, Inst
    <2> QED
      BY <1>1, <1>2, <1>5, <2>1 DEF Pending
  <1>8. ~Inst(at).last => at + 1 \in M
    <2>1. Inst(at).hint \in Nat
      BY <1>2, InstIs DEF Inst, Id
    <2>2. Inst(at).hint = 0 \/ at < at + Inst(at).hint
      BY <1>2, <2>1
    <2> QED
      BY <1>2, <2>2, SkipsOn DEF Inst, Id
  <1>9. ASSUME NEW n \in M, ~Pending(n)', NEW Y, NEW t, \A m \in M : <<m, p, t>> \in Y
        PROVE  Here(Y, n, p, t) /\ Gone(Y, n, p, t)
    <2>1. n \in Id /\ SameList(prog, at, n) /\ n \in Nat /\ Inst(at).hint \in Nat
          /\ (Inst(at).hint = 0 \/ n <= at + Inst(at).hint)
      BY <1>2, <1>4, InstIs DEF Skips, Inst, Id
    <2>2. Inst(at).hint = 0 \/ n < at + Inst(at).hint
      BY <1>1, <1>2, <1>5, <1>9, <2>1
    <2>3. n \in Jumped(prog, at)
      BY <2>1, <2>2 DEF Jumped, Inst, Id
    <2>4. /\ Inst(n).op = "byte" /\ ~Ends(prog, call, n, p)
          /\ \A m, r : Follows(prog, call, n, p, m, r) => r = p
      BY <1>2, <1>3, <2>3, SkipFollows DEF Inst, Id, c
    <2>5. \A r : ~Taken(prog, call, n, p, Inst(n).out, r)
      <3> SUFFICES ASSUME NEW r, Taken(prog, call, n, p, Inst(n).out, r) PROVE FALSE
        OBVIOUS
      <3>1. r = p + 1
        BY <2>4 DEF Taken, Inst
      <3>2. r = p
        BY <2>4 DEF Follows
      <3>3. p \in Int
        BY <1>2, CallIs
      <3> QED
        BY <3>1, <3>2, <3>3
    <2>6. ~Inst(n).last => n + 1 \in M
      BY <1>2, <2>1, <2>2, SkipsOn DEF Inst, Id
    <2> QED
      BY <1>9, <2>4, <2>5, <2>6 DEF Here, Gone
  <1> HIDE DEF M
  <1>10. \A n \in M : Pending(n)' \/ \A Y, t : (\A m \in M : <<m, p, t>> \in Y) =>
                                                Here(Y, n, p, t) /\ Gone(Y, n, p, t)
    BY <1>9
  <1> QED
    BY <1>1, <1>2, <1>4, <1>6, <1>7, <1>8, <1>10, Enters

\* What an instruction pushes is the rest of its list, and a thread to restore.
LEMMA PushingFinds ==
  ASSUME NFAInv, SInv, NEW op, Adding(op), op # "match", AddEntry(NoThread),
         CapsKept, Began(t0)' = Began(t0),
         \A n : OnStack(stk, n) \/ (~Inst(at).last /\ n = at + 1) => OnStack(stk, n)',
         \A n \in Id \ {0} : OnStack(stk, n)' =>
                               OnStack(stk, n) \/ (~Inst(at).last /\ n = at + 1),
         at' \in Id \cup {None},
         \A r : Taken(prog, call, at, p, Inst(at).out, r) => r = p /\ at' = Inst(at).out,
         NEW D, NEW X, NEW lo, CInv(D, X, lo)
  PROVE  \E Y : CInv(D, Y, lo)'
  <1>1. /\ pc = "add" /\ pc' = "add" /\ at \in Id /\ prog \in Progs /\ None \notin Id
    BY AddingIs, AddingKnows DEF Adding
  <1> DEFINE M == {m \in Id : m = at' \/ (~Inst(at).last /\ m = at + 1)}
  <1>2. PICK N : N = M
    OBVIOUS
  <1>3. ~Inst(at).last => at + 1 \in N
    BY <1>1, <1>2, ProgramLeads
  <1>4. \A n : Pending(n)' <=> n = at' \/ OnStack(stk, n)'
    BY <1>1 DEF Pending
  <1>5. \A n \in N : Pending(n)'
    BY <1>2, <1>4
  <1>6. \A n \in Id \ {0} : Pending(n)' => Pending(n) \/ n \in N
    BY <1>1, <1>2, <1>4 DEF Pending
  <1>7. \A n : Pending(n) /\ n # at => Pending(n)'
    BY <1>4 DEF Pending
  <1>8. \A r : Taken(prog, call, at, p, Inst(at).out, r) => r = p /\ Inst(at).out \in N
    <2>1. \A r : Taken(prog, call, at, p, Inst(at).out, r) => Inst(at).out \in Id
      BY <1>1, ProgramLeads DEF Taken, Inst
    <2> QED
      BY <1>2, <2>1
  <1>9. N \in SUBSET Id
    BY <1>2
  <1> HIDE DEF M
  <1> QED
    BY <1>3, <1>5, <1>6, <1>7, <1>8, <1>9, Enters

LEMMA BelowIs ==
  ASSUME NFAInv, NEW op, Adding(op)
  PROVE  /\ Below \in Seq(Entries)
         /\ \A n : OnStack(Below, n) <=> OnStack(stk, n) \/ (~Inst(at).last /\ n = at + 1)
         /\ PushRest(<< >>) => stk' = Below
         /\ \A e \in Entries : PushRest(<<e>>) => stk' = <<e>> \o Below
  <1>1. /\ NTypes /\ stk \in Seq(Entries) /\ at \in Nat /\ at \in Id
        /\ \A k \in DOMAIN stk : stk[k].id \in Id
    BY AddingIs
  <1>2. CASE Inst(at).last
    <2>1. Below = stk
      BY <1>1, <1>2, ConcatEmptySeq DEF Below
    <2> QED
      BY <1>1, <1>2, <2>1, PushRestPuts
  <1>3. CASE ~Inst(at).last
    <2>1. Below = <<Entry(at + 1, NoThread)>> \o stk
      BY <1>3 DEF Below
    <2>2. Entry(at + 1, NoThread) \in Entries /\ Entry(at + 1, NoThread).id = at + 1
      BY <1>1 DEF Entry, Entries, NoThread
    <2>3. \A n : OnStack(Below, n) <=> n = at + 1 \/ OnStack(stk, n)
      BY <1>1, <2>1, <2>2, PushIs
    <2> QED
      BY <1>1, <1>3, <2>3, PushRestPuts
  <1> QED
    BY <1>2, <1>3

LEMMA AddNopFinds ==
  ASSUME NFAInv, SInv, AddNop, NEW D, NEW X, NEW lo, CInv(D, X, lo)
  PROVE  \E Y : CInv(D, Y, lo)'
  <1>1. /\ Adding("nop") /\ AddEntry(NoThread) /\ PushRest(<< >>) /\ at' = Inst(at).out
        /\ UNCHANGED <<caps, t0>> /\ Inst(at).op = "nop"
    BY DEF AddNop, Adding, arena
  <1>2. at \in Id /\ prog \in Progs /\ CapsKept /\ Began(t0)' = Began(t0)
    BY <1>1, AddingIs DEF NTypes, CapsKept, Began
  <1>3. at' \in Id /\ \A r : Taken(prog, call, at, p, Inst(at).out, r) => r = p
    BY <1>1, <1>2, ProgramLeads DEF Taken, Inst
  <1>4. \A n : OnStack(stk, n)' <=> OnStack(stk, n) \/ (~Inst(at).last /\ n = at + 1)
    BY <1>1, BelowIs DEF OnStack
  <1> QED
    BY <1>1, <1>2, <1>3, <1>4, PushingFinds

LEMMA AddEmptyWidthFinds ==
  ASSUME NFAInv, SInv, AddEmptyWidth, NEW D, NEW X, NEW lo, CInv(D, X, lo)
  PROVE  \E Y : CInv(D, Y, lo)'
  <1>1. /\ Adding("empty") /\ AddEntry(NoThread) /\ PushRest(<< >>)
        /\ at' = IF Inst(at).empty \subseteq EmptyFlags(call.text, p) THEN Inst(at).out ELSE None
        /\ UNCHANGED <<caps, t0>> /\ Inst(at).op = "empty"
    BY DEF AddEmptyWidth, Adding, arena
  <1>2. at \in Id /\ prog \in Progs /\ CapsKept /\ Began(t0)' = Began(t0)
    BY <1>1, AddingIs DEF NTypes, CapsKept, Began
  <1>3. /\ at' \in Id \cup {None}
        /\ \A r : Taken(prog, call, at, p, Inst(at).out, r) => r = p /\ at' = Inst(at).out
    BY <1>1, <1>2, ProgramLeads DEF Taken, Inst
  <1>4. \A n : OnStack(stk, n)' <=> OnStack(stk, n) \/ (~Inst(at).last /\ n = at + 1)
    BY <1>1, BelowIs DEF OnStack
  <1> QED
    BY <1>1, <1>2, <1>3, <1>4, PushingFinds

LEMMA AddCaptureFinds ==
  ASSUME NFAInv, SInv, AddCapture, NEW D, NEW X, NEW lo, CInv(D, X, lo)
  PROVE  \E Y : CInv(D, Y, lo)'
  <1>1. /\ Adding("cap") /\ AddEntry(NoThread) /\ at' = Inst(at).out /\ Inst(at).op = "cap"
    BY DEF AddCapture, Adding
  <1>2. /\ at \in Id /\ prog \in Progs /\ t0 \in Thread /\ pc = "add" /\ UNCHANGED call
        /\ Inst(at).cap \in Nat /\ Inst(at).cap >= 2 /\ p \in Int /\ call \in Calls /\ IsHeld(t0)
    <2>1. at \in Id /\ prog \in Progs /\ pc = "add" /\ UNCHANGED call
      BY <1>1, AddingIs DEF NTypes, Adding
    <2> QED
      BY <1>1, <2>1, AddingKnows, InstIs DEF Inst, Id
  <1>3. at' \in Id /\ \A r : Taken(prog, call, at, p, Inst(at).out, r) => r = p
    BY <1>1, <1>2, ProgramLeads DEF Taken, Inst
  <1>4. CASE ~(Inst(at).cap < NCapture)
    <2>1. PushRest(<< >>) /\ UNCHANGED <<caps, t0>> /\ CapsKept /\ Began(t0)' = Began(t0)
      BY <1>4 DEF AddCapture, arena, CapsKept, Began
    <2>2. \A n : OnStack(stk, n)' <=> OnStack(stk, n) \/ (~Inst(at).last /\ n = at + 1)
      BY <1>1, <2>1, BelowIs DEF OnStack
    <2> QED
      BY <1>1, <1>3, <2>1, <2>2, PushingFinds
  <1>5. CASE Inst(at).cap < NCapture
    <2>1. PICK f : f = [caps[t0] EXCEPT ![Inst(at).cap] = p]
      OBVIOUS
    <2>2. AllocThread(f) /\ PushRest(<<Entry(0, t0)>>) /\ t0' = NewThread
      BY <1>5, <2>1 DEF AddCapture
    <2>3. f \in Captures /\ f[0] = caps[t0][0]
      <3>1. PICK k \in Nat : k = Inst(at).cap /\ k >= 2
        BY <1>2
      <3>2. PICK g \in Captures : g = caps[t0]
        BY <1>2 DEF IsHeld
      <3>3. [g EXCEPT ![k] = p] \in Captures /\ [g EXCEPT ![k] = p][0] = g[0]
        BY <1>2, <3>1, RecordedIs
      <3> QED
        BY <2>1, <3>1, <3>2, <3>3
    <2>4. CapsKept /\ caps'[NewThread] = f
      BY <1>2, <2>2, <2>3, AllocIs DEF SInv
    <2>5. Began(t0)' = Began(t0)
      BY <2>2, <2>3, <2>4 DEF Began
    <2>6. Entry(0, t0) \in Entries /\ Entry(0, t0).id = 0
      BY <1>2 DEF Entry, Entries, Thread
    <2>7. \A n : OnStack(stk, n)' <=>
                   n = 0 \/ OnStack(stk, n) \/ (~Inst(at).last /\ n = at + 1)
      <3>1. stk' = <<Entry(0, t0)>> \o Below /\ Below \in Seq(Entries)
        BY <1>1, <2>2, <2>6, BelowIs
      <3>2. \A n : OnStack(<<Entry(0, t0)>> \o Below, n) <=> n = 0 \/ OnStack(Below, n)
        BY <2>6, <3>1, PushIs
      <3>3. \A n : OnStack(Below, n) <=> OnStack(stk, n) \/ (~Inst(at).last /\ n = at + 1)
        BY <1>1, BelowIs
      <3>4. \A n : OnStack(stk, n)' <=> OnStack(stk', n)
        BY DEF OnStack
      <3> QED
        BY <3>1, <3>2, <3>3, <3>4
    <2> QED
      BY <1>1, <1>3, <2>4, <2>5, <2>7, PushingFinds
  <1> QED
    BY <1>4, <1>5

-----------------------------------------------------------------------------
(***************************************************************************)
(* What Step leaves seen to.                                               *)
(***************************************************************************)
\* What is known while Step works.
LEMMA SteppingKnows ==
  ASSUME NFAInv, SInv, pc \in {"step", "cut"}, i <= Len(runq), NEW D, NEW X, NEW lo, CInv(D, X, lo)
  PROVE  /\ Going /\ Form /\ prog \in Progs /\ call \in Calls /\ p \in Int /\ p - 1 \in call.b .. call.e
         /\ Ways(D, X) /\ Seen(X) /\ Queue(D, X, lo) /\ Tried(D) /\ Order(D, lo)
         /\ D \in SUBSET Int /\ lo \in Int /\ i \in Nat /\ i # 0 /\ RunFrom = i /\ i \in DOMAIN runq
         /\ \A k \in DOMAIN runq : k \in Nat
         /\ match[0] \in Int /\ match[1] \in Int
         /\ pc = "step" =>
              /\ id = 0
              /\ T # NoThread => Began(T) \in D /\ lo <= Began(T) /\ Began(T) < p /\ Within(Began(T))
              /\ \A k \in DOMAIN runq : k >= i /\ T # NoThread /\ runq[k].t # NoThread =>
                   Began(T) <= Began(runq[k].t) /\ Began(runq[k].t) \in Int
  <1>1. /\ Going /\ Form /\ prog \in Progs /\ call \in Calls
        /\ i \in 1 .. Len(runq) /\ i # 0 /\ RunFrom = i /\ runq \in Seq(Entries) /\ i \in Nat
    BY RunningIs, InvIs DEF SInv, Form, NTypes
  <1>2. /\ i \in DOMAIN runq /\ \A k \in DOMAIN runq : k \in Nat
    BY <1>1
  <1>3. Ways(D, X) /\ Seen(X) /\ Queue(D, X, lo) /\ Tried(D) /\ Order(D, lo)
    BY <1>1 DEF CInv
  <1>4. p - 1 \in call.b .. call.e /\ p \in Int
    <2>1. runq # << >>
      BY <1>1
    <2> QED
      BY <1>1, <2>1, CallIs DEF Form
  <1>5. D \in SUBSET Int /\ lo \in Int
    BY <1>1, <1>3, CallIs DEF Tried, Order
  <1>6. match[0] \in Int /\ match[1] \in Int
    BY <1>1, KeptIs DEF Form
  <1>7. ASSUME pc = "step"
        PROVE  /\ id = 0
               /\ T # NoThread => Began(T) \in D /\ lo <= Began(T) /\ Began(T) < p /\ Within(Began(T))
               /\ \A k \in DOMAIN runq : k >= i /\ T # NoThread /\ runq[k].t # NoThread =>
                    Began(T) <= Began(runq[k].t) /\ Began(runq[k].t) \in Int
    <2>1. id = 0
      BY <1>1, <1>7 DEF Form
    <2>2. i >= RunFrom
      BY <1>1
    <2>3. \A k \in DOMAIN runq : k >= i => k >= RunFrom
      BY <1>1
    <2> QED
      BY <1>2, <1>3, <1>5, <1>7, <2>1, <2>2, <2>3 DEF Order, RunOrder, T
  <1> QED
    BY <1>1, <1>2, <1>3, <1>4, <1>5, <1>6, <1>7

\* The thread that is run is done with, or with all of them when they are cut
\* off: nothing that matters has waited for it in vain.
LEMMA StepsOn ==
  ASSUME NFAInv, SInv, NEW D, NEW X, NEW lo, CInv(D, X, lo),
         pc \in {"step", "cut"}, i <= Len(runq), Next_i, pc' \in {pc, "cut"},
         UNCHANGED <<prog, call, p, runq, caps, nextq, adding>>,
         \A t \in Int : Live(t)' => Live(t),
         \A t \in Int, q \in Int : Live(t)' /\ Answered(t, q) => Answered(t, q)',
         pc = "step" =>
           \A k \in DOMAIN runq, t \in D :
             /\ k = i \/ (k > i /\ pc' = "cut")
             /\ runq[k].t # NoThread /\ Began(runq[k].t) <= t /\ Live(t)'
             => Gone(X, runq[k].id, p - 1, t)',
         \A s \in Int : s <= lo /\ Within(s) => Within(s)',
         pc' = "step" => \A s : Within(s) => Within(s)',
         matched' => match'[0] \in D /\ match'[0] < p
  PROVE  CInv(D, X, lo)'
  <1>1. /\ Going /\ Form /\ prog \in Progs /\ call \in Calls /\ p \in Int
        /\ Ways(D, X) /\ Seen(X) /\ Queue(D, X, lo) /\ Tried(D) /\ Order(D, lo)
        /\ D \in SUBSET Int /\ lo \in Int /\ i \in Nat /\ i # 0 /\ RunFrom = i
        /\ \A k \in DOMAIN runq : k \in Nat
    BY SteppingKnows
  <1>2. i' = i + 1 /\ pc' # "add" /\ pc # "add" /\ RunFrom' = i + 1
    <2>1. i' = i + 1 /\ i' # 0 /\ pc' # "add" /\ pc # "add"
      BY <1>1 DEF Next_i
    <2> QED
      BY <2>1 DEF RunFrom
  <1>3. CapsKept /\ \A n : ~Pending(n) /\ ~Pending(n)'
    BY <1>2 DEF CapsKept, Pending
  <1>4. \A n, t : Queued(n, t) => Queued(n, t)'
    BY DEF Queued, Began
  <1>5. ASSUME NEW n, NEW q, NEW t, <<n, q, t>> \in X, Live(t)', Waits(n, q, t)
        PROVE  Waits(n, q, t)' \/ Gone(X, n, q, t)'
    <2>1. CASE q = p /\ Queued(n, t)
      BY <1>4, <1>5, <2>1 DEF Waits, Inst
    <2>2. CASE q = p - 1 /\ Runs(n, t)
      <3>1. pc = "step"
        BY <1>2, <2>2 DEF Runs
      <3>2. PICK k \in DOMAIN runq :
              k >= i /\ runq[k].id = n /\ runq[k].t # NoThread /\ Began(runq[k].t) <= t
        BY <1>1, <2>2 DEF Runs
      <3>3. CASE k > i /\ pc' = "step"
        <4>1. k >= RunFrom'
          BY <1>1, <1>2, <3>3
        <4>2. Runs(n, t)'
          BY <3>2, <3>3, <4>1 DEF Runs, Began
        <4> QED
          BY <1>5, <2>2, <4>2 DEF Waits, Inst
      <3>4. CASE k = i \/ (k > i /\ pc' = "cut")
        <4>1. t \in D
          BY <1>1, <1>5, WaysAre
        <4>2. Gone(X, runq[k].id, p - 1, t)'
          BY <1>5, <3>1, <3>2, <3>4, <4>1
        <4>3. runq'[k].id = n /\ p' - 1 = q
          BY <2>2, <3>2
        <4> QED
          BY <4>2, <4>3
      <3>5. k > i \/ k = i
        BY <1>1, <3>2
      <3> QED
        BY <3>1, <3>3, <3>4, <3>5
    <2> QED
      BY <1>5, <2>1, <2>2 DEF Waits
  <1>6. \A n, q, t : <<n, q, t>> \in X => q \in Int /\ t \in D
    BY <1>1, WaysAre
  <1>7. Seen(X)'
    BY <1>1, <1>3, <1>5, <1>6, SeenOn
  <1>8. Queue(D, X, lo)'
    <2>1. ASSUME NEW n, NEW t \in D, Live(t)', Covered(X, n, p, t) PROVE Covered(X, n, p, t)'
      <3>1. PICK v \in Int : v = p /\ v # p - 1
        BY <1>1
      <3>2. Waits(n, v, t) => Waits(n, v, t)'
        BY <1>4, <3>1 DEF Waits, Inst
      <3>3. Here(X, n, v, t)'
        BY <2>1, <3>1, HereOn DEF Covered
      <3>4. Gone(X, n, v, t) => Gone(X, n, v, t)'
        BY <1>1, <2>1, <3>1, GoneOn
      <3>5. Covered(X, n, v, t)'
        BY <2>1, <3>1, <3>2, <3>3, <3>4 DEF Covered
      <3> QED
        BY <3>1, <3>5 DEF Covered
    <2>2. ASSUME NEW t \in D, t >= lo, NEW k \in DOMAIN nextq
          PROVE  <<nextq[k].id, p, t>> \in X /\ (Live(t)' => Covered(X, nextq[k].id, p, t)')
      <3>1. PICK n : n = nextq[k].id
        OBVIOUS
      <3>2. <<n, p, t>> \in X /\ (Live(t) => Covered(X, n, p, t))
        BY <1>1, <2>2, <3>1 DEF Queue
      <3>3. Live(t)' => Covered(X, n, p, t)'
        BY <1>1, <2>1, <3>2
      <3>4. nextq'[k].id = n
        BY <3>1
      <3> QED
        BY <3>1, <3>2, <3>3, <3>4
    <2> QED
      BY <1>3, <2>2 DEF Queue
  <1>9. Ways(D, X)'
    BY <1>1, SameWays DEF Ways
  <1>10. Tried(D)'
    <2>1. \A t : (Over \/ Before(t))' <=> (Over \/ Before(t))
      BY <1>2 DEF Over, Before
    <2>2. \A t \in Starts(prog, call) : Live(t)' /\ (Over \/ Before(t)) => t \in D
      <3> SUFFICES ASSUME NEW t \in Starts(prog, call), Live(t)', Over \/ Before(t), t \notin D
                   PROVE  FALSE
        OBVIOUS
      <3>1. t \in Int
        BY <1>1, CallIs DEF Starts
      <3> QED
        BY <1>1, <3>1 DEF Tried
    <2> QED
      BY <1>1, <2>1, <2>2, SameWays DEF Tried
  <1>11. Order(D, lo)'
    <2>1. RunOrder(D, lo)'
      <3>1. CASE pc' = "step"
        <4>1. \A k \in DOMAIN runq : k >= RunFrom' => k >= RunFrom
          BY <1>1, <1>2
        <4>2. \A k \in Nat : k >= RunFrom' => k >= RunFrom
          BY <1>1, <1>2
        <4>3. \A k \in DOMAIN runq : k >= RunFrom' /\ runq[k].t # NoThread => lo <= Began(runq[k].t)
          BY <1>1, <3>1, <4>1 DEF Order, RunOrder
        <4> QED
          BY <1>1, <1>3, <3>1, <4>2, <4>3, RunOrderOn DEF Order
      <3>2. CASE pc' # "step"
        BY <1>2, <3>2 DEF RunOrder
      <3> QED
        BY <3>1, <3>2
    <2>2. NextOrder(D, lo)'
      BY <1>1, <1>3, NextOrderOn DEF Order
    <2> QED
      BY <1>1, <1>2, <2>1, <2>2 DEF Order, AddOrder
  <1> QED
    BY <1>7, <1>8, <1>9, <1>10, <1>11 DEF CInv

\* The same, when nothing becomes of the thread.
LEMMA StepsBy ==
  ASSUME NFAInv, SInv, NEW D, NEW X, NEW lo, CInv(D, X, lo),
         pc \in {"step", "cut"}, i <= Len(runq), Next_i, pc' = pc,
         UNCHANGED <<prog, call, p, runq, caps, nextq, adding, match, matched, id>>,
         pc = "step" /\ T # NoThread =>
           \A t \in Int : Began(T) <= t /\ Live(t) => Gone(X, runq[i].id, p - 1, t)
  PROVE  CInv(D, X, lo)'
  <1>1. Tried(D) /\ D \in SUBSET Int /\ \A k \in DOMAIN runq : k \in Nat
    BY SteppingKnows
  <1>2. \A t, q : Live(t)' = Live(t) /\ Answered(t, q)' = Answered(t, q)
    BY SameMatch DEF Live, Answered
  <1>3. \A s : Within(s)' <=> Within(s)
    BY SameMatch
  <1>4. ASSUME pc = "step", NEW k \in DOMAIN runq, NEW t \in D, k = i \/ (k > i /\ pc' = "cut"),
               runq[k].t # NoThread, Began(runq[k].t) <= t, Live(t)'
        PROVE  Gone(X, runq[k].id, p - 1, t)'
    <2>1. k = i /\ t \in Int /\ Live(t)
      BY <1>1, <1>2, <1>4
    <2>2. PICK n, q : n = runq[i].id /\ q = p - 1
      OBVIOUS
    <2>3. Gone(X, n, q, t)
      BY <1>4, <2>1, <2>2 DEF T
    <2>4. Gone(X, n, q, t)'
      BY <1>2, <2>3, GoneOn
    <2> QED
      BY <2>1, <2>2, <2>4
  <1>5. matched' => match'[0] \in D /\ match'[0] < p
    BY <1>1 DEF Tried
  <1> QED
    BY <1>2, <1>3, <1>4, <1>5, StepsOn

LEMMA StepEmptyFinds ==
  ASSUME NFAInv, SInv, StepEmpty, NEW D, NEW X, NEW lo, CInv(D, X, lo)
  PROVE  CInv(D, X, lo)'
  <1>1. /\ pc = "step" /\ i <= Len(runq) /\ T = NoThread /\ Next_i /\ pc' = pc
        /\ UNCHANGED <<prog, call, p, runq, caps, nextq, adding, match, matched, id>>
    BY DEF StepEmpty, Running, best
  <1> QED
    BY <1>1, StepsBy

LEMMA StepSkipFinds ==
  ASSUME NFAInv, SInv, StepSkip, NEW D, NEW X, NEW lo, CInv(D, X, lo)
  PROVE  CInv(D, X, lo)'
  <1>1. /\ pc = "step" /\ i <= Len(runq) /\ T # NoThread /\ TooLate /\ Next_i /\ pc' = pc
        /\ UNCHANGED <<prog, call, p, runq, caps, nextq, adding, match, matched, id>>
    BY DEF StepSkip, Running, best
  <1>2. Began(T) \in Int /\ match[0] \in Int
    BY <1>1, SteppingKnows
  <1>3. \A t \in Int : Began(T) <= t => ~Live(t)
    BY <1>1, <1>2 DEF TooLate, Live, Began
  <1> QED
    BY <1>1, <1>3, StepsBy

LEMMA CutOffFinds ==
  ASSUME NFAInv, SInv, CutOff, NEW D, NEW X, NEW lo, CInv(D, X, lo)
  PROVE  CInv(D, X, lo)'
  <1>1. /\ pc = "cut" /\ i <= Len(runq) /\ Next_i /\ pc' = pc
        /\ UNCHANGED <<prog, call, p, runq, caps, nextq, adding, match, matched, id>>
    BY DEF CutOff, best
  <1> QED
    BY <1>1, StepsBy

\* A better match is recorded: what began later does not matter any more.
LEMMA StepsBetter ==
  ASSUME NFAInv, SInv, NEW D, NEW X, NEW lo, CInv(D, X, lo),
         pc = "step", i <= Len(runq), T # NoThread, Next_i, pc' \in {pc, "cut"},
         UNCHANGED <<prog, call, p, runq, caps, nextq, adding>>,
         matched' = TRUE, match'[0] = Began(T),
         pc' = "cut" <=> ~Longest(prog, call) \/ id' # 0,
         Longest(prog, call) /\ matched => Began(T) <= match[0],
         id' = 0 => match'[1] = p - 1 /\ (Longest(prog, call) => Better(T)),
         \A r : ~Taken(prog, call, runq[i].id, p - 1, Inst(runq[i].id).out, r)
  PROVE  CInv(D, X, lo)'
  <1>1. /\ Began(T) \in D /\ lo <= Began(T) /\ Began(T) < p /\ Within(Began(T)) /\ id = 0
        /\ match[0] \in Int /\ match[1] \in Int /\ lo \in Int /\ D \in SUBSET Int /\ p \in Int
        /\ \A k \in DOMAIN runq : k \in Nat
        /\ i \in Nat
        /\ \A k \in DOMAIN runq : k >= i /\ runq[k].t # NoThread =>
             Began(T) <= Began(runq[k].t) /\ Began(runq[k].t) \in Int
    BY SteppingKnows
  <1>2. PICK b \in Int : b = Began(T)
    BY <1>1
  <1>3. matched => b <= match[0]
    BY <1>1, <1>2 DEF Within
  <1>4. \A t : Live(t)' <=> t < b \/ (t = b /\ Longest(prog, call) /\ id' = 0)
    BY <1>2 DEF Live
  <1>5. ASSUME NEW t \in Int, Live(t)' PROVE Live(t)
    BY <1>1, <1>3, <1>4, <1>5 DEF Live
  <1>6. ASSUME NEW t \in Int, NEW q \in Int, Live(t)', Answered(t, q) PROVE Answered(t, q)'
    <2>1. matched /\ match[0] <= t /\ (Longest(prog, call) /\ match[0] = t => q <= match[1])
      BY <1>6 DEF Answered
    <2>2. b = t /\ match[0] = t /\ Longest(prog, call) /\ id' = 0
      BY <1>1, <1>3, <1>4, <1>6, <2>1
    <2>3. match'[1] = p - 1 /\ p - 1 > match[1]
      BY <1>1, <1>2, <2>1, <2>2 DEF Better, Began
    <2>4. q <= match'[1]
      BY <1>1, <2>1, <2>2, <2>3
    <2> QED
      BY <1>2, <2>2, <2>4 DEF Answered
  <1>7. ASSUME NEW k \in DOMAIN runq, NEW t \in D, k = i \/ (k > i /\ pc' = "cut"),
               runq[k].t # NoThread, Began(runq[k].t) <= t, Live(t)'
        PROVE  Gone(X, runq[k].id, p - 1, t)'
    <2>1. k >= i /\ t \in Int /\ b <= t
      BY <1>1, <1>2, <1>7
    <2>2. t = b /\ Longest(prog, call) /\ id' = 0 /\ k = i
      BY <1>4, <1>7, <2>1
    <2>3. Answered(t, p - 1)'
      BY <1>1, <1>2, <2>2 DEF Answered
    <2>4. \A r : ~Taken(prog, call, runq[k].id, p - 1, Inst(runq[k].id).out, r)'
      BY <2>2 DEF Inst
    <2> QED
      BY <2>3, <2>4 DEF Gone, Inst
  <1>8. \A s \in Int : s <= lo => Within(s)'
    BY <1>1, <1>2 DEF Within
  <1>9. pc' = "step" => \A s : Within(s)'
    BY DEF Within
  <1>10. match'[0] \in D /\ match'[0] < p
    BY <1>1
  <1> QED
    BY <1>5, <1>6, <1>7, <1>8, <1>9, <1>10, StepsOn

LEMMA StepMatchFinds ==
  ASSUME NFAInv, SInv, StepMatch, NEW D, NEW X, NEW lo, CInv(D, X, lo)
  PROVE  CInv(D, X, lo)'
  <1> DEFINE ends == prog.anchorEnd => p - 1 = call.e
  <1>1. /\ pc = "step" /\ i <= Len(runq) /\ T # NoThread /\ Stepping("match") /\ Next_i
        /\ UNCHANGED <<prog, call, p, runq, caps, nextq, adding, id>>
        /\ IF ends /\ (Longest(prog, call) => Better(T))
             THEN match' = EndsAt(T) /\ matched' = TRUE ELSE UNCHANGED best
        /\ pc' = IF ends /\ ~Longest(prog, call) THEN "cut" ELSE pc
        /\ Inst(runq[i].id).op = "match"
    BY DEF StepMatch, Stepping, Running
  <1>2. /\ id = 0 /\ Began(T) \in Int /\ match[0] \in Int /\ match[1] \in Int /\ p \in Int
        /\ Within(Began(T))
    BY <1>1, SteppingKnows
  <1>3. \A r : ~Taken(prog, call, runq[i].id, p - 1, Inst(runq[i].id).out, r)
    BY <1>1 DEF Taken, Inst
  <1>4. Ends(prog, call, runq[i].id, p - 1) <=> ends
    BY <1>1 DEF Ends, Inst
  <1>5. CASE ends /\ (Longest(prog, call) => Better(T))
    <2>1. match'[0] = Began(T) /\ match'[1] = p - 1 /\ matched' = TRUE
      BY <1>1, <1>5, RunMatch DEF Began
    <2>2. Longest(prog, call) /\ matched => Began(T) <= match[0]
      BY <1>2, <1>5 DEF Better, Began
    <2>3. pc' \in {pc, "cut"} /\ (pc' = "cut" <=> ~Longest(prog, call) \/ id' # 0)
      BY <1>1, <1>2, <1>5
    <2> QED
      BY <1>1, <1>3, <1>5, <2>1, <2>2, <2>3, StepsBetter
  <1>6. CASE ~(ends /\ (Longest(prog, call) => Better(T)))
    <2>1. UNCHANGED <<match, matched>> /\ pc' = pc
      BY <1>1, <1>6 DEF best
    <2>2. ASSUME ends, NEW t \in Int, Began(T) <= t PROVE Answered(t, p - 1)
      <3>1. /\ Longest(prog, call) /\ matched /\ match[0] <= Began(T)
            /\ Began(T) = match[0] => p - 1 <= match[1]
        BY <1>2, <1>6, <2>2, KeptIs DEF Better, Began, Within, SInv, Form
      <3> QED
        BY <1>2, <2>2, <3>1 DEF Answered
    <2>3. \A t \in Int : Began(T) <= t => Gone(X, runq[i].id, p - 1, t)
      BY <1>3, <1>4, <2>2 DEF Gone
    <2> QED
      BY <1>1, <2>1, <2>3, StepsBy
  <1> QED
    BY <1>5, <1>6

LEMMA StepAltMatchFinds ==
  ASSUME NFAInv, SInv, StepAltMatch, NEW D, NEW X, NEW lo, CInv(D, X, lo)
  PROVE  CInv(D, X, lo)'
  <1>1. /\ pc = "step" /\ i <= Len(runq) /\ T # NoThread /\ Stepping("altmatch") /\ Next_i
        /\ UNCHANGED <<prog, call, p, runq, caps, nextq, adding>> /\ ~TooLate
        /\ Inst(runq[i].id).op = "altmatch"
    BY DEF StepAltMatch, Stepping, Running
  <1>2. /\ id = 0 /\ Began(T) \in Int /\ match[0] \in Int
    BY <1>1, SteppingKnows
  <1>3. \A r : ~Taken(prog, call, runq[i].id, p - 1, Inst(runq[i].id).out, r)
    BY <1>1 DEF Taken, Inst
  <1>4. CASE UNCHANGED <<pc, best, id>>
    <2>1. \A t : Gone(X, runq[i].id, p - 1, t)
      BY <1>1, <1>3 DEF Gone, Ends, Inst
    <2> QED
      BY <1>1, <1>4, <2>1, StepsBy DEF best
  <1>5. CASE ~UNCHANGED <<pc, best, id>>
    <2>1. /\ match' = caps[T] /\ matched' = TRUE /\ pc' = "cut"
          /\ id' = IF Greedy(prog.inst, Inst(runq[i].id)) THEN Inst(runq[i].id).out1
                   ELSE Inst(runq[i].id).out
      BY <1>5 DEF StepAltMatch
    <2>2. id' # 0
      BY <1>1, <2>1, RunLoop
    <2>3. match'[0] = Began(T)
      BY <2>1 DEF Began
    <2>4. Longest(prog, call) /\ matched => Began(T) <= match[0]
      BY <1>1, <1>2 DEF TooLate, Began
    <2> QED
      BY <1>1, <1>3, <2>1, <2>2, <2>3, <2>4, StepsBetter
  <1> QED
    BY <1>4, <1>5

\* A byte range leads its thread to AddToThreadq, which sees to all that began
\* no earlier.
LEMMA StepByteRangeFinds ==
  ASSUME NFAInv, SInv, StepByteRange, NEW D, NEW X, NEW lo, CInv(D, X, lo)
  PROVE  \E Y, z : CInv(D, Y, z)'
  <1>1. /\ pc = "step" /\ i <= Len(runq) /\ T # NoThread /\ pc' = "add"
        /\ at' = Inst(runq[i].id).out /\ t0' = T /\ stk' = << >>
        /\ UNCHANGED <<prog, call, p, runq, caps, i, nextq, match, matched, id>>
    BY DEF StepByteRange, Stepping, StartAdd, Running, best
  <1>2. /\ Going /\ Form /\ prog \in Progs /\ call \in Calls /\ p \in Int
        /\ Ways(D, X) /\ Seen(X) /\ Queue(D, X, lo) /\ Tried(D) /\ Order(D, lo)
        /\ D \in SUBSET Int /\ lo \in Int /\ i \in Nat /\ i # 0 /\ RunFrom = i /\ i \in DOMAIN runq
        /\ \A k \in DOMAIN runq : k \in Nat
        /\ Began(T) \in D /\ lo <= Began(T) /\ Began(T) < p /\ Within(Began(T))
        /\ \A k \in DOMAIN runq : k >= i /\ runq[k].t # NoThread =>
             Began(T) <= Began(runq[k].t) /\ Began(runq[k].t) \in Int
    BY <1>1, SteppingKnows
  <1>3. /\ Inst(runq[i].id).op = "byte" /\ p \in call.b .. call.e
        /\ Taken(prog, call, runq[i].id, p - 1, Inst(runq[i].id).out, p)
    BY RunByte
  <1>4. PICK b \in D, v \in Int, e \in Id, o \in Id :
          b = Began(T) /\ v = p /\ e = runq[i].id /\ o = Inst(e).out
    <2>1. runq[i].id \in Id /\ Inst(runq[i].id).out \in Id
      BY <1>1, <1>2, <1>3, RunningIs, ProgramLeads DEF Inst
    <2> QED
      BY <1>2, <2>1
  <1>5. b \in Int /\ lo <= b /\ b < v /\ Within(b)
    BY <1>2, <1>4
  <1>6. PICK M, Y : M = {o} /\ Y = More(X, M, v, D, b)
    OBVIOUS
  <1>7. \A n, q, t : <<n, q, t>> \in Y <=> <<n, q, t>> \in X \/ (n = o /\ q = v /\ t \in D /\ t >= b)
    <2>1. \A n, q, t : <<n, q, t>> \in More(X, M, v, D, b) <=>
                        <<n, q, t>> \in X \/ (n \in M /\ q = v /\ t \in D /\ t >= b)
      BY MoreIs
    <2> QED
      BY <1>6, <2>1
  <1>8. /\ RunFrom' = i + 1 /\ CapsKept /\ Began(t0)' = b
        /\ \A n : ~Pending(n) /\ (Pending(n)' <=> n = o)
    BY <1>1, <1>2, <1>4 DEF RunFrom, CapsKept, Began, Pending, OnStack
  <1>9. \A n, t : Queued(n, t) => Queued(n, t)'
    BY <1>1 DEF Queued, Began
  <1>10. ASSUME NEW n, NEW q, NEW t, <<n, q, t>> \in X, Waits(n, q, t)
         PROVE  Waits(n, q, t)' \/ Gone(Y, n, q, t)'
    <2>1. CASE q = p /\ Queued(n, t)
      BY <1>1, <1>9, <1>10, <2>1 DEF Waits, Inst
    <2>2. CASE q = p - 1 /\ Runs(n, t)
      <3>1. PICK k \in DOMAIN runq :
              k >= i /\ runq[k].id = n /\ runq[k].t # NoThread /\ Began(runq[k].t) <= t
        BY <1>2, <2>2 DEF Runs
      <3>2. CASE k > i
        <4>1. k >= RunFrom'
          BY <1>2, <1>8, <3>2
        <4>2. Runs(n, t)'
          BY <1>1, <3>1, <4>1 DEF Runs, Began
        <4> QED
          BY <1>1, <1>10, <2>2, <4>2 DEF Waits, Inst
      <3>3. CASE k = i
        <4>1. n = e /\ t \in D /\ b <= t
          BY <1>2, <1>4, <1>10, <3>1, <3>3, WaysAre DEF T
        <4>2. \A r : Taken(prog, call, n, q, Inst(n).out, r) => r = v
          BY <1>2, <1>3, <1>4, <2>2, <4>1 DEF Taken, Inst
        <4>3. <<o, v, t>> \in Y
          BY <1>7, <4>1
        <4>4. ~Ends(prog, call, n, q)
          BY <1>3, <1>4, <4>1 DEF Ends, Inst
        <4>5. Gone(Y, n, q, t)
          BY <1>4, <4>1, <4>2, <4>3, <4>4 DEF Gone
        <4> QED
          BY <1>1, <4>5, GoneOn, SameMatch
      <3> QED
        BY <1>2, <3>1, <3>2, <3>3
    <2> QED
      BY <1>10, <2>1, <2>2 DEF Waits
  <1>11. Seen(Y)'
    <2>1. \A n, q, t : <<n, q, t>> \in Y => q \in Int /\ t \in D
      BY <1>2, <1>7, WaysAre
    <2>2. \A n, q, t : <<n, q, t>> \in X => <<n, q, t>> \in Y
      BY <1>7
    <2>3. \A n, q, t : <<n, q, t>> \in Y /\ <<n, q, t>> \notin X =>
                         q = p /\ Pending(n)' /\ Began(t0)' <= t
      BY <1>4, <1>5, <1>7, <1>8
    <2> QED
      BY <1>1, <1>2, <1>8, <1>10, <2>1, <2>2, <2>3, SeenOn, SameMatch
  <1>12. Queue(D, Y, b)'
    <2>1. ASSUME NEW n, NEW t, Covered(X, n, v, t) PROVE Covered(Y, n, v, t)'
      <3>1. v # p - 1 /\ v = p
        BY <1>4
      <3>2. Waits(n, v, t) => Waits(n, v, t)'
        BY <1>1, <1>9, <3>1 DEF Waits, Inst
      <3>3. \A x, q, u : <<x, q, u>> \in X => <<x, q, u>> \in Y
        BY <1>7
      <3>4. Here(Y, n, v, t)'
        BY <1>1, <2>1, <3>3, HereOn DEF Covered
      <3>5. Gone(X, n, v, t) => Gone(Y, n, v, t)'
        BY <1>1, <3>3, GoneOn, SameMatch
      <3> QED
        BY <2>1, <3>2, <3>4, <3>5 DEF Covered
    <2>2. ASSUME NEW t \in D, t >= b, NEW k \in DOMAIN nextq
          PROVE  <<nextq[k].id, v, t>> \in Y /\ (Live(t)' => Covered(Y, nextq[k].id, v, t)')
      <3>1. PICK n : n = nextq[k].id
        OBVIOUS
      <3>2. t \in Int /\ t >= lo
        BY <1>2, <1>5, <2>2
      <3>3. <<n, v, t>> \in X /\ (Live(t) => Covered(X, n, v, t))
        BY <1>2, <1>4, <3>1, <3>2 DEF Queue
      <3>4. Live(t)' => Covered(Y, n, v, t)'
        BY <1>1, <2>1, <3>3, SameMatch
      <3>5. nextq'[k].id = n
        BY <1>1, <3>1
      <3> QED
        BY <1>7, <3>1, <3>3, <3>4, <3>5
    <2>3. p' = v /\ nextq' = nextq
      BY <1>1, <1>4
    <2>4. \A t \in D, n \in Id' : t >= b /\ Pending(n)' => <<n, v, t>> \in Y
      BY <1>7, <1>8
    <2> QED
      BY <2>2, <2>3, <2>4 DEF Queue
  <1>13. Ways(D, Y)'
    <2>1. v \in call.b .. call.e /\ v <= p
      BY <1>3, <1>4
    <2>2. /\ \A n, q, t : <<n, q, t>> \in Y =>
               n \in Id /\ q \in call.b .. call.e /\ q <= p /\ t \in D
          /\ \A t \in D : <<prog.start, t, t>> \in Y
      BY <1>2, <1>7, <2>1 DEF Ways
    <2> QED
      BY <1>1, <2>2, SameWays DEF Ways
  <1>14. Tried(D)'
    <2>1. \A t : (Over \/ Before(t))' <=> (Over \/ Before(t))
      BY <1>1, <1>2 DEF Over, Before
    <2> QED
      BY <1>1, <1>2, <2>1, SameWays, SameMatch DEF Tried
  <1>15. Order(D, b)'
    <2>1. RunOrder(D, b)'
      <3>1. \A k \in DOMAIN runq : k >= RunFrom' /\ runq[k].t # NoThread => b <= Began(runq[k].t)
        BY <1>2, <1>4, <1>8
      <3>2. \A k \in Nat : k >= RunFrom' => k >= RunFrom
        BY <1>2, <1>8
      <3> QED
        BY <1>1, <1>2, <1>8, <3>1, <3>2, RunOrderOn, SameMatch DEF Order
    <2>2. NextOrder(D, b)'
      <3>1. Form /\ CapsKept /\ NextOrder(D, lo) /\ UNCHANGED nextq
        BY <1>1, <1>2, <1>8 DEF Order
      <3>2. \A s \in Int : s <= lo /\ Within(s) => Within(s)'
        BY <1>1, SameMatch
      <3> QED
        BY <1>2, <1>5, <3>1, <3>2, NextOrderOn
    <2>3. AddOrder(b)'
      BY <1>1, <1>4, <1>5, <1>8, SameMatch DEF AddOrder
    <2> QED
      BY <1>1, <1>2, <1>4, <1>5, <2>1, <2>2, <2>3 DEF Order
  <1>16. CInv(D, Y, b)'
    BY <1>11, <1>12, <1>13, <1>14, <1>15 DEF CInv
  <1> QED
    BY <1>16

-----------------------------------------------------------------------------
(***************************************************************************)
(* What Search leaves seen to.                                             *)
(***************************************************************************)
LEMMA RejectFinds ==
  ASSUME NFAInv, SInv, Reject
  PROVE  \A D, X, lo : CInv(D, X, lo)'
  <1>1. ~Going'
    BY DEF Reject, Going
  <1> QED
    BY <1>1 DEF CInv

LEMMA BeginFinds ==
  ASSUME NFAInv, SInv, Begin
  PROVE  CInv({}, {}, 0)'
  <1>1. /\ pc = "search" /\ pc' = "step" /\ p' = call.b
        /\ UNCHANGED <<prog, call, runq, nextq, matched>>
    BY DEF Begin
  <1>2. ~matched /\ nextq = << >> /\ runq = << >> /\ call \in Calls
    BY <1>1 DEF Going, SInv, Form, NFAInv, Where
  <1>3. \A t : ~Pending(t)'
    BY <1>1 DEF Pending
  <1>4. \A t \in Starts(prog, call) : ~(t < call.b) /\ t \in Int
    BY <1>2, CallIs DEF Starts
  <1>5. Tried({})'
    <2>1. ~Over' /\ \A t : Before(t)' <=> t < call.b
      BY <1>1 DEF Over, Before
    <2> QED
      BY <1>1, <1>2, <1>4, <2>1, SameWays DEF Tried
  <1>6. Order({}, 0)'
    BY <1>1, <1>2 DEF Order, RunOrder, NextOrder, AddOrder
  <1> QED
    BY <1>5, <1>6 DEF CInv, Ways, Seen, Queue

\* Search goes on without a thread to run: nothing has to be seen to.
LEMMA QuietOn ==
  ASSUME NFAInv, SInv, Going, NEW D, NEW X, NEW lo, CInv(D, X, lo),
         pc # "add", pc' \notin {"add", "step"}, UNCHANGED <<prog, call, p, nextq, caps>>,
         \A n, t : ~Runs(n, t),
         \A t \in Int : Live(t)' => Live(t),
         \A t \in Int, q \in Int : Live(t)' /\ Answered(t, q) => Answered(t, q)',
         nextq = << >> \/ UNCHANGED <<match, matched>>,
         pc' = "spawned" /\ Start' => nextq # << >>,
         Tried(D)'
  PROVE  CInv(D, X, lo)'
  <1>1. /\ Ways(D, X) /\ Seen(X) /\ Queue(D, X, lo) /\ Tried(D) /\ Order(D, lo)
        /\ call \in Calls /\ D \in SUBSET Int /\ lo \in Int /\ Form
    <2>1. /\ Ways(D, X) /\ Seen(X) /\ Queue(D, X, lo) /\ Tried(D) /\ Order(D, lo)
          /\ call \in Calls /\ Form
      BY DEF CInv, SInv, Form
    <2> QED
      BY <2>1, CallIs DEF Tried, Order
  <1>2. CapsKept /\ \A n : ~Pending(n) /\ ~Pending(n)'
    BY DEF CapsKept, Pending
  <1>3. \A n, q, t : Waits(n, q, t) => Waits(n, q, t)'
    BY DEF Waits, Queued, Began, Inst
  <1>4. \A n, q, t : <<n, q, t>> \in X => q \in Int /\ t \in D
    BY <1>1, WaysAre
  <1>5. Seen(X)'
    BY <1>1, <1>2, <1>3, <1>4, SeenOn
  <1>6. Queue(D, X, lo)'
    <2>1. ASSUME NEW t \in D, t >= lo, NEW k \in DOMAIN nextq
          PROVE  <<nextq[k].id, p, t>> \in X /\ (Live(t)' => Covered(X, nextq[k].id, p, t)')
      <3>1. PICK n, q : n = nextq[k].id /\ q = p
        OBVIOUS
      <3>2. <<n, q, t>> \in X /\ (Live(t) => Covered(X, n, q, t)) /\ t \in Int /\ q \in Int
        BY <1>1, <1>4, <2>1, <3>1 DEF Queue
      <3>3. Here(X, n, q, t) => Here(X, n, q, t)'
        BY HereOn
      <3>4. Live(t)' /\ Gone(X, n, q, t) => Gone(X, n, q, t)'
        BY <3>2, GoneOn
      <3>5. Live(t)' => Covered(X, n, q, t)'
        BY <1>3, <3>2, <3>3, <3>4 DEF Covered
      <3>6. nextq'[k].id = n /\ p' = q
        BY <3>1
      <3> QED
        BY <3>1, <3>2, <3>5, <3>6
    <2> QED
      BY <1>2, <2>1 DEF Queue
  <1>7. Ways(D, X)'
    BY <1>1, SameWays DEF Ways
  <1>8. Order(D, lo)'
    <2>1. NextOrder(D, lo)'
      <3>1. CASE nextq = << >>
        BY <3>1 DEF NextOrder
      <3>2. CASE UNCHANGED <<match, matched>>
        <4>1. \A s \in Int : Within(s) => Within(s)'
          BY <3>2 DEF Within
        <4> QED
          BY <1>1, <1>2, <4>1, NextOrderOn DEF Order
      <3> QED
        BY <3>1, <3>2
    <2> QED
      BY <1>1, <2>1 DEF Order, RunOrder, AddOrder
  <1> QED
    BY <1>5, <1>6, <1>7, <1>8 DEF CInv

LEMMA StepDoneFinds ==
  ASSUME NFAInv, SInv, StepDone, NEW D, NEW X, NEW lo, CInv(D, X, lo)
  PROVE  CInv(D, X, lo)'
  <1>1. /\ pc \in {"step", "cut"} /\ i > Len(runq) /\ UNCHANGED <<prog, call, p, nextq, caps>>
        /\ UNCHANGED <<match, matched, id>>
        /\ pc' = IF id # 0 THEN "shortcut" ELSE IF p > call.e THEN "drain"
                 ELSE IF Start THEN "spawn" ELSE "spawned"
    BY DEF StepDone, arena, best
  <1>2. /\ Going /\ call \in Calls /\ p \in Int /\ i \in Nat /\ runq \in Seq(Entries)
        /\ match[0] \in Int /\ (id # 0 => matched) /\ p \in call.b .. call.e + 1
    <2>1. /\ Going /\ call \in Calls /\ p \in call.b .. call.e + 1 /\ match \in Captures
          /\ (id # 0 => matched) /\ i \in Nat /\ runq \in Seq(Entries)
      BY <1>1, InvIs DEF SInv, Form, NTypes
    <2> QED
      BY <2>1, CallIs, KeptIs
  <1>3. Tried(D) /\ D \in SUBSET Int
    BY <1>2, CallIs DEF CInv, Tried
  <1>4. \A n, t : ~Runs(n, t)
    <2>1. i # 0
      BY <1>1, <1>2, InvIs DEF NFAInv, Where
    <2>2. \A k \in DOMAIN runq : ~(k >= RunFrom)
      BY <1>1, <1>2, <2>1 DEF RunFrom
    <2> QED
      BY <2>2 DEF Runs
  <1>5. \A t \in Starts(prog, call) : t \in Int /\ t <= call.e /\ (Anchored(prog, call) => t = call.b)
    BY <1>2, CallIs DEF Starts
  <1>6. ~Over /\ \A t : Before(t) <=> t < p
    BY <1>1 DEF Over, Before
  <1>7. Tried(D)'
    <2>1. \A t \in D : (Over \/ Before(t))'
      BY <1>1, <1>3, <1>6 DEF Tried, Before
    <2>2. ASSUME NEW t \in Starts(prog, call), Live(t), (Over \/ Before(t))' PROVE t \in D
      <3>1. CASE t < p
        BY <1>3, <1>6, <2>2, <3>1 DEF Tried
      <3>2. CASE ~(t < p) /\ matched
        <4>1. match[0] < p
          BY <1>3, <3>2 DEF Tried
        <4> QED
          BY <1>2, <1>5, <2>2, <3>2, <4>1 DEF Live
      <3>3. CASE ~(t < p) /\ ~matched
        <4>1. id = 0 /\ ~(p > call.e)
          BY <1>2, <1>5, <3>3, CallIs
        <4>2. pc' \in {"spawn", "spawned"} /\ t = p /\ pc' = "spawned" /\ ~Start
          BY <1>1, <1>2, <1>5, <2>2, <3>3, <4>1 DEF Over, Before
        <4> QED
          BY <1>5, <3>3, <4>2 DEF Start
      <3> QED
        BY <3>1, <3>2, <3>3
    <2> QED
      BY <1>1, <1>3, <2>1, <2>2, SameWays, SameMatch DEF Tried
  <1>8. pc' = "spawned" /\ Start' => nextq # << >>
    BY <1>1 DEF Start
  <1> QED
    BY <1>1, <1>2, <1>4, <1>7, <1>8, QuietOn, SameMatch

LEMMA ShortcutFinds ==
  ASSUME NFAInv, SInv, Shortcut, NEW D, NEW X, NEW lo, CInv(D, X, lo)
  PROVE  CInv(D, X, lo)'
  <1>1. /\ pc = "shortcut" /\ UNCHANGED <<prog, call, p, runq, i, nextq, caps>>
        /\ pc' \in {"shortcut", "drain"}
    BY DEF Shortcut, arena
  <1>2. /\ Going /\ matched /\ call \in Calls /\ match \in Captures /\ prog \in Progs
        /\ Reached(id, call.e, match) /\ ChainTo(prog, id) /\ nextq = << >>
    BY <1>1, InvIs DEF SInv, Form, MatchRight, NTypes
  <1>3. id \in Id /\ call.e \in Int
    <2>1. At(id, call.e, Kept(call, match)) \in Configs(prog, call)
      BY <1>2 DEF Reached, Paths
    <2> QED
      BY <1>2, <2>1, CallIs DEF Configs, At, Id
  <1>4. \A m : ChainTo(prog, m) => m # 0
    <2>1. prog.inst[0].op = "fail"
      BY <1>2, ProgsAssumption DEF WellFormed
    <2> QED
      BY <2>1, ChainOn
  <1>5. match'[0] = match[0] /\ matched' /\ id # 0 /\ id' # 0
    <2>1. CASE Inst(id).op \in {"cap", "nop"}
      <3>1. /\ match' = IF Inst(id).op = "cap" /\ Inst(id).cap < NCapture
                          THEN [match EXCEPT ![Inst(id).cap] = call.e] ELSE match
            /\ id' = Inst(id).out /\ UNCHANGED <<pc, matched>>
        BY <2>1 DEF Shortcut
      <3>2. ChainTo(prog, id')
        BY <1>2, <2>1, <3>1, ChainOn DEF Inst
      <3>3. Inst(id).op = "cap" => Inst(id).cap \in Nat /\ Inst(id).cap >= 2
        BY <1>2, <1>3, ProgsAssumption DEF WellFormed, InstOK, Inst, Id
      <3> QED
        BY <1>2, <1>3, <1>4, <3>1, <3>2, <3>3, RecordedIs
    <2>2. CASE Inst(id).op \notin {"cap", "nop"}
      <3>1. id' = id /\ matched' /\ (match' = [match EXCEPT ![1] = call.e] \/ match' = match)
        BY <1>2, <2>2 DEF Shortcut
      <3>2. [match EXCEPT ![1] = call.e][0] = match[0]
        BY <1>2, <1>3, KeptIs
      <3> QED
        BY <1>2, <1>4, <3>1, <3>2
    <2> QED
      BY <2>1, <2>2
  <1>6. \A t : (Live(t)' <=> t < match[0]) /\ (Live(t) <=> t < match[0])
    BY <1>2, <1>5 DEF Live
  <1>7. Tried(D) /\ match[0] \in Int
    BY <1>2, KeptIs DEF CInv
  <1>8. \A t \in Int, q \in Int : ~(Live(t)' /\ Answered(t, q))
    BY <1>6, <1>7 DEF Answered
  <1>9. \A n, t : ~Runs(n, t)
    BY <1>1 DEF Runs
  <1>10. Tried(D)'
    <2>1. Over /\ Over'
      BY <1>1 DEF Over
    <2> QED
      BY <1>1, <1>2, <1>5, <1>6, <1>7, <2>1, SameWays DEF Tried
  <1> QED
    BY <1>1, <1>2, <1>6, <1>8, <1>9, <1>10, QuietOn

LEMMA DrainFinds ==
  ASSUME NFAInv, SInv, Drain, NEW D, NEW X, NEW lo, CInv(D, X, lo)
  PROVE  CInv(D, X, lo)'
  <1>1. pc = "drain" /\ nextq = << >> /\ Going
    BY DEF Drain, SInv, Form
  <1>2. pc' = "done" /\ UNCHANGED <<prog, call, p, nextq, caps, match, matched, id>>
    BY <1>1 DEF Drain, best
  <1>3. \A n, t : ~Runs(n, t)
    BY <1>1 DEF Runs
  <1>4. Tried(D)'
    <2>1. Tried(D) /\ Over /\ Over'
      BY <1>1, <1>2 DEF CInv, Over
    <2> QED
      BY <1>2, <2>1, SameWays, SameMatch DEF Tried
  <1> QED
    BY <1>1, <1>2, <1>3, <1>4, QuietOn, SameMatch

LEMMA AdvanceFinds ==
  ASSUME NFAInv, SInv, Advance, NEW D, NEW X, NEW lo, CInv(D, X, lo)
  PROVE  \E z : CInv(D, X, z)'
  <1>1. /\ pc = "spawned" /\ runq' = nextq /\ nextq' = << >>
        /\ UNCHANGED <<prog, call, caps, match, matched, id>>
        /\ IF nextq = << >> THEN pc' = "drain" /\ UNCHANGED <<p, i>>
           ELSE pc' = "step" /\ p' = p + 1 /\ i' = 1
    BY DEF Advance, arena, best
  <1>2. /\ Going /\ call \in Calls /\ p \in call.b .. call.e + 1 /\ nextq \in Seq(Entries)
        /\ match \in Captures
    BY <1>1, InvIs DEF SInv, Form, NTypes
  <1>3. p \in Int /\ match[0] \in Int /\ call.b \in Int
    BY <1>2, CallIs, KeptIs
  <1>4. /\ Ways(D, X) /\ Seen(X) /\ Tried(D) /\ Order(D, lo) /\ D \in SUBSET Int
        /\ \A t \in D : call.b <= t
    <2>1. Ways(D, X) /\ Seen(X) /\ Tried(D) /\ Order(D, lo)
      BY <1>2 DEF CInv
    <2> QED
      BY <1>2, <2>1, CallIs DEF Tried, Begins
  <1>5. \A n, t : ~Runs(n, t)
    BY <1>1 DEF Runs
  <1>6. \A t \in Starts(prog, call) : t \in Int /\ (Anchored(prog, call) => t = call.b)
    BY <1>2, CallIs DEF Starts
  <1>7. ~Over /\ \A t \in Int : Before(t) <=> t < p \/ t = p
    BY <1>1 DEF Over, Before
  <1>8. CASE nextq = << >>
    <2>1. ~Start /\ Over'
      BY <1>1, <1>4, <1>8 DEF Order, Over
    <2>2. ASSUME NEW t \in Starts(prog, call), Live(t) PROVE t \in D
      <3>1. t < p \/ t = p
        <4>1. CASE matched
          <5>1. match[0] < p
            BY <1>4, <4>1 DEF Tried
          <5> QED
            BY <1>3, <1>6, <2>2, <4>1, <5>1 DEF Live
        <4>2. CASE ~matched
          <5>1. Anchored(prog, call) /\ p >= call.b
            BY <1>2, <1>3, <2>1, <4>2 DEF Start
          <5> QED
            BY <1>3, <1>6, <5>1
        <4> QED
          BY <4>1, <4>2
      <3> QED
        BY <1>4, <1>6, <1>7, <2>2, <3>1 DEF Tried
    <2>3. Tried(D)'
      BY <1>1, <1>4, <1>8, <2>1, <2>2, SameWays, SameMatch DEF Tried
    <2>4. CInv(D, X, lo)'
      BY <1>1, <1>2, <1>5, <1>8, <2>3, QuietOn, SameMatch
    <2> QED
      BY <2>4
  <1>9. CASE nextq # << >>
    <2>1. pc' = "step" /\ p' = p + 1 /\ i' = 1 /\ RunFrom' = 1 /\ p' - 1 = p
      BY <1>1, <1>3, <1>9 DEF RunFrom
    <2>2. \A k \in DOMAIN nextq : k \in Nat /\ k >= 1
      BY <1>2
    <2>3. ASSUME NEW n, NEW q, NEW t, <<n, q, t>> \in X, Waits(n, q, t) PROVE Waits(n, q, t)'
      <3>1. q = p /\ Queued(n, t)
        BY <1>5, <2>3 DEF Waits
      <3>2. Runs(n, t)'
        BY <1>1, <2>1, <2>2, <3>1 DEF Runs, Queued, Began
      <3> QED
        BY <1>1, <2>1, <2>3, <3>1, <3>2 DEF Waits, Inst
    <2>4. Seen(X)'
      <3> SUFFICES ASSUME NEW n, NEW q, NEW t, <<n, q, t>> \in X, Live(t)'
                   PROVE  Covered(X, n, q, t)'
        BY DEF Seen
      <3>1. Live(t) /\ ~Pending(n)
        BY <1>1, SameMatch DEF Pending
      <3>2. Covered(X, n, q, t)
        BY <1>4, <3>1 DEF Seen
      <3>3. Here(X, n, q, t)'
        BY <1>1, <3>2, SameWays DEF Covered
      <3>4. Gone(X, n, q, t) => Gone(X, n, q, t)'
        BY <1>1, GoneOn, SameMatch
      <3> QED
        BY <2>3, <3>2, <3>3, <3>4 DEF Covered
    <2>5. Queue(D, X, call.b)'
      BY <1>1, <2>1 DEF Queue, Pending
    <2>6. Ways(D, X)'
      <3>1. \A n, q, t : <<n, q, t>> \in X => q \in Int
        BY <1>2, <1>4, WaysAre
      <3>2. \A n, q, t : <<n, q, t>> \in X =>
              n \in Id /\ q \in call.b .. call.e /\ q <= p + 1 /\ t \in D
        BY <1>3, <1>4, <3>1 DEF Ways
      <3> QED
        BY <1>1, <1>4, <2>1, <3>2, SameWays DEF Ways
    <2>7. \A t \in Int : (Over \/ Before(t))' <=> t < p \/ t = p
      BY <1>1, <1>3, <2>1 DEF Over, Before
    <2>8. Tried(D)'
      <3>1. \A t \in D : (Over \/ Before(t))'
        BY <1>4, <1>7, <2>7 DEF Tried
      <3>2. \A t \in Starts(prog, call) : Live(t)' /\ (Over \/ Before(t))' => t \in D
        BY <1>1, <1>4, <1>6, <1>7, <2>7, SameMatch DEF Tried
      <3>3. matched' => match'[0] \in D /\ match'[0] < p'
        BY <1>1, <1>3, <1>4, <2>1 DEF Tried
      <3> QED
        BY <1>1, <1>4, <3>1, <3>2, <3>3, SameWays DEF Tried
    <2>9. RunOrder(D, call.b)'
      <3> SUFFICES ASSUME NEW k \in DOMAIN nextq, nextq[k].t # NoThread
                   PROVE  /\ Began(nextq[k].t) \in D /\ call.b <= Began(nextq[k].t)
                          /\ Began(nextq[k].t) < p + 1 /\ Within(Began(nextq[k].t))
                          /\ \A j \in DOMAIN nextq : j >= k /\ nextq[j].t # NoThread =>
                               Began(nextq[k].t) <= Began(nextq[j].t)
        BY <1>1, <2>1 DEF RunOrder, Began, Within
      <3>1. /\ Began(nextq[k].t) \in D /\ Within(Began(nextq[k].t))
            /\ \A j \in DOMAIN nextq : j >= k /\ nextq[j].t # NoThread =>
                 Began(nextq[k].t) <= Began(nextq[j].t)
        BY <1>4 DEF Order, NextOrder
      <3>2. PICK s \in D : s = Began(nextq[k].t)
        BY <3>1
      <3>3. s \in Int /\ call.b <= s /\ s < p + 1
        <4>1. s \in Int /\ call.b <= s /\ Before(s)
          BY <1>4, <1>7 DEF Tried
        <4> QED
          BY <1>3, <1>7, <4>1
      <3> QED
        BY <3>1, <3>2, <3>3
    <2>10. Order(D, call.b)'
      BY <1>1, <1>3, <2>1, <2>9 DEF Order, NextOrder, AddOrder
    <2>11. CInv(D, X, call.b)'
      BY <2>4, <2>5, <2>6, <2>8, <2>10 DEF CInv
    <2>12. PICK b : b = call.b
      OBVIOUS
    <2>13. CInv(D, X, b)'
      BY <1>1, <2>11, <2>12
    <2> QED
      BY <2>13
  <1> QED
    BY <1>8, <1>9

LEMMA InitFinds == Init => CInv({}, {}, 0)
  BY DEF Init, CInv, Going

LEMMA StutterFinds ==
  ASSUME UNCHANGED vars, NEW D, NEW X, NEW lo, CInv(D, X, lo)
  PROVE  CInv(D, X, lo)'
  BY DEF vars, CInv, Going, Ways, Seen, Queue, Tried, Order, RunOrder, NextOrder, AddOrder, Covered,
         Here, Gone, Waits, Runs, Queued, Pending, OnStack, Began, Live, Answered, Over, Before, Within,
         Inst, Id, Begins, RunFrom, Start

\* A new thread begins at p', and nothing begins at the positions before it
\* that have been left out.  What is queued at p' is seen to for the new
\* thread as it is for the last one that is queued.
LEMMA SpawnFinds ==
  ASSUME NFAInv, SInv, Spawn, NEW D, NEW X, NEW lo, CInv(D, X, lo)
  PROVE  \E E, Y, z : CInv(E, Y, z)'
  <1>1. /\ pc = "spawn" /\ pc' = "add" /\ p' = Skipped /\ p' \in call.b .. call.e /\ p' >= p /\ p \in Int
        /\ p' \in Begins
        /\ nextq # << >> => p' = p
        /\ match = Unset /\ Start /\ i = 0 /\ ~matched
        /\ at' = prog.start /\ t0' = NewThread /\ stk' = << >>
        /\ UNCHANGED <<prog, call, runq, i, nextq, match, matched, id>>
        /\ prog \in Progs /\ call \in Calls /\ Going
    BY SpawnIs
  <1>2. /\ Ways(D, X) /\ Seen(X) /\ Queue(D, X, lo) /\ Tried(D) /\ Order(D, lo)
        /\ D \in SUBSET Int /\ lo \in Int /\ Form /\ \A t \in D : t < p
    <2>1. /\ Ways(D, X) /\ Seen(X) /\ Queue(D, X, lo) /\ Tried(D) /\ Order(D, lo) /\ Form
      BY <1>1 DEF CInv, SInv
    <2>2. \A t \in D : t < p
      BY <1>1, <2>1 DEF Tried, Over, Before
    <2> QED
      BY <1>1, <2>1, <2>2, CallIs DEF Tried, Order
  <1>3. PICK w \in Int : w = p'
    BY <1>1, CallIs
  <1>4. prog.start \in Id
    BY <1>1, ProgramLeads
  <1> DEFINE N == {prog.start} \cup {n \in Id : nextq # << >> /\ <<n, w, lo>> \in X}
  <1>5. PICK M, E, Y : M = N /\ E = D \cup {w} /\ Y = More(X, M, w, E, w)
    OBVIOUS
  <1>6. \A n : n \in M <=> n = prog.start \/ (n \in Id /\ nextq # << >> /\ <<n, w, lo>> \in X)
    BY <1>5
  <1> HIDE DEF N
  <1>7. /\ \A t : t \in E <=> t \in D \/ t = w
        /\ \A t \in E : t < w \/ t = w
        /\ \A t \in E : t >= w => t = w
    <2>1. \A t : t \in E <=> t \in D \/ t = w
      BY <1>5
    <2>2. ASSUME NEW t \in D PROVE t < w /\ ~(t >= w)
      <3>1. t \in Int /\ p \in Int /\ t < p /\ p <= w
        BY <1>1, <1>2, <1>3
      <3> QED
        BY <3>1
    <2> QED
      BY <2>1, <2>2
  <1>8. \A n, q, t : <<n, q, t>> \in Y <=> <<n, q, t>> \in X \/ (n \in M /\ q = w /\ t = w)
    <2>1. \A n, q, t : <<n, q, t>> \in More(X, M, w, E, w) <=>
                        <<n, q, t>> \in X \/ (n \in M /\ q = w /\ t \in E /\ t >= w)
      BY MoreIs
    <2>2. \A t : t \in E /\ t >= w <=> t = w
      BY <1>7
    <2>3. \A n, q, t : <<n, q, t>> \in Y <=>
                        <<n, q, t>> \in X \/ (n \in M /\ q = w /\ t \in E /\ t >= w)
      BY <1>5, <2>1
    <2>4. ASSUME NEW n, NEW q, NEW t
          PROVE  <<n, q, t>> \in Y <=> <<n, q, t>> \in X \/ (n \in M /\ q = w /\ t = w)
      <3>1. t \in E /\ t >= w <=> t = w
        BY <2>2
      <3>2. <<n, q, t>> \in Y <=> <<n, q, t>> \in X \/ (n \in M /\ q = w /\ t \in E /\ t >= w)
        BY <2>3
      <3> QED
        BY <3>1, <3>2
    <2> QED
      BY <2>4
  <1>9. CapsKept /\ caps'[NewThread][0] = w
    <2> DEFINE f == [Unset EXCEPT ![0] = w]
    <2>1. f \in Captures /\ f[0] = w
      <3>1. NCapture \in Nat /\ NCapture >= 2
        BY <1>1, CallIs
      <3>2. f = [r \in 0 .. NCapture - 1 |-> IF r = 0 THEN w ELSE NoPos]
        BY DEF Unset
      <3>3. 0 \in 0 .. NCapture - 1 /\ NoPos \in Int
        BY <3>1 DEF NoPos
      <3> QED
        BY <3>2, <3>3 DEF Captures
    <2>2. AllocThread(f)
      BY <1>3, SpawnIs
    <2> HIDE DEF f
    <2> QED
      BY <1>1, <2>1, <2>2, AllocIs DEF SInv
  <1>10. /\ \A n : ~Pending(n) /\ (Pending(n)' <=> n = prog.start)
         /\ Began(t0)' = w
    BY <1>1, <1>9 DEF Pending, OnStack, Began
  <1>11. \A n, t : ~Runs(n, t)
    BY <1>1 DEF Runs
  <1>12. \A n, t : Queued(n, t) => Queued(n, t)'
    BY <1>1, <1>2, <1>9, QueuedOn
  <1>13. \A n, q, t : Waits(n, q, t) => Waits(n, q, t)'
    <2>1. \A n, t : Queued(n, t) => p' = p
      BY <1>1 DEF Queued
    <2> QED
      BY <1>1, <1>11, <1>12, <2>1 DEF Waits, Inst
  <1>14. \A t : Live(t) /\ Live(t)'
    BY <1>1 DEF Live
  <1>15. \A t, q : ~Answered(t, q)
    BY <1>1 DEF Answered
  <1>16. \A n, q, t : <<n, q, t>> \in X => Covered(X, n, q, t) /\ n \in Id /\ q \in Int /\ t \in D /\ q <= p
    BY <1>1, <1>2, <1>10, <1>14, WaysAre DEF Seen, Ways
  <1>17. ASSUME NEW n, NEW q, NEW t, <<n, q, t>> \in X PROVE Covered(Y, n, q, t)'
    <2>1. Covered(X, n, q, t) /\ \A x, v, u : <<x, v, u>> \in X => <<x, v, u>> \in Y
      BY <1>8, <1>16, <1>17
    <2>2. Here(Y, n, q, t)'
      BY <1>1, <2>1, HereOn DEF Covered
    <2>3. Gone(X, n, q, t) => Gone(Y, n, q, t)'
      BY <1>1, <1>15, <2>1, GoneOn
    <2> QED
      BY <1>13, <2>1, <2>2, <2>3 DEF Covered
  <1>18. ASSUME NEW n, nextq # << >>, <<n, w, lo>> \in X PROVE Covered(Y, n, w, w)'
    <2>1. Covered(X, n, w, lo) /\ lo \in D /\ lo < w /\ w = p
      BY <1>1, <1>2, <1>3, <1>16, <1>18
    <2>2. Here(Y, n, w, w)'
      <3>1. ~Inst(n).last => <<n + 1, w, lo>> \in X
        BY <2>1 DEF Covered, Here
      <3>2. ~Inst(n).last => <<n + 1, w, w>> \in Y
        BY <1>6, <1>8, <1>16, <1>18, <3>1
      <3> QED
        BY <1>1, <3>2 DEF Here, Inst
    <2>3. CASE Gone(X, n, w, lo)
      <3>1. ~Ends(prog, call, n, w)
        BY <1>15, <2>3 DEF Gone
      <3>2. ASSUME NEW r, Taken(prog, call, n, w, Inst(n).out, r) PROVE <<Inst(n).out, r, w>> \in Y
        <4>1. <<Inst(n).out, r, lo>> \in X
          BY <2>3, <3>2 DEF Gone
        <4>2. r = w \/ r = w + 1
          BY <3>2 DEF Taken
        <4>3. r = w
          BY <1>16, <2>1, <4>1, <4>2
        <4> QED
          BY <1>6, <1>8, <1>16, <1>18, <4>1, <4>3
      <3>3. Gone(Y, n, w, w)
        BY <3>1, <3>2 DEF Gone
      <3>4. Gone(Y, n, w, w)'
        BY <1>1, <1>15, <3>3, GoneOn
      <3> QED
        BY <2>2, <3>4 DEF Covered
    <2>4. CASE Waits(n, w, lo)
      <3>1. Queued(n, lo)
        BY <1>11, <2>4 DEF Waits
      <3>2. Queued(n, w)'
        <4>1. PICK k \in DOMAIN nextq :
                nextq[k].id = n /\ nextq[k].t # NoThread /\ Began(nextq[k].t) <= lo
          BY <3>1 DEF Queued
        <4>2. Began(nextq[k].t) \in Int /\ Began(nextq[k].t)' = Began(nextq[k].t)
          BY <1>1, <1>2, <1>9, <4>1, QueuedOn DEF Order, NextOrder
        <4>3. Began(nextq[k].t)' <= w
          BY <1>2, <2>1, <4>1, <4>2
        <4>4. nextq' = nextq
          BY <1>1
        <4> QED
          BY <4>1, <4>3, <4>4 DEF Queued
      <3>3. Inst(n).op \in {"byte", "altmatch", "match"}
        BY <2>4 DEF Waits
      <3>4. Waits(n, w, w)'
        BY <1>1, <1>3, <3>2, <3>3 DEF Waits, Inst
      <3> QED
        BY <2>2, <3>4 DEF Covered
    <2> QED
      BY <2>1, <2>3, <2>4 DEF Covered
  <1>19. Seen(Y)'
    <2> SUFFICES ASSUME NEW n, NEW q, NEW t, <<n, q, t>> \in Y
                 PROVE  Covered(Y, n, q, t)' \/ (q = p' /\ Pending(n)' /\ Began(t0)' <= t)
      BY DEF Seen
    <2>1. CASE <<n, q, t>> \in X
      BY <1>17, <2>1
    <2>2. CASE n \in M /\ q = w /\ t = w
      <3>1. CASE n = prog.start
        BY <1>3, <1>10, <2>2, <3>1
      <3>2. CASE nextq # << >> /\ <<n, w, lo>> \in X
        <4>1. Covered(Y, n, w, w)'
          BY <1>18, <3>2
        <4> QED
          BY <2>2, <4>1
      <3> QED
        BY <1>6, <2>2, <3>1, <3>2
    <2> QED
      BY <1>8, <2>1, <2>2
  <1>20. Queue(E, Y, w)'
    <2>1. ASSUME NEW k \in DOMAIN nextq
          PROVE  <<nextq[k].id, w, w>> \in Y /\ Covered(Y, nextq[k].id, w, w)'
      <3>1. PICK n : n = nextq[k].id
        OBVIOUS
      <3>2. nextq # << >> /\ w = p /\ lo \in D
        BY <1>1, <1>2, <1>3 DEF Order
      <3>3. <<n, w, lo>> \in X /\ n \in Id
        BY <1>2, <1>16, <3>1, <3>2 DEF Queue
      <3>4. Covered(Y, n, w, w)' /\ nextq'[k].id = n
        BY <1>1, <1>18, <3>1, <3>2, <3>3
      <3> QED
        BY <1>6, <1>8, <3>1, <3>2, <3>3, <3>4
    <2>2. \A t \in E : t >= w => t = w
      BY <1>7
    <2>3. \A n : Pending(n)' => <<n, w, w>> \in Y
      BY <1>6, <1>8, <1>10
    <2>4. p' = w /\ nextq' = nextq
      BY <1>1, <1>3
    <2> QED
      BY <2>1, <2>2, <2>3, <2>4 DEF Queue
  <1>21. Ways(E, Y)'
    <2>1. \A n, q, t : <<n, q, t>> \in Y =>
            n \in Id /\ q \in call.b .. call.e /\ q <= w /\ t \in E
      <3>1. w \in call.b .. call.e /\ \A n \in M : n \in Id
        BY <1>1, <1>3, <1>4, <1>6
      <3>2. \A n, q, t : <<n, q, t>> \in X =>
              n \in Id /\ q \in call.b .. call.e /\ q <= w /\ t \in D
        BY <1>1, <1>2, <1>3, <1>16 DEF Ways
      <3> QED
        BY <1>7, <1>8, <3>1, <3>2
    <2>2. \A t \in E : <<prog.start, t, t>> \in Y
      BY <1>2, <1>6, <1>7, <1>8 DEF Ways
    <2> QED
      BY <1>1, <1>3, <2>1, <2>2, SameWays DEF Ways
  <1>22. Tried(E)'
    <2>1. ~Over' /\ \A t : Before(t)' <=> t < w \/ t = w
      BY <1>1, <1>3 DEF Over, Before
    <2>2. E \subseteq Begins
      BY <1>1, <1>2, <1>3, <1>7 DEF Tried
    <2>3. \A t \in E : t < w \/ t = w
      BY <1>7
    <2>4. ASSUME NEW t \in Starts(prog, call), t < w, t \notin D PROVE FALSE
      <3>1. t \in call.b .. call.e /\ t \in Int
        BY <1>1, CallIs DEF Starts
      <3>2. ~(t < p)
        BY <1>2, <1>14, <2>4 DEF Tried, Before
      <3>3. p # w
        BY <1>1, <1>3, <2>4, <3>1, <3>2
      <3>4. /\ ~Anchored(prog, call) /\ p < call.e /\ CanPrefixAccel(prog)
            /\ w = PrefixAccel(prog, call.text, p, call.e)
        BY <1>1, <1>3, <3>3 DEF Skipped
      <3>5. t = call.e \/ (t + AccelSize(prog.prefix) <= call.e /\ Occurs(prog.prefix, call.text, t))
        BY <1>1, <3>4 DEF Starts
      <3>6. p \in Nat /\ call.e \in Nat /\ p <= call.e /\ prog.prefix.bytes \in Seq(Byte)
        <4>1. p \in call.b .. call.e + 1
          BY <1>1, <1>2 DEF Form
        <4> QED
          BY <1>1, <3>4, <4>1, CallIs, ProgsAssumption
      <3>7. t # call.e
        BY <1>1, <1>3, <2>4, <3>1, <3>6
      <3>8. t \in p .. call.e
        BY <1>1, <3>1, <3>2, <3>6
      <3> QED
        BY <2>4, <3>4, <3>5, <3>6, <3>7, <3>8, AccelStarts
    <2>5. \A t \in Starts(prog, call) : t < w \/ t = w => t \in E
      BY <1>7, <2>4
    <2> QED
      BY <1>1, <2>1, <2>2, <2>3, <2>5, SameWays DEF Tried
  <1>23. Order(E, w)'
    <2>1. RunOrder(E, w)'
      <3>1. runq' = << >>
        BY <1>1, SearchIs
      <3> QED
        BY <3>1 DEF RunOrder
    <2>2. NextOrder(E, w)'
      <3>1. CASE nextq = << >>
        BY <1>1, <3>1 DEF NextOrder
      <3>2. CASE nextq # << >>
        <4>1. lo <= w
          BY <1>1, <1>2, <1>3, <3>2 DEF Order
        <4>2. NextOrder(D, w)'
          <5>1. NextOrder(D, lo) /\ UNCHANGED nextq
            BY <1>1, <1>2 DEF Order
          <5>2. \A s \in Int : s <= lo /\ Within(s) => Within(s)'
            BY <1>1, SameMatch
          <5> QED
            BY <1>2, <1>9, <4>1, <5>1, <5>2, NextOrderOn
        <4> QED
          BY <1>7, <4>2 DEF NextOrder
      <3> QED
        BY <3>1, <3>2
    <2>3. AddOrder(w)'
      BY <1>1, <1>10 DEF AddOrder, Within
    <2> QED
      BY <1>1, <1>7, <2>1, <2>2, <2>3 DEF Order
  <1>24. CInv(E, Y, w)'
    BY <1>19, <1>20, <1>21, <1>22, <1>23 DEF CInv
  <1> QED
    BY <1>24

-----------------------------------------------------------------------------
(***************************************************************************)
(* The answer.                                                             *)
(***************************************************************************)
Finds == \E D, X, lo : CInv(D, X, lo)

LEMMA AddInstFinds ==
  ASSUME NFAInv, SInv, AddInst, Finds
  PROVE  Finds'
  <1>1. PICK D, X, lo : CInv(D, X, lo)
    BY DEF Finds
  <1>2. CASE AddPop \/ AddSeen \/ AddDone
    <2>1. CInv(D, X, lo)'
      BY <1>1, <1>2, AddPopFinds, AddSeenFinds, AddDoneFinds
    <2> QED
      BY <2>1 DEF Finds
  <1>3. CASE AddAltMatch \/ AddMatch
    <2>1. \E Y : CInv(D, Y, lo)'
      BY <1>1, <1>3, AddAltMatchFinds, AddMatchFinds
    <2> QED
      BY <2>1 DEF Finds
  <1>4. CASE AddByteRange
    <2>1. \E Y : CInv(D, Y, lo)'
      BY <1>1, <1>4, AddByteRangeMisses, AddByteRangeTakes
    <2> QED
      BY <2>1 DEF Finds
  <1>5. CASE AddNop \/ AddEmptyWidth \/ AddCapture
    <2>1. \E Y : CInv(D, Y, lo)'
      BY <1>1, <1>5, AddNopFinds, AddEmptyWidthFinds, AddCaptureFinds
    <2> QED
      BY <2>1 DEF Finds
  <1> QED
    BY <1>2, <1>3, <1>4, <1>5 DEF AddInst

LEMMA StepInstFinds ==
  ASSUME NFAInv, SInv, StepInst, Finds
  PROVE  Finds'
  <1>1. PICK D, X, lo : CInv(D, X, lo)
    BY DEF Finds
  <1>2. CASE StepByteRange
    <2>1. \E Y, z : CInv(D, Y, z)'
      BY <1>1, <1>2, StepByteRangeFinds
    <2> QED
      BY <2>1 DEF Finds
  <1>3. CASE StepEmpty \/ StepSkip \/ StepAltMatch \/ StepMatch \/ CutOff
    <2>1. CInv(D, X, lo)'
      BY <1>1, <1>3, StepEmptyFinds, StepSkipFinds, StepAltMatchFinds, StepMatchFinds, CutOffFinds
    <2> QED
      BY <2>1 DEF Finds
  <1> QED
    BY <1>2, <1>3 DEF StepInst

LEMMA SearchFinds ==
  ASSUME NFAInv, SInv, [Next]_vars, Finds
  PROVE  Finds'
  <1>1. PICK D, X, lo : CInv(D, X, lo)
    BY DEF Finds
  <1>2. CASE Reject
    <2>1. \A E, Y, z : CInv(E, Y, z)'
      BY <1>2, RejectFinds
    <2> QED
      BY <2>1 DEF Finds
  <1>3. CASE Begin
    <2>1. CInv({}, {}, 0)'
      BY <1>3, BeginFinds
    <2> QED
      BY <2>1 DEF Finds
  <1>4. CASE Spawn
    <2>1. \E E, Y, z : CInv(E, Y, z)'
      BY <1>1, <1>4, SpawnFinds
    <2> QED
      BY <2>1 DEF Finds
  <1>5. CASE Advance
    <2>1. \E z : CInv(D, X, z)'
      BY <1>1, <1>5, AdvanceFinds
    <2> QED
      BY <2>1 DEF Finds
  <1>6. CASE StepDone \/ Shortcut \/ Drain \/ UNCHANGED vars
    <2>1. CInv(D, X, lo)'
      BY <1>1, <1>6, StepDoneFinds, ShortcutFinds, DrainFinds, StutterFinds
    <2> QED
      BY <2>1 DEF Finds
  <1> QED
    BY <1>2, <1>3, <1>4, <1>5, <1>6, AddInstFinds, StepInstFinds DEF Next, Done

\* When all is seen to, every path that still matters is, and so is its match.
LEMMA NoneOverlooked ==
  ASSUME NFAInv, SInv, pc = "done", Going, NEW D, NEW X, NEW lo, CInv(D, X, lo),
         NEW t \in D, Live(t), NEW y \in MatchesFrom(prog, call, t)
  PROVE  Answered(t, y.q)
  <1>1. /\ prog \in Progs /\ call \in Calls /\ nextq = << >> /\ Ways(D, X) /\ Seen(X) /\ Tried(D)
    <2>1. prog \in Progs /\ call \in Calls /\ nextq = << >>
      BY DEF NFAInv, NTypes, Where, SInv, Form
    <2> QED
      BY <2>1 DEF CInv
  <1>2. ASSUME NEW n, NEW q, <<n, q, t>> \in X PROVE Here(X, n, q, t) /\ Gone(X, n, q, t)
    <2>1. ~Pending(n) /\ ~Waits(n, q, t)
      BY <1>1 DEF Pending, Waits, Runs, Queued
    <2> QED
      BY <1>1, <1>2, <2>1 DEF Seen, Covered
  <1> DEFINE S == {x \in Configs(prog, call) : <<x.n, x.q, t>> \in X}
  <1>3. First(prog, call, t) \in S
    <2>1. t \in call.b .. call.e /\ t \in Int /\ prog.start \in DOMAIN prog.inst
      BY <1>1, CallIs, ProgramLeads DEF Tried, Begins, Id
    <2>2. First(prog, call, t) \in Configs(prog, call)
      BY <2>1, FirstReached DEF Paths
    <2>3. First(prog, call, t).n = prog.start /\ First(prog, call, t).q = t
      BY DEF First, At
    <2> QED
      BY <1>1, <2>2, <2>3 DEF Ways
  <1>4. Closed(prog, call, S)
    <2> SUFFICES ASSUME NEW x \in S, NEW z \in Configs(prog, call), Step(prog, call, x, z)
                 PROVE  <<z.n, z.q, t>> \in X
      BY DEF Closed
    <2>1. Here(X, x.n, x.q, t) /\ Gone(X, x.n, x.q, t)
      BY <1>2
    <2>2. CASE Rest(prog, x.n, x.q, z.n, z.q)
      BY <2>1, <2>2 DEF Rest, Here, Inst
    <2>3. CASE Taken(prog, call, x.n, x.q, z.n, z.q)
      <3>1. z.n = Inst(x.n).out
        BY <2>3 DEF Taken, Inst
      <3> QED
        BY <2>1, <2>3, <3>1 DEF Gone
    <2> QED
      BY <2>2, <2>3 DEF Step
  <1>5. y \in S
    <2>1. S \in SUBSET Configs(prog, call)
      OBVIOUS
    <2> HIDE DEF S
    <2> QED
      BY <1>3, <1>4, <2>1, PathsWithin DEF MatchesFrom
  <1> QED
    BY <1>2, <1>5 DEF Gone, MatchesFrom

\* If the program has a path that matches from a position where one may begin
\* the machine finds one; what it reports is the end and the submatches of a
\* path that matches, and no path matches that begins before it or, if the
\* longest is asked for, goes on for longer (NFA::Search, nfa.cc:448-629).
FindsTheMatch ==
  pc = "done" =>
    /\ ~matched => \A s \in Starts(prog, call) : MatchesFrom(prog, call, s) = {}
    /\ matched =>
         /\ match[0] \in Begins /\ Reports(prog, call, match[0], match)
         /\ \A s \in Starts(prog, call) : s < match[0] => MatchesFrom(prog, call, s) = {}
         /\ Longest(prog, call) => \A y \in MatchesFrom(prog, call, match[0]) : y.q <= match[1]

LEMMA AllAnswered ==
  ASSUME NFAInv, SInv, Finds
  PROVE  FindsTheMatch
  <1> SUFFICES ASSUME pc = "done"
               PROVE  /\ ~matched => \A s \in Starts(prog, call) : MatchesFrom(prog, call, s) = {}
                      /\ matched =>
                           /\ match[0] \in Begins /\ Reports(prog, call, match[0], match)
                           /\ \A s \in Starts(prog, call) :
                                s < match[0] => MatchesFrom(prog, call, s) = {}
                           /\ Longest(prog, call) =>
                                \A y \in MatchesFrom(prog, call, match[0]) : y.q <= match[1]
    BY DEF FindsTheMatch
  <1>1. prog \in Progs /\ call \in Calls /\ (~Going => ~matched)
    BY InvIs DEF SInv, Form, NTypes
  <1>2. CASE ~Going
    <2>1. ASSUME NEW s \in Starts(prog, call) PROVE MatchesFrom(prog, call, s) = {}
      <3>1. prog.start = 0 /\ s \in call.b .. call.e /\ s \in Int
        BY <1>1, <1>2, CallIs DEF Going, Starts
      <3>2. prog.start \in DOMAIN prog.inst
        BY <1>1, ProgramLeads DEF Id
      <3> DEFINE S == {x \in Configs(prog, call) : x.n = 0}
      <3>3. First(prog, call, s) \in S
        <4>1. First(prog, call, s) \in Configs(prog, call)
          BY <3>1, <3>2, FirstReached DEF Paths
        <4> QED
          BY <3>1, <4>1 DEF First, At
      <3>4. Closed(prog, call, S)
        <4>1. \A q, m, r : ~Follows(prog, call, 0, q, m, r)
          BY <1>1, FailLeadsNowhere
        <4> QED
          BY <4>1 DEF Closed, Step, Follows
      <3>5. S \in SUBSET Configs(prog, call)
        OBVIOUS
      <3>6. \A x \in S : ~Ends(prog, call, x.n, x.q)
        BY <1>1, FailLeadsNowhere
      <3> HIDE DEF S
      <3>7. Paths(prog, call, s) \subseteq S
        BY <3>3, <3>4, <3>5, PathsWithin
      <3> QED
        BY <3>6, <3>7 DEF MatchesFrom
    <2> QED
      BY <1>1, <1>2, <2>1
  <1>3. CASE Going
    <2>1. PICK D, X, lo : CInv(D, X, lo)
      BY DEF Finds
    <2>2. Tried(D) /\ Over
      BY <1>3, <2>1 DEF CInv, Over
    <2>3. ASSUME NEW s \in Starts(prog, call), matched => s < match[0]
          PROVE  MatchesFrom(prog, call, s) = {}
      <3>1. Live(s) /\ s \in D
        BY <2>2, <2>3 DEF Live, Tried
      <3>2. \A q : ~Answered(s, q)
        <4>1. s \in Int /\ match[0] \in Int
          BY <1>1, <1>3, CallIs, KeptIs DEF Starts, SInv, Form
        <4> QED
          BY <2>3, <4>1 DEF Answered
      <3> QED
        BY <1>3, <2>1, <3>1, <3>2, NoneOverlooked
    <2>4. ASSUME matched PROVE match[0] \in Begins /\ Reports(prog, call, match[0], match)
      BY <2>4 DEF SInv, MatchRight
    <2>5. ASSUME matched, Longest(prog, call), NEW y \in MatchesFrom(prog, call, match[0])
          PROVE  y.q <= match[1]
      <3>1. CASE id = 0
        <4>1. PICK s : s = match[0] /\ s \in D /\ Live(s)
          BY <2>2, <2>5, <3>1 DEF Tried, Live
        <4>2. Answered(s, y.q)
          BY <1>3, <2>1, <2>5, <4>1, NoneOverlooked
        <4> QED
          BY <2>5, <4>1, <4>2 DEF Answered
      <3>2. CASE id # 0
        <4>1. match[1] = call.e
          BY <2>5, <3>2 DEF SInv, MatchRight
        <4>2. y.q \in call.b .. call.e
          BY <2>5 DEF MatchesFrom, Paths, Configs
        <4> QED
          BY <1>1, <4>1, <4>2, CallIs
      <3> QED
        BY <3>1, <3>2
    <2> QED
      BY <2>3, <2>4, <2>5
  <1> QED
    BY <1>2, <1>3

\* For every program and every call, the machine misses no match, reports none
\* that is not there, and reports the leftmost and, if asked for, the longest.
\* So one thread for all the paths at an instruction, the threads that are
\* skipped and cut off (nfa.cc:341-347 and 412-424), the loop that goes to the
\* end of the text in one step (nfa.cc:361-378), the hints of byte ranges and
\* the literal prefix change no answer but in the order in which paths are
\* preferred.
THEOREM MachineIsRight == Spec => []FindsTheMatch
  <1>1. NFAInv /\ SInv /\ [Next]_vars /\ Finds => Finds'
    BY SearchFinds
  <1>2. Init => Finds
    BY InitFinds DEF Finds
  <1>3. NFAInv /\ SInv /\ Finds => FindsTheMatch
    BY AllAnswered
  <1> QED
    BY <1>1, <1>2, <1>3, SearchIsRight, PTL DEF Spec
=============================================================================
