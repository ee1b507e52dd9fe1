----------------------------- MODULE SearchPaths -----------------------------
(***************************************************************************)
(* The paths of a program through a text, defined without a search, and    *)
(* what can be said of them: what the engines answer is to be compared     *)
(* with this.                                                              *)
(***************************************************************************)
EXTENDS Searches, FiniteSetTheorems, WellFoundedInduction, TLAPS

(***************************************************************************)
(* The paths of program pr in call c.  A path is at an instruction and a   *)
(* position, with the registers that it has set; register 1, the end of    *)
(* the match, is set by nobody but the match.  An AltMatch is there to     *)
(* speed up a search: to a path it is only the head of its list.           *)
(***************************************************************************)
Regs(c) == (0 .. (IF NMatch(c) = 0 THEN 2 ELSE 2 * NMatch(c)) - 1) \ {1}
Pairs(pr, c) == (DOMAIN pr.inst) \X (c.b .. c.e)
Configs(pr, c) == [n : DOMAIN pr.inst, q : c.b .. c.e, regs : [Regs(c) -> Int]]
At(n, q, f) == [n |-> n, q |-> q, regs |-> f]

\* From n at q a path may leave out n, and go on with the rest of its list,
Rest(pr, n, q, m, r) == ~pr.inst[n].last /\ m = n + 1 /\ r = q

\* or take n, if what n asks for is there.
Taken(pr, c, n, q, m, r) ==
  LET i == pr.inst[n] IN
  /\ m = i.out
  /\ \/ i.op = "byte" /\ Matches(i, ByteAt(c.text, q, c.e)) /\ r = q + 1
     \/ i.op \in {"cap", "nop"} /\ r = q
     \/ i.op = "empty" /\ i.empty \subseteq EmptyFlags(c.text, q) /\ r = q

Follows(pr, c, n, q, m, r) == Rest(pr, n, q, m, r) \/ Taken(pr, c, n, q, m, r)

\* A step of a path.
Step(pr, c, x, y) ==
  \/ Rest(pr, x.n, x.q, y.n, y.q) /\ y.regs = x.regs
  \/ /\ Taken(pr, c, x.n, x.q, y.n, y.q)
     /\ y.regs = IF pr.inst[x.n].op = "cap" THEN [x.regs EXCEPT ![pr.inst[x.n].cap] = x.q]
                 ELSE x.regs

\* The paths that begin at s: the least set with the first of them and with
\* the steps from any.
First(pr, c, s) == At(pr.start, s, [r \in Regs(c) |-> IF r = 0 THEN s ELSE NoPos])
Closed(pr, c, S) == \A x \in S, y \in Configs(pr, c) : Step(pr, c, x, y) => y \in S
Paths(pr, c, s) ==
  {x \in Configs(pr, c) :
     \A S \in SUBSET Configs(pr, c) : First(pr, c, s) \in S /\ Closed(pr, c, S) => x \in S}

\* Those that match.
Ends(pr, c, n, q) == pr.inst[n].op = "match" /\ (pr.anchorEnd => q = c.e)
MatchesFrom(pr, c, s) == {x \in Paths(pr, c, s) : Ends(pr, c, x.n, x.q)}

\* Where a match may begin.  The literal that every match begins with, if there
\* is one, leaves out most positions, but never the last.
Starts(pr, c) ==
  IF ~AnchorsFit(pr, c) THEN {}
  ELSE IF Anchored(pr, c) THEN {c.b}
  ELSE {s \in c.b .. c.e :
          CanPrefixAccel(pr) =>
            s = c.e \/ (s + AccelSize(pr.prefix) <= c.e /\ Occurs(pr.prefix, c.text, s))}

\* m, the best match, is that of a path from s.
Reports(pr, c, s, m) ==
  \E x \in MatchesFrom(pr, c, s) : m[1] = x.q /\ \A r \in Regs(c) : m[r] = x.regs[r]

\* The registers of a path, among those of a search.
Kept(c, f) == [r \in Regs(c) |-> f[r]]

-----------------------------------------------------------------------------
(***************************************************************************)
(* Positions.                                                              *)
(***************************************************************************)
LEMMA LeastNumber ==
  ASSUME NEW S \in SUBSET Nat, S # {}
  PROVE  \E x \in S : \A y \in S : x <= y
  <1> DEFINE R == {ss \in Nat \X Nat : ss[1] < ss[2]}
  <1>1. IsWellFoundedOn(R, Nat)
    BY NatLessThanWellFounded DEF OpToRel
  <1> HIDE DEF R
  <1>2. PICK x \in S : \A y \in S : ~(<<y, x>> \in R)
    BY <1>1, WFMin
  <1>3. ASSUME NEW y \in S PROVE x <= y
    <2>1. <<y, x>> \in Nat \X Nat /\ ~(<<y, x>> \in R)
      BY <1>2
    <2>2. ~(y < x)
      BY <2>1 DEF R
    <2> QED
      BY <2>2
  <1> QED
    BY <1>3

\* Prefix acceleration goes forward and not past the end of the text.
LEMMA AccelStays ==
  ASSUME NEW pr, pr.prefix.bytes \in Seq(Byte), NEW text,
         NEW b \in Nat, NEW e \in Nat, b <= e
  PROVE  PrefixAccel(pr, text, b, e) \in b .. e
  <1> DEFINE size == AccelSize(pr.prefix)
             hits == {q \in b .. e - size : Occurs(pr.prefix, text, q)}
  <1>1. size \in Nat
    BY DEF AccelSize, ShiftDFAFinal
  <1>2. hits \subseteq b .. e /\ hits \subseteq Nat
    BY <1>1
  <1>3. CASE hits = {}
    BY <1>3 DEF PrefixAccel
  <1>4. CASE hits # {}
    <2>1. \E q \in hits : \A r \in hits : q <= r
      BY <1>2, <1>4, LeastNumber
    <2>2. (CHOOSE q \in hits : \A r \in hits : q <= r) \in hits
      BY <2>1
    <2>3. PrefixAccel(pr, text, b, e) = CHOOSE q \in hits : \A r \in hits : q <= r
      BY <1>4 DEF PrefixAccel
    <2> QED
      BY <1>2, <2>2, <2>3
  <1> QED
    BY <1>3, <1>4

\* The first position that the literal allows is one, and none is before it.
LEMMA AccelStarts ==
  ASSUME NEW pr, pr.prefix.bytes \in Seq(Byte), NEW text, NEW b \in Nat, NEW e \in Nat, b <= e
  PROVE  LET q == PrefixAccel(pr, text, b, e)
             hit(t) == t + AccelSize(pr.prefix) <= e /\ Occurs(pr.prefix, text, t)
         IN  /\ q \in b .. e /\ (q = e \/ hit(q))
             /\ \A t \in b .. e : t < q => ~hit(t)
  <1> DEFINE size == AccelSize(pr.prefix)
             hits == {q \in b .. e - size : Occurs(pr.prefix, text, q)}
             q == PrefixAccel(pr, text, b, e)
  <1>1. size \in Nat
    BY DEF AccelSize, ShiftDFAFinal
  <1>2. hits \in SUBSET Nat
    BY <1>1
  <1>3. q \in b .. e
    BY AccelStays
  <1>4. \A t \in b .. e : t \in hits <=> t + size <= e /\ Occurs(pr.prefix, text, t)
    BY <1>1
  <1>5. q = IF hits = {} THEN e ELSE CHOOSE k \in hits : \A r \in hits : k <= r
    BY DEF PrefixAccel
  <1> HIDE DEF hits, q, size
  <1>6. CASE hits = {}
    BY <1>3, <1>4, <1>5, <1>6 DEF q, size
  <1>7. CASE hits # {}
    <2>1. \E k \in hits : \A r \in hits : k <= r
      BY <1>2, <1>7, LeastNumber
    <2>2. q \in hits /\ \A r \in hits : q <= r
      BY <1>5, <1>7, <2>1
    <2>3. ASSUME NEW t \in b .. e, t < q PROVE t \notin hits
      BY <1>3, <2>2, <2>3
    <2> QED
      BY <1>3, <1>4, <2>2, <2>3 DEF q, size
  <1> QED
    BY <1>6, <1>7

\* No byte range matches the end of the text.
LEMMA MatchesByte ==
  ASSUME NEW x \in Byte, NEW i, i.lo = x, NEW b, Matches(i, b), i.fold \in BOOLEAN
  PROVE  b # NoByte
  <1> SUFFICES ASSUME b = NoByte PROVE FALSE
    OBVIOUS
  <1>1. b = -1 /\ b \notin UpperCase
    BY ByteAssumption DEF NoByte, UpperCase, Byte
  <1>2. x <= -1
    BY <1>1 DEF Matches, ToLower
  <1> QED
    BY <1>2, ByteAssumption DEF Byte

-----------------------------------------------------------------------------
(***************************************************************************)
(* Paths.                                                                  *)
(***************************************************************************)
LEMMA FirstReached ==
  ASSUME NEW pr, NEW c, NEW s \in c.b .. c.e, pr.start \in DOMAIN pr.inst, s \in Int
  PROVE  First(pr, c, s) \in Paths(pr, c, s)
  <1>1. First(pr, c, s) \in Configs(pr, c)
    BY DEF First, Configs, At, NoPos
  <1> QED
    BY <1>1 DEF Paths

LEMMA PathsClosed ==
  ASSUME NEW pr, NEW c, NEW s, NEW x \in Paths(pr, c, s), NEW y \in Configs(pr, c),
         Step(pr, c, x, y)
  PROVE  y \in Paths(pr, c, s)
  <1>1. \A S \in SUBSET Configs(pr, c) : First(pr, c, s) \in S /\ Closed(pr, c, S) => x \in S
    BY DEF Paths
  <1>2. \A S \in SUBSET Configs(pr, c) : First(pr, c, s) \in S /\ Closed(pr, c, S) => y \in S
    BY <1>1 DEF Closed
  <1> QED
    BY <1>2 DEF Paths

LEMMA PathsWithin ==
  ASSUME NEW pr, NEW c, NEW s, NEW S \in SUBSET Configs(pr, c),
         First(pr, c, s) \in S, Closed(pr, c, S)
  PROVE  Paths(pr, c, s) \subseteq S
  BY DEF Paths

\* The next instruction of the list.
LEMMA RestPath ==
  ASSUME NEW pr, NEW c, NEW s, NEW n, NEW q, NEW f, At(n, q, f) \in Paths(pr, c, s),
         NEW m \in DOMAIN pr.inst, NEW r \in c.b .. c.e, Rest(pr, n, q, m, r)
  PROVE  At(m, r, f) \in Paths(pr, c, s)
  <1>1. At(n, q, f) \in Configs(pr, c)
    BY DEF Paths
  <1>2. f \in [Regs(c) -> Int]
    BY <1>1 DEF At, Configs
  <1>3. At(m, r, f) \in Configs(pr, c)
    BY <1>2 DEF At, Configs
  <1>4. Step(pr, c, At(n, q, f), At(m, r, f))
    BY DEF Step, At
  <1> QED
    BY <1>3, <1>4, PathsClosed

\* The instruction that n leads to.
LEMMA TakenPath ==
  ASSUME NEW pr, NEW c, NEW s, NEW n, NEW q \in Int, NEW f, At(n, q, f) \in Paths(pr, c, s),
         NEW m \in DOMAIN pr.inst, NEW r \in c.b .. c.e, Taken(pr, c, n, q, m, r)
  PROVE  /\ pr.inst[n].op # "cap" => At(m, r, f) \in Paths(pr, c, s)
         /\ pr.inst[n].op = "cap" =>
              At(m, r, [f EXCEPT ![pr.inst[n].cap] = q]) \in Paths(pr, c, s)
  <1> DEFINE g == IF pr.inst[n].op = "cap" THEN [f EXCEPT ![pr.inst[n].cap] = q] ELSE f
  <1>1. At(n, q, f) \in Configs(pr, c)
    BY DEF Paths
  <1>2. f \in [Regs(c) -> Int]
    BY <1>1 DEF At, Configs
  <1>3. g \in [Regs(c) -> Int]
    BY <1>2
  <1>4. At(m, r, g) \in Configs(pr, c)
    <2> HIDE DEF g
    <2> QED
      BY <1>3 DEF At, Configs
  <1>5. Step(pr, c, At(n, q, f), At(m, r, g))
    BY DEF Step, At
  <1>6. At(m, r, g) \in Paths(pr, c, s)
    <2> HIDE DEF g
    <2> QED
      BY <1>4, <1>5, PathsClosed
  <1> QED
    BY <1>6

-----------------------------------------------------------------------------
(***************************************************************************)
(* Instructions.                                                           *)
(***************************************************************************)
LEMMA InstIs ==
  ASSUME NEW pr \in Progs, NEW n \in DOMAIN pr.inst
  PROVE  /\ n \in Nat /\ DOMAIN pr.inst \subseteq Nat /\ Heads(pr) \subseteq DOMAIN pr.inst
         /\ pr.inst[n].op \in OpCode \ {"alt"}
         /\ pr.inst[n].op = "fail" => pr.inst[n].last
         /\ pr.inst[n].op \in {"byte", "cap", "empty", "nop"} => pr.inst[n].out \in Heads(pr)
         /\ ~pr.inst[n].last => n + 1 \in DOMAIN pr.inst
         /\ pr.inst[n].op = "altmatch" =>
              /\ pr.inst[n].out = n + 1 /\ pr.inst[n].out1 = n + 2
              /\ ~pr.inst[n].last /\ ~pr.inst[n + 1].last
              /\ n + 1 \in DOMAIN pr.inst /\ n + 2 \in DOMAIN pr.inst
         /\ pr.inst[n].op = "byte" /\ pr.inst[n].hint # 0 =>
              SameList(pr, n, n + pr.inst[n].hint)
         /\ pr.inst[n].op = "cap" => pr.inst[n].cap >= 2
         /\ pr.inst[n].cap \in Nat /\ pr.inst[n].hint \in Nat
         /\ pr.inst[n].lo \in Byte /\ pr.inst[n].fold \in BOOLEAN
         /\ HintsSound(pr) /\ LoopsSound(pr)
  <1>1. WellFormed(pr) /\ HintsSound(pr) /\ LoopsSound(pr)
    BY ProgsAssumption
  <1>2. InstOK(pr, n) /\ pr.inst[0].last
    BY <1>1 DEF WellFormed
  <1>3. PICK m \in Nat : DOMAIN pr.inst = 0 .. m - 1
    BY <1>1, FS_CardinalityType DEF WellFormed
  <1>4. n \in Nat /\ DOMAIN pr.inst \subseteq Nat /\ Heads(pr) \subseteq DOMAIN pr.inst
    <2>1. pr.heads \in Seq(DOMAIN pr.inst)
      BY <1>1 DEF WellFormed
    <2> QED
      BY <1>3, <2>1 DEF Heads
  <1>5. ASSUME pr.inst[n].op = "altmatch"
        PROVE  /\ pr.inst[n].out = n + 1 /\ pr.inst[n].out1 = n + 2
               /\ ~pr.inst[n].last /\ ~pr.inst[n + 1].last
               /\ n + 1 \in DOMAIN pr.inst /\ n + 2 \in DOMAIN pr.inst
    <2>1. /\ pr.inst[n].out = n + 1 /\ pr.inst[n].out1 = n + 2
          /\ SameList(pr, n, n + 2)
      BY <1>2, <1>5 DEF InstOK
    <2>2. \A k \in n .. (n + 2) - 1 : ~pr.inst[k].last
      BY <2>1 DEF SameList
    <2>3. n \in n .. (n + 2) - 1 /\ n + 1 \in n .. (n + 2) - 1
      BY <1>4
    <2>4. n + 2 \in DOMAIN pr.inst
      BY <2>1 DEF SameList
    <2> QED
      BY <1>3, <1>4, <2>1, <2>2, <2>3, <2>4
  <1> QED
    BY <1>1, <1>2, <1>4, <1>5 DEF InstOK

\* The instructions are numbered without gaps.
LEMMA Between ==
  ASSUME NEW pr \in Progs, NEW n \in DOMAIN pr.inst, NEW j \in DOMAIN pr.inst, NEW k \in n .. j
  PROVE  k \in DOMAIN pr.inst /\ k \in Nat
  <1>1. PICK m \in Nat : DOMAIN pr.inst = 0 .. m - 1
    <2>1. WellFormed(pr)
      BY ProgsAssumption
    <2> QED
      BY <2>1, FS_CardinalityType DEF WellFormed
  <1> QED
    BY <1>1

\* What a hint of n jumps over, all the rest of the list if there is none, is
\* byte ranges that do not match where n does,
Jumped(pr, n) ==
  {k \in DOMAIN pr.inst : SameList(pr, n, k) /\ (pr.inst[n].hint = 0 \/ k < n + pr.inst[n].hint)}

LEMMA HintSkips ==
  ASSUME NEW pr \in Progs, NEW n \in DOMAIN pr.inst, pr.inst[n].op = "byte", NEW j \in Jumped(pr, n)
  PROVE  /\ pr.inst[j].op = "byte"
         /\ \A b \in Byte : Matches(pr.inst[n], b) => ~Matches(pr.inst[j], b)
  BY InstIs DEF Jumped, HintsSound

\* so nothing follows on it but the rest of the list.
LEMMA SkipFollows ==
  ASSUME NEW pr \in Progs, NEW c, NEW n \in DOMAIN pr.inst, pr.inst[n].op = "byte", NEW q,
         ByteAt(c.text, q, c.e) \in Byte, Matches(pr.inst[n], ByteAt(c.text, q, c.e)),
         NEW j \in Jumped(pr, n)
  PROVE  /\ pr.inst[j].op = "byte" /\ ~Ends(pr, c, j, q)
         /\ \A m, r : Follows(pr, c, j, q, m, r) => ~pr.inst[j].last /\ m = j + 1 /\ r = q
  <1>1. pr.inst[j].op = "byte" /\ ~Matches(pr.inst[j], ByteAt(c.text, q, c.e))
    BY HintSkips
  <1>2. ASSUME NEW m, NEW r, Follows(pr, c, j, q, m, r)
        PROVE  ~pr.inst[j].last /\ m = j + 1 /\ r = q
    BY <1>1, <1>2 DEF Follows, Taken, Rest
  <1> QED
    BY <1>1, <1>2 DEF Ends

\* It leads to where it jumps to.
LEMMA SkipReached ==
  ASSUME NEW pr \in Progs, NEW c, NEW s, NEW n \in DOMAIN pr.inst, NEW q \in c.b .. c.e, NEW f,
         At(n, q, f) \in Paths(pr, c, s), pr.inst[n].op = "byte",
         NEW j, SameList(pr, n, j)
  PROVE  At(j, q, f) \in Paths(pr, c, s)
  <1>1. n \in Nat /\ j \in Nat /\ j \in DOMAIN pr.inst /\ n < j
    BY InstIs DEF SameList
  <1> DEFINE Bad == {k \in n + 1 .. j : At(k, q, f) \notin Paths(pr, c, s)}
  <1> SUFFICES ASSUME Bad # {} PROVE FALSE
    BY <1>1
  <1>2. PICK k \in Bad : \A i \in Bad : k <= i
    <2>1. Bad \in SUBSET Nat
      BY <1>1
    <2> HIDE DEF Bad
    <2> QED
      BY <2>1, LeastNumber
  <1>3. PICK i \in Nat : k = i + 1 /\ i >= n /\ i < j
    BY <1>1
  <1>4. i \in DOMAIN pr.inst /\ k \in DOMAIN pr.inst
    BY <1>1, <1>3, Between
  <1>5. At(i, q, f) \in Paths(pr, c, s)
    <2>1. CASE i = n
      BY <2>1
    <2>2. CASE i # n
      <3>1. i \in n + 1 .. j /\ ~(k <= i)
        BY <1>1, <1>3, <2>2
      <3> QED
        BY <1>2, <3>1
    <2> QED
      BY <2>1, <2>2
  <1>6. ~pr.inst[i].last
    BY <1>1, <1>3 DEF SameList
  <1>7. Rest(pr, i, q, k, q)
    BY <1>3, <1>6 DEF Rest
  <1>8. At(k, q, f) \in Paths(pr, c, s)
    BY <1>4, <1>5, <1>7, RestPath
  <1> QED
    BY <1>8

\* The list behind n, as far as the hint.
Skips(pr, n) ==
  {k \in DOMAIN pr.inst : SameList(pr, n, k) /\ (pr.inst[n].hint = 0 \/ k <= n + pr.inst[n].hint)}

LEMMA SkipsOn ==
  ASSUME NEW pr \in Progs, NEW n \in DOMAIN pr.inst, NEW j \in DOMAIN pr.inst,
         ~pr.inst[j].last, j = n \/ SameList(pr, n, j),
         pr.inst[n].hint = 0 \/ j < n + pr.inst[n].hint
  PROVE  j + 1 \in Skips(pr, n)
  <1>1. /\ j + 1 \in DOMAIN pr.inst /\ j \in Nat /\ n \in Nat /\ pr.inst[n].hint \in Nat
        /\ n <= j
    BY InstIs DEF SameList
  <1>2. SameList(pr, n, j + 1)
    <2>1. ASSUME NEW k \in n .. (j + 1) - 1 PROVE ~pr.inst[k].last
      <3>1. CASE k = j
        BY <3>1
      <3>2. CASE k # j
        <4>1. k \in n .. j - 1 /\ j # n
          BY <1>1, <3>2
        <4> QED
          BY <4>1 DEF SameList
      <3> QED
        BY <3>1, <3>2
    <2> QED
      BY <1>1, <2>1 DEF SameList
  <1>3. pr.inst[n].hint = 0 \/ j + 1 <= n + pr.inst[n].hint
    BY <1>1
  <1> QED
    BY <1>1, <1>2, <1>3 DEF Skips

-----------------------------------------------------------------------------
(***************************************************************************)
(* AltMatch.  A path at one comes by the loop to the end of the text, and  *)
(* from there to the match behind the other arm.                           *)
(***************************************************************************)
LEMMA LoopOnce ==
  ASSUME NEW pr \in Progs, NEW c \in Calls, NEW s, NEW n \in DOMAIN pr.inst,
         pr.inst[n].op = "altmatch", NEW q \in c.b .. c.e, NEW f,
         At(n, q, f) \in Paths(pr, c, s)
  PROVE  /\ At(MatchArm(pr, n), q, f) \in Paths(pr, c, s)
         /\ MatchArm(pr, n) \in DOMAIN pr.inst
         /\ q < c.e => At(n, q + 1, f) \in Paths(pr, c, s)
  <1>1. /\ n \in Nat /\ pr.inst[n].out = n + 1 /\ pr.inst[n].out1 = n + 2
        /\ ~pr.inst[n].last /\ ~pr.inst[n + 1].last
        /\ n + 1 \in DOMAIN pr.inst /\ n + 2 \in DOMAIN pr.inst /\ LoopsSound(pr)
    BY InstIs
  <1>2. PICK m \in Nat, k \in Nat : m = n + 1 /\ k = n + 2
    BY <1>1
  <1>3. At(m, q, f) \in Paths(pr, c, s)
    <2>1. Rest(pr, n, q, m, q)
      BY <1>1, <1>2 DEF Rest
    <2> QED
      BY <1>1, <1>2, <2>1, RestPath
  <1>4. At(k, q, f) \in Paths(pr, c, s)
    <2>1. Rest(pr, m, q, k, q)
      BY <1>1, <1>2 DEF Rest
    <2> QED
      BY <1>1, <1>2, <1>3, <2>1, RestPath
  <1>5. MatchArm(pr, n) \in {m, k} /\ LoopArm(pr, n) \in {m, k}
    BY <1>1, <1>2 DEF MatchArm, LoopArm
  <1>6. PICK j \in {m, k} : j = LoopArm(pr, n)
    BY <1>5
  <1>7. j \in DOMAIN pr.inst /\ At(j, q, f) \in Paths(pr, c, s)
    BY <1>1, <1>2, <1>3, <1>4
  <1>8. \/ AnyByteLoop(pr.inst, j, n)
        \/ pr.inst[j].op = "nop" /\ AnyByteLoop(pr.inst, pr.inst[j].out, n)
    BY <1>1, <1>6 DEF LoopsSound
  <1>9. ASSUME q < c.e, NEW l \in DOMAIN pr.inst, AnyByteLoop(pr.inst, l, n),
               At(l, q, f) \in Paths(pr, c, s)
        PROVE  At(n, q + 1, f) \in Paths(pr, c, s)
    <2>1. /\ c.b \in Nat /\ c.e \in Nat /\ c.text \in Seq(Byte) /\ c.e <= Len(c.text)
          /\ q \in Nat
      BY CallsAssumption
    <2>2. q + 1 \in 1 .. Len(c.text) /\ q + 1 \in c.b .. c.e
      BY <1>9, <2>1
    <2>3. ByteAt(c.text, q, c.e) = c.text[q + 1] /\ c.text[q + 1] \in Byte
      BY <1>9, <2>1, <2>2 DEF ByteAt
    <2>4. /\ pr.inst[l].op = "byte" /\ pr.inst[l].out = n
          /\ pr.inst[l].lo = 0 /\ pr.inst[l].hi = ByteMax
      BY <1>9 DEF AnyByteLoop
    <2>5. ASSUME NEW b \in Byte PROVE ToLower(b) \in Byte
      BY ByteAssumption DEF ToLower, Byte, UpperCase, LastLower
    <2>6. Matches(pr.inst[l], ByteAt(c.text, q, c.e))
      BY <2>3, <2>4, <2>5, ByteAssumption DEF Matches, Byte
    <2>7. PICK r \in Nat : r = q + 1
      BY <2>1
    <2>8. Taken(pr, c, l, q, n, r)
      BY <2>4, <2>6, <2>7 DEF Taken
    <2>9. r \in c.b .. c.e /\ q \in Int
      BY <2>1, <2>2, <2>7
    <2>10. At(n, r, f) \in Paths(pr, c, s)
      BY <1>9, <2>4, <2>8, <2>9, TakenPath
    <2> QED
      BY <2>7, <2>10
  <1>10. ASSUME q < c.e PROVE At(n, q + 1, f) \in Paths(pr, c, s)
    <2>1. CASE AnyByteLoop(pr.inst, j, n)
      BY <1>7, <1>9, <1>10, <2>1
    <2>2. CASE pr.inst[j].op = "nop" /\ AnyByteLoop(pr.inst, pr.inst[j].out, n)
      <3>1. PICK l : l = pr.inst[j].out
        OBVIOUS
      <3>2. l \in DOMAIN pr.inst /\ q \in Int
        BY <1>7, <2>2, <3>1, InstIs, CallsAssumption
      <3>3. Taken(pr, c, j, q, l, q)
        BY <2>2, <3>1 DEF Taken
      <3>4. At(l, q, f) \in Paths(pr, c, s)
        BY <1>7, <2>2, <3>2, <3>3, TakenPath
      <3> QED
        BY <1>9, <1>10, <2>2, <3>1, <3>2, <3>4
    <2> QED
      BY <1>8, <2>1, <2>2
  <1> QED
    BY <1>1, <1>2, <1>3, <1>4, <1>5, <1>10

LEMMA LoopPath ==
  ASSUME NEW pr \in Progs, NEW c \in Calls, NEW s, NEW n \in DOMAIN pr.inst,
         pr.inst[n].op = "altmatch", NEW q \in c.b .. c.e, NEW f,
         At(n, q, f) \in Paths(pr, c, s)
  PROVE  /\ At(MatchArm(pr, n), c.e, f) \in Paths(pr, c, s)
         /\ MatchArm(pr, n) \in DOMAIN pr.inst /\ c.e \in c.b .. c.e
  <1>1. c.b \in Nat /\ c.e \in Nat /\ q \in Nat /\ q <= c.e /\ c.b <= q
    BY CallsAssumption
  <1> DEFINE Bad == {k \in q .. c.e : At(n, k, f) \notin Paths(pr, c, s)}
  <1>2. Bad = {}
    <2> SUFFICES ASSUME Bad # {} PROVE FALSE
      OBVIOUS
    <2>1. PICK k \in Bad : \A i \in Bad : k <= i
      <3>1. Bad \in SUBSET Nat
        BY <1>1
      <3> HIDE DEF Bad
      <3> QED
        BY <3>1, LeastNumber
    <2>2. k # q
      OBVIOUS
    <2>3. PICK i \in Nat : k = i + 1 /\ i \in q .. c.e /\ i < c.e
      <3>1. k - 1 \in Nat /\ k = (k - 1) + 1 /\ k - 1 \in q .. c.e /\ k - 1 < c.e
        BY <1>1, <2>2
      <3> QED
        BY <3>1
    <2>4. At(n, i, f) \in Paths(pr, c, s)
      <3>1. ~(k <= i)
        BY <2>3
      <3> QED
        BY <2>1, <2>3, <3>1
    <2>5. i \in c.b .. c.e
      BY <1>1, <2>3
    <2> QED
      BY <2>3, <2>4, <2>5, LoopOnce
  <1>3. c.e \in q .. c.e /\ c.e \in c.b .. c.e
    BY <1>1
  <1>4. At(n, c.e, f) \in Paths(pr, c, s)
    BY <1>2, <1>3
  <1> QED
    BY <1>3, <1>4, LoopOnce

\* From n on only captures and nops come, and then a match.
Chain(pr, n, f, k) ==
  /\ f[0] = n /\ pr.inst[f[k]].op = "match"
  /\ \A j \in 1 .. k : f[j] = AfterCaptures(pr, f[j - 1])
ChainTo(pr, n) == \E k \in Nat : \E f : Chain(pr, n, f, k)

LEMMA MatchIsBehind ==
  ASSUME NEW pr \in Progs, NEW n \in DOMAIN pr.inst, pr.inst[n].op = "altmatch"
  PROVE  ChainTo(pr, MatchArm(pr, n))
  <1>1. MatchBehind(pr, MatchArm(pr, n))
    BY InstIs DEF LoopsSound
  <1>2. PICK k \in Nat : k = Cardinality(DOMAIN pr.inst)
    BY ProgsAssumption, FS_CardinalityType DEF WellFormed
  <1>3. \E f : Chain(pr, MatchArm(pr, n), f, k)
    BY <1>1, <1>2 DEF MatchBehind, Chain
  <1> QED
    BY <1>3 DEF ChainTo

\* A step along it.
LEMMA ChainOn ==
  ASSUME NEW pr, NEW n, ChainTo(pr, n)
  PROVE  /\ pr.inst[n].op \in {"cap", "nop"} => ChainTo(pr, pr.inst[n].out)
         /\ pr.inst[n].op \notin {"cap", "nop"} => pr.inst[n].op = "match"
  <1>1. PICK k \in Nat : \E f : Chain(pr, n, f, k)
    BY DEF ChainTo
  <1>2. PICK f : Chain(pr, n, f, k)
    BY <1>1
  <1>3. /\ f[0] = n /\ pr.inst[f[k]].op = "match"
        /\ \A j \in 1 .. k : f[j] = AfterCaptures(pr, f[j - 1])
    BY <1>2 DEF Chain
  <1>4. ASSUME pr.inst[n].op \in {"cap", "nop"} PROVE ChainTo(pr, pr.inst[n].out)
    <2>1. k # 0
      BY <1>3, <1>4
    <2>2. PICK l \in Nat : k = l + 1
      <3>1. k - 1 \in Nat /\ k = (k - 1) + 1
        BY <2>1
      <3> QED
        BY <3>1
    <2> DEFINE g == [j \in Nat |-> f[j + 1]]
    <2>3. \A j \in Nat : g[j] = f[j + 1]
      OBVIOUS
    <2> HIDE DEF g
    <2>4. g[0] = pr.inst[n].out
      <3>1. 1 \in 1 .. k /\ 0 + 1 = 1 /\ 1 - 1 = 0
        BY <2>2
      <3>2. f[1] = pr.inst[f[0]].out
        BY <1>3, <1>4, <3>1 DEF AfterCaptures
      <3> QED
        BY <1>3, <2>3, <3>1, <3>2
    <2>5. ASSUME NEW j \in 1 .. l
          PROVE  j \in Nat /\ j + 1 \in 1 .. k /\ g[j] = f[j + 1] /\ g[j - 1] = f[(j + 1) - 1]
      <3>1. j \in Nat /\ j - 1 \in Nat /\ j + 1 \in 1 .. k /\ (j - 1) + 1 = j /\ (j + 1) - 1 = j
        BY <2>2
      <3> QED
        BY <2>3, <3>1
    <2>6. \A j \in 1 .. l : g[j] = AfterCaptures(pr, g[j - 1])
      BY <1>3, <2>5
    <2>7. pr.inst[g[l]].op = "match"
      BY <1>3, <2>2, <2>3
    <2> QED
      BY <2>4, <2>6, <2>7 DEF Chain, ChainTo
  <1>5. ASSUME pr.inst[n].op \notin {"cap", "nop"} PROVE pr.inst[n].op = "match"
    <2> DEFINE Bad == {j \in 0 .. k : f[j] # n}
    <2>1. Bad = {}
      <3> SUFFICES ASSUME Bad # {} PROVE FALSE
        OBVIOUS
      <3>1. PICK j \in Bad : \A i \in Bad : j <= i
        <4>1. Bad \in SUBSET Nat
          OBVIOUS
        <4> HIDE DEF Bad
        <4> QED
          BY <4>1, LeastNumber
      <3>2. j # 0
        BY <1>3
      <3>3. j \in 1 .. k /\ j - 1 \in 0 .. k /\ ~(j <= j - 1)
        BY <3>2
      <3>4. f[j - 1] = n
        BY <3>1, <3>3
      <3> QED
        BY <1>3, <1>5, <3>3, <3>4 DEF AfterCaptures
    <2>2. k \in 0 .. k
      OBVIOUS
    <2> QED
      BY <1>3, <2>1, <2>2
  <1> QED
    BY <1>4, <1>5
=============================================================================
