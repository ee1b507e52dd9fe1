---------------------------- MODULE AnswerProofs ----------------------------
(***************************************************************************)
(* Lemmas about answers, for the proofs about whoever asks for one.        *)
(***************************************************************************)
EXTENDS Answers, WellFoundedInduction, TLAPS

LEMMA LeastOf ==
  ASSUME NEW S \in SUBSET Int, NEW b \in Int, \A x \in S : b <= x, S # {}
  PROVE  Least(S) \in S /\ \A y \in S : Least(S) <= y
  <1> DEFINE R == {ss \in Nat \X Nat : ss[1] < ss[2]}
             T == {n \in Nat : n + b \in S}
  <1>1. IsWellFoundedOn(R, Nat)
    BY NatLessThanWellFounded DEF OpToRel
  <1>2. T \subseteq Nat /\ T # {}
    <2>1. PICK x \in S : TRUE
      OBVIOUS
    <2>2. x - b \in Nat /\ (x - b) + b = x
      BY <2>1
    <2> QED
      BY <2>1, <2>2
  <1>3. \A y \in S : y - b \in T /\ (y - b) + b = y
    OBVIOUS
  <1>4. \A n \in T : n \in Nat /\ n + b \in S
    OBVIOUS
  <1> HIDE DEF R, T
  <1>5. PICK n \in T : \A m \in T : ~(<<m, n>> \in R)
    BY <1>1, <1>2, WFMin
  <1>6. ASSUME NEW y \in S PROVE n + b <= y
    <2>1. y - b \in T
      BY <1>3
    <2>2. <<y - b, n>> \in Nat \X Nat /\ ~(<<y - b, n>> \in R)
      BY <1>2, <1>5, <2>1
    <2>3. ~(y - b < n)
      BY <2>2 DEF R
    <2>4. y \in Int /\ n \in Nat
      BY <1>4
    <2> QED
      BY <2>3, <2>4
  <1>7. \E x \in S : \A y \in S : x <= y
    BY <1>4, <1>6
  <1> QED
    BY <1>7 DEF Least

\* Least is what is least.
LEMMA LeastIs ==
  ASSUME NEW S \in SUBSET Int, NEW x \in S, \A y \in S : x <= y
  PROVE  Least(S) = x
  <1>1. Least(S) \in S /\ \A y \in S : Least(S) <= y
    BY DEF Least
  <1>2. Least(S) <= x /\ x <= Least(S) /\ x \in Int /\ Least(S) \in Int
    BY <1>1
  <1> QED
    BY <1>2

-----------------------------------------------------------------------------
(***************************************************************************)
(* Ways.                                                                   *)
(***************************************************************************)
Place3(b, e) == [p : b .. e, caps : AnyCaps]

Kinds == {"first", "longest", "full"}

\* If there is a way at all, there is a first and there is a longest.
LEMMA SomeWanted ==
  ASSUME NEW b \in Nat, NEW e \in Nat, NEW ways \in Seq(Place3(b, e)), ways # << >>,
         NEW c, c.kind \in {"first", "longest"}
  PROVE  Wanted(ways, c) # {}
  <1>1. DOMAIN ways = 1 .. Len(ways) /\ Len(ways) \in Nat /\ 1 \in DOMAIN ways
    OBVIOUS
  <1>2. \A n \in DOMAIN ways : ways[n].p \in b .. e
    <2>1. \A n \in DOMAIN ways : ways[n] \in Place3(b, e)
      OBVIOUS
    <2> QED
      BY <2>1 DEF Place3
  <1>3. CASE c.kind = "first"
    BY <1>1, <1>3 DEF Wanted
  <1>4. CASE c.kind = "longest"
    <2> DEFINE S == {e - ways[n].p : n \in DOMAIN ways}
    <2>1. S \in SUBSET Int /\ S # {} /\ 0 \in Int /\ \A x \in S : 0 <= x
      BY <1>1, <1>2
    <2>2. Least(S) \in S /\ \A y \in S : Least(S) <= y
      <3> HIDE DEF S
      <3> QED
        BY <2>1, LeastOf
    <2>3. PICK n \in DOMAIN ways : Least(S) = e - ways[n].p
      BY <2>2
    <2>4. ASSUME NEW k \in DOMAIN ways PROVE ways[k].p <= ways[n].p
      <3>1. e - ways[n].p <= e - ways[k].p
        BY <2>2, <2>3
      <3> QED
        BY <1>2, <3>1
    <2> QED
      BY <1>4, <2>4 DEF Wanted
  <1> QED
    BY <1>3, <1>4

\* The answer to a search of which q is the first position with a match.
Hit(r, c, q) == Wanted(Ways(r, c, q), c) # {}
Chosen(r, c, q) == Ways(r, c, q)[Least(Wanted(Ways(r, c, q), c))]

LEMMA NoHit ==
  ASSUME NEW r, NEW c, \A q \in From(c) : ~Hit(r, c, q)
  PROVE  Answer(r, c) = NoAnswer
  BY DEF Hit, Answer

LEMMA FirstHit ==
  ASSUME NEW r, NEW c, From(c) \in SUBSET Int, NEW q \in From(c), Hit(r, c, q),
         \A k \in From(c) : k < q => ~Hit(r, c, k),
         Chosen(r, c, q).caps \in AnyCaps
  PROVE  /\ Answer(r, c) = [Chosen(r, c, q).caps EXCEPT ![0] = q, ![1] = Chosen(r, c, q).p]
         /\ Answer(r, c) # NoAnswer
         /\ Answer(r, c)[0] = q /\ Answer(r, c)[1] = Chosen(r, c, q).p
         /\ DOMAIN Answer(r, c) = 0 .. 5
         /\ \A k \in 2 .. 5 : Answer(r, c)[k] = Chosen(r, c, q).caps[k]
  <1> DEFINE ways == [k \in From(c) |-> Ways(r, c, k)]
             hits == {k \in From(c) : Wanted(ways[k], c) # {}}
  <1>1. \A k \in From(c) : ways[k] = Ways(r, c, k)
    OBVIOUS
  <1>2. q \in hits /\ hits \in SUBSET Int /\ \A k \in hits : q <= k
    BY <1>1 DEF Hit
  <1>3. Least(hits) = q
    <2> HIDE DEF hits
    <2> QED
      BY <1>2, LeastIs
  <1>4. Answer(r, c) = [Chosen(r, c, q).caps EXCEPT ![0] = q, ![1] = Chosen(r, c, q).p]
    <2>1. Answer(r, c) = IF hits = {} THEN NoAnswer
                         ELSE [ways[Least(hits)][Least(Wanted(ways[Least(hits)], c))].caps
                                EXCEPT ![0] = Least(hits),
                                       ![1] = ways[Least(hits)][Least(Wanted(ways[Least(hits)], c))].p]
      BY DEF Answer
    <2> HIDE DEF hits, ways
    <2>2. hits # {} /\ ways[q] = Ways(r, c, q)
      BY <1>1, <1>2
    <2> QED
      BY <2>1, <2>2, <1>3 DEF Chosen
  <1>5. DOMAIN Chosen(r, c, q).caps = 0 .. 5
    BY DEF AnyCaps, NCaps
  <1>6. DOMAIN Answer(r, c) = 0 .. 5
    BY <1>4, <1>5
  <1>7. Answer(r, c) # NoAnswer
    <2>1. 0 \in DOMAIN Answer(r, c) /\ DOMAIN NoAnswer = {}
      BY <1>6 DEF NoAnswer
    <2> QED
      BY <2>1
  <1> QED
    BY <1>4, <1>5, <1>6, <1>7

\* The answer comes from the first position with a match, if there is one.
Best(r, c, q) ==
  /\ q \in From(c) /\ Hit(r, c, q) /\ \A k \in From(c) : k < q => ~Hit(r, c, k)

LEMMA BestOrNone ==
  ASSUME NEW r, NEW c, From(c) \in SUBSET Nat
  PROVE  (\A q \in From(c) : ~Hit(r, c, q)) \/ \E q \in From(c) : Best(r, c, q)
  <1> DEFINE S == {q \in From(c) : Hit(r, c, q)}
  <1>1. ASSUME S # {} PROVE \E q \in From(c) : Best(r, c, q)
    <2>1. S \in SUBSET Int /\ 0 \in Int /\ \A q \in S : 0 <= q
      OBVIOUS
    <2>2. PICK q \in S : \A k \in S : q <= k
      <3> HIDE DEF S
      <3> QED
        BY <1>1, <2>1, LeastOf
    <2>3. q \in From(c) /\ Hit(r, c, q)
      BY <2>2
    <2>4. ASSUME NEW k \in From(c), k < q PROVE ~Hit(r, c, k)
      <3>1. q \in Nat /\ k \in Nat /\ ~(q <= k)
        BY <2>3, <2>4
      <3>2. k \notin S
        BY <2>2, <3>1
      <3> QED
        BY <3>2
    <2> QED
      BY <2>3, <2>4 DEF Best
  <1> QED
    BY <1>1

\* What is chosen is one of the ways.
LEMMA ChosenIsOne ==
  ASSUME NEW r, NEW c, NEW b, NEW e, NEW q, Hit(r, c, q), Ways(r, c, q) \in Seq(Place3(b, e))
  PROVE  \E n \in Wanted(Ways(r, c, q), c) :
           /\ n \in DOMAIN Ways(r, c, q) /\ n = Least(Wanted(Ways(r, c, q), c))
           /\ Chosen(r, c, q) = Ways(r, c, q)[n]
           /\ Chosen(r, c, q).p \in b .. e /\ Chosen(r, c, q).caps \in AnyCaps
  <1> DEFINE ways == Ways(r, c, q)
             S == Wanted(ways, c)
  <1>1. DOMAIN ways = 1 .. Len(ways) /\ Len(ways) \in Nat
    OBVIOUS
  <1>2. S \in SUBSET Int /\ S \subseteq DOMAIN ways /\ S # {} /\ \A n \in S : 1 <= n
    BY <1>1 DEF Wanted, Hit
  <1>3. Least(S) \in S
    <2> HIDE DEF S
    <2> QED
      BY <1>2, 1 \in Int, LeastOf
  <1>4. ways[Least(S)] \in Place3(b, e)
    BY <1>2, <1>3
  <1> QED
    BY <1>2, <1>3, <1>4 DEF Chosen, Place3

\* An answer, put together.
LEMMA AnswerIs ==
  ASSUME NEW r, NEW c, c.b \in Nat, c.e \in Nat, c.b <= c.e,
         \A q \in c.b .. c.e : Ways(r, c, q) \in Seq(Place3(q, c.e))
  PROVE  \/ Answer(r, c) = NoAnswer /\ \A q \in From(c) : ~Hit(r, c, q)
         \/ \E q \in From(c) :
              /\ q \in c.b .. c.e /\ Best(r, c, q) /\ Answer(r, c) # NoAnswer
              /\ Answer(r, c) = [Chosen(r, c, q).caps EXCEPT ![0] = q, ![1] = Chosen(r, c, q).p]
              /\ DOMAIN Answer(r, c) = 0 .. 5
              /\ Answer(r, c)[0] = q /\ Answer(r, c)[1] = Chosen(r, c, q).p
              /\ \A k \in 2 .. 5 : Answer(r, c)[k] = Chosen(r, c, q).caps[k]
              /\ \E n \in DOMAIN Ways(r, c, q) :
                   Chosen(r, c, q) = Ways(r, c, q)[n] /\ n \in Wanted(Ways(r, c, q), c)
              /\ Chosen(r, c, q).p \in q .. c.e /\ Chosen(r, c, q).caps \in AnyCaps
  <1>1. From(c) \subseteq c.b .. c.e /\ From(c) \in SUBSET Int /\ From(c) \in SUBSET Nat
    BY DEF From
  <1>2. CASE \A q \in From(c) : ~Hit(r, c, q)
    BY <1>2, NoHit
  <1>3. ASSUME NEW q \in From(c), Best(r, c, q)
        PROVE  /\ q \in c.b .. c.e /\ Best(r, c, q) /\ Answer(r, c) # NoAnswer
               /\ Answer(r, c) = [Chosen(r, c, q).caps EXCEPT ![0] = q, ![1] = Chosen(r, c, q).p]
               /\ DOMAIN Answer(r, c) = 0 .. 5
               /\ Answer(r, c)[0] = q /\ Answer(r, c)[1] = Chosen(r, c, q).p
               /\ \A k \in 2 .. 5 : Answer(r, c)[k] = Chosen(r, c, q).caps[k]
               /\ \E n \in DOMAIN Ways(r, c, q) :
                    Chosen(r, c, q) = Ways(r, c, q)[n] /\ n \in Wanted(Ways(r, c, q), c)
               /\ Chosen(r, c, q).p \in q .. c.e /\ Chosen(r, c, q).caps \in AnyCaps
    <2>1. q \in c.b .. c.e /\ Hit(r, c, q) /\ \A k \in From(c) : k < q => ~Hit(r, c, k)
      BY <1>1, <1>3 DEF Best
    <2>2. Ways(r, c, q) \in Seq(Place3(q, c.e))
      BY <2>1
    <2>3. /\ \E n \in DOMAIN Ways(r, c, q) :
               Chosen(r, c, q) = Ways(r, c, q)[n] /\ n \in Wanted(Ways(r, c, q), c)
          /\ Chosen(r, c, q).p \in q .. c.e /\ Chosen(r, c, q).caps \in AnyCaps
      BY <2>1, <2>2, ChosenIsOne
    <2> QED
      BY <1>1, <1>3, <2>1, <2>3, FirstHit
  <1> QED
    BY <1>1, <1>2, <1>3, BestOrNone
=============================================================================
