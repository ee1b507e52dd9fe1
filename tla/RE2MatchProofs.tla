--------------------------- MODULE RE2MatchProofs ----------------------------
(***************************************************************************)
(* Proof that RE2::Match answers right, whichever engines it asks and      *)
(* whenever a DFA gives up, provided that the ways to match keep to the    *)
(* laws of WaysAssumption.                                                 *)
(***************************************************************************)
EXTENDS RE2Match, AnswerProofs, TLAPS

-----------------------------------------------------------------------------
(***************************************************************************)
(* Ways.                                                                   *)
(***************************************************************************)
LEMMA Laws ==
  ASSUME NEW x \in RE2s, NEW c \in RE2Calls, NEW e \in 0 .. Len(c.text), NEW q \in 0 .. e
  PROVE  /\ WaysTyped(x, x.suffix, c.text, e, q) /\ WaysCut(x, c.text, e, q)
         /\ WaysPrefixed(x, c.text, e, q) /\ WaysAnchored(x, c.text, e, q)
  BY WaysAssumption

LEMMA Types ==
  ASSUME NEW x \in RE2s, NEW c \in RE2Calls
  PROVE  /\ x.prefix.bytes \in Seq(Byte) /\ x.longest \in BOOLEAN
         /\ x.anchorStart \in BOOLEAN /\ x.anchorEnd \in BOOLEAN
         /\ x.captures \in Nat /\ x.captures < 3
         /\ c.text \in Seq(Byte) /\ Len(c.text) \in Nat /\ c.startpos \in Nat /\ c.endpos \in Nat
         /\ c.anchor \in AnchorKind /\ c.nsubmatch \in Nat
  BY RE2sAssumption, RE2CallsAssumption DEF NCaps

\* Of the ways that end where the chosen one does, it is the first.
LEMMA ChosenIsFirst ==
  ASSUME NEW b \in Nat, NEW e \in Nat, NEW ways \in Seq(Place3(b, e)),
         NEW c, c.kind \in Kinds, Wanted(ways, c) # {}
  PROVE  LET n == Least(Wanted(ways, c)) IN
         /\ n \in DOMAIN ways /\ n \in Wanted(ways, c)
         /\ FirstThatEnds(ways, ways[n].p) = ways[n].caps
         /\ ways[n].p \in b .. e /\ ways[n].caps \in AnyCaps
  <1>1. DOMAIN ways = 1 .. Len(ways) /\ Len(ways) \in Nat
    OBVIOUS
  <1>2. \A n \in DOMAIN ways : ways[n].p \in b .. e /\ ways[n].caps \in AnyCaps
    <2>1. \A n \in DOMAIN ways : ways[n] \in Place3(b, e)
      OBVIOUS
    <2> QED
      BY <2>1 DEF Place3
  <1> DEFINE W == Wanted(ways, c)
             n == Least(W)
             there == {k \in DOMAIN ways : ways[k].p = ways[n].p}
  <1>3. W \subseteq DOMAIN ways
    BY DEF Wanted
  <1>4. n \in W /\ \A k \in W : n <= k
    <2>1. W \in SUBSET Int /\ \A k \in W : 1 <= k
      BY <1>1, <1>3
    <2> HIDE DEF W
    <2> QED
      BY <2>1, LeastOf DEF W
  <1>5. \A k \in there : k \in W
    BY <1>2, <1>3, <1>4 DEF Wanted, Kinds
  <1>6. n \in there /\ there \in SUBSET Int /\ \A k \in there : n <= k
    BY <1>1, <1>3, <1>4, <1>5
  <1>7. Least(there) = n
    <2> HIDE DEF n, there
    <2> QED
      BY <1>6, LeastIs
  <1>8. FirstThatEnds(ways, ways[n].p) = ways[n].caps
    BY <1>6, <1>7 DEF FirstThatEnds
  <1> QED
    BY <1>2, <1>3, <1>4, <1>8

-----------------------------------------------------------------------------
(***************************************************************************)
(* What the engines are asked, in a call that Match does not decline.      *)
(***************************************************************************)
Asked == re \in RE2s /\ query \in RE2Calls /\ MayMatch
SubIs == sub = Place(query.startpos + Len(Prefix), query.endpos) /\ anchor = Narrowed

\* The search for all of it.
Target == SubSearch(sub.b, sub.e, anchor # "UNANCHORED",
                    IF anchor = "UNANCHORED" THEN KindAsked ELSE AnchoredKind)
W(e, q) == WaysOf(re.suffix, query.text, e, q)
Want == IF GoodPositions THEN Answer(re.regexp, Requested) ELSE NoAnswer

LEMMA SubTypes ==
  ASSUME Asked, SubIs
  PROVE  /\ sub.b \in Nat /\ sub.e \in 0 .. Len(query.text) /\ sub.b <= sub.e
         /\ sub.e = query.endpos /\ sub.b = query.startpos + Len(Prefix)
         /\ Prefix \in Seq(Byte) /\ Len(Prefix) \in Nat
         /\ Prefix # << >> => query.startpos = 0
         /\ Target.text = query.text /\ Target.b = sub.b /\ Target.e = sub.e
         /\ Target.kind \in Kinds /\ Target.anchored = (anchor # "UNANCHORED")
         /\ From(Target) \subseteq sub.b .. sub.e /\ From(Target) \in SUBSET Int
         /\ \A q : Ways(re.suffix, Target, q) = W(sub.e, q)
  <1>1. /\ Prefix \in Seq(Byte) /\ Len(Prefix) \in Nat
        /\ query.startpos \in Nat /\ query.endpos \in Nat /\ Len(query.text) \in Nat
        /\ query.startpos <= query.endpos /\ query.endpos <= Len(query.text)
        /\ Prefix # << >> => query.startpos = 0 /\ Len(Prefix) <= query.endpos - query.startpos
    BY Types DEF Asked, MayMatch, GoodPositions, HasPrefix, size, Prefix
  <1>2. sub.e = query.endpos /\ sub.b = query.startpos + Len(Prefix)
    BY DEF SubIs, Place
  <1>3. Prefix = << >> => Len(Prefix) = 0
    OBVIOUS
  <1>4. sub.b \in Nat /\ sub.e \in 0 .. Len(query.text) /\ sub.b <= sub.e
    <2>1. CASE Prefix = << >>
      BY <1>1, <1>2, <1>3, <2>1
    <2>2. CASE Prefix # << >>
      BY <1>1, <1>2, <2>2
    <2> QED
      BY <2>1, <2>2
  <1>5. /\ Target.text = query.text /\ Target.b = sub.b /\ Target.e = sub.e
        /\ Target.kind \in Kinds /\ Target.anchored = (anchor # "UNANCHORED")
        /\ \A q : Ways(re.suffix, Target, q) = W(sub.e, q)
    BY DEF Target, SubSearch, KindAsked, AnchoredKind, Kinds, Ways, W
  <1>6. From(Target) \subseteq sub.b .. sub.e /\ From(Target) \in SUBSET Int
    BY <1>4, <1>5 DEF From
  <1> QED
    BY <1>1, <1>2, <1>4, <1>5, <1>6

\* The laws of the ways, for the object and the call.
LEMMA WaysLaws ==
  ASSUME re \in RE2s, query \in RE2Calls, NEW e \in 0 .. Len(query.text), NEW q \in 0 .. e
  PROVE  /\ W(e, q) \in Seq(Place3(q, e))
         /\ \A n \in DOMAIN W(e, q) :
              \A k \in 2 * (1 + re.captures) .. 5 : W(e, q)[n].caps[k] = -1
         /\ \A r \in q .. e : FirstThatEnds(W(e, q), r) = FirstThatEnds(W(r, q), r)
         /\ re.anchorStart /\ q > 0 => W(e, q) = << >>
         /\ re.anchorEnd => \A n \in DOMAIN W(e, q) : W(e, q)[n].p = Len(query.text)
         /\ WaysOf(re.regexp, query.text, e, q) =
              IF Len(Prefix) = 0 THEN W(e, q)
              ELSE IF q = 0 /\ Len(Prefix) <= e /\ PrefixAt(re, query.text) THEN W(e, Len(Prefix))
              ELSE << >>
  <1>1. /\ WaysTyped(re, re.suffix, query.text, e, q) /\ WaysCut(re, query.text, e, q)
        /\ WaysPrefixed(re, query.text, e, q) /\ WaysAnchored(re, query.text, e, q)
    BY Laws
  <1>2. W(e, q) \in Seq(Place3(q, e))
    BY <1>1 DEF WaysTyped, W, Place3
  <1>3. \A n \in DOMAIN W(e, q) :
          \A k \in 2 * (1 + re.captures) .. 5 : W(e, q)[n].caps[k] = -1
    <2>1. 2 * NCaps - 1 = 5
      BY DEF NCaps
    <2> QED
      BY <1>1, <2>1 DEF WaysTyped, W
  <1>4. \A r \in q .. e : FirstThatEnds(W(e, q), r) = FirstThatEnds(W(r, q), r)
    BY <1>1 DEF WaysCut, W
  <1>5. /\ re.anchorStart /\ q > 0 => W(e, q) = << >>
        /\ re.anchorEnd => \A n \in DOMAIN W(e, q) : W(e, q)[n].p = Len(query.text)
    BY <1>1 DEF WaysAnchored, W
  <1>6. WaysOf(re.regexp, query.text, e, q) =
          IF Len(Prefix) = 0 THEN W(e, q)
          ELSE IF q = 0 /\ Len(Prefix) <= e /\ PrefixAt(re, query.text) THEN W(e, Len(Prefix))
          ELSE << >>
    BY <1>1 DEF WaysPrefixed, W, Prefix
  <1> QED
    BY <1>2, <1>3, <1>4, <1>5, <1>6

LEMMA WaysAre ==
  ASSUME Asked, NEW e \in 0 .. Len(query.text), NEW q \in 0 .. e
  PROVE  /\ W(e, q) \in Seq(Place3(q, e))
         /\ \A n \in DOMAIN W(e, q) :
              \A k \in 2 * (1 + re.captures) .. 5 : W(e, q)[n].caps[k] = -1
         /\ \A r \in q .. e : FirstThatEnds(W(e, q), r) = FirstThatEnds(W(r, q), r)
         /\ re.anchorStart /\ q > 0 => W(e, q) = << >>
         /\ re.anchorEnd => \A n \in DOMAIN W(e, q) : W(e, q)[n].p = Len(query.text)
         /\ WaysOf(re.regexp, query.text, e, q) =
              IF Len(Prefix) = 0 THEN W(e, q)
              ELSE IF q = 0 /\ Len(Prefix) <= e /\ PrefixAt(re, query.text) THEN W(e, Len(Prefix))
              ELSE << >>
  BY WaysLaws DEF Asked

\* What is chosen from the ways that begin at q.
LEMMA ChosenIs ==
  ASSUME Asked, SubIs, NEW q \in From(Target), Hit(re.suffix, Target, q)
  PROVE  LET x == Chosen(re.suffix, Target, q)
             n == Least(Wanted(W(sub.e, q), Target)) IN
         /\ n \in DOMAIN W(sub.e, q) /\ x = W(sub.e, q)[n] /\ n \in Wanted(W(sub.e, q), Target)
         /\ x.p \in q .. sub.e /\ x.caps \in AnyCaps
         /\ FirstThatEnds(W(sub.e, q), x.p) = x.caps
         /\ \A k \in 2 * (1 + re.captures) .. 5 : x.caps[k] = -1
  <1>1. /\ q \in 0 .. sub.e /\ sub.e \in 0 .. Len(query.text) /\ q \in Nat /\ sub.e \in Nat
        /\ Target.kind \in Kinds /\ Ways(re.suffix, Target, q) = W(sub.e, q)
    BY SubTypes
  <1>2. W(sub.e, q) \in Seq(Place3(q, sub.e)) /\ Wanted(W(sub.e, q), Target) # {}
    BY <1>1, WaysAre DEF Hit
  <1>3. Chosen(re.suffix, Target, q) = W(sub.e, q)[Least(Wanted(W(sub.e, q), Target))]
    BY <1>1 DEF Chosen
  <1>4. /\ Least(Wanted(W(sub.e, q), Target)) \in DOMAIN W(sub.e, q)
        /\ Least(Wanted(W(sub.e, q), Target)) \in Wanted(W(sub.e, q), Target)
        /\ FirstThatEnds(W(sub.e, q), Chosen(re.suffix, Target, q).p) = Chosen(re.suffix, Target, q).caps
        /\ Chosen(re.suffix, Target, q).p \in q .. sub.e
        /\ Chosen(re.suffix, Target, q).caps \in AnyCaps
    BY <1>1, <1>2, <1>3, ChosenIsFirst
  <1> QED
    BY <1>1, <1>3, <1>4, WaysAre

\* The answer of an engine that is asked for all of it.
Found == Answer(re.suffix, Target)

LEMMA FoundIs ==
  ASSUME Asked, SubIs, NEW q, Best(re.suffix, Target, q)
  PROVE  LET x == Chosen(re.suffix, Target, q) IN
         /\ Found # NoAnswer /\ DOMAIN Found = 0 .. 5
         /\ Found[0] = q /\ Found[1] = x.p /\ \A k \in 2 .. 5 : Found[k] = x.caps[k]
         /\ Found = [x.caps EXCEPT ![0] = q, ![1] = x.p]
  <1>1. /\ q \in From(Target) /\ Hit(re.suffix, Target, q)
        /\ \A k \in From(Target) : k < q => ~Hit(re.suffix, Target, k)
    BY DEF Best
  <1>2. Chosen(re.suffix, Target, q).caps \in AnyCaps /\ From(Target) \in SUBSET Int
    BY <1>1, ChosenIs, SubTypes
  <1> HIDE DEF Target
  <1> QED
    BY <1>1, <1>2, FirstHit DEF Found

LEMMA FoundOrNone ==
  ASSUME Asked, SubIs
  PROVE  \/ Found = NoAnswer /\ \A q \in From(Target) : ~Hit(re.suffix, Target, q)
         \/ \E q \in From(Target) : Best(re.suffix, Target, q)
  <1>1. From(Target) \in SUBSET Nat
    BY SubTypes
  <1>2. (\A q \in From(Target) : ~Hit(re.suffix, Target, q))
        \/ \E q \in From(Target) : Best(re.suffix, Target, q)
    BY <1>1, BestOrNone
  <1> QED
    BY <1>2, NoHit DEF Found

-----------------------------------------------------------------------------
(***************************************************************************)
(* The search for the suffix, as narrowed, finds what was requested.       *)
(***************************************************************************)
\* The same ways will do, although an anchored match may have become a full one.
LEMMA SameWanted ==
  ASSUME Asked, SubIs, NEW q \in 0 .. sub.e
  PROVE  Wanted(W(sub.e, q), Requested) = Wanted(W(sub.e, q), Target)
  <1>1. /\ sub.e \in 0 .. Len(query.text) /\ sub.e = query.endpos /\ Target.e = sub.e
        /\ Target.kind = IF anchor = "UNANCHORED" THEN KindAsked ELSE AnchoredKind
    BY SubTypes DEF Target, SubSearch
  <1>2. Requested.e = sub.e /\ Requested.kind = IF query.anchor = "ANCHOR_BOTH" THEN "full" ELSE KindAsked
    BY <1>1 DEF Requested
  <1>3. CASE re.anchorStart /\ re.anchorEnd
    <2>1. sub.e = Len(query.text)
      BY <1>1, <1>3 DEF Asked, MayMatch, AnchorsMet, size
    <2>2. \A n \in DOMAIN W(sub.e, q) : W(sub.e, q)[n].p = sub.e
      BY <1>1, <1>3, <2>1, WaysAre
    <2> QED
      BY <1>1, <1>2, <2>2 DEF Wanted
  <1>4. CASE ~(re.anchorStart /\ re.anchorEnd)
    <2>1. anchor = "ANCHOR_BOTH" <=> query.anchor = "ANCHOR_BOTH"
      BY <1>4 DEF SubIs, Narrowed
    <2>2. Requested.kind = Target.kind
      BY <1>1, <1>2, <2>1 DEF AnchoredKind
    <2> QED
      BY <1>1, <1>2, <2>2 DEF Wanted
  <1> QED
    BY <1>3, <1>4

\* A search for the object's regexp at q finds what one for the suffix finds
\* behind the prefix.
LEMMA SameHits ==
  ASSUME Asked, SubIs
  PROVE  /\ From(Requested) \subseteq query.startpos .. query.endpos
         /\ From(Requested) \in SUBSET Nat
         /\ \A q \in From(Requested) : Hit(re.regexp, Requested, q) =>
              /\ q + Len(Prefix) \in From(Target)
              /\ Hit(re.suffix, Target, q + Len(Prefix))
              /\ Chosen(re.regexp, Requested, q) = Chosen(re.suffix, Target, q + Len(Prefix))
         /\ \A q \in From(Target) : Hit(re.suffix, Target, q) =>
              /\ q - Len(Prefix) \in From(Requested)
              /\ Hit(re.regexp, Requested, q - Len(Prefix))
  <1>1. /\ sub.b \in Nat /\ sub.e \in 0 .. Len(query.text) /\ sub.b <= sub.e
        /\ sub.e = query.endpos /\ sub.b = query.startpos + Len(Prefix)
        /\ Len(Prefix) \in Nat /\ Prefix \in Seq(Byte)
        /\ Prefix # << >> => query.startpos = 0
        /\ Target.b = sub.b /\ Target.e = sub.e /\ Target.anchored = (anchor # "UNANCHORED")
        /\ From(Target) \subseteq sub.b .. sub.e
        /\ \A q : Ways(re.suffix, Target, q) = W(sub.e, q)
    BY SubTypes
  <1>2. /\ query.startpos \in Nat /\ query.anchor \in AnchorKind
        /\ re.anchorStart \in BOOLEAN
    BY Types DEF Asked
  <1>3. /\ Requested.b = query.startpos /\ Requested.e = sub.e
        /\ Requested.anchored = (query.anchor # "UNANCHORED")
        /\ Requested.kind = IF query.anchor = "ANCHOR_BOTH" THEN "full" ELSE KindAsked
        /\ Target.kind = IF anchor = "UNANCHORED" THEN KindAsked ELSE AnchoredKind
        /\ KindAsked # "full"
        /\ \A q : Ways(re.regexp, Requested, q) = WaysOf(re.regexp, query.text, sub.e, q)
    BY <1>1 DEF Requested, Target, SubSearch, KindAsked, Ways
  <1>4. /\ From(Requested) = IF query.anchor # "UNANCHORED" THEN {query.startpos}
                             ELSE query.startpos .. sub.e
        /\ From(Target) = IF anchor # "UNANCHORED" THEN {sub.b} ELSE sub.b .. sub.e
    <2>1. /\ From(Requested) = IF Requested.anchored \/ Requested.kind = "full"
                               THEN {Requested.b} ELSE Requested.b .. Requested.e
          /\ From(Target) = IF Target.anchored \/ Target.kind = "full"
                            THEN {Target.b} ELSE Target.b .. Target.e
      BY DEF From
    <2>2. /\ Requested.kind = "full" => Requested.anchored
          /\ Target.kind = "full" => Target.anchored
      BY <1>1, <1>3
    <2> QED
      BY <1>1, <1>3, <2>1, <2>2
  <1>5. From(Requested) \subseteq query.startpos .. query.endpos /\ From(Requested) \in SUBSET Nat
    BY <1>1, <1>2, <1>4
  <1>6. anchor = Narrowed
    BY DEF SubIs
  <1>7. \A q \in 0 .. sub.e : Wanted(W(sub.e, q), Requested) = Wanted(W(sub.e, q), Target)
    BY SameWanted
  <1>8. ASSUME NEW q \in From(Requested), NEW k \in 0 .. sub.e,
               WaysOf(re.regexp, query.text, sub.e, q) = W(sub.e, k)
        PROVE  /\ Hit(re.regexp, Requested, q) <=> Hit(re.suffix, Target, k)
               /\ Chosen(re.regexp, Requested, q) = Chosen(re.suffix, Target, k)
    BY <1>1, <1>3, <1>7, <1>8 DEF Hit, Chosen
  <1>9. ASSUME NEW q, Wanted(Ways(re.regexp, Requested, q), Requested) # {} PROVE WaysOf(re.regexp, query.text, sub.e, q) # << >>
    BY <1>3, <1>9 DEF Wanted
  <1>10. ASSUME NEW q, Hit(re.suffix, Target, q) PROVE W(sub.e, q) # << >>
    BY <1>1, <1>10 DEF Wanted, Hit
  <1>11. CASE Prefix = << >>
    <2>1. Len(Prefix) = 0 /\ sub.b = query.startpos
      <3>1. Len(Prefix) = 0
        <4> HIDE DEF Prefix
        <4> QED
          BY <1>11
      <3> QED
        BY <1>1, <1>2, <3>1
    <2>2. \A q \in 0 .. sub.e : WaysOf(re.regexp, query.text, sub.e, q) = W(sub.e, q)
      BY <1>1, <2>1, WaysAre
    <2>3. From(Target) \subseteq From(Requested)
      BY <1>1, <1>2, <1>4, <1>6, <1>11, <2>1 DEF Narrowed, AnchorKind
    <2>4. ASSUME NEW q \in From(Requested), Hit(re.regexp, Requested, q) PROVE q \in From(Target)
      <3>1. CASE q = query.startpos
        BY <1>1, <1>4, <2>1, <3>1
      <3>2. CASE q # query.startpos
        <4>1. query.anchor = "UNANCHORED" /\ q > 0 /\ q \in 0 .. sub.e
          BY <1>1, <1>2, <1>4, <1>5, <3>2
        <4>2. ~re.anchorStart
          BY <1>1, <1>9, <2>2, <2>4, <4>1, WaysAre DEF Hit
        <4>3. anchor = "UNANCHORED"
          BY <1>6, <1>11, <4>1, <4>2 DEF Narrowed
        <4> QED
          BY <1>4, <2>1, <4>1, <4>3
      <3> QED
        BY <3>1, <3>2
    <2>5. \A q \in From(Requested) : q \in 0 .. sub.e /\ q \in Nat
      BY <1>1, <1>2, <1>5
    <2>6. \A q \in From(Requested) : q + Len(Prefix) = q /\ q - Len(Prefix) = q
      BY <2>1, <2>5
    <2>7. \A q \in From(Requested) :
            /\ Hit(re.regexp, Requested, q) <=> Hit(re.suffix, Target, q)
            /\ Chosen(re.regexp, Requested, q) = Chosen(re.suffix, Target, q)
      BY <1>8, <2>2, <2>5
    <2>8. \A q \in From(Requested) : Hit(re.regexp, Requested, q) =>
              /\ q + Len(Prefix) \in From(Target)
              /\ Hit(re.suffix, Target, q + Len(Prefix))
              /\ Chosen(re.regexp, Requested, q) = Chosen(re.suffix, Target, q + Len(Prefix))
      BY <2>4, <2>6, <2>7
    <2>9. \A q \in From(Target) : Hit(re.suffix, Target, q) =>
              /\ q - Len(Prefix) \in From(Requested)
              /\ Hit(re.regexp, Requested, q - Len(Prefix))
      BY <2>3, <2>6, <2>7
    <2> QED
      BY <1>5, <2>8, <2>9
  <1>12. CASE Prefix # << >>
    <2>1. /\ Len(Prefix) > 0 /\ query.startpos = 0 /\ sub.b = Len(Prefix) /\ Len(Prefix) <= sub.e
          /\ PrefixAt(re, query.text)
      BY <1>1, <1>12 DEF Asked, MayMatch, HasPrefix
    <2>2. anchor # "UNANCHORED" /\ From(Target) = {Len(Prefix)} /\ 0 \in From(Requested)
      BY <1>1, <1>4, <1>6, <1>12, <2>1 DEF Narrowed
    <2>3. WaysOf(re.regexp, query.text, sub.e, 0) = W(sub.e, Len(Prefix))
      BY <1>1, <2>1, WaysAre
    <2>4. \A q \in 1 .. sub.e : WaysOf(re.regexp, query.text, sub.e, q) = << >>
      BY <1>1, <2>1, WaysAre
    <2>5. ASSUME NEW q \in From(Requested), Hit(re.regexp, Requested, q) PROVE q = 0
      <3>1. q \in 0 .. sub.e
        BY <1>1, <1>5, <2>1
      <3>2. q \notin 1 .. sub.e
        BY <1>9, <2>4, <2>5 DEF Hit
      <3> QED
        BY <1>1, <3>1, <3>2
    <2>6. /\ Hit(re.regexp, Requested, 0) <=> Hit(re.suffix, Target, Len(Prefix))
          /\ Chosen(re.regexp, Requested, 0) = Chosen(re.suffix, Target, Len(Prefix))
      <3>1. Len(Prefix) \in 0 .. sub.e
        BY <1>1, <2>1
      <3> QED
        BY <1>8, <2>2, <2>3, <3>1
    <2>7. 0 + Len(Prefix) = Len(Prefix) /\ Len(Prefix) - Len(Prefix) = 0
      BY <1>1
    <2> QED
      BY <1>5, <2>2, <2>5, <2>6, <2>7
  <1> QED
    BY <1>11, <1>12

\* What is found for the suffix is what is wanted of the whole, but for the
\* prefix that belongs to the match.
LEMMA WantIs ==
  ASSUME Asked, SubIs
  PROVE  /\ Want = NoAnswer <=> Found = NoAnswer
         /\ Found # NoAnswer =>
              /\ DOMAIN Want = 0 .. 5 /\ Want[0] = Found[0] - Len(Prefix)
              /\ \A k \in 1 .. 5 : Want[k] = Found[k]
  <1>1. /\ From(Requested) \in SUBSET Nat /\ From(Requested) \in SUBSET Int
        /\ \A q \in From(Requested) : Hit(re.regexp, Requested, q) =>
             /\ q + Len(Prefix) \in From(Target)
             /\ Hit(re.suffix, Target, q + Len(Prefix))
             /\ Chosen(re.regexp, Requested, q) = Chosen(re.suffix, Target, q + Len(Prefix))
        /\ \A q \in From(Target) : Hit(re.suffix, Target, q) =>
             /\ q - Len(Prefix) \in From(Requested)
             /\ Hit(re.regexp, Requested, q - Len(Prefix))
    BY SameHits
  <1>2. Want = Answer(re.regexp, Requested)
    BY DEF Want, Asked, MayMatch
  <1>3. From(Target) \in SUBSET Nat /\ Len(Prefix) \in Nat
    BY SubTypes
  <1>4. (\A q \in From(Requested) : ~Hit(re.regexp, Requested, q))
        \/ \E q \in From(Requested) : Best(re.regexp, Requested, q)
    BY <1>1, BestOrNone
  <1>5. CASE \A q \in From(Requested) : ~Hit(re.regexp, Requested, q)
    <2>1. \A q \in From(Target) : ~Hit(re.suffix, Target, q)
      BY <1>1, <1>5
    <2>2. Found = NoAnswer
      BY <2>1, NoHit DEF Found
    <2>3. Want = NoAnswer
      BY <1>2, <1>5, NoHit
    <2> QED
      BY <2>2, <2>3
  <1>6. ASSUME NEW q \in From(Requested), Best(re.regexp, Requested, q)
        PROVE  /\ Want # NoAnswer /\ Found # NoAnswer
               /\ DOMAIN Want = 0 .. 5 /\ Want[0] = Found[0] - Len(Prefix)
               /\ \A k \in 1 .. 5 : Want[k] = Found[k]
    <2> DEFINE t == q + Len(Prefix)
    <2>1. Hit(re.regexp, Requested, q) /\ \A k \in From(Requested) : k < q => ~Hit(re.regexp, Requested, k)
      BY <1>6 DEF Best
    <2>2. /\ t \in From(Target) /\ Hit(re.suffix, Target, t)
          /\ Chosen(re.regexp, Requested, q) = Chosen(re.suffix, Target, t)
      BY <1>1, <2>1
    <2>3. ASSUME NEW k \in From(Target), k < t, Hit(re.suffix, Target, k) PROVE FALSE
      <3>1. k - Len(Prefix) \in From(Requested) /\ Hit(re.regexp, Requested, k - Len(Prefix))
        BY <1>1, <2>3
      <3>2. k - Len(Prefix) < q
        BY <1>1, <1>3, <2>3
      <3> QED
        BY <2>1, <3>1, <3>2
    <2>4. q \in Nat /\ t - Len(Prefix) = q
      BY <1>1, <1>3
    <2> HIDE DEF t
    <2>5. Best(re.suffix, Target, t)
      BY <2>2, <2>3 DEF Best
    <2>6. /\ Found # NoAnswer
          /\ Found[0] = t /\ Found[1] = Chosen(re.suffix, Target, t).p
          /\ \A k \in 2 .. 5 : Found[k] = Chosen(re.suffix, Target, t).caps[k]
      BY <2>5, FoundIs
    <2>7. Chosen(re.regexp, Requested, q).caps \in AnyCaps
      BY <2>2, ChosenIs
    <2>8. /\ Want # NoAnswer /\ DOMAIN Want = 0 .. 5
          /\ Want[0] = q /\ Want[1] = Chosen(re.regexp, Requested, q).p
          /\ \A k \in 2 .. 5 : Want[k] = Chosen(re.regexp, Requested, q).caps[k]
      BY <1>1, <1>2, <2>1, <2>7, FirstHit
    <2>9. \A k \in 1 .. 5 : k = 1 \/ k \in 2 .. 5
      OBVIOUS
    <2> QED
      BY <2>2, <2>4, <2>6, <2>8, <2>9
  <1> QED
    BY <1>4, <1>5, <1>6

\* A call that Match declines has no match to find.
LEMMA DeclinedRightly ==
  ASSUME re \in RE2s, query \in RE2Calls, ~MayMatch
  PROVE  Want = NoAnswer
  <1>1. /\ Prefix \in Seq(Byte) /\ Len(Prefix) \in Nat
        /\ re.anchorStart \in BOOLEAN /\ re.anchorEnd \in BOOLEAN
        /\ query.startpos \in Nat /\ query.endpos \in Nat /\ Len(query.text) \in Nat
    BY Types DEF Prefix
  <1> SUFFICES ASSUME GoodPositions PROVE Answer(re.regexp, Requested) = NoAnswer
    BY DEF Want
  <1>2. query.startpos <= query.endpos /\ query.endpos \in 0 .. Len(query.text)
    BY <1>1 DEF GoodPositions, size
  <1>3. From(Requested) \subseteq query.startpos .. query.endpos
    BY <1>1, <1>2 DEF From, Requested
  <1>4. ASSUME NEW q \in From(Requested)
        PROVE  WaysOf(re.regexp, query.text, query.endpos, q) = << >>
    <2> DEFINE e == query.endpos
    <2>1. q \in 0 .. e /\ e \in 0 .. Len(query.text) /\ query.startpos <= q
      BY <1>1, <1>2, <1>3
    <2> HIDE DEF e
    <2>2. WaysOf(re.regexp, query.text, e, q) =
            IF Len(Prefix) = 0 THEN W(e, q)
            ELSE IF q = 0 /\ Len(Prefix) <= e /\ PrefixAt(re, query.text) THEN W(e, Len(Prefix))
            ELSE << >>
      BY <2>1, WaysLaws
    <2>3. CASE re.anchorStart /\ query.startpos # 0
      <3>1. q > 0
        BY <1>1, <2>1, <2>3
      <3>2. W(e, q) = << >>
        BY <2>1, <2>3, <3>1, WaysLaws
      <3> QED
        BY <2>2, <3>1, <3>2 DEF e
    <2>4. CASE re.anchorEnd /\ query.endpos # size
      <3>1. ASSUME NEW k \in 0 .. e PROVE W(e, k) = << >>
        <4>1. W(e, k) \in Seq(Place3(k, e)) /\ \A n \in DOMAIN W(e, k) : W(e, k)[n].p = Len(query.text)
          BY <2>1, <2>4, WaysLaws
        <4>2. \A n \in DOMAIN W(e, k) : W(e, k)[n].p \in k .. e
          <5>1. \A n \in DOMAIN W(e, k) : W(e, k)[n] \in Place3(k, e)
            BY <4>1
          <5> QED
            BY <5>1 DEF Place3
        <4>3. e < Len(query.text)
          BY <1>1, <2>1, <2>4 DEF e, size
        <4>4. DOMAIN W(e, k) = {}
          BY <2>1, <4>1, <4>2, <4>3
        <4> QED
          BY <4>1, <4>4
      <3>2. CASE Len(Prefix) \in 0 .. e
        BY <2>1, <2>2, <3>1, <3>2 DEF e
      <3>3. CASE Len(Prefix) \notin 0 .. e
        <4>1. Len(Prefix) # 0 /\ ~(Len(Prefix) <= e)
          BY <1>1, <2>1, <3>3
        <4> QED
          BY <2>2, <4>1 DEF e
      <3> QED
        BY <3>2, <3>3
    <2>5. CASE ~HasPrefix
      <3>1. Len(Prefix) # 0
        <4>1. Prefix # << >>
          BY <2>5 DEF HasPrefix
        <4> HIDE DEF Prefix
        <4> QED
          BY <1>1, <4>1
      <3>2. ~(q = 0 /\ Len(Prefix) <= e /\ PrefixAt(re, query.text))
        BY <1>1, <2>1, <2>5 DEF HasPrefix, e
      <3> QED
        BY <2>2, <3>1, <3>2 DEF e
    <2> QED
      BY <2>3, <2>4, <2>5 DEF MayMatch, AnchorsMet
  <1>5. \A q \in From(Requested) : ~Hit(re.regexp, Requested, q)
    BY <1>4 DEF Hit, Ways, Requested, Wanted
  <1> QED
    BY <1>5, NoHit

-----------------------------------------------------------------------------
(***************************************************************************)
(* The engines say where the match is, and what is in it.                  *)
(***************************************************************************)
LEMMA SomethingEnds ==
  ASSUME NEW b \in Nat, NEW e \in Nat, NEW ways \in Seq(Place3(b, e)), NEW r
  PROVE  FirstThatEnds(ways, r) # NoAnswer <=> \E n \in DOMAIN ways : ways[n].p = r
  <1> DEFINE there == {n \in DOMAIN ways : ways[n].p = r}
  <1>1. DOMAIN ways = 1 .. Len(ways) /\ Len(ways) \in Nat
    OBVIOUS
  <1>2. \A n \in DOMAIN ways : ways[n].caps \in AnyCaps
    <2>1. \A n \in DOMAIN ways : ways[n] \in Place3(b, e)
      OBVIOUS
    <2> QED
      BY <2>1 DEF Place3
  <1>3. there = {} => FirstThatEnds(ways, r) = NoAnswer
    BY DEF FirstThatEnds
  <1>4. ASSUME there # {} PROVE FirstThatEnds(ways, r) # NoAnswer
    <2>1. there \in SUBSET Int /\ \A n \in there : 1 <= n
      BY <1>1
    <2>2. Least(there) \in there
      <3> HIDE DEF there
      <3> QED
        BY <1>4, <2>1, LeastOf
    <2>3. FirstThatEnds(ways, r) \in AnyCaps
      BY <1>2, <1>4, <2>2 DEF FirstThatEnds
    <2>4. 0 \in DOMAIN FirstThatEnds(ways, r) /\ DOMAIN NoAnswer = {}
      BY <2>3 DEF AnyCaps, NCaps, NoAnswer
    <2> QED
      BY <2>4
  <1> QED
    BY <1>3, <1>4

\* Whether a way that begins at q ends at r does not depend on the text behind r.
LEMMA EndsAlike ==
  ASSUME Asked, NEW e \in 0 .. Len(query.text), NEW q \in 0 .. e, NEW r \in q .. e
  PROVE  (\E n \in DOMAIN W(e, q) : W(e, q)[n].p = r)
         <=> \E n \in DOMAIN W(r, q) : W(r, q)[n].p = r
  <1>1. Len(query.text) \in Nat
    BY Types DEF Asked
  <1>2. r \in 0 .. Len(query.text) /\ q \in 0 .. r /\ q \in Nat /\ e \in Nat /\ r \in Nat
    BY <1>1
  <1>3. W(e, q) \in Seq(Place3(q, e)) /\ W(r, q) \in Seq(Place3(q, r))
        /\ FirstThatEnds(W(e, q), r) = FirstThatEnds(W(r, q), r)
    BY <1>2, WaysAre
  <1> QED
    BY <1>2, <1>3, SomethingEnds

LEMMA Unpacked ==
  ASSUME Asked, SubIs
  PROVE  /\ sub.b \in Nat /\ sub.e \in Nat /\ sub.e <= Len(query.text) /\ Len(query.text) \in Nat
         /\ anchor = "UNANCHORED" => /\ From(Target) = sub.b .. sub.e
                                     /\ Target.kind \in {"first", "longest"}
         /\ re.anchorEnd => sub.e = Len(query.text)
         /\ Found # NoAnswer =>
              \E q \in From(Target) :
                /\ Best(re.suffix, Target, q) /\ q = Found[0]
                /\ Found[1] = Chosen(re.suffix, Target, q).p
                /\ Found[0] \in sub.b .. sub.e /\ Found[1] \in Found[0] .. sub.e
  <1>1. /\ sub.b \in Nat /\ sub.e \in 0 .. Len(query.text) /\ sub.e = query.endpos
        /\ Target.b = sub.b /\ Target.e = sub.e /\ Target.anchored = (anchor # "UNANCHORED")
        /\ From(Target) \subseteq sub.b .. sub.e
    BY SubTypes
  <1>2. Len(query.text) \in Nat
    BY Types DEF Asked
  <1>3. anchor = "UNANCHORED" => Target.kind = KindAsked /\ KindAsked \in {"first", "longest"}
    BY DEF Target, SubSearch, KindAsked
  <1>4. anchor = "UNANCHORED" => From(Target) = sub.b .. sub.e
    BY <1>1, <1>3 DEF From
  <1>5. re.anchorEnd => sub.e = Len(query.text)
    BY <1>1 DEF Asked, MayMatch, AnchorsMet, size
  <1>6. ASSUME Found # NoAnswer
        PROVE  \E q \in From(Target) :
                /\ Best(re.suffix, Target, q) /\ q = Found[0]
                /\ Found[1] = Chosen(re.suffix, Target, q).p
                /\ Found[0] \in sub.b .. sub.e /\ Found[1] \in Found[0] .. sub.e
    <2>1. PICK q \in From(Target) : Best(re.suffix, Target, q)
      BY <1>6, FoundOrNone
    <2>2. Hit(re.suffix, Target, q)
      BY <2>1 DEF Best
    <2>3. Found[0] = q /\ Found[1] = Chosen(re.suffix, Target, q).p
      BY <2>1, FoundIs
    <2>4. Chosen(re.suffix, Target, q).p \in q .. sub.e
      BY <2>2, ChosenIs
    <2> QED
      BY <1>1, <2>1, <2>3, <2>4
  <1> QED
    BY <1>1, <1>2, <1>3, <1>4, <1>5, <1>6

LEMMA EndsAre ==
  ASSUME Asked, SubIs, NEW anchored, NEW kind, SubSearch(sub.b, sub.e, anchored, kind) = Target
  PROVE  Ends(anchored, kind) = IF Found = NoAnswer THEN {} ELSE {Found[1]}
  BY DEF Ends, Found

\* From a place where a match begins there is a way to its end.
LEMMA BeginThere ==
  ASSUME Asked, SubIs, Found # NoAnswer
  PROVE  /\ Found[0] \in sub.b .. Found[1] /\ Found[1] \in 0 .. Len(query.text)
         /\ \E n \in DOMAIN W(Found[1], Found[0]) : W(Found[1], Found[0])[n].p = Found[1]
  <1>1. PICK q \in From(Target) :
                /\ Best(re.suffix, Target, q) /\ q = Found[0]
                /\ Found[1] = Chosen(re.suffix, Target, q).p
                /\ Found[0] \in sub.b .. sub.e /\ Found[1] \in Found[0] .. sub.e
    BY Unpacked
  <1>2. sub.b \in Nat /\ sub.e \in Nat /\ sub.e <= Len(query.text) /\ Len(query.text) \in Nat
    BY Unpacked
  <1>3. Hit(re.suffix, Target, q)
    BY <1>1 DEF Best
  <1>4. \E n \in DOMAIN W(sub.e, q) : W(sub.e, q)[n].p = Found[1]
    BY <1>1, <1>3, ChosenIs
  <1>5. sub.e \in 0 .. Len(query.text) /\ q \in 0 .. sub.e /\ Found[1] \in q .. sub.e
    BY <1>1, <1>2
  <1>6. \E n \in DOMAIN W(Found[1], q) : W(Found[1], q)[n].p = Found[1]
    BY <1>4, <1>5, EndsAlike
  <1> QED
    BY <1>1, <1>2, <1>6

\* The search backward from the end of the match finds its begin.
LEMMA BeginsAre ==
  ASSUME Asked, SubIs, anchor = "UNANCHORED", Found # NoAnswer
  PROVE  Begins(Found[1]) = {Found[0]}
  <1>1. PICK q \in From(Target) :
                /\ Best(re.suffix, Target, q) /\ q = Found[0]
                /\ Found[1] = Chosen(re.suffix, Target, q).p
                /\ Found[0] \in sub.b .. sub.e /\ Found[1] \in Found[0] .. sub.e
    BY Unpacked
  <1>2. /\ sub.b \in Nat /\ sub.e \in Nat /\ sub.e <= Len(query.text) /\ Len(query.text) \in Nat
        /\ From(Target) = sub.b .. sub.e /\ Target.kind \in {"first", "longest"}
    BY Unpacked
  <1> DEFINE e == Found[1]
             all == {k \in sub.b .. e : \E n \in DOMAIN W(e, k) : W(e, k)[n].p = e}
  <1>3. q \in all
    BY <1>1, BeginThere
  <1>4. ASSUME NEW k \in all, k < q PROVE FALSE
    <2>1. k \in sub.b .. e /\ \E n \in DOMAIN W(e, k) : W(e, k)[n].p = e
      OBVIOUS
    <2>2. sub.e \in 0 .. Len(query.text) /\ k \in 0 .. sub.e /\ e \in k .. sub.e /\ k \in Nat
      BY <1>1, <1>2, <2>1
    <2>0. sub.e \in Nat /\ k \in sub.b .. sub.e
      BY <1>2, <2>1, <2>2
    <2> HIDE DEF e, all
    <2>3. \E n \in DOMAIN W(sub.e, k) : W(sub.e, k)[n].p = e
      BY <2>1, <2>2, EndsAlike
    <2>4. W(sub.e, k) \in Seq(Place3(k, sub.e)) /\ W(sub.e, k) # << >>
      BY <2>2, <2>3, WaysAre
    <2>5. Wanted(W(sub.e, k), Target) # {}
      BY <1>2, <2>2, <2>4, SomeWanted
    <2>6. k \in From(Target) /\ Hit(re.suffix, Target, k)
      <3>1. k \in From(Target)
        BY <1>2, <2>0
      <3>2. Ways(re.suffix, Target, k) = W(sub.e, k)
        BY SubTypes
      <3> QED
        BY <2>5, <3>1, <3>2 DEF Hit
    <2> QED
      BY <1>1, <1>4, <2>6 DEF Best
  <1>5. all \in SUBSET Int /\ \A k \in all : q <= k
    <2>1. all \in SUBSET Int /\ q \in Int
      BY <1>1, <1>2
    <2> HIDE DEF all
    <2> QED
      BY <1>4, <2>1
  <1>6. Least(all) = q
    <2> HIDE DEF all
    <2> QED
      BY <1>3, <1>5, LeastIs
  <1>7. Begins(e) = IF all = {} THEN {} ELSE {Least(all)}
    BY DEF Begins, W
  <1> QED
    BY <1>1, <1>3, <1>6, <1>7

\* When every match ends with the text, one search backward finds it.
LEMMA BeginsAtEnd ==
  ASSUME Asked, SubIs, anchor = "UNANCHORED", re.anchorEnd
  PROVE  /\ Begins(sub.e) = {} <=> Found = NoAnswer
         /\ Found # NoAnswer => Found[1] = sub.e
  <1>1. /\ sub.b \in Nat /\ sub.e \in Nat /\ sub.e = Len(query.text) /\ Len(query.text) \in Nat
        /\ From(Target) = sub.b .. sub.e /\ Target.kind \in {"first", "longest"}
    BY Unpacked
  <1>2. sub.e \in 0 .. Len(query.text) /\ \A q \in sub.b .. sub.e : q \in 0 .. sub.e /\ q \in Nat
    BY <1>1
  <1>3. ASSUME Found # NoAnswer PROVE Found[1] = sub.e
    <2>1. PICK q \in From(Target) :
                /\ Best(re.suffix, Target, q) /\ q = Found[0]
                /\ Found[1] = Chosen(re.suffix, Target, q).p
      BY <1>3, Unpacked
    <2>2. Hit(re.suffix, Target, q)
      BY <2>1 DEF Best
    <2>3. \E n \in DOMAIN W(sub.e, q) : W(sub.e, q)[n].p = Found[1]
      BY <2>1, <2>2, ChosenIs
    <2> QED
      BY <1>1, <1>2, <2>3, WaysAre
  <1>4. ASSUME Found = NoAnswer PROVE Begins(sub.e) = {}
    <2>1. ASSUME NEW q \in sub.b .. sub.e, NEW n \in DOMAIN W(sub.e, q) PROVE FALSE
      <3>1. W(sub.e, q) \in Seq(Place3(q, sub.e)) /\ W(sub.e, q) # << >>
        BY <1>2, WaysAre
      <3>2. Wanted(W(sub.e, q), Target) # {}
        BY <1>1, <1>2, <3>1, SomeWanted
      <3>3. Hit(re.suffix, Target, q)
        BY <3>2, SubTypes DEF Hit
      <3>4. \A k \in From(Target) : ~Hit(re.suffix, Target, k)
        <4>1. ASSUME NEW k \in From(Target), Best(re.suffix, Target, k) PROVE FALSE
          BY <1>4, <4>1, FoundIs
        <4> QED
          BY <4>1, FoundOrNone
      <3> QED
        BY <1>1, <3>3, <3>4
    <2> DEFINE all == {q \in sub.b .. sub.e : \E n \in DOMAIN W(sub.e, q) : W(sub.e, q)[n].p = sub.e}
    <2>2. all = {}
      BY <2>1
    <2>3. Begins(sub.e) = IF all = {} THEN {} ELSE {Least(all)}
      BY DEF Begins, W
    <2> QED
      BY <2>2, <2>3
  <1>5. ASSUME Found # NoAnswer PROVE Begins(sub.e) # {}
    BY <1>3, <1>5, BeginsAre
  <1> QED
    BY <1>3, <1>4, <1>5

\* Asked for a full match of the place found, an engine finds the same.
LEMMA FoundAgain ==
  ASSUME Asked, SubIs, Found # NoAnswer
  PROVE  Answer(re.suffix, SubSearch(Found[0], Found[1], TRUE, "full")) = Found
  <1>1. PICK q \in From(Target) :
                /\ Best(re.suffix, Target, q) /\ q = Found[0]
                /\ Found[1] = Chosen(re.suffix, Target, q).p
                /\ Found[0] \in sub.b .. sub.e /\ Found[1] \in Found[0] .. sub.e
    BY Unpacked
  <1>2. sub.b \in Nat /\ sub.e \in Nat /\ sub.e <= Len(query.text) /\ Len(query.text) \in Nat
    BY Unpacked
  <1>3. Hit(re.suffix, Target, q)
    BY <1>1 DEF Best
  <1> DEFINE e == Found[1]
             c == SubSearch(Found[0], Found[1], TRUE, "full")
             ways == W(e, q)
             there == {n \in DOMAIN ways : ways[n].p = e}
  <1>4. /\ q \in Nat /\ e \in Nat /\ q \in 0 .. sub.e /\ e \in q .. sub.e
        /\ e \in 0 .. Len(query.text) /\ q \in 0 .. e /\ sub.e \in 0 .. Len(query.text)
    BY <1>1, <1>2
  <1>5. /\ FirstThatEnds(W(sub.e, q), e) = Chosen(re.suffix, Target, q).caps
        /\ Chosen(re.suffix, Target, q).caps \in AnyCaps
    BY <1>1, <1>3, ChosenIs
  <1>6. FirstThatEnds(ways, e) = Chosen(re.suffix, Target, q).caps /\ ways \in Seq(Place3(q, e))
    BY <1>4, <1>5, WaysAre
  <1>7. /\ From(c) = {q} /\ From(c) \in SUBSET Int
        /\ Ways(re.suffix, c, q) = ways /\ Wanted(ways, c) = there
    <2>1. c.text = query.text /\ c.b = q /\ c.e = e /\ c.anchored = TRUE /\ c.kind = "full"
      BY <1>1 DEF SubSearch
    <2>2. \A n \in DOMAIN ways : c.kind = "longest" => FALSE
      BY <2>1
    <2> HIDE DEF c
    <2> QED
      BY <1>4, <2>1, <2>2 DEF From, Ways, W, Wanted
  <1>8. there # {}
    BY <1>1, BeginThere
  <1>9. Hit(re.suffix, c, q) /\ Chosen(re.suffix, c, q) = ways[Least(there)]
    BY <1>7, <1>8 DEF Hit, Chosen
  <1>10. ways[Least(there)].caps = FirstThatEnds(ways, e)
    BY <1>8 DEF FirstThatEnds
  <1>11. ways[Least(there)].p = e
    <2>1. there \in SUBSET Int /\ \A n \in there : 1 <= n
      <3>1. DOMAIN ways = 1 .. Len(ways) /\ Len(ways) \in Nat
        BY <1>6
      <3> QED
        BY <3>1
    <2>2. Least(there) \in there
      <3> HIDE DEF there
      <3> QED
        BY <1>8, <2>1, LeastOf
    <2> QED
      BY <2>2
  <1>12. /\ Chosen(re.suffix, c, q).caps = Chosen(re.suffix, Target, q).caps
         /\ Chosen(re.suffix, c, q).p = e
    BY <1>6, <1>9, <1>10, <1>11
  <1> HIDE DEF c
  <1>13. Answer(re.suffix, c) = [Chosen(re.suffix, c, q).caps EXCEPT ![0] = q, ![1] = Chosen(re.suffix, c, q).p]
    <2>1. q \in From(c) /\ \A k \in From(c) : k < q => ~Hit(re.suffix, c, k)
      BY <1>4, <1>7
    <2>2. Chosen(re.suffix, c, q).caps \in AnyCaps
      BY <1>5, <1>12
    <2> QED
      BY <1>7, <1>9, <2>1, <2>2, FirstHit
  <1>14. Found = [Chosen(re.suffix, Target, q).caps EXCEPT ![0] = q, ![1] = Chosen(re.suffix, Target, q).p]
    BY <1>1, FoundIs
  <1>15. Answer(re.suffix, c) = Found
    BY <1>1, <1>12, <1>13, <1>14
  <1> QED
    BY <1>15 DEF c

\* What Match fills in from a match found.
LEMMA FilledRightly ==
  ASSUME Asked, SubIs, Found # NoAnswer
  PROVE  \A k \in DOMAIN NoSubmatch :
           Filled(Found)[k] = IF k < 2 * query.nsubmatch THEN Want[k] ELSE -1
  <1>1. /\ Want[0] = Found[0] - Len(Prefix)
        /\ \A k \in 1 .. 5 : Want[k] = Found[k]
    BY WantIs
  <1>2. \A k \in 2 * (1 + re.captures) .. 5 : Found[k] = -1
    <2>1. PICK q \in From(Target) : Best(re.suffix, Target, q)
      BY FoundOrNone
    <2>2. Hit(re.suffix, Target, q)
      BY <2>1 DEF Best
    <2>3. \A k \in 2 * (1 + re.captures) .. 5 : Chosen(re.suffix, Target, q).caps[k] = -1
      BY <2>2, ChosenIs
    <2>4. \A k \in 2 .. 5 : Found[k] = Chosen(re.suffix, Target, q).caps[k]
      BY <2>1, FoundIs
    <2>5. re.captures \in Nat
      BY Types DEF Asked
    <2> QED
      BY <2>3, <2>4, <2>5
  <1>3. re.captures \in Nat /\ query.nsubmatch \in Nat
    BY Types DEF Asked
  <1>4. DOMAIN NoSubmatch = 0 .. 5
    BY DEF NoSubmatch, NCaps
  <1>5. ncap = IF query.nsubmatch <= 1 + re.captures THEN query.nsubmatch ELSE 1 + re.captures
    BY DEF ncap
  <1>6. ASSUME NEW k \in 0 .. 5
        PROVE  Filled(Found)[k] = IF k < 2 * query.nsubmatch THEN Want[k] ELSE -1
    <2>1. Filled(Found)[k] = IF k >= 2 * ncap THEN -1
                             ELSE IF k = 0 THEN Found[0] - Len(Prefix) ELSE Found[k]
      BY <1>4 DEF Filled
    <2>2. CASE k < 2 * ncap
      <3>1. k < 2 * query.nsubmatch /\ ~(k >= 2 * ncap)
        BY <1>3, <1>5, <2>2
      <3>2. k = 0 \/ k \in 1 .. 5
        OBVIOUS
      <3> QED
        BY <1>1, <2>1, <3>1, <3>2
    <2>3. CASE ~(k < 2 * ncap)
      <3>1. k >= 2 * ncap
        BY <1>3, <1>5, <2>3
      <3>2. CASE k < 2 * query.nsubmatch
        <4>1. k \in 2 * (1 + re.captures) .. 5 /\ k \in 1 .. 5
          BY <1>3, <1>5, <3>1, <3>2
        <4> QED
          BY <1>1, <1>2, <2>1, <3>1, <3>2, <4>1
      <3>3. CASE ~(k < 2 * query.nsubmatch)
        BY <2>1, <3>1, <3>3
      <3> QED
        BY <3>2, <3>3
    <2> QED
      BY <2>2, <2>3
  <1> QED
    BY <1>4, <1>6

\* The same when only the place is asked for.
LEMMA PlaceFilledRightly ==
  ASSUME Asked, SubIs, Found # NoAnswer, ncap <= 1
  PROVE  (IF ncap = 0 THEN NoSubmatch
          ELSE Filled([NoSubmatch EXCEPT ![0] = Found[0], ![1] = Found[1]])) = Filled(Found)
  <1>1. re.captures \in Nat /\ query.nsubmatch \in Nat
    BY Types DEF Asked
  <1>2. ncap \in Nat /\ (ncap = 0 \/ ncap = 1)
    BY <1>1 DEF ncap
  <1>3. DOMAIN NoSubmatch = 0 .. 5 /\ \A k \in 0 .. 5 : NoSubmatch[k] = -1
    BY DEF NoSubmatch, NCaps
  <1>4. CASE ncap = 0
    <2>1. \A k \in DOMAIN NoSubmatch : k >= 2 * ncap
      BY <1>3, <1>4
    <2>2. Filled(Found) = [k \in DOMAIN NoSubmatch |-> -1]
      BY <2>1 DEF Filled
    <2>3. NoSubmatch = [k \in DOMAIN NoSubmatch |-> -1]
      BY DEF NoSubmatch
    <2> QED
      BY <1>4, <2>2, <2>3
  <1>5. CASE ncap = 1
    <2> DEFINE regs == [NoSubmatch EXCEPT ![0] = Found[0], ![1] = Found[1]]
    <2>1. regs[0] = Found[0] /\ regs[1] = Found[1]
      BY <1>3
    <2>2. \A k \in DOMAIN NoSubmatch : k >= 2 * ncap \/ k = 0 \/ k = 1
      BY <1>3, <1>5
    <2> HIDE DEF regs
    <2>3. \A k \in DOMAIN NoSubmatch :
            (IF k >= 2 * ncap THEN -1 ELSE IF k = 0 THEN regs[0] - Len(Prefix) ELSE regs[k])
            = (IF k >= 2 * ncap THEN -1 ELSE IF k = 0 THEN Found[0] - Len(Prefix) ELSE Found[k])
      BY <2>1, <2>2
    <2>4. Filled(regs) = Filled(Found)
      BY <2>3 DEF Filled
    <2> QED
      BY <1>5, <2>4 DEF regs
  <1> QED
    BY <1>2, <1>4, <1>5

-----------------------------------------------------------------------------
(***************************************************************************)
(* Match keeps track of the match.                                         *)
(***************************************************************************)
\* Before the end: what Match knows in each stage.
Located == Found # NoAnswer /\ place = Place(Found[0], Found[1])

InMatch == place = NoPlace /\ ~skipped /\ anchor = query.anchor
InLocate == Asked /\ SubIs /\ place = NoPlace /\ ~skipped
InReverse == /\ Asked /\ SubIs /\ anchor = "UNANCHORED" /\ ~skipped
             /\ Found # NoAnswer /\ place.e = Found[1]
InSubmatch == Asked /\ SubIs /\ (~skipped => Located)

\* And at the end: Match has answered right.
Answered ==
  /\ ret = (Want # NoAnswer)
  /\ ret => \A k \in DOMAIN submatch :
              submatch[k] = IF k < 2 * query.nsubmatch THEN Want[k] ELSE -1
  /\ place # NoPlace /\ ~skipped => ret

MInv ==
  /\ re \in RE2s /\ query \in RE2Calls /\ skipped \in BOOLEAN
  /\ stage \in {"match", "locate", "reverse", "submatch", "done"}
  /\ stage # "done" => submatch = NoSubmatch
  /\ stage = "match" => InMatch
  /\ stage = "locate" => InLocate
  /\ stage = "reverse" => InReverse
  /\ stage = "submatch" => InSubmatch
  /\ stage = "done" => Answered

\* The match that is looked for stays the same.
LEMMA Kept ==
  ASSUME UNCHANGED <<re, query, sub, anchor>>
  PROVE  /\ Found' = Found /\ Want' = Want /\ Asked' = Asked /\ SubIs' = SubIs
  <1>1. Target' = Target /\ Requested' = Requested
    BY DEF Target, SubSearch, KindAsked, AnchoredKind, Requested
  <1>2. GoodPositions' = GoodPositions /\ MayMatch' = MayMatch
    BY DEF GoodPositions, size, MayMatch, AnchorsMet, HasPrefix, Prefix
  <1>3. Narrowed' = Narrowed
    BY DEF Narrowed, Prefix
  <1>4. Found' = Found /\ Want' = Want
    BY <1>1, <1>2 DEF Found, Want
  <1>5. Asked' = Asked
    BY <1>2 DEF Asked
  <1>6. SubIs' = SubIs
    BY <1>3 DEF SubIs, Prefix
  <1> QED
    BY <1>4, <1>5, <1>6

\* Without submatches asked for, none is filled in.
LEMMA NothingAsked ==
  ASSUME re \in RE2s, query \in RE2Calls, ~PlaceWanted
  PROVE  \A k \in DOMAIN NoSubmatch :
           NoSubmatch[k] = IF k < 2 * query.nsubmatch THEN Want[k] ELSE -1
  <1>1. query.nsubmatch \in Nat /\ ~(query.nsubmatch > 0)
    BY Types DEF PlaceWanted
  <1>2. \A k \in DOMAIN NoSubmatch : k \in 0 .. 5 /\ NoSubmatch[k] = -1
    BY DEF NoSubmatch, NCaps
  <1> QED
    BY <1>1, <1>2

LEMMA MInvHolds == MSpec => []MInv
  <1>1. MInit => MInv
    BY DEF MInit, MInv, InMatch
  <1>2. ASSUME MInv, [MNext]_mvars PROVE MInv'
    <2> USE <1>2
    <2>0. re \in RE2s /\ query \in RE2Calls /\ skipped \in BOOLEAN
      BY DEF MInv
    <2>1. CASE Decline
      <3>1. /\ stage' = "done" /\ ret' = FALSE
            /\ UNCHANGED <<re, query, sub, anchor, place, skipped, submatch>>
        BY <2>1 DEF Decline, Return
      <3>2. place = NoPlace /\ Want = NoAnswer
        BY <2>0, <2>1, DeclinedRightly DEF Decline, MInv, InMatch
      <3>3. Want' = NoAnswer /\ place' = NoPlace
        BY <3>1, <3>2, Kept
      <3> QED
        BY <2>0, <3>1, <3>3 DEF MInv, Answered
    <2>2. CASE Enter
      <3>1. /\ sub' = Place(query.startpos + Len(Prefix), query.endpos)
            /\ anchor' = Narrowed /\ stage' = "locate" /\ MayMatch
            /\ UNCHANGED <<re, query, place, skipped, submatch>>
        BY <2>2 DEF Enter
      <3>2. place = NoPlace /\ ~skipped /\ submatch = NoSubmatch
        BY <2>2 DEF Enter, MInv, InMatch
      <3>3. Narrowed' = Narrowed /\ Prefix' = Prefix /\ MayMatch'
        BY <3>1 DEF Narrowed, Prefix, MayMatch, GoodPositions, AnchorsMet, HasPrefix, size
      <3>4. Asked' /\ SubIs'
        BY <2>0, <3>1, <3>3 DEF Asked, SubIs
      <3> QED
        BY <2>0, <3>1, <3>2, <3>4 DEF MInv, InLocate
    <2>3. CASE BeginFromEnd
      <3>1. /\ UNCHANGED <<re, query, sub, anchor, submatch>> /\ submatch = NoSubmatch
            /\ Asked /\ SubIs /\ place = NoPlace /\ ~skipped
            /\ anchor = "UNANCHORED" /\ re.anchorEnd
        BY <2>3 DEF BeginFromEnd, Unanchored, Locating, MInv, InLocate
      <3>2. Found' = Found /\ Want' = Want /\ Asked' /\ SubIs'
        BY <3>1, Kept
      <3>3. /\ Begins(sub.e) = {} <=> Found = NoAnswer
            /\ Found # NoAnswer => Found[1] = sub.e
        BY <3>1, BeginsAtEnd
      <3>4. Want = NoAnswer <=> Found = NoAnswer
        BY <3>1, WantIs
      <3>5. CASE FallBack
        BY <2>0, <3>1, <3>2, <3>5 DEF FallBack, MInv, InSubmatch
      <3>6. CASE Begins(sub.e) = {} /\ Miss
        BY <2>0, <3>1, <3>2, <3>3, <3>4, <3>6 DEF Miss, Return, MInv, Answered
      <3>7. ASSUME NEW q \in Begins(sub.e),
                   IF PlaceWanted THEN /\ place' = Place(q, sub.e) /\ stage' = "submatch"
                                       /\ UNCHANGED <<skipped, ret>>
                   ELSE Return(TRUE) /\ UNCHANGED <<place, skipped>>
            PROVE  MInv'
        <4>1. Found # NoAnswer /\ Found[1] = sub.e
          BY <3>3
        <4>2. q = Found[0]
          BY <3>1, <4>1, BeginsAre
        <4>3. CASE PlaceWanted
          BY <2>0, <3>1, <3>2, <3>7, <4>1, <4>2, <4>3 DEF MInv, InSubmatch, Located
        <4>4. CASE ~PlaceWanted
          <5>1. stage' = "done" /\ ret' = TRUE /\ UNCHANGED <<place, skipped>>
            BY <3>7, <4>4 DEF Return
          <5>2. \A k \in DOMAIN submatch :
                  submatch[k] = IF k < 2 * query.nsubmatch THEN Want[k] ELSE -1
            BY <2>0, <3>1, <4>4, NothingAsked
          <5> QED
            BY <2>0, <3>1, <3>2, <3>4, <4>1, <5>1, <5>2 DEF MInv, Answered
        <4> QED
          BY <4>3, <4>4
      <3> QED
        BY <2>3, <3>5, <3>6, <3>7 DEF BeginFromEnd
    <2>4. CASE EndForward
      <3>1. /\ UNCHANGED <<re, query, sub, anchor, submatch>> /\ submatch = NoSubmatch
            /\ Asked /\ SubIs /\ place = NoPlace /\ ~skipped
            /\ anchor = "UNANCHORED"
        BY <2>4 DEF EndForward, Unanchored, Locating, MInv, InLocate
      <3>2. Found' = Found /\ Want' = Want /\ Asked' /\ SubIs'
        BY <3>1, Kept
      <3>3. Ends(FALSE, KindAsked) = IF Found = NoAnswer THEN {} ELSE {Found[1]}
        <4>1. SubSearch(sub.b, sub.e, FALSE, KindAsked) = Target
          BY <3>1 DEF Target
        <4> QED
          BY <3>1, <4>1, EndsAre
      <3>4. Want = NoAnswer <=> Found = NoAnswer
        BY <3>1, WantIs
      <3>5. CASE FallBack
        BY <2>0, <3>1, <3>2, <3>5 DEF FallBack, MInv, InSubmatch
      <3>6. CASE Ends(FALSE, KindAsked) = {} /\ Miss
        BY <2>0, <3>1, <3>2, <3>3, <3>4, <3>6 DEF Miss, Return, MInv, Answered
      <3>7. ASSUME NEW e \in Ends(FALSE, KindAsked),
                   IF PlaceWanted THEN /\ place' = Place(sub.b, e) /\ stage' = "reverse"
                                       /\ UNCHANGED <<skipped, ret>>
                   ELSE Return(TRUE) /\ UNCHANGED <<place, skipped>>
            PROVE  MInv'
        <4>1. Found # NoAnswer /\ Found[1] = e
          BY <3>3
        <4>2. CASE PlaceWanted
          <5>1. place'.e = Found[1]
            BY <3>7, <4>1, <4>2 DEF Place
          <5> QED
            BY <2>0, <3>1, <3>2, <3>7, <4>1, <4>2, <5>1 DEF MInv, InReverse
        <4>3. CASE ~PlaceWanted
          <5>1. stage' = "done" /\ ret' = TRUE /\ UNCHANGED <<place, skipped>>
            BY <3>7, <4>3 DEF Return
          <5>2. \A k \in DOMAIN submatch :
                  submatch[k] = IF k < 2 * query.nsubmatch THEN Want[k] ELSE -1
            BY <2>0, <3>1, <4>3, NothingAsked
          <5> QED
            BY <2>0, <3>1, <3>2, <3>4, <4>1, <5>1, <5>2 DEF MInv, Answered
        <4> QED
          BY <4>2, <4>3
      <3> QED
        BY <2>4, <3>5, <3>6, <3>7 DEF EndForward
    <2>5. CASE BeginBackward
      <3>1. /\ UNCHANGED <<re, query, sub, anchor, submatch>> /\ submatch = NoSubmatch
            /\ Asked /\ SubIs /\ ~skipped /\ anchor = "UNANCHORED"
            /\ Found # NoAnswer /\ place.e = Found[1]
        BY <2>5 DEF BeginBackward, Locating, MInv, InReverse
      <3>2. Found' = Found /\ Asked' /\ SubIs'
        BY <3>1, Kept
      <3>3. Begins(place.e) = {Found[0]}
        BY <3>1, BeginsAre
      <3>4. CASE FallBack
        BY <2>0, <3>1, <3>2, <3>4 DEF FallBack, MInv, InSubmatch
      <3>5. CASE \E q \in Begins(place.e) : /\ place' = Place(q, place.e) /\ stage' = "submatch"
                                            /\ UNCHANGED <<skipped, ret>>
        BY <2>0, <3>1, <3>2, <3>3, <3>5 DEF MInv, InSubmatch, Located
      <3> QED
        BY <2>5, <3>3, <3>4, <3>5 DEF BeginBackward
    <2>6. CASE Skip
      <3>1. /\ UNCHANGED <<re, query, sub, anchor, submatch>> /\ submatch = NoSubmatch
            /\ Asked /\ SubIs /\ FallBack
        BY <2>6 DEF Skip, Locating, MInv, InLocate
      <3>2. Asked' /\ SubIs'
        BY <3>1, Kept
      <3> QED
        BY <2>0, <3>1, <3>2 DEF FallBack, MInv, InSubmatch
    <2>7. CASE EndAnchored
      <3>1. /\ UNCHANGED <<re, query, sub, anchor, submatch>> /\ submatch = NoSubmatch
            /\ Asked /\ SubIs /\ place = NoPlace /\ ~skipped
            /\ anchor # "UNANCHORED"
        BY <2>7 DEF EndAnchored, Locating, MInv, InLocate
      <3>2. Found' = Found /\ Want' = Want /\ Asked' /\ SubIs'
        BY <3>1, Kept
      <3>3. Ends(TRUE, AnchoredKind) = IF Found = NoAnswer THEN {} ELSE {Found[1]}
        <4>1. SubSearch(sub.b, sub.e, TRUE, AnchoredKind) = Target
          BY <3>1 DEF Target
        <4> QED
          BY <3>1, <4>1, EndsAre
      <3>4. Want = NoAnswer <=> Found = NoAnswer
        BY <3>1, WantIs
      <3>5. CASE FallBack
        BY <2>0, <3>1, <3>2, <3>5 DEF FallBack, MInv, InSubmatch
      <3>6. CASE Ends(TRUE, AnchoredKind) = {} /\ Miss
        BY <2>0, <3>1, <3>2, <3>3, <3>4, <3>6 DEF Miss, Return, MInv, Answered
      <3>7. ASSUME NEW e \in Ends(TRUE, AnchoredKind),
                   place' = Place(sub.b, e), stage' = "submatch", UNCHANGED <<skipped, ret>>
            PROVE  MInv'
        <4>1. Found # NoAnswer /\ Found[1] = e
          BY <3>3
        <4>2. Found[0] = sub.b
          <5>1. Found[0] \in From(Target)
            BY <3>1, <4>1, Unpacked
          <5>2. Target.b = sub.b /\ Target.anchored
            BY <3>1, SubTypes
          <5> QED
            BY <5>1, <5>2 DEF From
        <4> QED
          BY <2>0, <3>1, <3>2, <3>7, <4>1, <4>2 DEF MInv, InSubmatch, Located
      <3> QED
        BY <2>7, <3>5, <3>6, <3>7 DEF EndAnchored
    <2>8. CASE ReturnPlace
      <3>1. /\ UNCHANGED <<re, query, sub, anchor, place, skipped>>
            /\ Asked /\ SubIs /\ ~skipped /\ Located /\ ncap <= 1
            /\ stage' = "done" /\ ret' = TRUE
            /\ submatch' = IF ncap = 0 THEN NoSubmatch
                           ELSE Filled([NoSubmatch EXCEPT ![0] = place.b, ![1] = place.e])
        BY <2>8 DEF ReturnPlace, Return, MInv, InSubmatch
      <3>2. Want' = Want
        BY <3>1, Kept
      <3>3. Found # NoAnswer /\ place.b = Found[0] /\ place.e = Found[1]
        BY <3>1 DEF Located, Place
      <3>4. Want # NoAnswer
        BY <3>1, <3>3, WantIs
      <3>5. submatch' = Filled(Found)
        BY <3>1, <3>3, PlaceFilledRightly
      <3>6. \A k \in DOMAIN submatch' :
              submatch'[k] = IF k < 2 * query.nsubmatch THEN Want[k] ELSE -1
        <4>1. DOMAIN Filled(Found) = DOMAIN NoSubmatch
          BY DEF Filled
        <4> QED
          BY <3>1, <3>3, <3>5, <4>1, FilledRightly
      <3> QED
        BY <2>0, <3>1, <3>2, <3>4, <3>6 DEF MInv, Answered
    <2>9. CASE AskEngine
      <3>1. /\ UNCHANGED <<re, query, sub, anchor, place, skipped>>
            /\ Asked /\ SubIs /\ (~skipped => Located) /\ submatch = NoSubmatch
            /\ stage' = "done" /\ ret' = (Answer(re.suffix, Within) # NoAnswer)
            /\ submatch' = IF Answer(re.suffix, Within) = NoAnswer THEN submatch
                           ELSE Filled(Answer(re.suffix, Within))
        BY <2>9 DEF AskEngine, Return, MInv, InSubmatch
      <3>2. Want' = Want
        BY <3>1, Kept
      <3>3. Answer(re.suffix, Within) = Found
        <4>1. CASE skipped
          BY <4>1 DEF Within, Found, Target
        <4>2. CASE ~skipped
          <5>1. Found # NoAnswer /\ place.b = Found[0] /\ place.e = Found[1]
            BY <3>1, <4>2 DEF Located, Place
          <5>2. Within = SubSearch(Found[0], Found[1], TRUE, "full")
            BY <4>2, <5>1 DEF Within
          <5> QED
            BY <3>1, <5>1, <5>2, FoundAgain
        <4> QED
          BY <4>1, <4>2
      <3>4. Want = NoAnswer <=> Found = NoAnswer
        BY <3>1, WantIs
      <3>5. CASE Found = NoAnswer
        <4>1. skipped /\ ret' = FALSE
          BY <3>1, <3>3, <3>5 DEF Located
        <4> QED
          BY <2>0, <3>1, <3>2, <3>4, <3>5, <4>1 DEF MInv, Answered
      <3>6. CASE Found # NoAnswer
        <4>1. ret' = TRUE /\ submatch' = Filled(Found)
          BY <3>1, <3>3, <3>6
        <4>2. DOMAIN Filled(Found) = DOMAIN NoSubmatch
          BY DEF Filled
        <4>3. \A k \in DOMAIN submatch' :
                submatch'[k] = IF k < 2 * query.nsubmatch THEN Want[k] ELSE -1
          BY <3>1, <3>6, <4>1, <4>2, FilledRightly
        <4> QED
          BY <2>0, <3>1, <3>2, <3>4, <3>6, <4>1, <4>3 DEF MInv, Answered
      <3> QED
        BY <3>5, <3>6
    <2>10. CASE UNCHANGED mvars
      <3>1. /\ UNCHANGED <<re, query, sub, anchor, place, skipped, stage, ret, submatch>>
        BY <2>10 DEF mvars
      <3>2. Found' = Found /\ Want' = Want /\ Asked' = Asked /\ SubIs' = SubIs
        BY <3>1, Kept
      <3> QED
        BY <3>1, <3>2 DEF MInv, InMatch, InLocate, InReverse, InSubmatch, Located, Answered
    <2> QED
      BY <2>1, <2>2, <2>3, <2>4, <2>5, <2>6, <2>7, <2>8, <2>9, <2>10 DEF MNext, MDone
  <1> QED
    BY <1>1, <1>2, PTL DEF MSpec

\* Whichever engines answered, were passed over or gave up, RE2::Match returns
\* the leftmost preferred or longest match of the whole regexp and as many of
\* its submatches as were asked for (RE2::Match in re2.cc).
THEOREM MatchIsRight == MSpec => []MatchCorrect
  <1>1. MInv => MatchCorrect
    BY DEF MInv, Answered, MatchCorrect, Want
  <1> QED
    BY <1>1, MInvHolds, PTL

\* Once a DFA has found a match the engine asked for submatches does not
\* contradict it: the "inconsistency" branches of RE2::Match are never taken.
THEOREM NeverInconsistent == MSpec => []EnginesAgree
  <1>1. MInv => EnginesAgree
    BY DEF MInv, Answered, EnginesAgree
  <1> QED
    BY <1>1, MInvHolds, PTL
=============================================================================
