------------------------------ MODULE Regexps -------------------------------
(***************************************************************************)
(* Simplified regexps (re2/re2/regexp.h) and what they mean: the matches a *)
(* backtracking matcher would try, in its order of preference.  Every      *)
(* search engine of RE2 promises the first of them, or the first of the    *)
(* longest.                                                                *)
(***************************************************************************)
EXTENDS Programs, Answers, FiniteSetsExt, SequencesExt

(***************************************************************************)
(* The operators that are left after Regexp::Simplify.  A Literal stands   *)
(* for kRegexpLiteral and kRegexpLiteralString.                            *)
(***************************************************************************)
NoMatchRe == [op |-> "NoMatch"]
EmptyMatch == [op |-> "EmptyMatch"]
Literal(runes, fold) == [op |-> "Literal", runes |-> runes, fold |-> fold]
AnyByte == [op |-> "AnyByte"]
CharClass(ranges) == [op |-> "CharClass", ranges |-> ranges]
Concat(subs) == [op |-> "Concat", subs |-> subs]
Alternate(subs) == [op |-> "Alternate", subs |-> subs]
Star(sub, nongreedy) == [op |-> "Star", sub |-> sub, nongreedy |-> nongreedy]
Plus(sub, nongreedy) == [op |-> "Plus", sub |-> sub, nongreedy |-> nongreedy]
Quest(sub, nongreedy) == [op |-> "Quest", sub |-> sub, nongreedy |-> nongreedy]
Capture(sub, n) == [op |-> "Capture", sub |-> sub, n |-> n]
Empty(flag) == [op |-> "Empty", flag |-> flag]     \* ^ $ \A \z \b \B
HaveMatch(id) == [op |-> "HaveMatch", id |-> id]

-----------------------------------------------------------------------------
(***************************************************************************)
(* Trying re at a place [p, caps] of text[1 .. e] yields the places it may *)
(* end at, most preferred first.  caps[i] is capture register i.           *)
(***************************************************************************)
At(p, caps) == [p |-> p, caps |-> caps]

\* A loop stops before it goes on if it is not greedy, and else as a last resort.
Either(lazy, stop, goOn) == IF lazy THEN stop \o goOn ELSE goOn \o stop

RECURSIVE Try(_, _, _, _), TrySeq(_, _, _, _), TryAny(_, _, _, _),
          ThenEach(_, _, _, _), Again(_, _, _, _, _)

\* The ways of every place in turn, continued with regexps subs.
ThenEach(places, subs, text, e) ==
  IF places = << >> THEN << >>
  ELSE TrySeq(subs, Head(places), text, e)
       \o ThenEach(Tail(places), subs, text, e)

TrySeq(subs, at, text, e) ==
  IF subs = << >> THEN <<at>>
  ELSE ThenEach(Try(Head(subs), at, text, e), Tail(subs), text, e)

TryAny(subs, at, text, e) ==
  IF subs = << >> THEN << >>
  ELSE Try(Head(subs), at, text, e) \o TryAny(Tail(subs), at, text, e)

\* After an iteration of the loop re, begun at position p, each place may
\* go round again, but not through an iteration that consumes nothing.
Again(re, places, p, text, e) ==
  IF places = << >> THEN << >>
  ELSE LET at   == Head(places)
           more == IF at.p = p THEN << >>
                   ELSE LET next == Try(re.sub, at, text, e)
                        IN  Again(re, SelectSeq(next, LAMBDA n : n.p # at.p),
                                  at.p, text, e)
       IN  Either(re.nongreedy, <<at>>, more)
           \o Again(re, Tail(places), p, text, e)

\* Group n ends at each of the places.
Close(n, places) ==
  [i \in DOMAIN places |->
     At(places[i].p, [places[i].caps EXCEPT ![2 * n + 1] = places[i].p])]

OneByte(c, at, text, e) ==
  IF at.p < e /\ c[text[at.p + 1]] THEN <<At(at.p + 1, at.caps)>> ELSE << >>

Try(re, at, text, e) ==
  CASE re.op = "NoMatch"    -> << >>
    [] re.op = "EmptyMatch" -> <<at>>
    [] re.op = "HaveMatch"  -> <<at>>
    [] re.op = "Literal"    ->
         LET n == Len(re.runes)
             same(c, r) == c = r \/ (re.fold /\ ToLower(c) = ToLower(r))
         IN  IF at.p + n <= e /\ \A i \in 1 .. n : same(text[at.p + i], re.runes[i])
               THEN <<At(at.p + n, at.caps)>> ELSE << >>
    [] re.op = "AnyByte"    -> OneByte([c \in Byte |-> TRUE], at, text, e)
    [] re.op = "CharClass"  ->
         OneByte([c \in Byte |-> \E i \in DOMAIN re.ranges :
                                    /\ re.ranges[i][1] <= c
                                    /\ c <= re.ranges[i][2]],
                 at, text, e)
    [] re.op = "Empty"      ->
         IF re.flag \in EmptyFlags(text, at.p) THEN <<at>> ELSE << >>
    [] re.op = "Concat"     -> TrySeq(re.subs, at, text, e)
    [] re.op = "Alternate"  -> TryAny(re.subs, at, text, e)
    [] re.op = "Plus"       -> Again(re, Try(re.sub, at, text, e), at.p, text, e)
    [] re.op = "Star"       ->
         Either(re.nongreedy, <<at>>,
                Again(re, Try(re.sub, at, text, e), at.p, text, e))
    [] re.op = "Quest"      ->
         Either(re.nongreedy, <<at>>, Try(re.sub, at, text, e))
    [] re.op = "Capture"    ->
         Close(re.n, Try(re.sub, At(at.p, [at.caps EXCEPT ![2 * re.n] = at.p]), text, e))
\* re from min to max times, as a choice that is made again each time.
RECURSIVE Repeated(_, _, _, _)
Repeated(re, min, max, lazy) ==
  IF min > 0 THEN Concat(<<re, Repeated(re, min - 1, IF max = -1 THEN -1 ELSE max - 1, lazy)>>)
  ELSE IF max = -1 THEN Star(re, lazy)
  ELSE IF max = 0 THEN EmptyMatch
  ELSE Quest(Concat(<<re, Repeated(re, 0, max - 1, lazy)>>), lazy)

-----------------------------------------------------------------------------
(***************************************************************************)
(* Where the meaning is not settled: a loop over something that can be     *)
(* empty.  mimics_pcre.cc exempts such regexps from comparisons with a     *)
(* backtracking matcher, and so do the models: an automaton does not tell  *)
(* an iteration that began empty from one that has just ended.             *)
(***************************************************************************)
RECURSIVE CanBeEmptyString(_), RepeatsEmpty(_)

CanBeEmptyString(re) ==
  CASE re.op \in {"NoMatch", "Literal", "AnyByte", "CharClass"} -> FALSE
    [] re.op \in {"EmptyMatch", "Empty", "Star", "Quest", "HaveMatch"} -> TRUE
    [] re.op = "Concat"    -> \A i \in DOMAIN re.subs : CanBeEmptyString(re.subs[i])
    [] re.op = "Alternate" -> \E i \in DOMAIN re.subs : CanBeEmptyString(re.subs[i])
    [] re.op \in {"Plus", "Capture"} -> CanBeEmptyString(re.sub)

RepeatsEmpty(re) ==
  \/ re.op \in {"Star", "Plus", "Quest"} /\ CanBeEmptyString(re.sub)
  \/ re.op \in {"Star", "Plus", "Quest", "Capture"} /\ RepeatsEmpty(re.sub)
  \/ /\ re.op \in {"Concat", "Alternate"}
     /\ \E i \in DOMAIN re.subs : RepeatsEmpty(re.subs[i])

-----------------------------------------------------------------------------
\* The ways to match that module Answers chooses from.
WaysTried(re, text, e, q) == Try(re, At(q, NoCaps), text, e)
=============================================================================
