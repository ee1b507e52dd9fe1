----------------------------- MODULE MCDFACache -----------------------------
(***************************************************************************)
(* Instances of DFACache for TLC: automata, requests and symmetry.         *)
(***************************************************************************)
EXTENDS DFACache, TLC

CONSTANTS t1, t2, a1, a2, a3

\* An unanchored search in which "aa" begins every match: a single "a" leads
\* from A to B and the next one to C, where "b" matches for good, and "a" or the
\* end of the text ends a match.
MCContent == {"A", "B", "C", "M"}
MCByte == {"a", "b", EndText}
MCDelta ==
  [k \in MCContent |-> [c \in MCByte |->
     CASE k = "A" -> (CASE c = "a" -> "B" [] c = "b" -> "A" [] OTHER -> DeadState)
       [] k = "B" -> (CASE c = "a" -> "C" [] c = "b" -> "A" [] OTHER -> DeadState)
       [] k = "C" -> (CASE c = "a" -> "M" [] c = "b" -> FullMatchState
                        [] OTHER -> "M")
       [] k = "M" -> (CASE c = "a" -> "C" [] c = "b" -> "A" [] OTHER -> DeadState)]]
MCPrefix == << {"a"}, {"a"} >>
MCIsMatch == [k \in MCContent |-> k = "M"]
MCMatchId == {1, 2}
MCMatchIds == [k \in MCContent |-> IF k = "M" THEN {1} ELSE {}]
MCStartKind == {"unanchored", "anchored"}
\* An anchored search begins where an "a" has been read, so that the cache can be
\* full without its start state.
MCStartOf == [kind \in MCStartKind |-> IF kind = "unanchored" THEN "A" ELSE "B"]
MCCanAccel == [kind \in MCStartKind |-> kind = "unanchored"]
NoAccel == [kind \in MCStartKind |-> FALSE]   \* as in a reversed program
MCCost == [k \in MCContent |-> 1]

Search(text, last, kind, earliest) ==
  [text |-> text, last |-> last, kind |-> kind, earliest |-> earliest]

MCRequests ==
  { Search(<<"b", "a", "a", "a">>, EndText, "unanchored", FALSE),
    Search(<<"a", "b", "a", "a">>, "b", "unanchored", FALSE),
    Search(<<"a", "a">>, EndText, "anchored", TRUE),
    Search(<<"a">>, EndText, "unanchored", FALSE) }

MCSymmetry == Permutations({t1, t2}) \cup Permutations({a1, a2, a3})

-----------------------------------------------------------------------------
(***************************************************************************)
(* A smaller automaton for the run in which one thread explores the whole  *)
(* automaton while another one searches: a byte class and the end of text, *)
(* and one content more than the cache holds.                              *)
(***************************************************************************)
\* A search for aaa|aa$ from the start of the text.
SmallContent == {"A", "B", "C", "M"}
SmallByte == {"a", EndText}
SmallDelta ==
  [k \in SmallContent |-> [c \in SmallByte |->
     CASE k = "A" -> IF c = "a" THEN "B" ELSE DeadState
       [] k = "B" -> IF c = "a" THEN "C" ELSE DeadState
       [] k = "C" -> IF c = "a" THEN FullMatchState ELSE "M"
       [] k = "M" -> DeadState]]
SmallIsMatch == [k \in SmallContent |-> k = "M"]
SmallMatchIds == [k \in SmallContent |-> {}]
SmallStartKind == {"unanchored"}
SmallStartOf == [kind \in SmallStartKind |-> "A"]
SmallCanAccel == [kind \in SmallStartKind |-> FALSE]
SmallPrefix == << {"a"} >>
SmallCost == [k \in SmallContent |-> 1]

SmallRequests ==
  {[text |-> <<"a", "a">>, last |-> EndText,
    kind |-> "unanchored", earliest |-> FALSE]}
=============================================================================
