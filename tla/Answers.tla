------------------------------- MODULE Answers -------------------------------
(***************************************************************************)
(* The answer to a search: the match that begins leftmost, of these the    *)
(* one a backtracking matcher prefers, or prefers among the longest or     *)
(* those that end with the text.  This is what prog.h promises of every    *)
(* Search function, and what the models of the engines are checked against.*)
(* In which ways a regexp matches is a parameter: module Regexps says it.  *)
(***************************************************************************)
EXTENDS Integers, Sequences

CONSTANT WaysOf(_, _, _, _)
  \* WaysOf(re, text, e, q): where a match of re in text[1 .. e] that begins at
  \* position q may end, and with which captures, most preferred first.

NCaps == 3     \* the whole match and two groups
AnyCaps == [0 .. 2 * NCaps - 1 -> Int]
NoCaps == [n \in 0 .. 2 * NCaps - 1 |-> -1]
NoAnswer == << >>

Ways(re, call, q) == WaysOf(re, call.text, call.e, q)

\* Which of the ways will do.
Wanted(ways, call) ==
  {n \in DOMAIN ways :
     /\ call.kind = "longest" => \A k \in DOMAIN ways : ways[k].p <= ways[n].p
     /\ call.kind = "full" => ways[n].p = call.e}

Least(S) == CHOOSE x \in S : \A y \in S : x <= y

\* Where a match may begin.
From(call) == IF call.anchored \/ call.kind = "full" THEN {call.b} ELSE call.b .. call.e

\* The leftmost of the positions with a way to match, and the first of its ways.
Answer(re, call) ==
  LET ways == [q \in From(call) |-> Ways(re, call, q)]
      hits == {q \in From(call) : Wanted(ways[q], call) # {}}
      q    == Least(hits)
      best == ways[q][Least(Wanted(ways[q], call))]
  IN  IF hits = {} THEN NoAnswer
      ELSE [best.caps EXCEPT ![0] = q, ![1] = best.p]
=============================================================================
