---------------------------- MODULE OrderedSets -----------------------------
(***************************************************************************)
(* What the sparse containers promise: a set of indices that remembers in  *)
(* which order they came.                                                  *)
(***************************************************************************)
EXTENDS Integers

CONSTANTS Index,       \* the indices that are asked for
          Sizes        \* the maximum sizes that are set

VARIABLES max,         \* indices from 0 up to here can be members
          n, list,     \* how many there are, and which, from the oldest
          answer       \* of the last question

ovars == <<max, n, list, answer>>

Has(i) == \E k \in 1 .. n : list[k] = i
First(m) == [k \in 1 .. m |-> list[k]]

OInit == max \in Nat /\ n = 0 /\ list = First(0) /\ answer = FALSE

OContains(i) == answer' = Has(i) /\ UNCHANGED <<max, n, list>>

OInsert(i) ==
  /\ i < max /\ ~Has(i)
  /\ n' = n + 1
  /\ list' = [k \in 1 .. n + 1 |-> IF k = n + 1 THEN i ELSE list[k]]
  /\ UNCHANGED <<max, answer>>

OClear == n' = 0 /\ list' = First(0) /\ UNCHANGED <<max, answer>>

\* The newest members make way.
OResize(m) ==
  /\ max' = IF m > max THEN m ELSE max
  /\ n' = IF n > m THEN m ELSE n
  /\ list' = First(n')
  /\ UNCHANGED answer

\* What is moved elsewhere leaves nothing behind.
OMoveFrom == max' = 0 /\ n' = 0 /\ list' = First(0) /\ UNCHANGED answer

ONext ==
  \/ OClear \/ OMoveFrom
  \/ \E i \in Index : OContains(i) \/ OInsert(i)
  \/ \E m \in Sizes : OResize(m)

OSpec == OInit /\ [][ONext]_ovars
=============================================================================
