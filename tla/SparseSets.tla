----------------------------- MODULE SparseSets -----------------------------
(***************************************************************************)
(* re2/re2/sparse_set.h: a set of indices below max_size with constant-time*)
(* operations.  Its arrays are never initialised: what was in the memory   *)
(* stays there until it is written to, and the test for membership has to  *)
(* see through it.  dense_ lists the members, sparse_ says where.          *)
(***************************************************************************)
EXTENDS Integers

CONSTANTS Index,      \* the indices that callers use
          MaxSizes,   \* the maximum sizes they ask for
          Garbage     \* what may be in fresh memory

ASSUME SparseAssumption ==
  /\ Index \subseteq Nat /\ MaxSizes \subseteq Nat /\ Garbage \subseteq Int

\* PODArray<int>(m)
Fresh(m) == [0 .. m - 1 -> Garbage]

VARIABLES max,            \* max_size()
          size,           \* size_
          sparse, dense,  \* sparse_ and dense_, from 0
          answer          \* what contains() returned last

vars == <<max, size, sparse, dense, answer>>

Init ==
  /\ max \in MaxSizes /\ size = 0
  /\ sparse \in Fresh(max) /\ dense \in Fresh(max)
  /\ answer = FALSE

\* The comparison is of unsigned numbers: what is negative is too large.
contains(i) ==
  /\ i < max
  /\ 0 <= sparse[i] /\ sparse[i] < size
  /\ dense[sparse[i]] = i

CreateIndex(i) ==
  /\ sparse' = [sparse EXCEPT ![i] = size]
  /\ dense' = [dense EXCEPT ![size] = i]
  /\ size' = size + 1

Ask(i) == answer' = contains(i) /\ UNCHANGED <<max, size, sparse, dense>>

\* insert and insert_new; an index out of range is ignored, and so is one that
\* is there.
Insert(i) ==
  /\ i < max /\ ~contains(i)
  /\ CreateIndex(i)
  /\ UNCHANGED <<max, answer>>

Clear == size' = 0 /\ UNCHANGED <<max, sparse, dense, answer>>

\* resize: the memory that is new is uninitialised as well.  max_size() does
\* not become less, but what does not fit is forgotten.
Grow(m) ==
  /\ m > max /\ max' = m
  /\ \E s, d \in Fresh(m) :
       /\ sparse' = [k \in 0 .. m - 1 |-> IF k < max THEN sparse[k] ELSE s[k]]
       /\ dense' = [k \in 0 .. m - 1 |-> IF k < max THEN dense[k] ELSE d[k]]
  /\ UNCHANGED <<size, answer>>
Shrink(m) ==
  /\ m <= max
  /\ size' = IF size > m THEN m ELSE size
  /\ UNCHANGED <<max, sparse, dense, answer>>

Next ==
  \/ Clear
  \/ \E i \in Index : Ask(i) \/ Insert(i)
  \/ \E m \in MaxSizes : Grow(m) \/ Shrink(m)

Spec == Init /\ [][Next]_vars

-----------------------------------------------------------------------------
\* The members in the order of an iteration.
Members == [k \in 1 .. size |-> dense[k - 1]]

Abstract == INSTANCE OrderedSets WITH Sizes <- MaxSizes, n <- size, list <- Members

\* Whatever the memory held, the container is a set of indices in the order in
\* which they were inserted (sparse_set.h, "Sparse sets: a set of integers").
IsOrderedSet == Abstract!OSpec

-----------------------------------------------------------------------------
(***************************************************************************)
(* re2/re2/sparse_array.h: the same container with a value for each index, *)
(* kept beside it in dense_.                                               *)
(***************************************************************************)
CONSTANT Value

VARIABLES values,     \* dense_[k].value_
          entries     \* history: what was set, index by index

avars == <<vars, values, entries>>

FreshValues(m) == [0 .. m - 1 -> Value]

AInit == Init /\ values \in FreshValues(max) /\ entries = [i \in {} |-> 0]

\* set_new and set: a new index, and its value in the same slot.
SetNew(i, v) ==
  /\ Insert(i)
  /\ values' = [values EXCEPT ![sparse'[i]] = v]
  /\ entries' = [j \in DOMAIN entries \cup {i} |-> IF j = i THEN v ELSE entries[j]]

\* Mutant of SetExisting: index i is taken for a place in dense_.
SetExistingDirectly(i, v) ==
  /\ contains(i)
  /\ values' = [values EXCEPT ![i] = v]
  /\ entries' = [entries EXCEPT ![i] = v]
  /\ UNCHANGED vars

SetExisting(i, v) ==
  /\ contains(i)
  /\ values' = [values EXCEPT ![sparse[i]] = v]
  /\ entries' = [entries EXCEPT ![i] = v]
  /\ UNCHANGED vars

HasIndex(i) == Ask(i) /\ UNCHANGED <<values, entries>>
AClear == Clear /\ entries' = [i \in {} |-> 0] /\ UNCHANGED values

\* Copied whole, as the arrays of indices are, and no less uninitialised.
AGrow(m) ==
  /\ Grow(m)
  /\ \E f \in FreshValues(m) :
       values' = [k \in 0 .. m - 1 |-> IF k < max THEN values[k] ELSE f[k]]
  /\ UNCHANGED entries

\* The history forgets what resize does.
Remaining == {dense[k] : k \in 0 .. size' - 1}
AShrink(m) ==
  /\ Shrink(m)
  /\ entries' = [i \in Remaining |-> entries[i]]
  /\ UNCHANGED values

\* A move leaves the source empty, without memory, until it is resized; what
\* was in it is not followed further.
MoveFrom ==
  /\ max' = 0 /\ size' = 0
  /\ sparse' = [k \in {} |-> 0] /\ dense' = [k \in {} |-> 0] /\ values' = [k \in {} |-> 0]
  /\ entries' = [i \in {} |-> 0] /\ UNCHANGED answer

ANext ==
  \/ AClear \/ MoveFrom
  \/ \E i \in Index : HasIndex(i) \/ \E v \in Value : SetNew(i, v) \/ SetExisting(i, v)
  \/ \E m \in MaxSizes : AGrow(m) \/ AShrink(m)

ASpec == AInit /\ [][ANext]_avars

-----------------------------------------------------------------------------
\* get_existing finds for each index what was set last, an iteration comes
\* past each index once, and has_index is true of these alone, whatever was
\* in the memory (sparse_array.h).
EntriesKept ==
  /\ \A i \in Index : contains(i) <=> i \in DOMAIN entries
  /\ \A i \in DOMAIN entries : values[sparse[i]] = entries[i]
  /\ {dense[k] : k \in 0 .. size - 1} = DOMAIN entries
  /\ \A j, k \in 0 .. size - 1 : dense[j] = dense[k] => j = k
=============================================================================
