--------------------------- MODULE LibraryProofs ----------------------------
(***************************************************************************)
(* Proofs about the library around the engines: the sparse containers, the *)
(* references to regexps, the functions that replace and that consume, and *)
(* Perl's loop.  Whatever uninitialised memory holds, sparse containers    *)
(* are ordered sets, and arrays with a value for every member; whoever     *)
(* calls Match in a loop gets successive matches, whatever module Answers  *)
(* takes for the ways in which a regexp matches.                           *)
(***************************************************************************)
EXTENDS SparseSets, References, Replacing, Consuming, PerlEngine, AnswerProofs,
        FiniteSetTheorems, SequenceTheorems, TLAPS

SparseType ==
  /\ max \in Nat /\ size \in 0 .. max
  /\ sparse \in [0 .. max - 1 -> Int] /\ dense \in [0 .. max - 1 -> Int]
  /\ answer \in BOOLEAN

\* What is in use of dense_ is linked back by sparse_.
Linked == \A k \in 0 .. size - 1 : dense[k] \in 0 .. max - 1 /\ sparse[dense[k]] = k

SparseInv == SparseType /\ Linked

-----------------------------------------------------------------------------
\* contains(i) sees through what the memory holds: it is true of the members
\* and of nothing else.
LEMMA ContainsIsMember ==
  ASSUME SparseInv, NEW i \in Nat
  PROVE  contains(i) <=> \E k \in 0 .. size - 1 : dense[k] = i
<1>1. ASSUME contains(i) PROVE \E k \in 0 .. size - 1 : dense[k] = i
  <2>1. i \in 0 .. max - 1 /\ sparse[i] \in Int
    BY <1>1 DEF contains, SparseInv, SparseType
  <2>2. sparse[i] \in 0 .. size - 1 /\ dense[sparse[i]] = i
    BY <1>1, <2>1 DEF contains, SparseInv, SparseType
  <2> QED BY <2>2
<1>2. ASSUME NEW k \in 0 .. size - 1, dense[k] = i PROVE contains(i)
  BY <1>2 DEF contains, SparseInv, SparseType, Linked
<1> QED BY <1>1, <1>2

\* create_index never writes behind the arrays (its assert(size_ < max_size())):
\* an index in range that is not there leaves room for itself.
LEMMA RoomForOne ==
  ASSUME SparseInv, NEW i \in Nat, i < max, ~contains(i)
  PROVE  size < max
<1> DEFINE S == 0 .. size - 1
           T == (0 .. max - 1) \ {i}
           f == [k \in S |-> dense[k]]
<1>1. size \in Nat /\ max \in Nat /\ size <= max
  BY DEF SparseInv, SparseType
<1>2. IsFiniteSet(0 .. max - 1) /\ Cardinality(0 .. max - 1) = max
  BY <1>1, FS_Interval
<1>3. IsFiniteSet(T) /\ Cardinality(T) = max - 1
  <2>1. i \in 0 .. max - 1
    BY <1>1
  <2> QED BY <1>2, <2>1, FS_RemoveElement
<1>4. Cardinality(S) = size
  BY <1>1, FS_Interval
<1>5. f \in Injection(S, T)
  <2>1. \A k \in S : dense[k] \in T
    BY ContainsIsMember DEF SparseInv, Linked
  <2>2. \A j, k \in S : dense[j] = dense[k] => j = k
    BY DEF SparseInv, Linked
  <2> QED BY <2>1, <2>2 DEF Injection, IsInjective
<1>6. Cardinality(S) <= Cardinality(T)
  BY <1>3, <1>5, FS_Injection
<1> QED BY <1>1, <1>3, <1>4, <1>6

-----------------------------------------------------------------------------
(***************************************************************************)
(* The invariant, operation by operation.                                  *)
(***************************************************************************)
LEMMA SparseInitially == Init => SparseInv
<1> SUFFICES ASSUME Init PROVE SparseInv
  OBVIOUS
<1>1. max \in Nat /\ size = 0 /\ answer = FALSE
  BY SparseAssumption DEF Init
<1>2. sparse \in [0 .. max - 1 -> Int] /\ dense \in [0 .. max - 1 -> Int]
  <2>1. sparse \in [0 .. max - 1 -> Garbage] /\ dense \in [0 .. max - 1 -> Garbage]
    BY DEF Init, Fresh
  <2> QED BY <2>1, SparseAssumption
<1>3. answer \in BOOLEAN
  BY <1>1
<1>4. Linked /\ size \in 0 .. max
  BY <1>1 DEF Linked
<1> QED BY <1>1, <1>2, <1>3, <1>4 DEF SparseInv, SparseType

LEMMA InsertKeeps ==
  ASSUME SparseInv, NEW i \in Index, Insert(i)
  PROVE  SparseInv' /\ size < max
<1>1. i \in Nat /\ i \in 0 .. max - 1 /\ ~contains(i)
  BY SparseAssumption DEF Insert, SparseInv, SparseType
<1>2. size < max /\ size \in 0 .. max - 1
  BY <1>1, RoomForOne DEF Insert, SparseInv, SparseType
<1>3. max' = max /\ size' = size + 1 /\ answer' = answer
      /\ sparse' = [sparse EXCEPT ![i] = size] /\ dense' = [dense EXCEPT ![size] = i]
  BY DEF Insert, CreateIndex
<1>4. SparseType'
  BY <1>1, <1>2, <1>3 DEF SparseInv, SparseType
<1>5. ASSUME NEW k \in 0 .. size' - 1
      PROVE  dense'[k] \in 0 .. max' - 1 /\ sparse'[dense'[k]] = k
  <2>1. CASE k = size
    BY <2>1, <1>1, <1>2, <1>3 DEF SparseInv, SparseType
  <2>2. CASE k \in 0 .. size - 1
    <3>1. dense[k] # i
      BY <2>2, <1>1, ContainsIsMember
    <3> QED BY <2>2, <3>1, <1>1, <1>2, <1>3 DEF SparseInv, SparseType, Linked
  <2> QED BY <1>2, <1>3, <2>1, <2>2
<1> QED BY <1>2, <1>4, <1>5 DEF SparseInv, Linked

LEMMA GrowKeeps ==
  ASSUME SparseInv, NEW m \in MaxSizes, Grow(m)
  PROVE  SparseInv' /\ \A k \in 0 .. max - 1 : dense'[k] = dense[k]
<1>1. PICK s \in Fresh(m), d \in Fresh(m) :
        /\ sparse' = [k \in 0 .. m - 1 |-> IF k < max THEN sparse[k] ELSE s[k]]
        /\ dense' = [k \in 0 .. m - 1 |-> IF k < max THEN dense[k] ELSE d[k]]
  BY DEF Grow
<1>2. m \in Nat /\ m > max /\ max' = m /\ size' = size /\ answer' = answer
  BY SparseAssumption DEF Grow
<1>3. \A k \in 0 .. m - 1 : s[k] \in Int /\ d[k] \in Int
  BY SparseAssumption DEF Fresh
<1>4. SparseType'
  BY <1>1, <1>2, <1>3 DEF SparseInv, SparseType
<1>5. \A k \in 0 .. max - 1 : dense'[k] = dense[k] /\ sparse'[k] = sparse[k]
  BY <1>1, <1>2 DEF SparseInv, SparseType
<1>6. Linked'
  BY <1>2, <1>5 DEF SparseInv, SparseType, Linked
<1> QED BY <1>4, <1>5, <1>6 DEF SparseInv

LEMMA SparseStep ==
  ASSUME SparseInv, [Next]_vars
  PROVE  SparseInv'
<1>1. CASE UNCHANGED vars
  BY <1>1 DEF vars, SparseInv, SparseType, Linked
<1>2. CASE Clear
  BY <1>2 DEF Clear, SparseInv, SparseType, Linked
<1>3. ASSUME NEW i \in Index, Ask(i) PROVE SparseInv'
  <2>1. contains(i) \in BOOLEAN
    BY DEF contains
  <2> QED BY <1>3, <2>1 DEF Ask, SparseInv, SparseType, Linked
<1>4. ASSUME NEW i \in Index, Insert(i) PROVE SparseInv'
  BY <1>4, InsertKeeps
<1>5. ASSUME NEW m \in MaxSizes, Grow(m) PROVE SparseInv'
  BY <1>5, GrowKeeps
<1>6. ASSUME NEW m \in MaxSizes, Shrink(m) PROVE SparseInv'
  BY <1>6, SparseAssumption DEF Shrink, SparseInv, SparseType, Linked
<1> QED BY <1>1, <1>2, <1>3, <1>4, <1>5, <1>6 DEF Next

LEMMA MoveKeeps ==
  ASSUME SparseInv, MoveFrom
  PROVE  SparseInv'
BY DEF MoveFrom, SparseInv, SparseType, Linked

\* A step of an array is one of the set in it, or a move.
LEMMA ArrayStep ==
  ASSUME [ANext]_avars
  PROVE  [Next]_vars \/ MoveFrom
BY DEF ANext, Next, avars, vars, AClear, HasIndex, SetNew, SetExisting, AGrow, AShrink

-----------------------------------------------------------------------------
(***************************************************************************)
(* The refinement: each operation is one of the ordered set's.             *)
(***************************************************************************)
LEMMA HasIsContains ==
  ASSUME SparseInv, NEW i \in Nat
  PROVE  Abstract!Has(i) <=> contains(i)
<1>1. ASSUME NEW k \in 1 .. size, Members[k] = i PROVE \E j \in 0 .. size - 1 : dense[j] = i
  <2>1. k - 1 \in 0 .. size - 1 /\ dense[k - 1] = i
    BY <1>1 DEF Members, SparseInv, SparseType
  <2> QED BY <2>1
<1>2. ASSUME NEW j \in 0 .. size - 1, dense[j] = i PROVE \E k \in 1 .. size : Members[k] = i
  <2>1. j + 1 \in 1 .. size /\ Members[j + 1] = i
    BY <1>2 DEF Members, SparseInv, SparseType
  <2> QED BY <2>1
<1> QED BY <1>1, <1>2, ContainsIsMember DEF Abstract!Has

LEMMA InitRefines == Init => Abstract!OInit
<1> SUFFICES ASSUME Init PROVE Abstract!OInit
  OBVIOUS
<1>1. max \in Nat /\ size = 0 /\ answer = FALSE
  BY SparseAssumption DEF Init
<1>2. Members = Abstract!First(0)
  BY <1>1 DEF Members, Abstract!First
<1> QED BY <1>1, <1>2 DEF Abstract!OInit

LEMMA InsertRefines ==
  ASSUME SparseInv, NEW i \in Index, Insert(i)
  PROVE  Abstract!OInsert(i)
<1>1. i \in Nat /\ i \in 0 .. max - 1 /\ ~contains(i) /\ i < max
  BY SparseAssumption DEF Insert, SparseInv, SparseType
<1>2. size < max /\ size \in 0 .. max - 1
  BY <1>1, RoomForOne DEF SparseInv, SparseType
<1>3. max' = max /\ size' = size + 1 /\ answer' = answer /\ dense' = [dense EXCEPT ![size] = i]
  BY DEF Insert, CreateIndex
<1>4. ~Abstract!Has(i)
  BY <1>1, HasIsContains
<1>5. Members' = [k \in 1 .. size + 1 |-> IF k = size + 1 THEN i ELSE Members[k]]
  <2>1. ASSUME NEW k \in 1 .. size + 1
        PROVE  dense'[k - 1] = IF k = size + 1 THEN i ELSE Members[k]
    BY <1>2, <1>3 DEF Members, SparseInv, SparseType
  <2> QED BY <1>3, <2>1 DEF Members
<1> QED BY <1>1, <1>3, <1>4, <1>5 DEF Abstract!OInsert

\* What is kept of the members by an operation that makes the set no larger.
LEMMA FirstMembers ==
  ASSUME SparseInv, size' \in 0 .. size, \A k \in 0 .. size - 1 : dense'[k] = dense[k]
  PROVE  Members' = Abstract!First(size')
<1>1. ASSUME NEW k \in 1 .. size' PROVE dense'[k - 1] = Members[k]
  BY <1>1 DEF Members, SparseInv, SparseType
<1> QED BY <1>1 DEF Members, Abstract!First

LEMMA StepRefines ==
  ASSUME SparseInv, [Next]_vars
  PROVE  [Abstract!ONext]_(Abstract!ovars)
<1>1. CASE UNCHANGED vars
  BY <1>1 DEF vars, Members, Abstract!ovars
<1>2. CASE Clear
  <2>1. Members' = Abstract!First(0)
    BY <1>2, FirstMembers DEF Clear, SparseInv, SparseType
  <2> QED BY <1>2, <2>1 DEF Clear, Abstract!OClear, Abstract!ONext
<1>3. ASSUME NEW i \in Index, Ask(i) PROVE Abstract!ONext
  <2>1. contains(i) = Abstract!Has(i)
    <3>1. contains(i) <=> Abstract!Has(i)
      BY SparseAssumption, HasIsContains
    <3>2. contains(i) \in BOOLEAN /\ Abstract!Has(i) \in BOOLEAN
      BY DEF contains, Abstract!Has
    <3> QED BY <3>1, <3>2
  <2>2. Members' = Members
    BY <1>3 DEF Ask, Members
  <2> QED BY <1>3, <2>1, <2>2 DEF Ask, Abstract!OContains, Abstract!ONext
<1>4. ASSUME NEW i \in Index, Insert(i) PROVE Abstract!ONext
  BY <1>4, InsertRefines DEF Abstract!ONext
<1>5. ASSUME NEW m \in MaxSizes, Grow(m) PROVE Abstract!ONext
  <2>1. m \in Nat /\ m > max /\ max' = m /\ size' = size /\ answer' = answer
    BY <1>5, SparseAssumption DEF Grow
  <2>2. \A k \in 0 .. size - 1 : dense'[k] = dense[k]
    BY <1>5, GrowKeeps DEF SparseInv, SparseType
  <2>3. Members' = Abstract!First(size')
    BY <2>1, <2>2, FirstMembers DEF SparseInv, SparseType
  <2>4. size' = IF size > m THEN m ELSE size
    BY <2>1 DEF SparseInv, SparseType
  <2> QED BY <2>1, <2>3, <2>4 DEF Abstract!OResize, Abstract!ONext
<1>6. ASSUME NEW m \in MaxSizes, Shrink(m) PROVE Abstract!ONext
  <2>1. m \in Nat /\ m <= max /\ size' = (IF size > m THEN m ELSE size)
        /\ max' = max /\ dense' = dense /\ answer' = answer
    BY <1>6, SparseAssumption DEF Shrink
  <2>2. Members' = Abstract!First(size')
    BY <2>1, FirstMembers DEF SparseInv, SparseType
  <2>3. max' = IF m > max THEN m ELSE max
    BY <2>1 DEF SparseInv, SparseType
  <2> QED BY <2>1, <2>2, <2>3 DEF Abstract!OResize, Abstract!ONext
<1> QED BY <1>1, <1>2, <1>3, <1>4, <1>5, <1>6 DEF Next

LEMMA MoveRefines ==
  ASSUME SparseInv, MoveFrom
  PROVE  Abstract!ONext
<1>1. Members' = Abstract!First(0)
  BY DEF MoveFrom, Members, Abstract!First
<1> QED BY <1>1 DEF MoveFrom, Abstract!OMoveFrom, Abstract!ONext

\* A SparseSet is an ordered set, for every memory, size and index.
THEOREM SetIsOrdered == Spec => IsOrderedSet
<1>1. Init => SparseInv /\ Abstract!OInit
  BY SparseInitially, InitRefines
<1>2. SparseInv /\ [Next]_vars => SparseInv' /\ [Abstract!ONext]_(Abstract!ovars)
  BY SparseStep, StepRefines
<1> QED BY <1>1, <1>2, PTL DEF Spec, IsOrderedSet, Abstract!OSpec

\* So is a SparseArray, which can be moved as well.
THEOREM ArrayIsOrdered == ASpec => IsOrderedSet
<1>1. AInit => SparseInv /\ Abstract!OInit
  BY SparseInitially, InitRefines DEF AInit
<1>2. SparseInv /\ [ANext]_avars => SparseInv' /\ [Abstract!ONext]_(Abstract!ovars)
  BY ArrayStep, SparseStep, MoveKeeps, StepRefines, MoveRefines
<1> QED BY <1>1, <1>2, PTL DEF ASpec, IsOrderedSet, Abstract!OSpec

-----------------------------------------------------------------------------
(***************************************************************************)
(* The values of an array: each is in the slot of its index.               *)
(***************************************************************************)
InUse == {dense[k] : k \in 0 .. size - 1}
ValuesInv ==
  /\ values \in [0 .. max - 1 -> Value]
  /\ DOMAIN entries = InUse
  /\ \A k \in 0 .. size - 1 : values[k] = entries[dense[k]]

LEMMA ValuesInitially == AInit => ValuesInv
<1> SUFFICES ASSUME AInit PROVE ValuesInv
  OBVIOUS
<1>1. max \in Nat /\ size = 0
  BY SparseAssumption DEF AInit, Init
<1>2. DOMAIN entries = {}
  BY DEF AInit
<1>3. values \in [0 .. max - 1 -> Value]
  BY DEF AInit, FreshValues
<1> QED BY <1>1, <1>2, <1>3 DEF ValuesInv, InUse

LEMMA SetNewKeeps ==
  ASSUME SparseInv, ValuesInv, NEW i \in Index, NEW v \in Value, SetNew(i, v)
  PROVE  ValuesInv'
<1>1. i \in Nat /\ i \in 0 .. max - 1 /\ ~contains(i) /\ Insert(i)
  BY SparseAssumption DEF SetNew, Insert, SparseInv, SparseType
<1>2. size < max /\ size \in 0 .. max - 1
  BY <1>1, RoomForOne DEF SparseInv, SparseType
<1>3. max' = max /\ size' = size + 1
      /\ sparse' = [sparse EXCEPT ![i] = size] /\ dense' = [dense EXCEPT ![size] = i]
  BY <1>1 DEF Insert, CreateIndex
<1>4. sparse'[i] = size
  BY <1>1, <1>3 DEF SparseInv, SparseType
<1>5. values' = [values EXCEPT ![size] = v]
  BY <1>4 DEF SetNew
<1>6. entries' = [j \in InUse \cup {i} |-> IF j = i THEN v ELSE entries[j]]
  BY DEF SetNew, ValuesInv
<1>7. \A k \in 0 .. size - 1 : dense'[k] = dense[k] /\ dense[k] # i
  BY <1>1, <1>2, <1>3, ContainsIsMember DEF SparseInv, SparseType
<1>8. dense'[size] = i
  BY <1>2, <1>3 DEF SparseInv, SparseType
<1>9. InUse' = InUse \cup {i}
  BY <1>2, <1>3, <1>7, <1>8 DEF InUse, SparseInv, SparseType
<1>10. \A k \in 0 .. size' - 1 : values'[k] = entries'[dense'[k]]
  <2> SUFFICES ASSUME NEW k \in 0 .. size' - 1 PROVE values'[k] = entries'[dense'[k]]
    OBVIOUS
  <2>1. CASE k = size
    BY <2>1, <1>2, <1>5, <1>6, <1>8 DEF ValuesInv
  <2>2. CASE k \in 0 .. size - 1
    <3>1. dense[k] \in InUse /\ dense'[k] = dense[k] /\ dense[k] # i
      BY <2>2, <1>7 DEF InUse
    <3>2. entries'[dense'[k]] = entries[dense[k]]
      BY <3>1, <1>6
    <3>3. values'[k] = values[k]
      BY <2>2, <1>2, <1>5 DEF ValuesInv
    <3> QED BY <2>2, <3>2, <3>3 DEF ValuesInv
  <2> QED BY <2>1, <2>2, <1>2, <1>3
<1>11. values' \in [0 .. max' - 1 -> Value]
  BY <1>3, <1>5 DEF ValuesInv
<1> QED BY <1>6, <1>9, <1>10, <1>11 DEF ValuesInv

LEMMA SetExistingKeeps ==
  ASSUME SparseInv, ValuesInv, NEW i \in Index, NEW v \in Value, SetExisting(i, v)
  PROVE  ValuesInv'
<1>1. i \in Nat /\ contains(i) /\ UNCHANGED <<max, size, sparse, dense>>
  BY SparseAssumption DEF SetExisting, vars
<1>2. sparse[i] \in 0 .. size - 1 /\ dense[sparse[i]] = i
  BY <1>1 DEF contains, SparseInv, SparseType
<1>3. values' = [values EXCEPT ![sparse[i]] = v] /\ entries' = [entries EXCEPT ![i] = v]
  BY DEF SetExisting
<1>4. i \in InUse /\ InUse' = InUse
  BY <1>1, <1>2 DEF InUse
<1>5. ASSUME NEW k \in 0 .. size - 1 PROVE values'[k] = entries'[dense[k]]
  <2>1. dense[k] \in InUse
    BY DEF InUse
  <2>2. CASE k = sparse[i]
    BY <2>1, <2>2, <1>2, <1>3, <1>4 DEF ValuesInv, SparseInv, SparseType
  <2>3. CASE k # sparse[i]
    <3>1. dense[k] # i
      BY <2>3, <1>2 DEF SparseInv, Linked
    <3> QED BY <2>1, <2>3, <3>1, <1>3 DEF ValuesInv, SparseInv, SparseType
  <2> QED BY <2>2, <2>3
<1> QED BY <1>1, <1>3, <1>4, <1>5 DEF ValuesInv

LEMMA ResizeKeepsValues ==
  ASSUME SparseInv, ValuesInv, NEW m \in MaxSizes, AGrow(m) \/ AShrink(m)
  PROVE  ValuesInv'
<1>1. m \in Nat
  BY SparseAssumption
<1>2. CASE AGrow(m)
  <2>1. PICK f \in FreshValues(m) :
          values' = [k \in 0 .. m - 1 |-> IF k < max THEN values[k] ELSE f[k]]
    BY <1>2 DEF AGrow
  <2>2. m > max /\ max' = m /\ size' = size /\ entries' = entries
    BY <1>2 DEF AGrow, Grow
  <2>3. \A k \in 0 .. max - 1 : dense'[k] = dense[k]
    BY <1>2, GrowKeeps DEF AGrow
  <2>4. InUse' = InUse
    BY <2>2, <2>3 DEF InUse, SparseInv, SparseType
  <2>5. values' \in [0 .. m - 1 -> Value]
    BY <1>1, <2>1, <2>2 DEF FreshValues, ValuesInv, SparseInv, SparseType
  <2>6. \A k \in 0 .. size - 1 : values'[k] = entries[dense'[k]]
    BY <1>1, <2>1, <2>2, <2>3 DEF ValuesInv, SparseInv, SparseType
  <2> QED BY <2>2, <2>4, <2>5, <2>6 DEF ValuesInv
<1>3. CASE AShrink(m)
  <2>1. max' = max /\ dense' = dense /\ values' = values /\ size' \in 0 .. size
    BY <1>1, <1>3 DEF AShrink, Shrink, SparseInv, SparseType
  <2>2. entries' = [i \in InUse' |-> entries[i]]
    BY <1>3, <2>1 DEF AShrink, Remaining, InUse
  <2>3. ASSUME NEW k \in 0 .. size' - 1 PROVE values'[k] = entries'[dense'[k]]
    <3>1. dense[k] \in InUse' /\ k \in 0 .. size - 1
      BY <2>1 DEF InUse, SparseInv, SparseType
    <3> QED BY <3>1, <2>1, <2>2 DEF ValuesInv
  <2> QED BY <2>1, <2>2, <2>3 DEF ValuesInv
<1> QED BY <1>2, <1>3

LEMMA ValuesStep ==
  ASSUME SparseInv, ValuesInv, [ANext]_avars
  PROVE  ValuesInv'
<1>1. CASE UNCHANGED avars
  BY <1>1 DEF avars, vars, ValuesInv, InUse
<1>2. CASE AClear
  BY <1>2 DEF AClear, Clear, ValuesInv, InUse
<1>3. CASE MoveFrom
  BY <1>3 DEF MoveFrom, ValuesInv, InUse
<1>4. ASSUME NEW i \in Index, HasIndex(i) PROVE ValuesInv'
  BY <1>4 DEF HasIndex, Ask, ValuesInv, InUse
<1>5. ASSUME NEW i \in Index, NEW v \in Value, SetNew(i, v) \/ SetExisting(i, v) PROVE ValuesInv'
  BY <1>5, SetNewKeeps, SetExistingKeeps
<1>6. ASSUME NEW m \in MaxSizes, AGrow(m) \/ AShrink(m) PROVE ValuesInv'
  BY <1>6, ResizeKeepsValues
<1> QED BY <1>1, <1>2, <1>3, <1>4, <1>5, <1>6 DEF ANext

LEMMA InvGivesEntries == SparseInv /\ ValuesInv => EntriesKept
<1> SUFFICES ASSUME SparseInv, ValuesInv PROVE EntriesKept
  OBVIOUS
<1>1. \A i \in Index : contains(i) <=> i \in DOMAIN entries
  BY SparseAssumption, ContainsIsMember DEF ValuesInv, InUse
<1>2. \A i \in DOMAIN entries : values[sparse[i]] = entries[i]
  BY DEF ValuesInv, InUse, SparseInv, Linked
<1>3. \A j, k \in 0 .. size - 1 : dense[j] = dense[k] => j = k
  BY DEF SparseInv, Linked
<1> QED BY <1>1, <1>2, <1>3 DEF EntriesKept, ValuesInv, InUse

\* What was set is found again, and nothing else, for every memory, size,
\* index and value.
THEOREM ArrayKeepsEntries == ASpec => []EntriesKept
<1>1. AInit => SparseInv /\ ValuesInv
  BY SparseInitially, ValuesInitially DEF AInit
<1>2. SparseInv /\ ValuesInv /\ [ANext]_avars => SparseInv' /\ ValuesInv'
  BY ArrayStep, SparseStep, MoveKeeps, ValuesStep
<1> QED BY <1>1, <1>2, InvGivesEntries, PTL DEF ASpec

-----------------------------------------------------------------------------
(***************************************************************************)
(* That reference counts are right, for any set of nodes, any width of the *)
(* count in the object and any length of subexpressions.                   *)
(*                                                                         *)
(* The inductive invariant says what RefsCounted does, with the types, and *)
(* with the stack of Destroy as a list in which nothing occurs twice.  A   *)
(* step of Destroy and a Decref of a caller lose one owner of one regexp,  *)
(* and are handled alike (lemma OneLess); what differs is only which owner *)
(* that is.                                                                *)
(***************************************************************************)

Types ==
  /\ alive \subseteq Node /\ IsFiniteSet(alive)
  /\ ref \in [Node -> 0 .. kMaxRef]
  /\ ref_map \in [DOMAIN ref_map -> Nat]
  /\ sub \in [Node -> Seq(Node \cup {NULL})]
  /\ \A x \in Node : Len(sub[x]) <= MaxSubs
  /\ stack \in Seq(Node)
  /\ held \in [Node -> Nat]

\* Where Destroy is.
Doing ==
  /\ at \in Nat \ {0}
  /\ re # NULL => re \in alive \ Waiting /\ at <= Len(sub[re]) + 1

\* The map has what did not fit, and nothing else.
Mapped ==
  /\ DOMAIN ref_map = {x \in alive : ref[x] = kMaxRef}
  /\ \A x \in DOMAIN ref_map : ref_map[x] >= kMaxRef

Pending ==
  /\ Waiting \subseteq alive
  /\ \A i, j \in 1 .. Len(stack) : stack[i] = stack[j] => i = j

Counted == \A x \in alive : Ref(x) = Owners(x) /\ (Ref(x) = 0 <=> x \in Waiting \cup {re})

\* Nobody refers to what is gone.
NoneDangle ==
  /\ \A x \in alive : \A k \in DOMAIN sub[x] :
       sub[x][k] \in alive \cup {NULL} \/ (x = re /\ k < at)
  /\ \A x \in Node : held[x] > 0 => x \in alive

CountInv == Types /\ Doing /\ Mapped /\ Pending /\ Counted /\ NoneDangle

-----------------------------------------------------------------------------
\* The entries that refer to x, and that Destroy has still to let go, are as
\* many as a natural number says.
LEMMA SlotsFinite ==
  ASSUME IsFiniteSet(alive), NEW x
  PROVE  IsFiniteSet(Slots(x)) /\ Cardinality(Slots(x)) \in Nat
  <1>1. IsFiniteSet(1 .. MaxSubs)
    BY FS_Interval, BoundsAssumption
  <1>2. IsFiniteSet(alive \X (1 .. MaxSubs))
    BY <1>1, FS_Product
  <1>3. Slots(x) \subseteq alive \X (1 .. MaxSubs)
    BY DEF Slots
  <1> QED
    BY <1>2, <1>3, FS_Subset, FS_CardinalityType

\* Which entries those are, said entry by entry.
LEMMA SlotsAre ==
  ASSUME Types, NEW x
  PROVE  Slots(x) = {e \in alive \X Nat : /\ e[2] \in DOMAIN sub[e[1]]
                                          /\ sub[e[1]][e[2]] = x
                                          /\ e[1] = re => at <= e[2]}
  <1>1. \A y \in alive : \A k \in DOMAIN sub[y] : k \in 1 .. MaxSubs
    <2> SUFFICES ASSUME NEW y \in alive, NEW k \in DOMAIN sub[y] PROVE k \in 1 .. MaxSubs
      OBVIOUS
    <2>1. sub[y] \in Seq(Node \cup {NULL}) /\ Len(sub[y]) <= MaxSubs
      BY DEF Types
    <2> QED
      BY <2>1, BoundsAssumption
  <1>2. 1 .. MaxSubs \subseteq Nat
    BY BoundsAssumption
  <1> QED
    BY <1>1, <1>2 DEF Slots

\* The count and the number of owners are numbers.
LEMMA Numbers ==
  ASSUME Types, NEW x \in alive
  PROVE  /\ x \in Node /\ x # NULL
         /\ ref[x] \in Nat /\ ref[x] <= kMaxRef
         /\ held[x] \in Nat /\ Cardinality(Slots(x)) \in Nat /\ Owners(x) \in Nat
  BY SlotsFinite, NodeAssumption, BoundsAssumption DEF Types, Owners

\* The stack holds what waits, once each.
LEMMA StackIsSet ==
  ASSUME stack \in Seq(Node), \A i, j \in 1 .. Len(stack) : stack[i] = stack[j] => i = j
  PROVE  Cardinality(Waiting) = Len(stack)
  <1> DEFINE f == [k \in 1 .. Len(stack) |-> stack[k]]
  <1>1. Waiting = {stack[k] : k \in 1 .. Len(stack)}
    BY DEF Waiting
  <1>2. f \in [1 .. Len(stack) -> Waiting]
    BY <1>1
  <1>3. f \in Injection(1 .. Len(stack), Waiting)
    BY <1>2 DEF Injection, IsInjective
  <1>4. \A y \in Waiting : \E k \in 1 .. Len(stack) : f[k] = y
    BY <1>1
  <1>5. f \in Bijection(1 .. Len(stack), Waiting)
    BY <1>2, <1>3, <1>4 DEF Bijection, Surjection
  <1>6. \A n \in Nat : IsFiniteSet(1 .. n) /\ Cardinality(1 .. n) = n
    BY FS_Interval
  <1>7. Len(stack) \in Nat
    OBVIOUS
  <1> QED
    BY <1>5, <1>6, <1>7, FS_Bijection DEF ExistsBijection

LEMMA CountedMeans ==
  ASSUME CountInv
  PROVE  RefsCounted
  <1>1. Cardinality(Waiting) = Len(stack)
    BY StackIsSet DEF CountInv, Types, Pending
  <1> QED
    BY <1>1 DEF CountInv, Doing, Mapped, Pending, Counted, NoneDangle, RefsCounted

LEMMA NothingYet ==
  ASSUME RInit
  PROVE  CountInv
  <1>1. IsFiniteSet({})
    BY FS_EmptySet
  <1>2. Waiting = {}
    BY DEF RInit, Waiting
  <1>3. Types
    BY <1>1, BoundsAssumption DEF RInit, Types
  <1>4. Doing /\ Mapped /\ Pending /\ Counted /\ NoneDangle
    BY <1>2 DEF RInit, Doing, Mapped, Pending, Counted, NoneDangle
  <1> QED
    BY <1>3, <1>4 DEF CountInv
-----------------------------------------------------------------------------
(***************************************************************************)
(* One reference less.                                                     *)
(***************************************************************************)
\* What Less does to the count of a regexp that has owners, wherever the count
\* is: one less, and nothing to the others.
LEMMA LessCounts ==
  ASSUME CountInv, NEW x \in alive, Ref(x) > 0
  PROVE  LET h == Less(Heap, x)
         IN  /\ h.ref \in [Node -> 0 .. kMaxRef]
             /\ h.map \in [DOMAIN h.map -> Nat]
             /\ \A y \in Node \ {x} : h.ref[y] = ref[y]
             /\ DOMAIN h.map = {y \in alive : h.ref[y] = kMaxRef}
             /\ \A y \in DOMAIN h.map : h.map[y] >= kMaxRef
             /\ \A y \in DOMAIN h.map : y # x => h.map[y] = ref_map[y]
             /\ (IF h.ref[x] < kMaxRef THEN h.ref[x] ELSE h.map[x]) = Ref(x) - 1
             /\ h.alive = alive /\ h.stack = stack
  <1>1. /\ x \in Node /\ ref[x] \in 0 .. kMaxRef /\ ref \in [Node -> 0 .. kMaxRef]
        /\ ref_map \in [DOMAIN ref_map -> Nat] /\ kMaxRef \in Nat /\ kMaxRef > 1
        /\ DOMAIN ref_map = {y \in alive : ref[y] = kMaxRef}
        /\ \A y \in DOMAIN ref_map : ref_map[y] >= kMaxRef
        /\ alive \subseteq Node
    BY BoundsAssumption DEF CountInv, Types, Mapped
  <1>2. CASE ref[x] # kMaxRef
    <2>1. Less(Heap, x) = [alive |-> alive, ref |-> [ref EXCEPT ![x] = ref[x] - 1],
                           map |-> ref_map, stack |-> stack]
      BY <1>2 DEF Less, Heap
    <2>2. Ref(x) = ref[x] /\ ref[x] - 1 \in 0 .. kMaxRef /\ ref[x] - 1 < kMaxRef
      BY <1>1, <1>2 DEF Ref
    <2> QED
      BY <1>1, <1>2, <2>1, <2>2
  <1>3. CASE ref[x] = kMaxRef /\ ref_map[x] - 1 < kMaxRef
    <2> DEFINE m == [y \in DOMAIN ref_map \ {x} |-> ref_map[y]]
    <2>1. Less(Heap, x) = [alive |-> alive, ref |-> [ref EXCEPT ![x] = ref_map[x] - 1],
                           map |-> m, stack |-> stack]
      BY <1>3 DEF Less, LessInMap, Heap
    <2>2. Ref(x) = ref_map[x] /\ ref_map[x] - 1 \in 0 .. kMaxRef
      BY <1>1, <1>3 DEF Ref
    <2>3. /\ DOMAIN m = DOMAIN ref_map \ {x}
          /\ \A y \in DOMAIN m : m[y] = ref_map[y]
          /\ m \in [DOMAIN m -> Nat]
      BY <1>1
    <2> HIDE DEF m
    <2> QED
      BY <1>1, <1>3, <2>1, <2>2, <2>3
  <1>4. CASE ref[x] = kMaxRef /\ ~(ref_map[x] - 1 < kMaxRef)
    <2> DEFINE m == [ref_map EXCEPT ![x] = ref_map[x] - 1]
    <2>1. Less(Heap, x) = [alive |-> alive, ref |-> ref, map |-> m, stack |-> stack]
      BY <1>3, <1>4 DEF Less, LessInMap, Heap
    <2>2. Ref(x) = ref_map[x] /\ ref_map[x] \in Nat /\ x \in DOMAIN ref_map
      BY <1>1, <1>4 DEF Ref
    <2>3. /\ DOMAIN m = DOMAIN ref_map
          /\ \A y \in DOMAIN m : y # x => m[y] = ref_map[y]
          /\ m[x] = ref_map[x] - 1 /\ ref_map[x] - 1 >= kMaxRef
          /\ m \in [DOMAIN m -> Nat]
      BY <1>1, <1>4, <2>2
    <2> HIDE DEF m
    <2> QED
      BY <1>1, <1>4, <2>1, <2>2, <2>3
  <1> QED
    BY <1>2, <1>3, <1>4

\* A step that gives up one reference to x leaves the counts of the others
\* alone, and deletes x or puts it on the stack exactly if nothing is left.
LEMMA ReleasedCounts ==
  ASSUME CountInv, NEW x \in alive, Ref(x) > 0, Becomes(Released(Heap, x))
  PROVE  /\ ref' \in [Node -> 0 .. kMaxRef]
         /\ ref_map' \in [DOMAIN ref_map' -> Nat]
         /\ DOMAIN ref_map' = {y \in alive : ref'[y] = kMaxRef}
         /\ \A y \in DOMAIN ref_map' : ref_map'[y] >= kMaxRef
         /\ \A y \in alive \ {x} : Ref(y)' = Ref(y)
         /\ Ref(x)' = Ref(x) - 1
         /\ Ref(x)' # 0 => alive' = alive /\ stack' = stack
         /\ Ref(x)' = 0 /\ sub[x] = << >> => alive' = alive \ {x} /\ stack' = stack
         /\ Ref(x)' = 0 /\ sub[x] # << >> => alive' = alive /\ stack' = <<x>> \o stack
  <1> DEFINE h == Less(Heap, x)
  <1>1. /\ x \in Node /\ x # NULL /\ alive \subseteq Node /\ kMaxRef \in Nat /\ kMaxRef > 1
        /\ DOMAIN ref_map = {y \in alive : ref[y] = kMaxRef}
        /\ ref \in [Node -> 0 .. kMaxRef] /\ Ref(x) \in Nat
    BY NodeAssumption, BoundsAssumption DEF CountInv, Types, Mapped, Ref
  <1>2. /\ h.ref \in [Node -> 0 .. kMaxRef]
        /\ h.map \in [DOMAIN h.map -> Nat]
        /\ \A y \in Node \ {x} : h.ref[y] = ref[y]
        /\ DOMAIN h.map = {y \in alive : h.ref[y] = kMaxRef}
        /\ \A y \in DOMAIN h.map : h.map[y] >= kMaxRef
        /\ \A y \in DOMAIN h.map : y # x => h.map[y] = ref_map[y]
        /\ (IF h.ref[x] < kMaxRef THEN h.ref[x] ELSE h.map[x]) = Ref(x) - 1
        /\ h.alive = alive /\ h.stack = stack
    BY LessCounts
  <1>3. \E al, st : h = [alive |-> al, ref |-> h.ref, map |-> h.map, stack |-> st]
    <2>1. CASE ref[x] # kMaxRef
      BY <2>1 DEF Less, Heap
    <2>2. CASE ref[x] = kMaxRef
      BY <2>2 DEF Less, LessInMap, Heap
    <2> QED
      BY <2>1, <2>2
  <1> HIDE DEF h
  <1>4. Released(Heap, x) = IF h.ref[x] = 0 THEN Unreferenced(h, x) ELSE h
    BY <1>1 DEF Released, h
  <1>5. /\ ref' = h.ref /\ ref_map' = h.map
        /\ h.ref[x] # 0 => alive' = alive /\ stack' = stack
        /\ h.ref[x] = 0 /\ sub[x] = << >> => alive' = alive \ {x} /\ stack' = stack
        /\ h.ref[x] = 0 /\ sub[x] # << >> => alive' = alive /\ stack' = <<x>> \o stack
    BY <1>2, <1>3, <1>4 DEF Becomes, Unreferenced
  <1>6. Ref(x)' = Ref(x) - 1 /\ (Ref(x)' = 0 <=> h.ref[x] = 0)
    BY <1>1, <1>2, <1>5 DEF Ref
  <1>7. \A y \in alive \ {x} : Ref(y)' = Ref(y)
    BY <1>1, <1>2, <1>5 DEF Ref
  <1> QED
    BY <1>2, <1>5, <1>6, <1>7
\* With that, whatever step gives the reference up leaves the counts right: the
\* one owner that x loses is all that may change, and entries that x is gone from
\* are those that Destroy has let go.
LEMMA OneLess ==
  ASSUME CountInv, NEW x \in alive, Ref(x) > 0, Becomes(Released(Heap, x)),
         x # re, sub' = sub, re' = re, held' \in [Node -> Nat],
         at' \in Nat \ {0}, re # NULL => at <= at' /\ at' <= Len(sub[re]) + 1,
         \A y \in Node : held'[y] <= held[y],
         \A y \in alive : Owners(y)' = (IF y = x THEN Owners(y) - 1 ELSE Owners(y))
  PROVE  CountInv'
  <1>1. /\ ref' \in [Node -> 0 .. kMaxRef]
        /\ ref_map' \in [DOMAIN ref_map' -> Nat]
        /\ DOMAIN ref_map' = {y \in alive : ref'[y] = kMaxRef}
        /\ \A y \in DOMAIN ref_map' : ref_map'[y] >= kMaxRef
        /\ \A y \in alive \ {x} : Ref(y)' = Ref(y)
        /\ Ref(x)' = Ref(x) - 1
        /\ Ref(x)' # 0 => alive' = alive /\ stack' = stack
        /\ Ref(x)' = 0 /\ sub[x] = << >> => alive' = alive \ {x} /\ stack' = stack
        /\ Ref(x)' = 0 /\ sub[x] # << >> => alive' = alive /\ stack' = <<x>> \o stack
    BY ReleasedCounts
  <1>2. x \notin Waiting \cup {re} /\ Ref(x) = Owners(x)
    BY DEF CountInv, Counted
  <1>3. alive' \subseteq alive /\ IsFiniteSet(alive') /\ alive \ alive' \subseteq {x}
    BY <1>1, FS_RemoveElement DEF CountInv, Types
  <1>4. x \in Node /\ x # NULL /\ alive \subseteq Node /\ Waiting \subseteq alive
    BY NodeAssumption DEF CountInv, Types, Pending
  <1>5. /\ Types'
        /\ x \in alive' => Waiting' \subseteq Waiting \cup {x}
        /\ x \notin alive' => Waiting' = Waiting
        /\ Waiting \subseteq Waiting'
        /\ \A i, j \in 1 .. Len(stack') : stack'[i] = stack'[j] => i = j
        /\ Ref(x)' = 0 /\ x \in alive' <=> x \in Waiting'
    <2>1. CASE stack' = stack /\ (Ref(x)' # 0 \/ x \notin alive')
      BY <2>1, <1>1, <1>2, <1>3, SMTT(30) DEF CountInv, Types, Pending, Waiting
    <2>2. CASE stack' = <<x>> \o stack /\ alive' = alive /\ Ref(x)' = 0
      <3>1. stack \in Seq(Node)
        BY DEF CountInv, Types
      <3>2. /\ Len(stack') = Len(stack) + 1 /\ Len(stack) \in Nat /\ stack' \in Seq(Node)
            /\ stack'[1] = x
            /\ \A k \in 1 .. Len(stack) : stack'[k + 1] = stack[k]
            /\ \A k \in 2 .. Len(stack) + 1 : stack'[k] = stack[k - 1]
        BY <3>1, <2>2, <1>4
      <3>3. Waiting' = Waiting \cup {x}
        <4>1. \A k \in DOMAIN stack' : stack'[k] \in Waiting \cup {x}
          <5> TAKE k \in DOMAIN stack'
          <5>0. DOMAIN stack' = 1 .. Len(stack) + 1 /\ DOMAIN stack = 1 .. Len(stack)
            BY <3>1, <3>2
          <5>1. k = 1 \/ (k - 1 \in DOMAIN stack /\ stack'[k] = stack[k - 1])
            BY <5>0, <3>2
          <5> QED
            BY <5>1, <3>2 DEF Waiting
        <4>2. \A k \in DOMAIN stack : stack[k] \in Waiting'
          <5> TAKE k \in DOMAIN stack
          <5>1. k \in 1 .. Len(stack) /\ k + 1 \in DOMAIN stack'
            BY <3>1, <3>2, SMTT(30)
          <5> QED
            BY <5>1, <3>2 DEF Waiting
        <4>3. x \in Waiting'
          <5>1. 1 \in DOMAIN stack'
            BY <3>2
          <5> QED
            BY <5>1, <3>2 DEF Waiting
        <4> QED
          BY <4>1, <4>2, <4>3 DEF Waiting
      <3>4. \A i, j \in 1 .. Len(stack') : stack'[i] = stack'[j] => i = j
        <4>1. \A i, j \in 1 .. Len(stack) : stack[i] = stack[j] => i = j
          BY DEF CountInv, Pending
        <4>2. \A k \in 1 .. Len(stack) : stack[k] # x
          BY <3>1, <1>2 DEF Waiting
        <4> SUFFICES ASSUME NEW i \in 1 .. Len(stack'), NEW j \in 1 .. Len(stack'),
                            stack'[i] = stack'[j]
                     PROVE  i = j
          OBVIOUS
        <4>3. \A k \in 1 .. Len(stack') :
                k = 1 \/ (k - 1 \in 1 .. Len(stack) /\ stack'[k] = stack[k - 1])
          BY <3>2, SMTT(30)
        <4>4. CASE i = 1 \/ j = 1
          <5>1. CASE i = 1
            BY <4>2, <4>3, <5>1, <3>2
          <5>2. CASE j = 1
            BY <4>2, <4>3, <5>2, <3>2
          <5> QED
            BY <4>4, <5>1, <5>2
        <4>5. CASE i # 1 /\ j # 1
          <5>1. i - 1 = j - 1
            BY <4>1, <4>3, <4>5
          <5> QED
            BY <5>1
        <4> QED
          BY <4>4, <4>5
      <3>5. Types'
        BY <3>2, <2>2, <1>1, <1>3 DEF CountInv, Types
      <3> QED
        BY <3>3, <3>4, <3>5, <2>2, <1>2
    <2>3. Ref(x) \in Nat /\ Ref(x) > 0
      BY <1>2, Numbers DEF CountInv
    <2> QED
      BY <2>1, <2>2, <1>1, <1>3
  <1>6. Doing'
    BY <1>2, <1>3, <1>5 DEF CountInv, Doing
  <1>7. Mapped'
    <2>1. x \notin alive' => ref'[x] # kMaxRef
      BY <1>1, BoundsAssumption DEF Ref
    <2> QED
      BY <2>1, <1>1, <1>3 DEF Mapped
  <1>8. Pending'
    BY <1>3, <1>5, <1>2, <1>4 DEF Pending
  <1>9. Counted'
    <2>1. \A y \in alive' : Ref(y)' = Owners(y)'
      BY <1>1, <1>2, <1>3 DEF CountInv, Counted
    <2>2. \A y \in alive' : Ref(y)' = 0 <=> y \in Waiting' \cup {re'}
      BY <1>1, <1>2, <1>3, <1>5 DEF CountInv, Counted
    <2> QED
      BY <2>1, <2>2 DEF Counted
  <1>10. ASSUME x \notin alive'
         PROVE  /\ held'[x] = 0
                /\ \A y \in alive' : \A k \in DOMAIN sub[y] :
                     sub[y][k] = x => y = re /\ k < at'
    <2>1. Ref(x)' = 0
      BY <1>1, <1>10
    <2>2. Owners(x)' = 0
      BY <2>1, <1>1, <1>2
    <2>3. IsFiniteSet(Slots(x)') /\ Cardinality(Slots(x)') \in Nat
      <3>1. IsFiniteSet(1 .. MaxSubs)
        BY FS_Interval, BoundsAssumption
      <3>2. IsFiniteSet(alive' \X (1 .. MaxSubs))
        BY <1>3, <3>1, FS_Product
      <3>3. Slots(x)' \subseteq alive' \X (1 .. MaxSubs)
        BY DEF Slots
      <3> QED
        BY <3>2, <3>3, FS_Subset, FS_CardinalityType
    <2>4. held'[x] = 0 /\ Slots(x)' = {}
      <3>1. held'[x] \in Nat
        BY <1>4
      <3> QED
        BY <3>1, <2>2, <2>3, FS_EmptySet DEF Owners
    <2> SUFFICES ASSUME NEW y \in alive', NEW k \in DOMAIN sub[y], sub[y][k] = x
                 PROVE  y = re /\ k < at'
      BY <2>4
    <2>5. k \in 1 .. MaxSubs
      <3>1. sub[y] \in Seq(Node \cup {NULL}) /\ Len(sub[y]) <= MaxSubs
        BY <1>3, <1>4 DEF CountInv, Types
      <3> QED
        BY <3>1, BoundsAssumption
    <2>6. ASSUME y = re => at' <= k
          PROVE  <<y, k>> \in Slots(x)'
      <3> DEFINE e == <<y, k>>
      <3>1. e \in alive' \X (1 .. MaxSubs) /\ e[1] = y /\ e[2] = k
        BY <2>5
      <3> HIDE DEF e
      <3>2. e \in Slots(x)'
        BY <3>1, <2>6 DEF Slots
      <3> QED
        BY <3>2 DEF e
    <2> QED
      BY <2>4, <2>5, <2>6, BoundsAssumption
  <1>11. NoneDangle'
    <2>1. \A y \in alive' : \A k \in DOMAIN sub'[y] :
            sub'[y][k] \in alive' \cup {NULL} \/ (y = re' /\ k < at')
      <3> SUFFICES ASSUME NEW y \in alive', NEW k \in DOMAIN sub[y],
                          sub[y][k] \notin alive' \cup {NULL}
                   PROVE  y = re /\ k < at'
        OBVIOUS
      <3>1. CASE sub[y][k] = x
        BY <3>1, <1>10, <1>4
      <3>2. CASE sub[y][k] # x
        <4>1. sub[y][k] \notin alive \cup {NULL}
          BY <3>2, <1>3
        <4>2. y = re /\ k < at
          BY <4>1, <1>3 DEF CountInv, NoneDangle
        <4>3. k \in Nat /\ at \in Nat /\ re # NULL
          <5>1. sub[y] \in Seq(Node \cup {NULL})
            BY <1>3 DEF CountInv, Types
          <5>2. y # NULL
            BY <1>3, <1>4, NodeAssumption
          <5> QED
            BY <5>1, <5>2, <4>2 DEF CountInv, Doing
        <4> QED
          BY <4>2, <4>3
      <3> QED
        BY <3>1, <3>2
    <2>2. \A y \in Node : held'[y] > 0 => y \in alive'
      <3> SUFFICES ASSUME NEW y \in Node, held'[y] > 0 PROVE y \in alive'
        OBVIOUS
      <3>1. held[y] \in Nat /\ held'[y] \in Nat
        BY DEF CountInv, Types
      <3>2. y \in alive
        BY <3>1 DEF CountInv, NoneDangle
      <3> QED
        BY <3>2, <1>3, <1>10
    <2> QED
      BY <2>1, <2>2 DEF NoneDangle
  <1> QED
    BY <1>5, <1>6, <1>7, <1>8, <1>9, <1>11 DEF CountInv
-----------------------------------------------------------------------------
(***************************************************************************)
(* The steps, one lemma for each.                                          *)
(***************************************************************************)
\* The entries of a regexp that is freed at once refer to nobody: it has none.
LEMMA FreedAtOnce ==
  ASSUME CountInv, NEW x \in alive, Ref(x) > 0, Becomes(Released(Heap, x))
  PROVE  alive' \subseteq alive /\ \A y \in alive : y \in alive' \/ DOMAIN sub[y] = {}
  <1>1. alive' = alive \/ (alive' = alive \ {x} /\ sub[x] = << >>)
    BY ReleasedCounts
  <1>2. DOMAIN << >> = {}
    OBVIOUS
  <1> QED
    BY <1>1, <1>2

LEMMA DecrefKeeps ==
  ASSUME CountInv, NEW x \in Node, Decref(x)
  PROVE  CountInv'
  <1>1. /\ re = NULL /\ stack = << >> /\ held[x] > 0 /\ held' = [held EXCEPT ![x] = @ - 1]
        /\ Becomes(Released(Heap, x)) /\ sub' = sub /\ re' = re /\ at' = at
    BY DEF Decref, Returned
  <1>2. /\ x \in alive /\ x # re /\ held \in [Node -> Nat] /\ alive \subseteq Node
        /\ at \in Nat \ {0}
    BY <1>1, NodeAssumption DEF CountInv, Types, NoneDangle, Doing
  <1>3. Ref(x) = Owners(x) /\ Ref(x) > 0
    BY <1>1, <1>2, Numbers DEF CountInv, Counted, Owners
  <1>4. \A y : Slots(y)' = Slots(y)
    BY <1>1, <1>2, <1>3, FreedAtOnce DEF Slots
  <1>5. \A y \in alive : Owners(y)' = (IF y = x THEN Owners(y) - 1 ELSE Owners(y))
    <2> TAKE y \in alive
    <2>1. held[y] \in Nat /\ Cardinality(Slots(y)) \in Nat /\ y \in Node
      BY Numbers DEF CountInv
    <2>2. held'[y] = IF y = x THEN held[y] - 1 ELSE held[y]
      BY <1>1, <1>2, <2>1
    <2> QED
      BY <1>4, <2>1, <2>2 DEF Owners
  <1>6. held' \in [Node -> Nat] /\ \A y \in Node : held'[y] <= held[y]
    BY <1>1, <1>2
  <1> QED
    BY <1>1, <1>2, <1>3, <1>5, <1>6, OneLess

LEMMA PopKeeps ==
  ASSUME CountInv, Pop
  PROVE  CountInv'
  <1>1. /\ re = NULL /\ stack \in Seq(Node) /\ stack # << >> /\ Waiting \subseteq alive
        /\ re' = Head(stack) /\ at' = 1 /\ stack' = Tail(stack)
        /\ alive' = alive /\ ref' = ref /\ ref_map' = ref_map /\ sub' = sub /\ held' = held
        /\ \A i, j \in 1 .. Len(stack) : stack[i] = stack[j] => i = j
        /\ alive \subseteq Node
    BY DEF Pop, CountInv, Types, Pending
  <1>2. /\ Len(stack') = Len(stack) - 1 /\ Len(stack) \in Nat \ {0} /\ stack' \in Seq(Node)
        /\ re' = stack[1]
        /\ \A k \in 1 .. Len(stack) - 1 : stack'[k] = stack[k + 1]
    BY <1>1
  <1>3. re' \in Waiting
    BY <1>1, <1>2 DEF Waiting
  <1>4. re' \in alive /\ re' \in Node /\ re' # NULL
    BY <1>1, <1>3, NodeAssumption
  <1>5. Waiting' = Waiting \ {re'}
    <2>1. DOMAIN stack' = 1 .. Len(stack) - 1 /\ DOMAIN stack = 1 .. Len(stack)
      BY <1>1, <1>2
    <2>2. \A k \in DOMAIN stack' : stack'[k] \in Waiting \ {re'}
      <3> TAKE k \in DOMAIN stack'
      <3>1. k + 1 \in 1 .. Len(stack) /\ 1 \in 1 .. Len(stack) /\ k + 1 # 1
        BY <2>1, <1>2
      <3>2. stack[k + 1] # stack[1]
        BY <3>1, <1>1
      <3> QED
        BY <3>1, <3>2, <2>1, <1>2 DEF Waiting
    <2>3. \A k \in DOMAIN stack : stack[k] # re' => stack[k] \in Waiting'
      <3> TAKE k \in DOMAIN stack
      <3>1. k = 1 \/ (k - 1 \in DOMAIN stack' /\ stack'[k - 1] = stack[k])
        BY <2>1, <1>2
      <3> QED
        BY <3>1, <1>2 DEF Waiting
    <2> QED
      BY <2>2, <2>3 DEF Waiting
  <1>6. \A y : Slots(y)' = Slots(y)
    <2>1. \A y \in alive : y # re
      BY <1>1, NodeAssumption
    <2>2. \A k \in 1 .. MaxSubs : 1 <= k
      BY BoundsAssumption
    <2> QED
      BY <1>1, <2>1, <2>2 DEF Slots
  <1>7. Types' /\ Mapped'
    BY <1>1, <1>2 DEF CountInv, Types, Mapped
  <1>8. Doing'
    <2>1. Len(sub[re']) \in Nat
      BY <1>4 DEF CountInv, Types
    <2> QED
      BY <1>1, <1>4, <1>5, <2>1 DEF Doing
  <1>9. Pending'
    <2>1. \A i, j \in 1 .. Len(stack') : stack'[i] = stack'[j] => i = j
      <3> SUFFICES ASSUME NEW i \in 1 .. Len(stack'), NEW j \in 1 .. Len(stack'),
                          stack'[i] = stack'[j]
                   PROVE  i = j
        OBVIOUS
      <3>1. i + 1 \in 1 .. Len(stack) /\ j + 1 \in 1 .. Len(stack)
        BY <1>2
      <3>2. stack[i + 1] = stack[j + 1]
        BY <1>2
      <3>3. i + 1 = j + 1
        BY <3>1, <3>2, <1>1
      <3> QED
        BY <3>3
    <2> QED
      BY <2>1, <1>1, <1>5 DEF Pending
  <1>10. Counted'
    BY <1>1, <1>3, <1>5, <1>6, NodeAssumption DEF CountInv, Counted, Owners, Ref
  <1>11. NoneDangle'
    BY <1>1, NodeAssumption DEF CountInv, NoneDangle
  <1> QED
    BY <1>7, <1>8, <1>9, <1>10, <1>11 DEF CountInv
LEMMA ReleaseSubKeeps ==
  ASSUME CountInv, ReleaseSub
  PROVE  CountInv'
  <1>0. PICK x : x = sub[re][at]
    OBVIOUS
  <1>1. /\ re # NULL /\ at <= Len(sub[re]) /\ Becomes(Released(Heap, x))
        /\ at' = at + 1 /\ sub' = sub /\ re' = re /\ held' = held
    BY <1>0 DEF ReleaseSub
  <1>2. /\ re \in alive /\ re \in Node /\ re \notin Waiting /\ at \in Nat \ {0}
        /\ sub[re] \in Seq(Node \cup {NULL}) /\ Len(sub[re]) <= MaxSubs
        /\ held \in [Node -> Nat] /\ alive \subseteq Node
    BY <1>1 DEF CountInv, Types, Doing
  <1>3. /\ at \in DOMAIN sub[re] /\ at \in 1 .. MaxSubs /\ Len(sub[re]) \in Nat
        /\ at' \in Nat \ {0} /\ at <= at' /\ at' <= Len(sub[re]) + 1
    BY <1>1, <1>2, BoundsAssumption
  <1> DEFINE e == <<re, at>>
  <1>4. e \in alive \X (1 .. MaxSubs) /\ e[1] = re /\ e[2] = at
    BY <1>2, <1>3
  <1>5. \A k \in 1 .. MaxSubs : at' <= k <=> (at <= k /\ k # at)
    BY <1>1, <1>2, BoundsAssumption
  <1>6. \A d \in alive \X (1 .. MaxSubs) :
          d # e <=> ~(d[1] = re /\ d[2] = at)
    BY <1>4
  <1>7. CASE x = NULL
    <2>1. alive' = alive /\ ref' = ref /\ ref_map' = ref_map /\ stack' = stack
      BY <1>1, <1>7 DEF Released, Becomes, Heap
    <2>2. \A y \in Node : Slots(y)' = Slots(y)
      BY <1>0, <1>1, <1>5, <1>7, <2>1, NodeAssumption DEF Slots
    <2>3. Types' /\ Mapped'
      BY <1>1, <2>1 DEF CountInv, Types, Mapped
    <2>4. Doing' /\ Pending'
      BY <1>1, <1>2, <1>3, <2>1 DEF CountInv, Doing, Pending, Waiting
    <2>5. Counted'
      BY <1>1, <1>2, <2>1, <2>2 DEF CountInv, Counted, Owners, Ref, Waiting
    <2>6. NoneDangle'
      <3>1. \A y \in alive : \A k \in DOMAIN sub[y] : k \in Nat
        BY <1>2 DEF CountInv, Types
      <3> QED
        BY <1>0, <1>1, <1>2, <1>7, <2>1, <3>1 DEF CountInv, NoneDangle
    <2> QED
      BY <2>3, <2>4, <2>5, <2>6 DEF CountInv
  <1>8. CASE x # NULL
    <2>1. x \in alive
      <3>1. sub[re][at] \in alive \cup {NULL} \/ at < at
        BY <1>2, <1>3 DEF CountInv, NoneDangle
      <3> QED
        BY <1>0, <1>2, <1>8, <3>1
    <2>2. e \in Slots(x)
      BY <1>0, <1>2, <1>3, <1>4 DEF Slots
    <2> HIDE DEF e
    <2>3. Ref(x) = Owners(x) /\ Ref(x) > 0
      <3>1. Cardinality(Slots(x)) > 0 /\ IsFiniteSet(Slots(x)) /\ Cardinality(Slots(x)) \in Nat
        <4>1. IsFiniteSet(alive)
          BY DEF CountInv, Types
        <4> QED
          BY <2>2, <4>1, SlotsFinite, FS_EmptySet
      <3> QED
        BY <2>1, <3>1, Numbers DEF CountInv, Counted, Owners
    <2>4. x # re
      BY <2>1, <2>3 DEF CountInv, Counted
    <2>5. \A y : y # x => Slots(y)' = Slots(y)
      BY <1>1, <1>2, <1>5, <2>1, <2>3, FreedAtOnce, <1>0 DEF Slots
    <2>6. Slots(x)' = Slots(x) \ {e}
      <3>1. \A d : d \in Slots(x)' <=> d \in Slots(x) /\ ~(d[1] = re /\ d[2] = at)
        BY <1>1, <1>2, <1>5, <2>1, <2>3, FreedAtOnce DEF Slots
      <3>2. \A d \in Slots(x) : d # e <=> ~(d[1] = re /\ d[2] = at)
        BY <1>6 DEF Slots
      <3> QED
        BY <3>1, <3>2
    <2>7. Cardinality(Slots(x)') = Cardinality(Slots(x)) - 1
      <3>1. IsFiniteSet(Slots(x))
        BY SlotsFinite DEF CountInv, Types
      <3> QED
        BY <2>2, <2>6, <3>1, FS_RemoveElement
    <2>8. \A y \in alive : Owners(y)' = (IF y = x THEN Owners(y) - 1 ELSE Owners(y))
      <3> TAKE y \in alive
      <3>1. held[y] \in Nat /\ Cardinality(Slots(y)) \in Nat
        BY Numbers DEF CountInv
      <3> QED
        BY <1>1, <2>5, <2>7, <3>1 DEF Owners
    <2>9. held' \in [Node -> Nat] /\ \A y \in Node : held'[y] <= held[y]
      BY <1>1, <1>2
    <2> QED
      BY <1>1, <1>3, <2>1, <2>3, <2>4, <2>8, <2>9, OneLess
  <1> QED
    BY <1>7, <1>8

LEMMA DeleteKeeps ==
  ASSUME CountInv, Delete
  PROVE  CountInv'
  <1>1. /\ re # NULL /\ at > Len(sub[re])
        /\ alive' = alive \ {re} /\ sub' = [sub EXCEPT ![re] = << >>]
        /\ re' = NULL /\ at' = 1
        /\ ref' = ref /\ ref_map' = ref_map /\ stack' = stack /\ held' = held
    BY DEF Delete
  <1>2. /\ re \in alive /\ re \in Node /\ re \notin Waiting /\ at \in Nat \ {0}
        /\ sub[re] \in Seq(Node \cup {NULL}) /\ alive \subseteq Node
        /\ held \in [Node -> Nat] /\ Waiting' = Waiting
    BY <1>1 DEF CountInv, Types, Doing, Waiting
  <1>3. /\ sub' \in [Node -> Seq(Node \cup {NULL})]
        /\ \A y \in alive' : sub'[y] = sub[y] /\ y # re /\ y \in alive /\ y # NULL
        /\ Len(sub'[re]) = 0
    BY <1>1, <1>2, NodeAssumption DEF CountInv, Types
  <1>4. \A y : Slots(y)' = Slots(y)
    <2>1. \A k \in DOMAIN sub[re] : ~(at <= k)
      BY <1>1, <1>2
    <2>2. \A y, d : d \in Slots(y) => d[1] \in alive'
      BY <1>1, <2>1 DEF Slots
    <2>3. \A y, d : d \in Slots(y)' => d \in Slots(y)
      BY <1>1, <1>3 DEF Slots
    <2>4. \A y, d : d \in Slots(y) => d \in Slots(y)'
      BY <1>1, <1>3, <2>2 DEF Slots
    <2> QED
      BY <2>3, <2>4 DEF Slots
  <1>5. Ref(re) = 0 /\ held[re] = 0 /\ Slots(re) = {}
    <2>1. Ref(re) = 0 /\ Owners(re) = 0
      BY <1>2 DEF CountInv, Counted
    <2>2. held[re] \in Nat /\ Cardinality(Slots(re)) \in Nat /\ IsFiniteSet(Slots(re))
      BY <1>2, Numbers, SlotsFinite DEF CountInv, Types
    <2> QED
      BY <2>1, <2>2, FS_EmptySet DEF Owners
  <1>6. Types'
    <2>1. IsFiniteSet(alive')
      BY <1>1, FS_RemoveElement DEF CountInv, Types
    <2>2. \A x \in Node : Len(sub'[x]) <= MaxSubs
      BY <1>1, <1>2, BoundsAssumption DEF CountInv, Types
    <2> QED
      BY <1>1, <1>3, <2>1, <2>2 DEF CountInv, Types
  <1>7. Doing'
    BY <1>1 DEF Doing
  <1>8. Mapped'
    <2>1. ref[re] # kMaxRef
      BY <1>2, <1>5, BoundsAssumption DEF CountInv, Mapped, Ref
    <2> QED
      BY <1>1, <2>1 DEF CountInv, Mapped
  <1>9. Pending'
    BY <1>1, <1>2 DEF CountInv, Pending
  <1>10. Counted'
    BY <1>1, <1>2, <1>3, <1>4 DEF CountInv, Counted, Owners, Ref
  <1>11. NoneDangle'
    <2>1. \A y \in alive' : \A k \in DOMAIN sub[y] : sub[y][k] # re
      <3> SUFFICES ASSUME NEW y \in alive', NEW k \in DOMAIN sub[y], sub[y][k] = re
                   PROVE  FALSE
        OBVIOUS
      <3>1. k \in 1 .. MaxSubs
        <4>1. sub[y] \in Seq(Node \cup {NULL}) /\ Len(sub[y]) <= MaxSubs
          BY <1>2, <1>3 DEF CountInv, Types
        <4> QED
          BY <4>1, BoundsAssumption
      <3> DEFINE d == <<y, k>>
      <3>2. d \in alive \X (1 .. MaxSubs) /\ d[1] = y /\ d[2] = k
        BY <1>3, <3>1
      <3> HIDE DEF d
      <3>3. d \in Slots(re)
        BY <1>3, <3>2 DEF Slots
      <3> QED
        BY <3>3, <1>5
    <2> QED
      BY <1>1, <1>3, <1>5, <2>1 DEF CountInv, NoneDangle
  <1> QED
    BY <1>6, <1>7, <1>8, <1>9, <1>10, <1>11 DEF CountInv
\* While Destroy is not at work, entries lead to what is alive.
LEMMA EntriesLead ==
  ASSUME CountInv, Returned
  PROVE  /\ Waiting = {} /\ \A y \in alive : Ref(y) > 0
         /\ \A y \in alive : \A k \in DOMAIN sub[y] : sub[y][k] \in alive \cup {NULL}
         /\ Reachable \subseteq alive
  <1>1. re = NULL /\ Waiting = {} /\ alive \subseteq Node
    BY DEF Returned, Waiting, CountInv, Types
  <1>2. \A y \in alive : Ref(y) > 0
    BY <1>1, Numbers, NodeAssumption DEF CountInv, Counted
  <1>3. \A y \in alive : \A k \in DOMAIN sub[y] : sub[y][k] \in alive \cup {NULL}
    BY <1>1, NodeAssumption DEF CountInv, NoneDangle
  <1>4. \A S : S \subseteq alive => Below(S) \subseteq alive
    BY <1>1, <1>3, NodeAssumption DEF Below
  <1>5. {x \in Node : held[x] > 0} \subseteq alive
    BY DEF CountInv, NoneDangle
  <1> QED
    BY <1>1, <1>2, <1>3, <1>4, <1>5 DEF Reachable

LEMMA IncrefKeeps ==
  ASSUME CountInv, NEW x \in Node, Incref(x)
  PROVE  CountInv'
  <1>1. /\ Returned /\ x \in Reachable /\ held' = [held EXCEPT ![x] = @ + 1]
        /\ alive' = alive /\ sub' = sub /\ stack' = stack /\ re' = re /\ at' = at
    BY DEF Incref
  <1>2. /\ x \in alive /\ x # NULL /\ Waiting = {} /\ re = NULL /\ Waiting' = {}
        /\ \A y \in alive : Ref(y) > 0
        /\ alive \subseteq Node /\ kMaxRef \in Nat /\ kMaxRef > 1
    BY <1>1, EntriesLead, NodeAssumption, BoundsAssumption, SMTT(30) DEF CountInv, Types, Returned, Waiting
  <1>3. /\ ref \in [Node -> 0 .. kMaxRef] /\ ref_map \in [DOMAIN ref_map -> Nat]
        /\ DOMAIN ref_map = {y \in alive : ref[y] = kMaxRef}
        /\ \A y \in DOMAIN ref_map : ref_map[y] >= kMaxRef
        /\ held \in [Node -> Nat]
    BY DEF CountInv, Types, Mapped
  <1>4. /\ ref' \in [Node -> 0 .. kMaxRef] /\ ref_map' \in [DOMAIN ref_map' -> Nat]
        /\ DOMAIN ref_map' = {y \in alive : ref'[y] = kMaxRef}
        /\ \A y \in DOMAIN ref_map' : ref_map'[y] >= kMaxRef
        /\ \A y \in alive : Ref(y)' = (IF y = x THEN Ref(y) + 1 ELSE Ref(y))
    <2>1. CASE ref[x] = kMaxRef
      <3>1. ref' = ref /\ ref_map' = [ref_map EXCEPT ![x] = @ + 1] /\ x \in DOMAIN ref_map
        BY <1>2, <1>3, <2>1 DEF Incref
      <3>2. /\ DOMAIN ref_map' = DOMAIN ref_map /\ ref_map[x] \in Nat
            /\ ref_map'[x] = ref_map[x] + 1
            /\ \A y \in DOMAIN ref_map : y # x => ref_map'[y] = ref_map[y]
        BY <1>3, <3>1
      <3>3. ref_map' \in [DOMAIN ref_map' -> Nat]
        BY <1>3, <3>1
      <3> QED
        BY <1>2, <1>3, <2>1, <3>1, <3>2, <3>3 DEF Ref
    <2>2. CASE ref[x] = kMaxRef - 1
      <3>1. /\ ref' = [ref EXCEPT ![x] = kMaxRef]
            /\ ref_map' = [y \in DOMAIN ref_map \cup {x} |->
                             IF y = x THEN kMaxRef ELSE ref_map[y]]
        BY <1>2, <2>2 DEF Incref
      <3>2. /\ DOMAIN ref_map' = DOMAIN ref_map \cup {x} /\ ref_map'[x] = kMaxRef
            /\ \A y \in DOMAIN ref_map : y # x => ref_map'[y] = ref_map[y]
        BY <3>1
      <3>3. ref_map' \in [DOMAIN ref_map' -> Nat]
        BY <1>2, <1>3, <3>1
      <3> QED
        BY <1>2, <1>3, <2>2, <3>1, <3>2, <3>3 DEF Ref
    <2>3. CASE ref[x] # kMaxRef /\ ref[x] # kMaxRef - 1
      <3>1. ref' = [ref EXCEPT ![x] = @ + 1] /\ ref_map' = ref_map
        BY <2>3 DEF Incref
      <3> QED
        BY <1>2, <1>3, <2>3, <3>1 DEF Ref
    <2> QED
      BY <2>1, <2>2, <2>3
  <1>5. \A y : Slots(y)' = Slots(y)
    BY <1>1 DEF Slots
  <1>6. \A y \in alive : Owners(y)' = (IF y = x THEN Owners(y) + 1 ELSE Owners(y))
    <2> TAKE y \in alive
    <2>1. held[y] \in Nat /\ Cardinality(Slots(y)) \in Nat /\ y \in Node
      BY Numbers DEF CountInv
    <2>2. held'[y] = IF y = x THEN held[y] + 1 ELSE held[y]
      BY <1>1, <1>3, <2>1
    <2> QED
      BY <1>5, <2>1, <2>2 DEF Owners
  <1>7. Types' /\ Doing' /\ Mapped' /\ Pending'
    BY <1>1, <1>2, <1>3, <1>4 DEF CountInv, Types, Doing, Mapped, Pending
  <1>8. Counted'
    <2> SUFFICES ASSUME NEW y \in alive
                 PROVE  Ref(y)' = Owners(y)' /\ Ref(y)' # 0 /\ y \notin Waiting' \cup {re'}
      BY <1>1 DEF Counted
    <2>1. Ref(y) = Owners(y) /\ Ref(y) > 0 /\ Owners(y) \in Nat /\ y # NULL
      BY <1>2, Numbers DEF CountInv, Counted
    <2> QED
      BY <1>1, <1>2, <1>4, <1>6, <2>1
  <1>9. NoneDangle'
    BY <1>1, <1>2, <1>3 DEF CountInv, NoneDangle
  <1> QED
    BY <1>7, <1>8, <1>9 DEF CountInv

LEMMA TakeOutKeeps ==
  ASSUME CountInv, NEW x \in Node, NEW k \in 1 .. MaxSubs, TakeOut(x, k)
  PROVE  CountInv'
  <1>0. PICK z : z = sub[x][k]
    OBVIOUS
  <1>1. /\ Returned /\ held[x] > 0 /\ k \in DOMAIN sub[x] /\ z # NULL
        /\ held' = [held EXCEPT ![z] = @ + 1] /\ sub' = [sub EXCEPT ![x][k] = NULL]
        /\ alive' = alive /\ ref' = ref /\ ref_map' = ref_map
        /\ stack' = stack /\ re' = re /\ at' = at
    BY <1>0 DEF TakeOut
  <1>2. /\ x \in alive /\ z \in alive /\ z \in Node /\ re = NULL
        /\ Waiting = {} /\ Waiting' = {} /\ \A y \in alive : Ref(y) > 0 /\ y # re
        /\ alive \subseteq Node /\ held \in [Node -> Nat]
        /\ sub \in [Node -> Seq(Node \cup {NULL})]
    BY <1>0, <1>1, EntriesLead, NodeAssumption, SMTT(30)
       DEF CountInv, Types, NoneDangle, Returned, Waiting
  <1>3. /\ sub' \in [Node -> Seq(Node \cup {NULL})]
        /\ \A y \in Node : Len(sub'[y]) = Len(sub[y]) /\ DOMAIN sub'[y] = DOMAIN sub[y]
        /\ \A y \in Node : \A j \in DOMAIN sub[y] :
             sub'[y][j] = IF y = x /\ j = k THEN NULL ELSE sub[y][j]
    <2>1. sub' = [sub EXCEPT ![x] = [sub[x] EXCEPT ![k] = NULL]]
      BY <1>1, <1>2
    <2>2. /\ [sub[x] EXCEPT ![k] = NULL] \in Seq(Node \cup {NULL})
          /\ Len([sub[x] EXCEPT ![k] = NULL]) = Len(sub[x])
          /\ DOMAIN [sub[x] EXCEPT ![k] = NULL] = DOMAIN sub[x]
      BY <1>1, <1>2
    <2> QED
      BY <2>1, <2>2, <1>1, <1>2
  <1> DEFINE e == <<x, k>>
  <1>4. /\ e \in alive \X (1 .. MaxSubs) /\ e[1] = x /\ e[2] = k
        /\ \A d \in alive \X (1 .. MaxSubs) : d # e <=> ~(d[1] = x /\ d[2] = k)
    BY <1>2
  <1>5. \A y \in Node : y # z => Slots(y)' = Slots(y)
    BY <1>0, <1>1, <1>2, <1>3, NodeAssumption DEF Slots
  <1>6. e \in Slots(z)
    BY <1>0, <1>1, <1>2, <1>4 DEF Slots
  <1> HIDE DEF e
  <1>7. Slots(z)' = Slots(z) \ {e}
    <2>1. \A d : d \in Slots(z)' <=> d \in Slots(z) /\ ~(d[1] = x /\ d[2] = k)
      BY <1>1, <1>2, <1>3, NodeAssumption DEF Slots
    <2>2. \A d \in Slots(z) : d # e <=> ~(d[1] = x /\ d[2] = k)
      BY <1>4 DEF Slots
    <2> QED
      BY <2>1, <2>2
  <1>8. /\ Cardinality(Slots(z)') = Cardinality(Slots(z)) - 1
        /\ Cardinality(Slots(z)) \in Nat
    <2>1. IsFiniteSet(Slots(z)) /\ Cardinality(Slots(z)) \in Nat
      BY SlotsFinite DEF CountInv, Types
    <2> QED
      BY <1>6, <1>7, <2>1, FS_RemoveElement
  <1>9. \A y \in alive : Owners(y)' = Owners(y)
    <2> TAKE y \in alive
    <2>1. held[y] \in Nat /\ y \in Node /\ held'[y] = IF y = z THEN held[y] + 1 ELSE held[y]
      BY <1>1, <1>2
    <2> QED
      BY <1>5, <1>8, <2>1 DEF Owners
  <1>10. Types' /\ Doing' /\ Mapped' /\ Pending'
    BY <1>1, <1>2, <1>3, SMTT(30) DEF CountInv, Types, Doing, Mapped, Pending
  <1>11. Counted'
    BY <1>1, <1>2, <1>9 DEF CountInv, Counted, Ref
  <1>12. NoneDangle'
    <2>1. \A y \in alive : \A j \in DOMAIN sub[y] : sub[y][j] \in alive \cup {NULL}
      BY <1>1, EntriesLead
    <2>2. \A y \in Node : held'[y] > 0 => y \in alive
      BY <1>1, <1>2 DEF CountInv, NoneDangle
    <2> QED
      BY <1>1, <1>2, <1>3, <2>1, <2>2 DEF NoneDangle
  <1> QED
    BY <1>10, <1>11, <1>12 DEF CountInv
\* The entries of a new regexp are as many as the occurrences in its list.
LEMMA EntriesOfNew ==
  ASSUME NEW x, NEW n \in Nat, NEW S, NEW s \in [1 .. n -> S], NEW y
  PROVE  /\ Occurrences(y, s) \in Nat
         /\ IsFiniteSet({x} \X {k \in DOMAIN s : s[k] = y})
         /\ Cardinality({x} \X {k \in DOMAIN s : s[k] = y}) = Occurrences(y, s)
  <1> DEFINE K == {k \in DOMAIN s : s[k] = y}
             f == [k \in K |-> <<x, k>>]
  <1>1. IsFiniteSet(1 .. n)
    BY FS_Interval
  <1>2. K \subseteq 1 .. n
    OBVIOUS
  <1>3. IsFiniteSet(K) /\ Cardinality(K) \in Nat
    BY <1>1, <1>2, FS_Subset, FS_CardinalityType
  <1> HIDE DEF K
  <1>4. f \in [K -> {x} \X K]
    OBVIOUS
  <1>5. f \in Injection(K, {x} \X K)
    BY <1>4 DEF Injection, IsInjective
  <1>6. \A d \in {x} \X K : \E k \in K : f[k] = d
    OBVIOUS
  <1>7. f \in Bijection(K, {x} \X K)
    BY <1>4, <1>5, <1>6 DEF Bijection, Surjection
  <1>8. IsFiniteSet({x} \X K) /\ Cardinality({x} \X K) = Cardinality(K)
    BY <1>3, <1>7, FS_Bijection DEF ExistsBijection
  <1> QED
    BY <1>3, <1>8 DEF K, Occurrences

LEMMA NewKeeps ==
  ASSUME CountInv, NEW x \in Node, NEW s \in Subs, New(x, s)
  PROVE  CountInv'
  <1>1. /\ Returned /\ x \notin alive /\ alive' = alive \cup {x}
        /\ ref' = [ref EXCEPT ![x] = 1] /\ sub' = [sub EXCEPT ![x] = s]
        /\ held' = [y \in Node |-> IF y = x THEN 1 ELSE held[y] - Occurrences(y, s)]
        /\ ref_map' = ref_map /\ stack' = stack /\ re' = re /\ at' = at
    BY DEF New
  <1>2. PICK n \in 0 .. MaxSubs : s \in [1 .. n -> alive]
    BY DEF Subs
  <1>3. /\ n \in Nat /\ n <= MaxSubs /\ DOMAIN s = 1 .. n /\ Len(s) = n
        /\ \A k \in 1 .. n : s[k] \in alive
    BY <1>2, BoundsAssumption
  <1>4. /\ alive \subseteq Node /\ x # NULL /\ re = NULL /\ Waiting = {} /\ Waiting' = {}
        /\ held \in [Node -> Nat] /\ ref \in [Node -> 0 .. kMaxRef]
        /\ sub \in [Node -> Seq(Node \cup {NULL})]
        /\ \A y \in alive : Ref(y) > 0 /\ y # re /\ y # x
        /\ \A y \in alive : \A k \in DOMAIN sub[y] : sub[y][k] \in alive \cup {NULL}
        /\ kMaxRef \in Nat /\ kMaxRef > 1 /\ MaxSubs \in Nat
    BY <1>1, EntriesLead, NodeAssumption, BoundsAssumption, ZenonT(40)
       DEF CountInv, Types, Returned, Waiting
  <1>5. /\ sub' \in [Node -> Seq(Node \cup {NULL})] /\ sub'[x] = s
        /\ \A y \in alive : sub'[y] = sub[y]
    <2>1. s \in Seq(alive)
      BY <1>2, <1>3
    <2>2. s \in Seq(Node \cup {NULL})
      BY <2>1, <1>4
    <2> QED
      BY <2>2, <1>1, <1>4
  <1> DEFINE Own(y) == {x} \X {k \in DOMAIN s : s[k] = y}
  <1>6. \A y : /\ Occurrences(y, s) \in Nat /\ IsFiniteSet(Own(y))
               /\ Cardinality(Own(y)) = Occurrences(y, s)
    <2> TAKE y
    <2>1. n \in Nat /\ s \in [1 .. n -> alive]
      BY <1>2, <1>3
    <2>2. /\ Occurrences(y, s) \in Nat
          /\ IsFiniteSet({x} \X {k \in DOMAIN s : s[k] = y})
          /\ Cardinality({x} \X {k \in DOMAIN s : s[k] = y}) = Occurrences(y, s)
      BY <2>1, EntriesOfNew, ZenonT(60)
    <2> QED
      BY <2>2
  <1>7. \A y \in Node : Slots(y)' = Slots(y) \cup Own(y)
    <2> TAKE y \in Node
    <2>1. \A d : d \in Own(y) => d \in Slots(y)'
      BY <1>1, <1>3, <1>4, <1>5, NodeAssumption DEF Slots
    <2>2. \A d : d \in Slots(y) => d \in Slots(y)'
      BY <1>1, <1>4, <1>5 DEF Slots
    <2>3. \A d : d \in Slots(y)' => d \in Slots(y) \/ d \in Own(y)
      <3> SUFFICES ASSUME NEW d \in Slots(y)' PROVE d \in Slots(y) \/ d \in Own(y)
        OBVIOUS
      <3>1. /\ d \in (alive \cup {x}) \X (1 .. MaxSubs)
            /\ d[2] \in DOMAIN sub'[d[1]] /\ sub'[d[1]][d[2]] = y
        BY <1>1 DEF Slots
      <3>2. CASE d[1] = x
        BY <3>1, <3>2, <1>5
      <3>3. CASE d[1] # x
        BY <3>1, <3>3, <1>4, <1>5 DEF Slots
      <3> QED
        BY <3>2, <3>3
    <2> QED
      BY <2>1, <2>2, <2>3
  <1>8. \A y : Slots(y) \cap Own(y) = {}
    BY <1>1 DEF Slots
  <1> HIDE DEF Own
  <1>9. \A y \in Node : /\ Cardinality(Slots(y)) \in Nat
                        /\ Cardinality(Slots(y)') = Cardinality(Slots(y)) + Occurrences(y, s)
    <2> TAKE y \in Node
    <2>1. IsFiniteSet(Slots(y)) /\ Cardinality(Slots(y)) \in Nat
      BY SlotsFinite DEF CountInv, Types
    <2>2. /\ Occurrences(y, s) \in Nat /\ IsFiniteSet(Own(y))
          /\ Cardinality(Own(y)) = Occurrences(y, s)
      BY <1>6
    <2>3. Cardinality(Slots(y) \cup Own(y)) = Cardinality(Slots(y)) + Cardinality(Own(y))
                                                - Cardinality(Slots(y) \cap Own(y))
      BY <2>1, <2>2, FS_Union
    <2>4. Cardinality(Slots(y) \cap Own(y)) = 0
      BY <1>8, FS_EmptySet
    <2>5. Cardinality(Slots(y)') = Cardinality(Slots(y) \cup Own(y))
      BY <1>7
    <2> QED
      BY <2>1, <2>2, <2>3, <2>4, <2>5
  <1>10. held' \in [Node -> Nat] /\ \A y \in Node : held'[y] > 0 => y \in alive \cup {x}
    <2> SUFFICES ASSUME NEW y \in Node
                 PROVE  held'[y] \in Nat /\ (held'[y] > 0 => y \in alive \cup {x})
      BY <1>1
    <2>1. CASE y = x
      BY <2>1, <1>1
    <2>2. CASE y # x /\ y \in alive
      <3>1. Occurrences(y, s) <= held[y]
        BY <2>2 DEF Subs
      <3> QED
        BY <2>2, <3>1, <1>1, <1>4, <1>6
    <2>3. CASE y # x /\ y \notin alive
      <3>1. held[y] = 0
        BY <2>3, <1>4 DEF CountInv, NoneDangle
      <3>2. {k \in DOMAIN s : s[k] = y} = {}
        BY <2>3, <1>3
      <3>3. Occurrences(y, s) = 0
        BY <3>2, FS_EmptySet DEF Occurrences
      <3> QED
        BY <2>3, <3>1, <3>3, <1>1
    <2> QED
      BY <2>1, <2>2, <2>3
  <1>11. Types'
    <2>1. IsFiniteSet(alive')
      BY <1>1, FS_AddElement DEF CountInv, Types
    <2>2. \A y \in Node : Len(sub'[y]) <= MaxSubs
      BY <1>1, <1>3, <1>4 DEF CountInv, Types
    <2> QED
      BY <1>1, <1>4, <1>5, <1>10, <2>1, <2>2, SMTT(30) DEF CountInv, Types
  <1>12. Doing' /\ Pending'
    BY <1>1, <1>4 DEF CountInv, Doing, Pending
  <1>13. Mapped'
    BY <1>1, <1>4 DEF CountInv, Mapped
  <1>14. Counted'
    <2> SUFFICES ASSUME NEW y \in alive \cup {x}
                 PROVE  Ref(y)' = Owners(y)' /\ Ref(y)' > 0
      BY <1>1, <1>4, NodeAssumption DEF Counted
    <2>1. y \in Node
      BY <1>4
    <2>2. CASE y \in alive
      <3>1. Ref(y)' = Ref(y)
        BY <1>1, <1>4, <2>2 DEF Ref
      <3>2. Owners(y) = held[y] + Cardinality(Slots(y)) /\ held[y] \in Nat /\ Ref(y) = Owners(y)
        BY <1>4, <2>1, <2>2 DEF CountInv, Counted, Owners
      <3>3. held'[y] = held[y] - Occurrences(y, s) /\ Occurrences(y, s) \in Nat
        BY <1>1, <1>4, <1>6, <2>1, <2>2
      <3>4. Owners(y)' = Owners(y)
        BY <1>9, <2>1, <3>2, <3>3 DEF Owners
      <3> QED
        BY <1>4, <2>2, <3>1, <3>2, <3>4
    <2>3. CASE y = x
      <3>1. Ref(x)' = 1
        BY <1>1, <1>4 DEF Ref
      <3>2. Slots(x) = {} /\ Occurrences(x, s) = 0
        <4>1. {k \in DOMAIN s : s[k] = x} = {}
          BY <1>1, <1>3
        <4>2. \A y1 \in alive : \A k \in DOMAIN sub[y1] : sub[y1][k] # x
          BY <1>1, <1>4
        <4> QED
          BY <4>1, <4>2, FS_EmptySet DEF Occurrences, Slots
      <3>3. Cardinality(Slots(x)') = 0
        BY <1>9, <3>2, FS_EmptySet
      <3> QED
        BY <1>1, <2>3, <3>1, <3>3 DEF Owners
    <2> QED
      BY <2>2, <2>3
  <1>15. NoneDangle'
    <2>1. \A k \in DOMAIN s : s[k] \in alive
      BY <1>3
    <2> QED
      BY <1>1, <1>4, <1>5, <1>10, <2>1 DEF NoneDangle
  <1> QED
    BY <1>11, <1>12, <1>13, <1>14, <1>15 DEF CountInv

-----------------------------------------------------------------------------
LEMMA StepKeeps ==
  ASSUME CountInv, [RNext]_rvars
  PROVE  CountInv'
  <1>1. CASE RNext
    <2>1. ASSUME NEW x \in Node, Incref(x) \/ Decref(x) PROVE CountInv'
      BY <2>1, IncrefKeeps, DecrefKeeps
    <2>2. ASSUME NEW x \in Node, NEW s \in Subs, New(x, s) PROVE CountInv'
      BY <2>2, NewKeeps
    <2>3. ASSUME NEW x \in Node, NEW k \in 1 .. MaxSubs, TakeOut(x, k) PROVE CountInv'
      BY <2>3, TakeOutKeeps
    <2>4. ASSUME Destroy PROVE CountInv'
      BY <2>4, PopKeeps, ReleaseSubKeeps, DeleteKeeps DEF Destroy
    <2> QED
      BY <1>1, <2>1, <2>2, <2>3, <2>4 DEF RNext
  <1>2. CASE UNCHANGED rvars
    <2>1. \A y : Slots(y)' = Slots(y)
      BY <1>2 DEF rvars, Slots
    <2> QED
      BY <1>2, <2>1 DEF rvars, CountInv, Types, Doing, Mapped, Pending, Counted, NoneDangle,
                        Waiting, Ref, Owners
  <1> QED
    BY <1>1, <1>2

\* Whatever callers and the parser do with regexps that share subexpressions,
\* and however far Destroy has got (regexp.cc:89-169): the count of a regexp, in
\* the object or in the map, is the number of references to it; it is deleted,
\* once, when there are none, and no entry of a list leads to what is gone.
THEOREM CountsRight == RSpec => []RefsCounted
  <1>1. RInit => CountInv
    BY NothingYet
  <1>2. CountInv /\ [RNext]_rvars => CountInv'
    BY StepKeeps
  <1>3. CountInv => RefsCounted
    BY CountedMeans
  <1> QED
    BY <1>1, <1>2, <1>3, PTL DEF RSpec

\* Destroy never meets what is deleted: the regexp at hand, those on the stack
\* and the subexpressions still to be let go are all alive (regexp.cc:143-168).
THEOREM DestroySafe ==
  RSpec => [](/\ re # NULL => re \in alive
              /\ \A k \in DOMAIN stack : stack[k] \in alive
              /\ re # NULL => \A k \in at .. Len(sub[re]) : sub[re][k] \in alive \cup {NULL})
  <1> DEFINE Safe == /\ re # NULL => re \in alive
                     /\ \A k \in DOMAIN stack : stack[k] \in alive
                     /\ re # NULL => \A k \in at .. Len(sub[re]) : sub[re][k] \in alive \cup {NULL}
  <1>1. RInit => CountInv
    BY NothingYet
  <1>2. CountInv /\ [RNext]_rvars => CountInv'
    BY StepKeeps
  <1>3. CountInv => Safe
    <2> SUFFICES ASSUME CountInv PROVE Safe
      OBVIOUS
    <2>1. ASSUME re # NULL, NEW k \in at .. Len(sub[re])
          PROVE  sub[re][k] \in alive \cup {NULL}
      <3>1. /\ re \in alive /\ at \in Nat \ {0} /\ sub[re] \in Seq(Node \cup {NULL})
        BY <2>1 DEF CountInv, Types, Doing
      <3>2. k \in DOMAIN sub[re] /\ ~(k < at)
        BY <2>1, <3>1
      <3> QED
        BY <3>1, <3>2 DEF CountInv, NoneDangle
    <2> QED
      BY <2>1 DEF CountInv, Doing, Pending, Waiting
  <1> QED
    BY <1>1, <1>2, <1>3, PTL DEF RSpec

-----------------------------------------------------------------------------
(***************************************************************************)
(* The functions that replace (module Replacing).                          *)
(***************************************************************************)
\* chartorune reads one byte or as many as it finds, none of them behind the
\* end, and one if fullrune finds that some are missing.
LEMMA BeginsTwo ==
  ASSUME NEW c \in Int, c \in T2 .. T3 - 1 PROVE c < T3
  BY DEF T2, T3

LEMMA RuneSize ==
  ASSUME NEW s \in Seq(Nat), s # << >>
  PROVE  /\ chartorune(s).n \in 1 .. Len(s)
         /\ ~fullrune(s) => chartorune(s).n = 1
<1> DEFINE c  == s[1]
           c2 == c \in T2 .. T3 - 1 /\ IsTail(s, 2)
           c3 == c \in T3 .. T4 - 1 /\ IsTail(s, 2) /\ IsTail(s, 3)
           c4 == c \in T4 .. T5 - 1 /\ IsTail(s, 2) /\ IsTail(s, 3) /\ IsTail(s, 4)
           r2 == Needing(Rune1, (c % 32) * 64 + Bits(s, 2), 2)
           r3 == Needing(Rune2, (c % 16) * 4096 + Bits(s, 2) * 64 + Bits(s, 3), 3)
           r4 == Needing(Rune3, (c % 8) * 262144 + Bits(s, 2) * 4096 + Bits(s, 3) * 64 + Bits(s, 4), 4)
<1>1. Len(s) \in Nat /\ Len(s) >= 1 /\ c \in Nat
  OBVIOUS
<1>2. chartorune(s) = IF c < Tx THEN Decoded(c, 1) ELSE IF c2 THEN r2
                      ELSE IF c3 THEN r3 ELSE IF c4 THEN r4 ELSE Decoded(Runeerror, 1)
  BY DEF chartorune
<1>3. r2.n \in {1, 2} /\ r3.n \in {1, 3} /\ r4.n \in {1, 4}
  BY DEF Needing, Decoded
<1>4. c2 => Len(s) >= 2 /\ fullrune(s)
  <2>1. ASSUME c \in T2 .. T3 - 1 PROVE c < T3
    BY <1>1, <2>1, BeginsTwo
  <2>2. c2 => Len(s) >= 2
    BY <1>1 DEF IsTail
  <2> QED
    BY <1>1, <2>1, <2>2 DEF fullrune
<1>5. c3 => Len(s) >= 3 /\ fullrune(s)
  BY <1>1 DEF IsTail, fullrune, T3, T4, Tx
<1>6. c4 => Len(s) >= 4 /\ fullrune(s)
  BY <1>1 DEF IsTail, fullrune
<1>7. Decoded(c, 1).n = 1 /\ Decoded(Runeerror, 1).n = 1
  BY DEF Decoded
<1> HIDE DEF c2, c3, c4, r2, r3, r4
<1> QED
  BY <1>1, <1>2, <1>3, <1>4, <1>5, <1>6, <1>7

LEMMA NeededIsNumber ==
  ASSUME NEW least, NEW l \in Int, NEW n
  PROVE  Needing(least, l, n).rune \in Int
<1>1. Decoded(Runeerror, 1).rune \in Int /\ Decoded(l, n).rune \in Int
  BY DEF Decoded, Runeerror
<1> HIDE DEF Decoded
<1> QED
  BY <1>1 DEF Needing

LEMMA RuneIsNumber ==
  ASSUME NEW s \in Seq(Nat), s # << >>
  PROVE  chartorune(s).rune \in Int
<1> DEFINE c  == s[1]
           c2 == c \in T2 .. T3 - 1 /\ IsTail(s, 2)
           c3 == c \in T3 .. T4 - 1 /\ IsTail(s, 2) /\ IsTail(s, 3)
           c4 == c \in T4 .. T5 - 1 /\ IsTail(s, 2) /\ IsTail(s, 3) /\ IsTail(s, 4)
           r2 == Needing(Rune1, (c % 32) * 64 + Bits(s, 2), 2)
           r3 == Needing(Rune2, (c % 16) * 4096 + Bits(s, 2) * 64 + Bits(s, 3), 3)
           r4 == Needing(Rune3, (c % 8) * 262144 + Bits(s, 2) * 4096 + Bits(s, 3) * 64 + Bits(s, 4), 4)
<1>1. c \in Nat
  OBVIOUS
<1>2. chartorune(s) = IF c < Tx THEN Decoded(c, 1) ELSE IF c2 THEN r2
                      ELSE IF c3 THEN r3 ELSE IF c4 THEN r4 ELSE Decoded(Runeerror, 1)
  BY DEF chartorune
<1>3. \A k \in {2, 3, 4} : IsTail(s, k) => Bits(s, k) \in Int
  <2> SUFFICES ASSUME NEW k \in {2, 3, 4}, IsTail(s, k) PROVE Bits(s, k) \in Int
    OBVIOUS
  <2>1. s[k] \in Nat
    BY DEF IsTail
  <2> QED
    BY <2>1 DEF Bits
<1>4. c % 32 \in Int /\ c % 16 \in Int /\ c % 8 \in Int
  BY <1>1
<1>5. c2 => r2.rune \in Int
  <2> SUFFICES ASSUME c2 PROVE r2.rune \in Int
    OBVIOUS
  <2>1. Bits(s, 2) \in Int
    BY <1>3
  <2>2. (c % 32) * 64 + Bits(s, 2) \in Int
    BY <1>4, <2>1
  <2> QED
    BY <2>2, NeededIsNumber
<1>6. c3 => r3.rune \in Int
  <2> SUFFICES ASSUME c3 PROVE r3.rune \in Int
    OBVIOUS
  <2>1. Bits(s, 2) \in Int /\ Bits(s, 3) \in Int
    BY <1>3
  <2>2. (c % 16) * 4096 + Bits(s, 2) * 64 + Bits(s, 3) \in Int
    BY <1>4, <2>1
  <2> QED
    BY <2>2, NeededIsNumber
<1>7. c4 => r4.rune \in Int
  <2> SUFFICES ASSUME c4 PROVE r4.rune \in Int
    OBVIOUS
  <2>1. Bits(s, 2) \in Int /\ Bits(s, 3) \in Int /\ Bits(s, 4) \in Int
    BY <1>3
  <2>2. (c % 8) * 262144 + Bits(s, 2) * 4096 + Bits(s, 3) * 64 + Bits(s, 4) \in Int
    <3>1. \A a, b, x \in Int : a * 262144 + b * 4096 + x * 64 \in Int
      BY SMT
    <3>2. \A a, b \in Int : a + b \in Int
      OBVIOUS
    <3>3. (c % 8) * 262144 + Bits(s, 2) * 4096 + Bits(s, 3) * 64 \in Int
      BY <1>4, <2>1, <3>1, SMT
    <3> QED
      BY <2>1, <3>2, <3>3, SMT
  <2> QED
    BY <2>2, NeededIsNumber
<1>8. Decoded(c, 1).rune \in Int /\ Decoded(Runeerror, 1).rune \in Int
  BY <1>1 DEF Decoded, Runeerror
<1> HIDE DEF c2, c3, c4, r2, r3, r4
<1> QED
  BY <1>2, <1>5, <1>6, <1>7, <1>8

-----------------------------------------------------------------------------
\* What holds of 0 and of the successor of whatever it holds of.
LEMMA Inductively ==
  ASSUME NEW S, NEW n \in Nat, 0 \in S, \A k \in 0 .. n - 1 : k \in S => k + 1 \in S
  PROVE  \A k \in 0 .. n : k \in S
<1> DEFINE T == {k \in 0 .. n : k \notin S}
<1>1. ASSUME T # {} PROVE FALSE
  <2>1. T \in SUBSET Int /\ 0 \in Int /\ \A x \in T : 0 <= x
    OBVIOUS
  <2>2. PICK k \in T : \A x \in T : k <= x
    <3> HIDE DEF T
    <3> QED
      BY <1>1, <2>1, LeastOf
  <2>3. k \in 1 .. n /\ k - 1 \in 0 .. n - 1 /\ (k - 1) + 1 = k /\ k - 1 \in 0 .. n /\ ~(k <= k - 1)
    BY <2>2
  <2>4. k - 1 \in S
    BY <2>2, <2>3
  <2>5. k \in S
    BY <2>3, <2>4
  <2> QED
    BY <2>2, <2>5
<1> QED
  BY <1>1

\* The sequences of values that come each from the one before: there is one.
Sequels(A, x, n, G) ==
  {f \in [0 .. n -> A] : f[0] = x /\ \A k \in 1 .. n : f[k] = G[<<k, f[k - 1]>>]}

LEMMA Recursion ==
  ASSUME NEW A, NEW x \in A, NEW n \in Nat, NEW G \in [(1 .. n) \X A -> A]
  PROVE  Sequels(A, x, n, G) # {}
<1> DEFINE Upto(k, f) == /\ f \in [0 .. k -> A] /\ f[0] = x
                         /\ \A j \in 1 .. k : f[j] = G[<<j, f[j - 1]>>]
           S == {k \in 0 .. n : \E f : Upto(k, f)}
<1>1. 0 \in S
  <2>1. Upto(0, [k \in 0 .. 0 |-> x])
    OBVIOUS
  <2> HIDE DEF Upto
  <2> QED
    BY <2>1
<1>2. ASSUME NEW k \in 0 .. n - 1, k \in S PROVE k + 1 \in S
  <2>1. PICK f : Upto(k, f)
    BY <1>2
  <2> DEFINE g == [j \in 0 .. k + 1 |-> IF j <= k THEN f[j] ELSE G[<<k + 1, f[k]>>]]
  <2>2. k \in Nat /\ k + 1 \in 1 .. n /\ f[k] \in A
    BY <2>1
  <2>3. G[<<k + 1, f[k]>>] \in A
    BY <2>2
  <2>4. g \in [0 .. k + 1 -> A]
    BY <2>1, <2>2, <2>3
  <2>5. g[0] = x
    BY <2>1, <2>2
  <2>6. ASSUME NEW j \in 1 .. k + 1 PROVE g[j] = G[<<j, g[j - 1]>>]
    <3>1. CASE j <= k
      <4>1. j \in 1 .. k /\ j \in 0 .. k + 1 /\ j - 1 \in 0 .. k + 1 /\ j - 1 <= k
        BY <2>2, <3>1
      <4>2. g[j] = f[j] /\ g[j - 1] = f[j - 1]
        BY <3>1, <4>1
      <4> QED
        BY <2>1, <4>1, <4>2
    <3>2. CASE ~(j <= k)
      <4>1. j = k + 1 /\ j - 1 = k /\ k <= k /\ k \in 0 .. k + 1
        BY <2>2, <3>2
      <4>2. g[j] = G[<<k + 1, f[k]>>] /\ g[j - 1] = f[k]
        BY <3>2, <4>1
      <4> QED
        BY <4>1, <4>2
    <3> QED
      BY <3>1, <3>2
  <2>7. Upto(k + 1, g)
    <3> HIDE DEF g
    <3> QED
      BY <2>4, <2>5, <2>6
  <2>8. k + 1 \in 0 .. n
    BY <2>2
  <2> HIDE DEF g, Upto
  <2> QED
    BY <2>7, <2>8
<1>3. n \in S
  <2> HIDE DEF S
  <2>1. \A k \in 0 .. n : k \in S
    BY <1>1, <1>2, Inductively
  <2> QED
    BY <2>1
<1>4. PICK f : Upto(n, f)
  BY <1>3
<1>5. f \in Sequels(A, x, n, G)
  BY <1>4 DEF Sequels
<1> QED
  BY <1>5

-----------------------------------------------------------------------------
(***************************************************************************)
(* Characters.                                                             *)
(***************************************************************************)
LEMMA TextIs ==
  ASSUME NEW t \in Strings
  PROVE  t \in Seq(Nat) /\ Len(t) \in Nat
  BY ReplacingAssumption

LEMMA CharSizeIs ==
  ASSUME NEW x \in Objects, NEW t \in Strings, NEW q \in 0 .. Len(t) - 1
  PROVE  CharSize(x, t, q) \in 1 .. Len(t) - q
<1> DEFINE s == SubSeq(t, q + 1, Len(t))
<1>1. t \in Seq(Nat) /\ Len(t) \in Nat
  BY TextIs
<1>2. s \in Seq(Nat) /\ Len(s) = Len(t) - q /\ s # << >>
  <2>1. q + 1 \in Int /\ Len(t) \in Int /\ q \in Nat /\ q < Len(t)
    BY <1>1
  <2>2. \A i \in q + 1 .. Len(t) : t[i] \in Nat
    BY <1>1, <2>1
  <2>3. s \in Seq(Nat) /\ Len(s) = IF q + 1 <= Len(t) THEN Len(t) - (q + 1) + 1 ELSE 0
    BY <2>1, <2>2, SubSeqProperties
  <2>4. Len(s) = Len(t) - q /\ Len(s) # 0
    BY <1>1, <2>1, <2>3
  <2> QED
    BY <2>3, <2>4
<1> HIDE DEF s
<1>3. chartorune(s).n \in 1 .. Len(t) - q
  BY <1>2, RuneSize
<1>4. 1 \in 1 .. Len(t) - q
  BY <1>1
<1>5. CharSize(x, t, q) = IF x.utf8 /\ chartorune(s).rune <= Runemax THEN chartorune(s).n ELSE 1
  BY DEF CharSize, s
<1> QED
  BY <1>3, <1>4, <1>5

\* The beginnings of characters, in their order.
StartsIn(x, t, f) ==
  /\ f \in [0 .. Len(t) -> 0 .. Len(t)] /\ f[0] = 0
  /\ \A n \in 1 .. Len(t) :
       f[n] = f[n - 1] + IF f[n - 1] < Len(t) THEN CharSize(x, t, f[n - 1]) ELSE 0
  /\ CharStarts(x, t) = {f[n] : n \in 0 .. Len(t)}

LEMMA StartsAre ==
  ASSUME NEW x \in Objects, NEW t \in Strings
  PROVE  \E f : StartsIn(x, t, f)
<1> DEFINE len  == Len(t)
           A    == 0 .. len
           N(q) == q + IF q < len THEN CharSize(x, t, q) ELSE 0
           G    == [z \in (1 .. len) \X A |-> N(z[2])]
           g    == CHOOSE f : f = [n \in 0 .. len |-> IF n = 0 THEN 0 ELSE N(f[n - 1])]
<1>1. len \in Nat /\ 0 \in A
  BY TextIs
<1>2. \A q \in A : N(q) \in A
  <2> SUFFICES ASSUME NEW q \in A PROVE N(q) \in A
    OBVIOUS
  <2>1. CASE q < len
    <3>1. CharSize(x, t, q) \in 1 .. len - q
      BY <1>1, <2>1, CharSizeIs
    <3> QED
      BY <1>1, <2>1, <3>1
  <2>2. CASE ~(q < len)
    BY <1>1, <2>2
  <2> QED
    BY <2>1, <2>2
<1> HIDE DEF N
<1>3. G \in [(1 .. len) \X A -> A]
  BY <1>2
<1>4. PICK f \in [0 .. len -> A] : f[0] = 0 /\ \A n \in 1 .. len : f[n] = G[<<n, f[n - 1]>>]
  <2> HIDE DEF G, A, len
  <2>1. Sequels(A, 0, len, G) # {}
    BY <1>1, <1>3, Recursion
  <2> QED
    BY <2>1 DEF Sequels
<1>5. \A n \in 1 .. len : f[n] = N(f[n - 1])
  <2> SUFFICES ASSUME NEW n \in 1 .. len PROVE f[n] = N(f[n - 1])
    OBVIOUS
  <2>1. n - 1 \in 0 .. len
    BY <1>1
  <2>2. <<n, f[n - 1]>> \in (1 .. len) \X A
    BY <1>4, <2>1
  <2> QED
    BY <1>4, <2>2
<1>6. f = [n \in 0 .. len |-> IF n = 0 THEN 0 ELSE N(f[n - 1])]
  <2>1. \A n \in 0 .. len : f[n] = IF n = 0 THEN 0 ELSE N(f[n - 1])
    BY <1>1, <1>4, <1>5
  <2>2. f = [n \in 0 .. len |-> f[n]]
    BY <1>4
  <2> QED
    BY <2>1, <2>2
<1>7. g = [n \in 0 .. len |-> IF n = 0 THEN 0 ELSE N(g[n - 1])]
  BY <1>6
<1>8. CharStarts(x, t) = {g[n] : n \in 0 .. len}
  BY DEF CharStarts, N
<1> HIDE DEF g
<1>9. g[0] = 0 /\ \A n \in 1 .. len : g[n] = N(g[n - 1])
  <2>1. 0 \in 0 .. len /\ \A n \in 1 .. len : n \in 0 .. len /\ n # 0
    BY <1>1
  <2>2. \A n \in 0 .. len : g[n] = IF n = 0 THEN 0 ELSE N(g[n - 1])
    BY <1>7
  <2> HIDE DEF len
  <2> QED
    BY <2>1, <2>2
<1>10. \A n \in 0 .. len : g[n] \in A
  <2> DEFINE S == {n \in 0 .. len : g[n] \in A}
  <2>1. 0 \in S
    BY <1>1, <1>9
  <2>2. ASSUME NEW n \in 0 .. len - 1, n \in S PROVE n + 1 \in S
    <3>1. n + 1 \in 1 .. len /\ n + 1 \in 0 .. len /\ (n + 1) - 1 = n
      BY <1>1
    <3>2. g[n + 1] = N(g[n])
      BY <1>9, <3>1
    <3> QED
      BY <1>2, <2>2, <3>1, <3>2
  <2>3. \A n \in 0 .. len : n \in S
    <3> HIDE DEF S, len
    <3> QED
      BY <1>1, <2>1, <2>2, Inductively
  <2> QED
    BY <2>3
<1>11. g \in [0 .. len -> A]
  BY <1>7, <1>10
<1>12. StartsIn(x, t, g)
  BY <1>8, <1>9, <1>11 DEF StartsIn, N
<1> QED
  BY <1>12

\* A character begins at the beginning of the text and where another one ends,
\* and none begins before that.
LEMMA CharStartsAre ==
  ASSUME NEW x \in Objects, NEW t \in Strings
  PROVE  /\ 0 \in CharStarts(x, t) /\ CharStarts(x, t) \subseteq 0 .. Len(t)
         /\ \A q \in CharStarts(x, t) : q < Len(t) =>
              /\ q + CharSize(x, t, q) \in CharStarts(x, t)
              /\ \A r \in q + 1 .. (q + CharSize(x, t, q)) - 1 : r \notin CharStarts(x, t)
<1> DEFINE len == Len(t)
<1>1. len \in Nat
  BY TextIs
<1>2. PICK f : StartsIn(x, t, f)
  BY StartsAre
<1>3. /\ f \in [0 .. len -> 0 .. len] /\ f[0] = 0 /\ CharStarts(x, t) = {f[n] : n \in 0 .. len}
      /\ \A n \in 1 .. len :
           f[n] = f[n - 1] + IF f[n - 1] < len THEN CharSize(x, t, f[n - 1]) ELSE 0
  BY <1>2 DEF StartsIn
<1>4. \A n \in 0 .. len : f[n] \in 0 .. len /\ f[n] \in Nat
  BY <1>1, <1>3
<1> HIDE DEF len
<1>5. ASSUME NEW n \in 0 .. len - 1
      PROVE  /\ n \in 0 .. len /\ n + 1 \in 0 .. len /\ f[n] <= f[n + 1]
             /\ f[n] < len => f[n + 1] = f[n] + CharSize(x, t, f[n]) /\ f[n] < f[n + 1]
             /\ ~(f[n] < len) => f[n + 1] = f[n]
  <2>1. n \in 0 .. len /\ n + 1 \in 1 .. len /\ n + 1 \in 0 .. len /\ (n + 1) - 1 = n
    BY <1>1
  <2>2. f[n + 1] = f[n] + IF f[n] < len THEN CharSize(x, t, f[n]) ELSE 0
    BY <1>3, <2>1
  <2>3. f[n] \in Nat /\ f[n] \in 0 .. len
    BY <1>4, <2>1
  <2>4. CASE f[n] < len
    <3>1. f[n] \in 0 .. Len(t) - 1
      BY <1>1, <2>3, <2>4 DEF len
    <3>2. CharSize(x, t, f[n]) \in 1 .. len - f[n]
      BY <3>1, CharSizeIs DEF len
    <3>3. CharSize(x, t, f[n]) \in Int /\ CharSize(x, t, f[n]) >= 1
      BY <1>1, <2>3, <3>2
    <3>4. f[n + 1] = f[n] + CharSize(x, t, f[n])
      BY <2>2, <2>4
    <3>5. f[n + 1] >= f[n] /\ f[n] < f[n + 1]
      BY <2>3, <3>3, <3>4
    <3> QED
      BY <2>1, <2>3, <2>4, <3>4, <3>5
  <2>5. CASE ~(f[n] < len)
    BY <1>1, <2>1, <2>2, <2>3, <2>5
  <2> QED
    BY <2>4, <2>5
<1>6. ASSUME NEW n \in 0 .. len, NEW m \in 0 .. len, n <= m PROVE f[n] <= f[m]
  <2> DEFINE S == {k \in 0 .. len : n <= k => f[n] <= f[k]}
  <2>1. 0 \in S
    <3>1. 0 \in 0 .. len /\ (n <= 0 => n = 0)
      BY <1>1
    <3> QED
      BY <1>4, <3>1
  <2>2. ASSUME NEW k \in 0 .. len - 1, k \in S PROVE k + 1 \in S
    <3>1. k + 1 \in 0 .. len /\ f[k] <= f[k + 1] /\ k \in 0 .. len
      BY <1>5
    <3>2. f[n] \in Nat /\ f[k] \in Nat /\ f[k + 1] \in Nat
      BY <1>4, <3>1
    <3>3. CASE n <= k
      <4>1. f[n] <= f[k]
        BY <2>2, <3>3
      <4> QED
        BY <3>1, <3>2, <4>1
    <3>4. CASE ~(n <= k)
      <4>1. n <= k + 1 => n = k + 1
        BY <1>1, <3>4
      <4> QED
        BY <3>1, <3>2, <4>1
    <3> QED
      BY <3>3, <3>4
  <2>3. \A k \in 0 .. len : k \in S
    <3> HIDE DEF S
    <3> QED
      BY <1>1, <2>1, <2>2, Inductively
  <2> QED
    BY <1>6, <2>3
<1>7. \A n \in 0 .. len : f[n] >= n
  <2> DEFINE S == {k \in 0 .. len : f[k] >= k}
  <2>1. 0 \in S
    BY <1>1, <1>3
  <2>2. ASSUME NEW k \in 0 .. len - 1, k \in S PROVE k + 1 \in S
    <3>1. k + 1 \in 0 .. len /\ k \in 0 .. len /\ f[k] >= k
      BY <1>5, <2>2
    <3>2. f[k] \in Nat /\ f[k + 1] \in Nat /\ f[k] <= len
      BY <1>1, <1>4, <3>1
    <3>3. f[k] < len => f[k] < f[k + 1]
      BY <1>5
    <3>4. ~(f[k] < len) => f[k + 1] = f[k]
      BY <1>5
    <3>5. f[k + 1] >= k + 1
      BY <1>1, <3>1, <3>2, <3>3, <3>4
    <3> QED
      BY <3>1, <3>5
  <2>3. \A k \in 0 .. len : k \in S
    <3> HIDE DEF S
    <3> QED
      BY <1>1, <2>1, <2>2, Inductively
  <2> QED
    BY <2>3
<1>8. 0 \in CharStarts(x, t) /\ CharStarts(x, t) \subseteq 0 .. len
  BY <1>1, <1>3, <1>4
<1>9. ASSUME NEW q \in CharStarts(x, t), q < len
      PROVE  /\ q + CharSize(x, t, q) \in CharStarts(x, t)
             /\ \A r \in q + 1 .. (q + CharSize(x, t, q)) - 1 : r \notin CharStarts(x, t)
  <2>1. PICK n \in 0 .. len : q = f[n]
    BY <1>3
  <2>2. n \in 0 .. len - 1
    <3>1. n <= f[n] /\ f[n] < len /\ f[n] \in Nat
      BY <1>4, <1>7, <1>9, <2>1
    <3> QED
      BY <1>1, <3>1
  <2>3. n + 1 \in 0 .. len /\ f[n + 1] = q + CharSize(x, t, q)
    BY <1>5, <1>9, <2>1, <2>2
  <2>4. q + CharSize(x, t, q) \in CharStarts(x, t)
    BY <1>3, <2>3
  <2>5. ASSUME NEW m \in 0 .. len, f[m] \in q + 1 .. (q + CharSize(x, t, q)) - 1 PROVE FALSE
    <3>1. f[m] \in Nat /\ f[n] \in Nat /\ f[n + 1] \in Nat
      BY <1>4, <2>3
    <3>2. f[n] < f[m] /\ f[m] < f[n + 1]
      BY <2>1, <2>3, <2>5, <3>1
    <3>3. CASE m <= n
      BY <1>6, <3>1, <3>2, <3>3
    <3>4. CASE n + 1 <= m
      BY <1>6, <2>3, <3>1, <3>2, <3>4
    <3> QED
      BY <1>1, <3>3, <3>4
  <2> QED
    BY <1>3, <2>4, <2>5
<1> QED
  BY <1>8, <1>9 DEF len

-----------------------------------------------------------------------------
(***************************************************************************)
(* Strings, one behind the other.                                          *)
(***************************************************************************)
Pieces == Seq(Seq(Nat))
JoinedIn(f, pieces) ==
  /\ f \in [0 .. Len(pieces) -> Seq(Nat)] /\ f[0] = << >>
  /\ \A k \in 1 .. Len(pieces) : f[k] = f[k - 1] \o pieces[k]
  /\ Joined(pieces) = f[Len(pieces)]

LEMMA JoinedSteps ==
  ASSUME NEW pieces \in Pieces
  PROVE  \E f : JoinedIn(f, pieces)
<1> DEFINE n == Len(pieces)
           A == Seq(Nat)
           G == [z \in (1 .. n) \X A |-> z[2] \o pieces[z[1]]]
           g == CHOOSE f : f = [k \in 0 .. n |-> IF k = 0 THEN << >> ELSE f[k - 1] \o pieces[k]]
<1>1. n \in Nat /\ << >> \in A /\ \A k \in 1 .. n : pieces[k] \in A
  BY DEF Pieces
<1>2. \A s \in A, t \in A : s \o t \in A
  BY ConcatProperties
<1>3. G \in [(1 .. n) \X A -> A]
  <2>1. \A z \in (1 .. n) \X A : z[2] \o pieces[z[1]] \in A
    <3> HIDE DEF A
    <3> QED
      BY <1>1, <1>2
  <2> HIDE DEF A
  <2> QED
    BY <2>1
<1>4. PICK f \in [0 .. n -> A] : f[0] = << >> /\ \A k \in 1 .. n : f[k] = G[<<k, f[k - 1]>>]
  <2> HIDE DEF G, A, n
  <2>1. Sequels(A, << >>, n, G) # {}
    BY <1>1, <1>3, Recursion
  <2> QED
    BY <2>1 DEF Sequels
<1>5. \A k \in 1 .. n : f[k] = f[k - 1] \o pieces[k]
  <2> SUFFICES ASSUME NEW k \in 1 .. n PROVE f[k] = f[k - 1] \o pieces[k]
    OBVIOUS
  <2>1. k - 1 \in 0 .. n
    BY <1>1
  <2> HIDE DEF A
  <2>2. <<k, f[k - 1]>> \in (1 .. n) \X A
    BY <1>4, <2>1
  <2> QED
    BY <1>4, <2>2
<1>6. f = [k \in 0 .. n |-> IF k = 0 THEN << >> ELSE f[k - 1] \o pieces[k]]
  <2>1. \A k \in 0 .. n : f[k] = IF k = 0 THEN << >> ELSE f[k - 1] \o pieces[k]
    <3>1. \A k \in 0 .. n : k = 0 \/ k \in 1 .. n
      BY <1>1
    <3> HIDE DEF n, A
    <3> QED
      BY <3>1, <1>4, <1>5
  <2>2. f = [k \in 0 .. n |-> f[k]]
    BY <1>4
  <2> QED
    BY <2>1, <2>2
<1>7. g = [k \in 0 .. n |-> IF k = 0 THEN << >> ELSE g[k - 1] \o pieces[k]]
  BY <1>6
<1>8. Joined(pieces) = g[n]
  BY DEF Joined
<1> HIDE DEF g
<1>9. g[0] = << >> /\ \A k \in 1 .. n : g[k] = g[k - 1] \o pieces[k]
  <2>1. 0 \in 0 .. n /\ \A k \in 1 .. n : k \in 0 .. n /\ k # 0
    BY <1>1
  <2>2. \A k \in 0 .. n : g[k] = IF k = 0 THEN << >> ELSE g[k - 1] \o pieces[k]
    BY <1>7
  <2> HIDE DEF n
  <2> QED
    BY <2>1, <2>2
<1>10. \A k \in 0 .. n : g[k] \in A
  <2> DEFINE S == {k \in 0 .. n : g[k] \in A}
  <2>1. 0 \in S
    <3>1. 0 \in 0 .. n
      BY <1>1
    <3> HIDE DEF A, n
    <3> QED
      BY <1>1, <1>9, <3>1
  <2>2. ASSUME NEW k \in 0 .. n - 1, k \in S PROVE k + 1 \in S
    <3>1. k + 1 \in 1 .. n /\ k + 1 \in 0 .. n /\ (k + 1) - 1 = k
      BY <1>1
    <3>2. g[k + 1] = g[k] \o pieces[k + 1]
      BY <1>9, <3>1
    <3>3. g[k] \in A /\ pieces[k + 1] \in A
      BY <1>1, <2>2, <3>1
    <3> HIDE DEF A
    <3>4. g[k + 1] \in A
      BY <1>2, <3>2, <3>3
    <3> QED
      BY <3>1, <3>4
  <2>3. \A k \in 0 .. n : k \in S
    <3> HIDE DEF S, n
    <3> QED
      BY <1>1, <2>1, <2>2, Inductively
  <2> QED
    BY <2>3
<1>11. g \in [0 .. n -> A]
  BY <1>7, <1>10
<1>12. JoinedIn(g, pieces)
  BY <1>8, <1>9, <1>11 DEF JoinedIn
<1> QED
  BY <1>12

\* What is joined is a string; one more is added at its end.
LEMMA JoinedIs ==
  ASSUME NEW pieces \in Pieces
  PROVE  Joined(pieces) \in Seq(Nat) /\ (pieces = << >> => Joined(pieces) = << >>)
<1>1. PICK f : JoinedIn(f, pieces)
  BY JoinedSteps
<1>2. Len(pieces) \in Nat /\ Len(pieces) \in 0 .. Len(pieces) /\ (pieces = << >> => Len(pieces) = 0)
  BY DEF Pieces
<1> QED
  BY <1>1, <1>2 DEF JoinedIn

LEMMA JoinedOneMore ==
  ASSUME NEW pieces \in Pieces, NEW s \in Seq(Nat)
  PROVE  Append(pieces, s) \in Pieces /\ Joined(Append(pieces, s)) = Joined(pieces) \o s
<1> DEFINE more == Append(pieces, s)
           n    == Len(pieces)
<1>1. /\ more \in Pieces /\ n \in Nat /\ Len(more) = n + 1 /\ more[n + 1] = s
      /\ \A k \in 1 .. n : more[k] = pieces[k]
  BY DEF Pieces
<1>2. PICK f : JoinedIn(f, pieces)
  BY JoinedSteps
<1> HIDE DEF more, n
<1>3. PICK g : JoinedIn(g, more)
  BY <1>1, JoinedSteps
<1>4. /\ f[0] = << >> /\ (\A k \in 1 .. n : f[k] = f[k - 1] \o pieces[k]) /\ Joined(pieces) = f[n]
  BY <1>2 DEF JoinedIn, n
<1>5. /\ g[0] = << >> /\ \A k \in 1 .. n + 1 : g[k] = g[k - 1] \o more[k]
      /\ Joined(more) = g[n + 1]
  BY <1>1, <1>3 DEF JoinedIn
<1>6. g[n] = f[n]
  <2> DEFINE S == {k \in 0 .. n : g[k] = f[k]}
  <2>1. 0 \in S
    BY <1>1, <1>4, <1>5
  <2>2. ASSUME NEW k \in 0 .. n - 1, k \in S PROVE k + 1 \in S
    <3>1. k + 1 \in 1 .. n /\ k + 1 \in 1 .. n + 1 /\ k + 1 \in 0 .. n /\ (k + 1) - 1 = k
      BY <1>1
    <3>2. g[k + 1] = g[k] \o more[k + 1] /\ f[k + 1] = f[k] \o pieces[k + 1]
      BY <1>4, <1>5, <3>1
    <3> QED
      BY <1>1, <2>2, <3>1, <3>2
  <2>3. \A k \in 0 .. n : k \in S
    <3> HIDE DEF S
    <3> QED
      BY <1>1, <2>1, <2>2, Inductively
  <2>4. n \in 0 .. n
    BY <1>1
  <2> QED
    BY <2>3, <2>4
<1>7. g[n + 1] = g[n] \o s
  <2>1. n + 1 \in 1 .. n + 1 /\ (n + 1) - 1 = n
    BY <1>1
  <2> QED
    BY <1>1, <1>5, <2>1
<1> QED
  BY <1>1, <1>4, <1>5, <1>6, <1>7 DEF more

-----------------------------------------------------------------------------
(***************************************************************************)
(* Rewrite strings.                                                        *)
(***************************************************************************)
LEMMA TokensAre ==
  ASSUME NEW s \in Seq(Nat), NEW k \in TokenStarts(s)
  PROVE  /\ k \in 1 .. Len(s) /\ TokenAt(s, k) \in Seq(Nat) /\ TokenAt(s, k) \in Tokens(s)
         /\ Len(TokenAt(s, k)) \in {1, 2}
         /\ IsGroup(TokenAt(s, k)) => Group(TokenAt(s, k)) \in 0 .. 9
<1>1. k \in 1 .. Len(s) /\ Len(s) \in Nat
  BY DEF TokenStarts
<1> DEFINE e == IF s[k] = Backslash /\ k < Len(s) THEN k + 1 ELSE k
<1>2. k \in Int /\ e \in Int /\ e \in {k, k + 1} /\ e \in 1 .. Len(s)
  BY <1>1
<1>3. \A i \in k .. e : s[i] \in Nat
  BY <1>1, <1>2
<1>4. TokenAt(s, k) = SubSeq(s, k, e)
  BY DEF TokenAt
<1> HIDE DEF e
<1>5. TokenAt(s, k) \in Seq(Nat) /\ Len(TokenAt(s, k)) = IF k <= e THEN e - k + 1 ELSE 0
  BY <1>2, <1>3, <1>4, SubSeqProperties
<1>6. Len(TokenAt(s, k)) \in {1, 2}
  BY <1>2, <1>5
<1>7. TokenAt(s, k) \in Tokens(s)
  BY DEF Tokens
<1>8. IsGroup(TokenAt(s, k)) => Group(TokenAt(s, k)) \in 0 .. 9
  BY DEF IsGroup, Group, IsDigit
<1> QED
  BY <1>1, <1>5, <1>6, <1>7, <1>8

\* The groups a rewrite string names are no more than nine.
LEMMA MaxSubmatchIs ==
  ASSUME NEW s \in Seq(Nat)
  PROVE  /\ MaxSubmatch(s) \in 0 .. 9
         /\ \A t \in Tokens(s) : IsGroup(t) => Group(t) <= MaxSubmatch(s)
<1> DEFINE groups == {0} \cup {Group(t) : t \in {u \in Tokens(s) : IsGroup(u)}}
           below  == {9 - n : n \in groups}
<1>1. groups \subseteq 0 .. 9
  BY TokensAre DEF Tokens
<1>2. below \in SUBSET Int /\ below # {} /\ 0 \in Int /\ \A x \in below : 0 <= x
  <2> HIDE DEF groups
  <2>1. 0 \in groups
    BY DEF groups
  <2> QED
    BY <1>1, <2>1
<1>3. PICK x \in below : \A y \in below : x <= y
  <2> HIDE DEF below
  <2> QED
    BY <1>2, LeastOf
<1>4. PICK n \in groups : x = 9 - n
  BY <1>3
<1>5. \A m \in groups : m <= n
  <2> HIDE DEF groups
  <2> SUFFICES ASSUME NEW m \in groups PROVE m <= n
    OBVIOUS
  <2>1. 9 - n <= 9 - m
    BY <1>3, <1>4
  <2>2. m \in 0 .. 9 /\ n \in 0 .. 9
    BY <1>1, <1>4
  <2> QED
    BY <2>1, <2>2
<1>6. MaxSubmatch(s) = CHOOSE m \in groups : \A k \in groups : k <= m
  BY DEF MaxSubmatch
<1>7. MaxSubmatch(s) \in groups /\ \A m \in groups : m <= MaxSubmatch(s)
  <2> HIDE DEF groups
  <2> QED
    BY <1>4, <1>5, <1>6
<1>8. \A t \in Tokens(s) : IsGroup(t) => Group(t) \in groups
  OBVIOUS
<1> HIDE DEF groups
<1> QED
  BY <1>1, <1>7, <1>8

\* What Rewrite adds does not depend on what there is already, and all of a
\* string that CheckRewriteString accepts is understood.
LEMMA RewriteIs ==
  ASSUME NEW to \in Seq(Nat), NEW s \in Seq(Nat), NEW vec \in Pieces
  PROVE  /\ Rewrite(<< >>, s, vec).out \in Seq(Nat)
         /\ Rewrite(to, s, vec).out = to \o Rewrite(<< >>, s, vec).out
         /\ Rewrite(to, s, vec).ok = Rewrite(<< >>, s, vec).ok
         /\ \A ncap \in Nat : CheckRewriteString(s, ncap) /\ Len(vec) = 1 + MaxSubmatch(s)
              => Rewrite(to, s, vec).ok
<1> DEFINE starts == TokenStarts(s)
           good   == {k \in starts : \A j \in starts : j <= k => Understood(TokenAt(s, j), vec)}
           added  == [k \in 1 .. Len(s) |->
                        IF k \in good THEN Substituted(TokenAt(s, k), vec) ELSE << >>]
<1>1. \A o : Rewrite(o, s, vec) = [ok |-> good = starts, out |-> o \o Joined(added)]
  BY DEF Rewrite
<1>2. added \in Pieces
  <2>1. Len(s) \in Nat
    OBVIOUS
  <2>2. ASSUME NEW k \in good PROVE Substituted(TokenAt(s, k), vec) \in Seq(Nat)
    <3> DEFINE t == TokenAt(s, k)
    <3>1. k \in starts /\ k <= k /\ Understood(t, vec)
      <4>1. k \in 1 .. Len(s)
        BY TokensAre
      <4> QED
        BY <4>1
    <3>2. t \in Seq(Nat) /\ (IsGroup(t) => Group(t) \in 0 .. 9)
      BY <3>1, TokensAre
    <3>3. CASE IsGroup(t)
      <4>1. ~IsPlain(t) /\ ~IsEscaped(t)
        BY <3>3 DEF IsGroup, IsPlain, IsEscaped, IsDigit, Backslash
      <4>2. Group(t) < Len(vec) /\ Group(t) \in 0 .. 9
        BY <3>1, <3>2, <3>3, <4>1 DEF Understood
      <4>3. Group(t) + 1 \in 1 .. Len(vec)
        BY <4>2 DEF Pieces
      <4>4. vec[Group(t) + 1] \in Seq(Nat)
        BY <4>3 DEF Pieces
      <4> QED
        BY <3>3, <4>4 DEF Substituted
    <3>4. CASE ~IsGroup(t)
      <4>1. <<Backslash>> \in Seq(Nat)
        BY DEF Backslash
      <4>2. Substituted(t, vec) = IF IsEscaped(t) THEN <<Backslash>> ELSE t
        BY <3>4 DEF Substituted
      <4> QED
        BY <3>2, <4>1, <4>2
    <3> QED
      BY <3>3, <3>4
  <2>3. << >> \in Seq(Nat)
    OBVIOUS
  <2> HIDE DEF good
  <2>4. \A k \in 1 .. Len(s) : (IF k \in good THEN Substituted(TokenAt(s, k), vec) ELSE << >>) \in Seq(Nat)
    BY <2>2, <2>3
  <2> QED
    BY <2>1, <2>4 DEF Pieces
<1>3. Joined(added) \in Seq(Nat)
  <2> HIDE DEF added
  <2> QED
    BY <1>2, JoinedIs
<1>4. ASSUME NEW ncap \in Nat, CheckRewriteString(s, ncap), Len(vec) = 1 + MaxSubmatch(s)
      PROVE  good = starts
  <2> SUFFICES ASSUME NEW k \in starts PROVE Understood(TokenAt(s, k), vec)
    OBVIOUS
  <2> DEFINE t == TokenAt(s, k)
  <2>1. t \in Tokens(s) /\ (IsGroup(t) => Group(t) \in 0 .. 9)
    BY TokensAre
  <2>2. IsPlain(t) \/ IsEscaped(t) \/ IsGroup(t)
    BY <1>4, <2>1 DEF CheckRewriteString
  <2>3. MaxSubmatch(s) \in 0 .. 9 /\ (IsGroup(t) => Group(t) <= MaxSubmatch(s))
    BY <2>1, MaxSubmatchIs
  <2>4. IsGroup(t) => Group(t) < Len(vec)
    BY <1>4, <2>1, <2>3
  <2> QED
    BY <2>2, <2>4 DEF Understood
<1>5. << >> \o Joined(added) = Joined(added)
  BY <1>3, ConcatEmptySeq
<1> HIDE DEF good, starts, added
<1>6. \A o : Rewrite(o, s, vec).out = o \o Joined(added) /\ Rewrite(o, s, vec).ok = (good = starts)
  <2> SUFFICES ASSUME NEW o
               PROVE  Rewrite(o, s, vec).out = o \o Joined(added) /\ Rewrite(o, s, vec).ok = (good = starts)
    OBVIOUS
  <2>1. Rewrite(o, s, vec) = [ok |-> good = starts, out |-> o \o Joined(added)]
    BY <1>1
  <2>2. Rewrite(o, s, vec).out = o \o Joined(added)
    BY <2>1
  <2>3. Rewrite(o, s, vec).ok = (good = starts)
    <3> DEFINE b == good = starts
               r == [ok |-> b, out |-> o \o Joined(added)]
    <3>1. r.ok = b
      OBVIOUS
    <3>2. Rewrite(o, s, vec) = r
      BY <2>1
    <3> HIDE DEF r
    <3> QED
      BY <3>1, <3>2, Zenon
  <2> QED
    BY <2>2, <2>3
<1>7. Rewrite(<< >>, s, vec).out = Joined(added)
  BY <1>5, <1>6
<1>8. Rewrite(to, s, vec).out = to \o Rewrite(<< >>, s, vec).out
  BY <1>6, <1>7
<1>9. Rewrite(to, s, vec).ok = Rewrite(<< >>, s, vec).ok
  BY <1>6
<1>10. \A ncap \in Nat : CheckRewriteString(s, ncap) /\ Len(vec) = 1 + MaxSubmatch(s)
         => Rewrite(to, s, vec).ok
  BY <1>4, <1>6
<1> QED
  BY <1>3, <1>7, <1>8, <1>9, <1>10

-----------------------------------------------------------------------------
(***************************************************************************)
(* Matches.                                                                *)
(***************************************************************************)
Starts(t) == CharStarts(object, t)
Kept(t) == KeepsCharacters(object, t)

\* A match as the functions get it.
IsMatch(t, m) ==
  /\ m \in AnyCaps /\ m # NoAnswer
  /\ m[0] \in 0 .. Len(t) /\ m[1] \in m[0] .. Len(t)
  /\ \A k \in 1 .. NCaps - 1 :
       (m[2 * k] = -1 /\ m[2 * k + 1] = -1)
       \/ (0 <= m[2 * k] /\ m[2 * k] <= m[2 * k + 1] /\ m[2 * k + 1] <= Len(t))

LEMMA SearchIs ==
  ASSUME NEW t, NEW q, NEW anchored
  PROVE  LET c == Search(t, q, anchored)
         IN  /\ c.text = t /\ c.b = q /\ c.e = Len(t) /\ c.anchored = anchored
             /\ c.kind \in {"first", "longest"} /\ c.kind # "full"
             /\ c.kind = IF object.longest THEN "longest" ELSE "first"
  BY DEF Search

LEMMA WaysAre ==
  ASSUME object \in Objects, NEW t \in Strings, NEW q \in 0 .. Len(t)
  PROVE  /\ Len(t) \in Nat
         /\ WaysOf(object.regexp, t, Len(t), q) \in Seq(Place3(q, Len(t)))
  BY TextIs, GroupsAssumption DEF Place3

LEMMA AnyHit ==
  ASSUME object \in Objects, NEW t \in Strings, NEW b, NEW anchored \in BOOLEAN,
         NEW q \in 0 .. Len(t)
  PROVE  Hit(object.regexp, Search(t, b, anchored), q)
           <=> WaysOf(object.regexp, t, Len(t), q) # << >>
<1> DEFINE c == Search(t, b, anchored)
           ways == WaysOf(object.regexp, t, Len(t), q)
<1>1. c.kind \in {"first", "longest"} /\ c.text = t /\ c.e = Len(t)
  BY SearchIs
<1>2. Ways(object.regexp, c, q) = ways
  BY <1>1 DEF Ways
<1>3. q \in Nat /\ Len(t) \in Nat /\ ways \in Seq(Place3(q, Len(t)))
  BY WaysAre
<1> HIDE DEF c, ways
<1>4. ASSUME ways # << >> PROVE Wanted(ways, c) # {}
  BY <1>1, <1>3, <1>4, SomeWanted
<1>5. ASSUME ways = << >> PROVE Wanted(ways, c) = {}
  BY <1>5 DEF Wanted
<1> QED
  BY <1>2, <1>4, <1>5 DEF Hit, c, ways

\* The same way is chosen wherever the search begins.
LEMMA SameChosen ==
  ASSUME NEW c1, NEW c2, c1.kind = c2.kind, c1.text = c2.text, c1.e = c2.e, NEW r, NEW q
  PROVE  Chosen(r, c1, q) = Chosen(r, c2, q)
<1>1. Ways(r, c1, q) = Ways(r, c2, q)
  BY DEF Ways
<1>2. \A ways : Wanted(ways, c1) = Wanted(ways, c2)
  BY DEF Wanted
<1> QED
  BY <1>1, <1>2 DEF Chosen

\* What a search finds that begins at q, and what there is at a position.
LEMMA FoundIs ==
  ASSUME object \in Objects, NEW t \in Strings, NEW b \in 0 .. Len(t), NEW anchored \in BOOLEAN
  PROVE  LET c == Search(t, b, anchored)
             m == Answer(object.regexp, c)
         IN  \/ m = NoAnswer /\ \A q \in From(c) : WaysOf(object.regexp, t, Len(t), q) = << >>
             \/ /\ IsMatch(t, m) /\ m[0] \in From(c) /\ m[0] \in b .. Len(t)
                /\ \A q \in From(c) : q < m[0] => WaysOf(object.regexp, t, Len(t), q) = << >>
                /\ WaysOf(object.regexp, t, Len(t), m[0]) # << >>
                /\ Kept(t) /\ m[0] \in Starts(t) => m[1] \in Starts(t)
                /\ m = [Chosen(object.regexp, c, m[0]).caps
                          EXCEPT ![0] = m[0], ![1] = Chosen(object.regexp, c, m[0]).p]
<1> DEFINE c == Search(t, b, anchored)
           r == object.regexp
           m == Answer(r, c)
           W(q) == WaysOf(r, t, Len(t), q)
<1>1. c.text = t /\ c.b = b /\ c.e = Len(t) /\ Len(t) \in Nat /\ b \in Nat /\ b <= Len(t)
  BY SearchIs, TextIs
<1>2. From(c) \subseteq b .. Len(t)
  BY <1>1 DEF From
<1>3. \A q \in 0 .. Len(t) : Hit(r, c, q) <=> W(q) # << >>
  BY AnyHit
<1>4. \A q \in b .. Len(t) : Ways(r, c, q) = W(q) /\ W(q) \in Seq(Place3(q, Len(t))) /\ q \in 0 .. Len(t)
  BY <1>1, WaysAre DEF Ways
<1>5. \A q \in From(c) : q \in 0 .. Len(t)
  BY <1>2, <1>4
<1> HIDE DEF c, r
<1>6. \/ m = NoAnswer /\ \A q \in From(c) : ~Hit(r, c, q)
      \/ \E q \in From(c) :
           /\ q \in c.b .. c.e /\ Best(r, c, q) /\ m # NoAnswer
           /\ m = [Chosen(r, c, q).caps EXCEPT ![0] = q, ![1] = Chosen(r, c, q).p]
           /\ DOMAIN m = 0 .. 5
           /\ m[0] = q /\ m[1] = Chosen(r, c, q).p
           /\ \A k \in 2 .. 5 : m[k] = Chosen(r, c, q).caps[k]
           /\ \E n \in DOMAIN Ways(r, c, q) :
                Chosen(r, c, q) = Ways(r, c, q)[n] /\ n \in Wanted(Ways(r, c, q), c)
           /\ Chosen(r, c, q).p \in q .. c.e /\ Chosen(r, c, q).caps \in AnyCaps
  BY <1>1, <1>4, AnswerIs
<1>7. CASE m = NoAnswer /\ \A q \in From(c) : ~Hit(r, c, q)
  <2>1. \A q \in From(c) : W(q) = << >>
    BY <1>3, <1>5, <1>7
  <2> QED
    BY <1>7, <2>1 DEF c, r
<1>8. ASSUME NEW q \in From(c),
             q \in c.b .. c.e, Best(r, c, q), m # NoAnswer,
             m = [Chosen(r, c, q).caps EXCEPT ![0] = q, ![1] = Chosen(r, c, q).p],
             DOMAIN m = 0 .. 5,
             m[0] = q, m[1] = Chosen(r, c, q).p,
             \A k \in 2 .. 5 : m[k] = Chosen(r, c, q).caps[k],
             \E n \in DOMAIN Ways(r, c, q) :
               Chosen(r, c, q) = Ways(r, c, q)[n] /\ n \in Wanted(Ways(r, c, q), c),
             Chosen(r, c, q).p \in q .. c.e, Chosen(r, c, q).caps \in AnyCaps
      PROVE  /\ IsMatch(t, m) /\ m[0] \in From(c) /\ m[0] \in b .. Len(t)
             /\ \A k \in From(c) : k < m[0] => W(k) = << >>
             /\ W(m[0]) # << >>
             /\ Kept(t) /\ m[0] \in Starts(t) => m[1] \in Starts(t)
             /\ m = [Chosen(r, c, m[0]).caps EXCEPT ![0] = m[0], ![1] = Chosen(r, c, m[0]).p]
  <2>1. q \in b .. Len(t) /\ q \in 0 .. Len(t) /\ m[1] \in q .. Len(t)
    BY <1>1, <1>4, <1>8
  <2>2. PICK n \in DOMAIN W(q) : Chosen(r, c, q) = W(q)[n]
    BY <1>4, <1>8, <2>1
  <2>3. W(q) # << >> /\ \A k \in From(c) : k < q => W(k) = << >>
    BY <1>3, <1>5, <1>8 DEF Best
  <2>4. Kept(t) /\ q \in Starts(t) => m[1] \in Starts(t)
    <3>1. Kept(t) => \A k \in 0 .. Len(t) : k \in CharStarts(object, t) =>
            \A i \in DOMAIN WaysOf(object.regexp, t, Len(t), k) :
              WaysOf(object.regexp, t, Len(t), k)[i].p \in CharStarts(object, t)
      BY DEF Kept, KeepsCharacters
    <3>2. Kept(t) /\ q \in CharStarts(object, t) => \A i \in DOMAIN W(q) : W(q)[i].p \in CharStarts(object, t)
      BY <2>1, <3>1 DEF r
    <3>3. m[1] = Chosen(r, c, q).p
      BY <1>8
    <3> HIDE DEF W, m
    <3> QED
      BY <2>2, <3>2, <3>3 DEF Starts
  <2>5. \A k \in 1 .. NCaps - 1 :
          (Chosen(r, c, q).caps[2 * k] = -1 /\ Chosen(r, c, q).caps[2 * k + 1] = -1)
          \/ (/\ 0 <= Chosen(r, c, q).caps[2 * k]
              /\ Chosen(r, c, q).caps[2 * k] <= Chosen(r, c, q).caps[2 * k + 1]
              /\ Chosen(r, c, q).caps[2 * k + 1] <= Len(t))
    BY <2>1, <2>2, GroupsAssumption DEF r
  <2>6. \A k \in 1 .. NCaps - 1 : 2 * k \in 2 .. 5 /\ 2 * k + 1 \in 2 .. 5
    BY DEF NCaps
  <2>7. m \in AnyCaps
    <3>1. q \in Int /\ Chosen(r, c, q).p \in Int
      BY <1>8, <2>1
    <3> QED
      BY <1>8, <3>1 DEF AnyCaps, NCaps
  <2> HIDE DEF m
  <2>8. IsMatch(t, m)
    BY <1>8, <2>1, <2>5, <2>6, <2>7 DEF IsMatch
  <2> QED
    BY <1>8, <2>1, <2>3, <2>4, <2>8
<1>9. CASE \E q \in From(c) :
           /\ q \in c.b .. c.e /\ Best(r, c, q) /\ m # NoAnswer
           /\ m = [Chosen(r, c, q).caps EXCEPT ![0] = q, ![1] = Chosen(r, c, q).p]
           /\ DOMAIN m = 0 .. 5
           /\ m[0] = q /\ m[1] = Chosen(r, c, q).p
           /\ \A k \in 2 .. 5 : m[k] = Chosen(r, c, q).caps[k]
           /\ \E n \in DOMAIN Ways(r, c, q) :
                Chosen(r, c, q) = Ways(r, c, q)[n] /\ n \in Wanted(Ways(r, c, q), c)
           /\ Chosen(r, c, q).p \in q .. c.e /\ Chosen(r, c, q).caps \in AnyCaps
  <2> HIDE DEF m, W
  <2>1. PICK q \in From(c) :
           /\ q \in c.b .. c.e /\ Best(r, c, q) /\ m # NoAnswer
           /\ m = [Chosen(r, c, q).caps EXCEPT ![0] = q, ![1] = Chosen(r, c, q).p]
           /\ DOMAIN m = 0 .. 5
           /\ m[0] = q /\ m[1] = Chosen(r, c, q).p
           /\ \A k \in 2 .. 5 : m[k] = Chosen(r, c, q).caps[k]
           /\ \E n \in DOMAIN Ways(r, c, q) :
                Chosen(r, c, q) = Ways(r, c, q)[n] /\ n \in Wanted(Ways(r, c, q), c)
           /\ Chosen(r, c, q).p \in q .. c.e /\ Chosen(r, c, q).caps \in AnyCaps
    BY <1>9
  <2>2. /\ IsMatch(t, m) /\ m[0] \in From(c) /\ m[0] \in b .. Len(t)
        /\ \A k \in From(c) : k < m[0] => W(k) = << >>
        /\ W(m[0]) # << >>
        /\ Kept(t) /\ m[0] \in Starts(t) => m[1] \in Starts(t)
        /\ m = [Chosen(r, c, m[0]).caps EXCEPT ![0] = m[0], ![1] = Chosen(r, c, m[0]).p]
    BY <1>8, <2>1
  <2> QED
    BY <2>2 DEF m, W, c, r
<1> QED
  BY <1>6, <1>7, <1>9

LEMMA MatchAtIs ==
  ASSUME object \in Objects, NEW t \in Strings, NEW q \in 0 .. Len(t)
  PROVE  /\ MatchAt(t, q) = NoAnswer <=> WaysOf(object.regexp, t, Len(t), q) = << >>
         /\ MatchAt(t, q) # NoAnswer => IsMatch(t, MatchAt(t, q)) /\ MatchAt(t, q)[0] = q
<1> DEFINE c == Search(t, q, TRUE)
<1>1. From(c) = {q}
  BY DEF From, Search
<1>2. MatchAt(t, q) = Answer(object.regexp, c)
  BY DEF MatchAt
<1>3. \/ MatchAt(t, q) = NoAnswer /\ \A k \in From(c) : WaysOf(object.regexp, t, Len(t), k) = << >>
      \/ /\ IsMatch(t, MatchAt(t, q)) /\ MatchAt(t, q)[0] \in From(c)
         /\ WaysOf(object.regexp, t, Len(t), MatchAt(t, q)[0]) # << >>
  BY <1>2, FoundIs
<1>4. IsMatch(t, MatchAt(t, q)) => MatchAt(t, q) # NoAnswer
  BY DEF IsMatch
<1> HIDE DEF c
<1> QED
  BY <1>1, <1>3, <1>4

\* A search finds the first position with a match, and what matches there.
LEMMA MatchIs ==
  ASSUME object \in Objects, NEW t \in Strings, NEW b \in 0 .. Len(t)
  PROVE  LET m == Answer(object.regexp, Search(t, b, FALSE))
         IN  \/ m = NoAnswer /\ \A q \in b .. Len(t) : MatchAt(t, q) = NoAnswer
             \/ /\ IsMatch(t, m) /\ m[0] \in b .. Len(t) /\ m = MatchAt(t, m[0])
                /\ \A q \in b .. m[0] - 1 : MatchAt(t, q) = NoAnswer
                /\ Kept(t) /\ b \in Starts(t) => m[0] \in Starts(t) /\ m[1] \in Starts(t)
<1> DEFINE c == Search(t, b, FALSE)
           r == object.regexp
           m == Answer(r, c)
           W(q) == WaysOf(r, t, Len(t), q)
<1>1. Len(t) \in Nat /\ \A q \in b .. Len(t) : q \in 0 .. Len(t)
  BY TextIs
<1>2. From(c) = b .. Len(t)
  BY DEF From, Search
<1>3. \A q \in b .. Len(t) : MatchAt(t, q) = NoAnswer <=> W(q) = << >>
  BY <1>1, MatchAtIs
<1>4. \/ m = NoAnswer /\ \A q \in From(c) : W(q) = << >>
      \/ /\ IsMatch(t, m) /\ m[0] \in From(c) /\ m[0] \in b .. Len(t)
         /\ \A q \in From(c) : q < m[0] => W(q) = << >>
         /\ W(m[0]) # << >>
         /\ Kept(t) /\ m[0] \in Starts(t) => m[1] \in Starts(t)
         /\ m = [Chosen(r, c, m[0]).caps EXCEPT ![0] = m[0], ![1] = Chosen(r, c, m[0]).p]
  BY FoundIs
<1>5. CASE m = NoAnswer /\ \A q \in From(c) : W(q) = << >>
  BY <1>2, <1>3, <1>5
<1>6. CASE /\ IsMatch(t, m) /\ m[0] \in From(c) /\ m[0] \in b .. Len(t)
           /\ \A q \in From(c) : q < m[0] => W(q) = << >>
           /\ W(m[0]) # << >>
           /\ Kept(t) /\ m[0] \in Starts(t) => m[1] \in Starts(t)
           /\ m = [Chosen(r, c, m[0]).caps EXCEPT ![0] = m[0], ![1] = Chosen(r, c, m[0]).p]
  <2> DEFINE d == Search(t, m[0], TRUE)
             n == MatchAt(t, m[0])
  <2>1. m[0] \in 0 .. Len(t) /\ n = Answer(r, d) /\ From(d) = {m[0]}
    <3>1. m[0] \in 0 .. Len(t)
      BY <1>1, <1>6
    <3> HIDE DEF m
    <3>2. From(d) = {m[0]}
      BY DEF From, Search
    <3>3. n = Answer(r, d)
      BY DEF MatchAt
    <3> QED
      BY <3>1, <3>2, <3>3
  <2>2. n # NoAnswer /\ n[0] = m[0]
    <3> HIDE DEF m
    <3> QED
      BY <1>3, <1>6, <2>1, MatchAtIs
  <2>3. n = [Chosen(r, d, n[0]).caps EXCEPT ![0] = n[0], ![1] = Chosen(r, d, n[0]).p]
    <3> HIDE DEF m
    <3>1. n = Answer(r, Search(t, m[0], TRUE)) /\ r = object.regexp
      BY <2>1
    <3> HIDE DEF n, r
    <3> QED
      BY <2>1, <2>2, <3>1, FoundIs
  <2>4. Chosen(r, d, m[0]) = Chosen(r, c, m[0])
    <3>1. c.kind = d.kind /\ c.text = d.text /\ c.e = d.e
      BY DEF Search
    <3> HIDE DEF m, c, d
    <3> QED
      BY <3>1, SameChosen
  <2>5. m = n
    <3> HIDE DEF m, n, c, d
    <3> QED
      BY <1>6, <2>2, <2>3, <2>4
  <2>6. \A q \in b .. m[0] - 1 : MatchAt(t, q) = NoAnswer
    <3> SUFFICES ASSUME NEW q \in b .. m[0] - 1 PROVE MatchAt(t, q) = NoAnswer
      OBVIOUS
    <3> HIDE DEF m
    <3>1. q \in b .. Len(t) /\ q < m[0]
      BY <1>1, <1>6
    <3> QED
      BY <1>2, <1>3, <1>6, <3>1
  <2>7. Kept(t) /\ b \in Starts(t) => m[0] \in Starts(t)
    <3> HIDE DEF m
    <3> SUFFICES ASSUME Kept(t), b \in Starts(t), m[0] \notin Starts(t) PROVE FALSE
      OBVIOUS
    <3>1. PICK s \in Starts(t) : /\ s < m[0] /\ \A k \in s + 1 .. m[0] : k \notin Starts(t)
                                 /\ W(s) # << >>
      BY <1>6, <2>1 DEF Kept, KeepsCharacters, Starts, r
    <3>2. s \in 0 .. Len(t) /\ s \in Int /\ b \in Int /\ m[0] \in Int
      BY <1>6, CharStartsAre DEF Starts
    <3>3. ~(s < b)
      <4>1. b <= m[0]
        BY <1>6, <3>2
      <4>2. s < b => b \in s + 1 .. m[0]
        BY <3>2, <4>1
      <4> QED
        BY <3>1, <4>2
    <3>4. s \in b .. Len(t)
      BY <1>1, <3>2, <3>3
    <3> QED
      BY <1>2, <1>6, <3>1, <3>4
  <2> HIDE DEF m, n
  <2>8. n = MatchAt(t, m[0])
    BY DEF n
  <2> QED
    BY <1>6, <2>5, <2>6, <2>7, <2>8 DEF m, c, r
<1> QED
  BY <1>4, <1>5, <1>6

\* The submatches are parts of the text.
LEMMA SliceIs ==
  ASSUME NEW t \in Seq(Nat), NEW b \in 0 .. Len(t), NEW e \in b .. Len(t)
  PROVE  Slice(t, b, e) \in Seq(Nat)
<1>1. Len(t) \in Nat /\ b + 1 \in Int /\ e \in Int /\ \A i \in b + 1 .. e : i \in 1 .. Len(t)
  OBVIOUS
<1>2. \A i \in b + 1 .. e : t[i] \in Nat
  BY <1>1
<1>3. SubSeq(t, b + 1, e) \in Seq(Nat)
  BY <1>1, <1>2, SubSeqProperties
<1> QED
  BY <1>3 DEF Slice

LEMMA SliceJoins ==
  ASSUME NEW t \in Seq(Nat), NEW b \in 0 .. Len(t), NEW k \in b .. Len(t), NEW e \in k .. Len(t)
  PROVE  Slice(t, b, k) \o Slice(t, k, e) = Slice(t, b, e)
<1>1. b + 1 \in 1 .. Len(t) + 1 /\ k \in (b + 1) - 1 .. Len(t) /\ Len(t) \in Nat
  OBVIOUS
<1>2. SubSeq(t, b + 1, k) \o SubSeq(t, k + 1, e) = SubSeq(t, b + 1, e)
  BY <1>1, ConcatAdjacentSubSeq
<1> QED
  BY <1>2 DEF Slice

LEMMA SliceEmpty ==
  ASSUME NEW t, NEW b \in Int, NEW e \in Int, e <= b
  PROVE  Slice(t, b, e) = << >>
<1>1. b + 1 \in Int /\ e < b + 1
  OBVIOUS
<1> QED
  BY <1>1, SubSeqEmpty DEF Slice

LEMMA VecIs ==
  ASSUME object \in Objects, rewrite \in Rewrites, EnoughGroups, NEW t \in Strings, NEW m, IsMatch(t, m)
  PROVE  Vec(t, m) \in Pieces /\ Len(Vec(t, m)) = nvec /\ nvec = 1 + MaxSubmatch(rewrite)
<1>1. nvec = 1 + MaxSubmatch(rewrite) /\ MaxSubmatch(rewrite) \in 0 .. 9
  BY ReplacingAssumption, MaxSubmatchIs DEF nvec
<1>2. nvec \in 1 .. 3
  <2>1. object.captures \in 0 .. 2
    BY ReplacingAssumption DEF NCaps
  <2>2. nvec <= 1 + object.captures
    BY DEF EnoughGroups
  <2> HIDE DEF nvec
  <2> QED
    BY <1>1, <2>1, <2>2
<1>3. t \in Seq(Nat) /\ Len(t) \in Nat
  BY TextIs
<1>4. ASSUME NEW k \in 1 .. nvec PROVE Slice(t, m[2 * k - 2], m[2 * k - 1]) \in Seq(Nat)
  <2>1. CASE k = 1
    <3>1. m[0] \in 0 .. Len(t) /\ m[1] \in m[0] .. Len(t) /\ 2 * k - 2 = 0 /\ 2 * k - 1 = 1
      BY <2>1 DEF IsMatch
    <3> QED
      BY <1>3, <3>1, SliceIs
  <2>2. CASE k # 1
    <3> DEFINE b == m[2 * (k - 1)]
               e == m[2 * (k - 1) + 1]
    <3>1. k - 1 \in 1 .. NCaps - 1 /\ 2 * k - 2 = 2 * (k - 1) /\ 2 * k - 1 = 2 * (k - 1) + 1
          /\ 2 * (k - 1) \in 0 .. 2 * NCaps - 1 /\ 2 * (k - 1) + 1 \in 0 .. 2 * NCaps - 1
      BY <1>2, <2>2 DEF NCaps
    <3>2. b \in Int /\ e \in Int
      BY <3>1 DEF IsMatch, AnyCaps
    <3>3. (b = -1 /\ e = -1) \/ (0 <= b /\ b <= e /\ e <= Len(t))
      BY <3>1 DEF IsMatch
    <3>6. Slice(t, m[2 * k - 2], m[2 * k - 1]) = Slice(t, b, e)
      BY <3>1
    <3> HIDE DEF b, e
    <3>4. CASE b = -1 /\ e = -1
      <4>1. e <= b
        BY <3>4
      <4>2. Slice(t, b, e) = << >>
        BY <3>2, <4>1, SliceEmpty
      <4>3. << >> \in Seq(Nat)
        OBVIOUS
      <4> QED
        BY <3>6, <4>2, <4>3
    <3>5. CASE 0 <= b /\ b <= e /\ e <= Len(t)
      <4>1. b \in 0 .. Len(t) /\ e \in b .. Len(t)
        BY <1>3, <3>2, <3>5
      <4>2. Slice(t, b, e) \in Seq(Nat)
        BY <1>3, <4>1, SliceIs
      <4> QED
        BY <3>6, <4>2
    <3> QED
      BY <3>3, <3>4, <3>5
  <2> QED
    BY <2>1, <2>2
<1>5. Vec(t, m) \in Pieces /\ Len(Vec(t, m)) = nvec
  <2> HIDE DEF nvec
  <2> QED
    BY <1>2, <1>4 DEF Vec, Pieces
<1> QED
  BY <1>1, <1>5

-----------------------------------------------------------------------------
(***************************************************************************)
(* What is woven together.                                                 *)
(***************************************************************************)
Added(t, m) == Rewrite(<< >>, rewrite, Vec(t, m)).out
PieceOf(t, matches, k) ==
  Slice(t, EndOf(matches, k - 1), matches[k][0]) \o Added(t, matches[k])
PiecesOf(t, matches) == [k \in 1 .. Len(matches) |-> PieceOf(t, matches, k)]

\* Matches in t, none of which begins before the one in front of it ends.
Chained(t, matches) ==
  /\ matches \in Seq(AnyCaps)
  /\ \A k \in 1 .. Len(matches) :
       IsMatch(t, matches[k]) /\ EndOf(matches, k - 1) <= matches[k][0]

LEMMA AddedIs ==
  ASSUME object \in Objects, rewrite \in Rewrites, EnoughGroups, NEW t \in Strings, NEW m,
         IsMatch(t, m), NEW to \in Seq(Nat)
  PROVE  /\ Added(t, m) \in Seq(Nat) /\ Rewrite(to, rewrite, Vec(t, m)).out = to \o Added(t, m)
         /\ CheckRewriteString(rewrite, object.captures) => Rewrite(to, rewrite, Vec(t, m)).ok
<1>1. Vec(t, m) \in Pieces /\ Len(Vec(t, m)) = 1 + MaxSubmatch(rewrite)
  BY VecIs
<1>2. rewrite \in Seq(Nat) /\ object.captures \in Nat
  BY ReplacingAssumption
<1> QED
  BY <1>1, <1>2, RewriteIs DEF Added

LEMMA EndsIn ==
  ASSUME NEW t \in Strings, NEW matches, Chained(t, matches), NEW k \in 0 .. Len(matches)
  PROVE  EndOf(matches, k) \in 0 .. Len(t)
<1>1. Len(t) \in Nat /\ Len(matches) \in Nat
  BY TextIs DEF Chained
<1>2. CASE k = 0
  BY <1>1, <1>2 DEF EndOf
<1>3. CASE k # 0
  <2>1. k \in 1 .. Len(matches)
    BY <1>1, <1>3
  <2>2. IsMatch(t, matches[k]) /\ EndOf(matches, k) = matches[k][1]
    BY <1>3, <2>1 DEF Chained, EndOf
  <2>3. matches[k][0] \in 0 .. Len(t) /\ matches[k][1] \in matches[k][0] .. Len(t)
    BY <2>2 DEF IsMatch
  <2> QED
    BY <1>1, <2>2, <2>3
<1> QED
  BY <1>2, <1>3

LEMMA PieceIs ==
  ASSUME object \in Objects, rewrite \in Rewrites, EnoughGroups, NEW t \in Strings, NEW m,
         IsMatch(t, m), NEW b \in 0 .. Len(t), b <= m[0]
  PROVE  Slice(t, b, m[0]) \o Added(t, m) \in Seq(Nat)
<1>1. t \in Seq(Nat) /\ Len(t) \in Nat /\ << >> \in Seq(Nat)
  BY TextIs
<1>2. m[0] \in b .. Len(t)
  BY <1>1 DEF IsMatch
<1>3. Slice(t, b, m[0]) \in Seq(Nat)
  BY <1>1, <1>2, SliceIs
<1>4. Added(t, m) \in Seq(Nat)
  BY <1>1, AddedIs
<1> QED
  BY <1>3, <1>4, ConcatProperties

LEMMA PiecesAre ==
  ASSUME object \in Objects, rewrite \in Rewrites, EnoughGroups, NEW t \in Strings, NEW matches,
         Chained(t, matches)
  PROVE  PiecesOf(t, matches) \in Pieces /\ WovenTo(t, matches) = Joined(PiecesOf(t, matches))
         /\ WovenTo(t, matches) \in Seq(Nat)
<1>1. Len(matches) \in Nat
  BY DEF Chained
<1>2. ASSUME NEW k \in 1 .. Len(matches) PROVE PieceOf(t, matches, k) \in Seq(Nat)
  <2>1. IsMatch(t, matches[k]) /\ EndOf(matches, k - 1) <= matches[k][0]
    BY DEF Chained
  <2>2. k - 1 \in 0 .. Len(matches)
    BY <1>1
  <2>3. EndOf(matches, k - 1) \in 0 .. Len(t)
    BY <2>2, EndsIn
  <2> QED
    BY <2>1, <2>3, PieceIs DEF PieceOf
<1>3. PiecesOf(t, matches) \in Pieces
  BY <1>1, <1>2 DEF PiecesOf, Pieces
<1>4. WovenTo(t, matches) = Joined(PiecesOf(t, matches))
  BY DEF WovenTo, PiecesOf, PieceOf, Added
<1> QED
  BY <1>3, <1>4, JoinedIs

LEMMA WovenNone == \A t : WovenTo(t, << >>) = << >> /\ Chained(t, << >>)
<1>1. ASSUME NEW t PROVE WovenTo(t, << >>) = << >>
  <2>1. PiecesOf(t, << >>) = << >> /\ << >> \in Pieces
    BY DEF PiecesOf, Pieces
  <2>2. WovenTo(t, << >>) = Joined(PiecesOf(t, << >>))
    BY DEF WovenTo, PiecesOf, PieceOf, Added
  <2> QED
    BY <2>1, <2>2, JoinedIs
<1>2. \A t : Chained(t, << >>)
  BY DEF Chained
<1> QED
  BY <1>1, <1>2

LEMMA WovenOneMore ==
  ASSUME object \in Objects, rewrite \in Rewrites, EnoughGroups, NEW t \in Strings, NEW matches,
         Chained(t, matches), NEW m, IsMatch(t, m), EndOf(matches, Len(matches)) <= m[0]
  PROVE  /\ Chained(t, Append(matches, m))
         /\ WovenTo(t, Append(matches, m))
              = WovenTo(t, matches) \o (Slice(t, EndOf(matches, Len(matches)), m[0]) \o Added(t, m))
<1> DEFINE more == Append(matches, m)
           n    == Len(matches)
           s    == Slice(t, EndOf(matches, n), m[0]) \o Added(t, m)
<1>1. /\ n \in Nat /\ more \in Seq(AnyCaps) /\ Len(more) = n + 1 /\ more[n + 1] = m
      /\ \A k \in 1 .. n : more[k] = matches[k]
  BY DEF Chained, IsMatch
<1>2. n \in 0 .. n
  BY <1>1
<1>3. s \in Seq(Nat)
  <2>1. EndOf(matches, n) \in 0 .. Len(t)
    BY <1>2, EndsIn
  <2> QED
    BY <2>1, PieceIs
<1> HIDE DEF more, n, s
<1>4. \A k \in 0 .. n : EndOf(more, k) = EndOf(matches, k)
  <2> SUFFICES ASSUME NEW k \in 0 .. n PROVE EndOf(more, k) = EndOf(matches, k)
    OBVIOUS
  <2>1. k = 0 \/ k \in 1 .. n
    BY <1>1
  <2> QED
    BY <1>1, <2>1 DEF EndOf
<1>5. \A k \in 1 .. n + 1 : k - 1 \in 0 .. n /\ (k \in 1 .. n \/ k = n + 1)
  BY <1>1
<1>6. Chained(t, more)
  <2>1. ASSUME NEW k \in 1 .. n + 1
        PROVE  IsMatch(t, more[k]) /\ EndOf(more, k - 1) <= more[k][0]
    <3>1. EndOf(more, k - 1) = EndOf(matches, k - 1)
      BY <1>4, <1>5
    <3>2. CASE k \in 1 .. n
      BY <1>1, <3>1, <3>2 DEF Chained, n
    <3>3. CASE k = n + 1
      <4>1. k - 1 = n
        BY <1>1, <3>3
      <4> QED
        BY <1>1, <3>1, <3>3, <4>1 DEF n
    <3> QED
      BY <1>5, <3>2, <3>3
  <2> QED
    BY <1>1, <2>1 DEF Chained
<1>7. PiecesOf(t, more) = Append(PiecesOf(t, matches), s)
  <2> DEFINE a == PiecesOf(t, more)
             b == Append(PiecesOf(t, matches), s)
  <2>1. a \in Pieces /\ Len(a) = n + 1 /\ \A k \in 1 .. n + 1 : a[k] = PieceOf(t, more, k)
    BY <1>1, <1>6, PiecesAre DEF PiecesOf
  <2>2. /\ PiecesOf(t, matches) \in Pieces /\ Len(PiecesOf(t, matches)) = n
        /\ \A k \in 1 .. n : PiecesOf(t, matches)[k] = PieceOf(t, matches, k)
    BY <1>1, PiecesAre DEF PiecesOf, n
  <2>3. b \in Pieces /\ Len(b) = n + 1 /\ b[n + 1] = s /\ \A k \in 1 .. n : b[k] = PieceOf(t, matches, k)
    <3> HIDE DEF PiecesOf
    <3>1. \A q \in Pieces : Len(q) = n => /\ Append(q, s) \in Pieces /\ Len(Append(q, s)) = n + 1
                                          /\ Append(q, s)[n + 1] = s
                                          /\ \A k \in 1 .. n : Append(q, s)[k] = q[k]
      BY <1>1, <1>3 DEF Pieces
    <3> QED
      BY <2>2, <3>1
  <2>4. ASSUME NEW k \in 1 .. n + 1 PROVE a[k] = b[k]
    <3>1. EndOf(more, k - 1) = EndOf(matches, k - 1)
      BY <1>4, <1>5
    <3>2. CASE k \in 1 .. n
      BY <1>1, <2>1, <2>3, <3>1, <3>2 DEF PieceOf
    <3>3. CASE k = n + 1
      <4>1. k - 1 = n
        BY <1>1, <3>3
      <4>2. PieceOf(t, more, k) = s
        BY <1>1, <3>1, <3>3, <4>1 DEF PieceOf, s
      <4> QED
        BY <2>1, <2>3, <3>3, <4>2
    <3> QED
      BY <1>5, <3>2, <3>3
  <2> HIDE DEF a, b
  <2>5. a = b
    BY <2>1, <2>3, <2>4, SeqEqual DEF Pieces
  <2> QED
    BY <2>5 DEF a, b
<1>8. WovenTo(t, more) = WovenTo(t, matches) \o s
  <2>1. WovenTo(t, more) = Joined(PiecesOf(t, more)) /\ WovenTo(t, matches) = Joined(PiecesOf(t, matches))
        /\ PiecesOf(t, matches) \in Pieces
    BY <1>6, PiecesAre
  <2> QED
    BY <1>3, <1>7, <2>1, JoinedOneMore
<1> QED
  BY <1>6, <1>8 DEF more, n, s

-----------------------------------------------------------------------------
(***************************************************************************)
(* The invariant.                                                          *)
(***************************************************************************)
\* ReplacedInTurn, of a call of function f that returns res and leaves s in str
\* and o in out, when ms are the matches replaced in t.
RightAnswer(f, res, s, o, t, ms) ==
  LET first   == Answer(object.regexp, Search(t, 0, FALSE))
      checked == CheckRewriteString(rewrite, object.captures)
  IN  /\ f = "global" => Successive(t, ms) /\ res = Len(ms) /\ s = Woven(t, ms)
      /\ f = "replace" /\ res = 1 => first # NoAnswer /\ s = Woven(t, <<first>>)
      /\ f = "extract" /\ res = 1 =>
           first # NoAnswer /\ s = t /\ o = Rewrite(<< >>, rewrite, Vec(t, first)).out
      /\ f = "refused" => ~checked
      /\ checked => (res > 0 <=> first # NoAnswer)
      /\ res = 0 => s = t

LEMMA StaysRight ==
  ASSUME object' = object, rewrite' = rewrite,
         RightAnswer(fun', result', str', out', text0', replaced')
  PROVE  ReplacedInTurn'
<1>1. nvec' = nvec
  BY DEF nvec
<1>2. \A t, m : Vec(t, m)' = Vec(t, m)
  BY <1>1 DEF Vec, Slice
<1>3. \A t, q, a : Search(t, q, a)' = Search(t, q, a)
  BY DEF Search
<1>4. \A t, q : MatchAt(t, q)' = MatchAt(t, q)
  BY <1>3 DEF MatchAt
<1>5. \A t, ms : Successive(t, ms)' = Successive(t, ms)
  <2>1. \A t, ms, k : PassedOver(t, ms, k)' = PassedOver(t, ms, k)
    BY <1>4 DEF PassedOver, EndOf
  <2> QED
    BY <1>4, <2>1 DEF Successive, EndOf, Gap
<1>6. \A t, ms : Woven(t, ms)' = Woven(t, ms)
  BY <1>2 DEF Woven, WovenTo, EndOf, Slice
<1> QED
  BY <1>2, <1>3, <1>5, <1>6 DEF RightAnswer, ReplacedInTurn

\* Where the last match that was replaced ends.
LastEnd == EndOf(replaced, Len(replaced))
BytesDone == IF p <= Len(text0) THEN p ELSE Len(text0)

\* Each match replaced is the one that begins there, behind the one before and
\* what was passed over.
Replaceable(t, ms, k) ==
  /\ ms[k] = MatchAt(t, ms[k][0]) /\ ms[k] # NoAnswer
  /\ ms[k][0] \notin PassedOver(t, ms, k - 1)
  /\ Kept(t) => ms[k][0] \in Starts(t) /\ ms[k][1] \in Starts(t)

\* Nothing else begins before q and behind the k-th match.
NoneBefore(t, ms, k, q) ==
  \A j \in EndOf(ms, k) .. q - 1 : j \in PassedOver(t, ms, k) \/ MatchAt(t, j) = NoAnswer

Looping ==
  /\ EnoughGroups /\ fun = "global" /\ str = text0
  /\ Chained(text0, replaced) /\ count = Len(replaced)
  /\ p \in 0 .. Len(text0) + 1 /\ (Kept(text0) /\ p <= Len(text0) => p \in Starts(text0))
  /\ lastend = (IF count = 0 THEN None ELSE LastEnd) /\ LastEnd <= p
  /\ \A k \in 1 .. Len(replaced) : Replaceable(text0, replaced, k)
  /\ \A k \in 0 .. Len(replaced) - 1 : NoneBefore(text0, replaced, k, replaced[k + 1][0])
  /\ p = LastEnd \/ PassedOver(text0, replaced, Len(replaced)) = LastEnd .. p - 1
  /\ out = WovenTo(text0, replaced) \o Slice(text0, LastEnd, BytesDone)

ReplaceInv ==
  /\ object \in Objects /\ rewrite \in Rewrites /\ text0 \in Strings
  /\ doing = "call" => /\ p = 0 /\ lastend = None /\ out = << >> /\ count = 0 /\ replaced = << >>
                       /\ str = text0
  /\ doing = "global" => Looping
  /\ ReplacedInTurn

LEMMA InvFacts ==
  ASSUME text0 \in Strings, Looping
  PROVE  /\ text0 \in Seq(Nat) /\ Len(text0) \in Nat /\ count \in Nat /\ Len(replaced) \in Nat
         /\ LastEnd \in 0 .. Len(text0) /\ BytesDone \in LastEnd .. Len(text0)
         /\ p \in Nat /\ (p <= Len(text0) => BytesDone = p)
<1>1. text0 \in Seq(Nat) /\ Len(text0) \in Nat
  BY TextIs
<1>2. Len(replaced) \in Nat /\ count \in Nat
  BY DEF Looping, Chained
<1>3. LastEnd \in 0 .. Len(text0)
  <2>1. Len(replaced) \in 0 .. Len(replaced) /\ Chained(text0, replaced)
    BY <1>2 DEF Looping
  <2> QED
    BY <2>1, EndsIn DEF LastEnd
<1>4. p \in 0 .. Len(text0) + 1 /\ LastEnd <= p
  BY DEF Looping
<1> HIDE DEF LastEnd
<1>5. BytesDone \in LastEnd .. Len(text0) /\ (p <= Len(text0) => BytesDone = p)
  BY <1>1, <1>3, <1>4 DEF BytesDone
<1> QED
  BY <1>1, <1>2, <1>3, <1>4, <1>5

\* What the loop asks for.
LEMMA NextMatch ==
  ASSUME object \in Objects, text0 \in Strings, Looping, p <= Len(text0)
  PROVE  /\ p \in 0 .. Len(text0)
         /\ \/ Match(p) = NoAnswer /\ \A q \in p .. Len(text0) : MatchAt(text0, q) = NoAnswer
            \/ /\ IsMatch(text0, Match(p)) /\ Match(p)[0] \in p .. Len(text0)
               /\ Match(p) = MatchAt(text0, Match(p)[0])
               /\ \A q \in p .. Match(p)[0] - 1 : MatchAt(text0, q) = NoAnswer
               /\ Kept(text0) => Match(p)[0] \in Starts(text0) /\ Match(p)[1] \in Starts(text0)
<1>1. p \in 0 .. Len(text0) /\ (Kept(text0) => p \in Starts(text0)) /\ str = text0
  BY InvFacts DEF Looping
<1>2. Match(p) = Answer(object.regexp, Search(text0, p, FALSE))
  BY <1>1 DEF Match
<1> QED
  BY <1>1, <1>2, MatchIs

\* How far the loop goes on behind an empty match.
LEMMA AdvanceIs ==
  ASSUME object \in Objects, text0 \in Strings, Looping, p < Len(text0)
  PROVE  /\ Advance \in 1 .. Len(text0) - p
         /\ Advance = CharSize(object, text0, p)
         /\ Kept(text0) => p + Advance \in Starts(text0)
<1>1. /\ Len(text0) \in Nat /\ text0 \in Seq(Nat) /\ p \in 0 .. Len(text0) - 1
      /\ (Kept(text0) => p \in Starts(text0)) /\ str = text0 /\ object.utf8 \in BOOLEAN
  BY InvFacts, ReplacingAssumption DEF Looping
<1> DEFINE s == SubSeq(text0, p + 1, Len(text0))
           r == chartorune(s)
<1>2. Rest = s
  BY <1>1 DEF Rest, Slice
<1>3. s \in Seq(Nat) /\ s # << >>
  <2>1. p + 1 \in Int /\ Len(text0) \in Int /\ p + 1 <= Len(text0)
    BY <1>1
  <2>2. \A i \in p + 1 .. Len(text0) : text0[i] \in Nat
    BY <1>1
  <2>3. s \in Seq(Nat) /\ Len(s) = IF p + 1 <= Len(text0) THEN Len(text0) - (p + 1) + 1 ELSE 0
    BY <2>1, <2>2, SubSeqProperties
  <2>4. Len(s) # 0
    BY <1>1, <2>1, <2>3
  <2> QED
    BY <2>3, <2>4
<1>4. CharSize(object, text0, p) = IF object.utf8 /\ r.rune <= Runemax THEN r.n ELSE 1
  BY DEF CharSize
<1>5. ~fullrune(s) => r.n = 1
  <2> HIDE DEF s
  <2> QED
    BY <1>3, RuneSize
<1> HIDE DEF s, r
<1>6. Advance = IF ~object.utf8 THEN 1 ELSE IF ~fullrune(s) THEN 1
                ELSE IF r.rune > Runemax THEN 1 ELSE r.n
  BY <1>2 DEF Advance, r
<1>7. r.rune \in Int
  BY <1>3, RuneIsNumber DEF r
<1>8. Advance = CharSize(object, text0, p)
  <2>1. r.rune > Runemax <=> ~(r.rune <= Runemax)
    BY <1>7 DEF Runemax
  <2> QED
    BY <1>4, <1>5, <1>6, <2>1
<1>9. CharSize(object, text0, p) \in 1 .. Len(text0) - p
  BY <1>1, CharSizeIs
<1> HIDE DEF Advance
<1> QED
  BY <1>1, <1>8, <1>9, CharStartsAre DEF Starts

-----------------------------------------------------------------------------
(***************************************************************************)
(* The steps.                                                              *)
(***************************************************************************)
\* Joining what lies between two places and what is done with so far.
LEMMA JoinsAlike == \A u, v, x \in Seq(Nat) : (u \o v) \o x = u \o (v \o x)
<1> TAKE u, v, x \in Seq(Nat)
<1> QED
  BY SMTT(30)

LEMMA Lengthens ==
  ASSUME NEW t \in Seq(Nat), NEW w \in Seq(Nat), NEW b \in 0 .. Len(t), NEW k \in b .. Len(t),
         NEW e \in k .. Len(t)
  PROVE  /\ (w \o Slice(t, b, k)) \o Slice(t, k, e) = w \o Slice(t, b, e)
         /\ w \o Slice(t, b, k) \in Seq(Nat)
<1>1. k \in 0 .. Len(t) /\ e \in b .. Len(t)
  OBVIOUS
<1>2. Slice(t, b, k) \in Seq(Nat) /\ Slice(t, k, e) \in Seq(Nat)
  BY <1>1, SliceIs
<1>3. Slice(t, b, k) \o Slice(t, k, e) = Slice(t, b, e)
  BY SliceJoins
<1>4. (w \o Slice(t, b, k)) \o Slice(t, k, e) = w \o (Slice(t, b, k) \o Slice(t, k, e))
  BY <1>2, JoinsAlike
<1>5. w \o Slice(t, b, k) \in Seq(Nat)
  BY <1>2, ConcatProperties
<1> QED
  BY <1>3, <1>4, <1>5

\* What the loop's invariant says does not depend on what the loop changes.
LoopOf(ms, c, q, e, o) ==
  /\ EnoughGroups /\ Chained(text0, ms) /\ c = Len(ms)
  /\ q \in 0 .. Len(text0) + 1 /\ (Kept(text0) /\ q <= Len(text0) => q \in Starts(text0))
  /\ e = (IF c = 0 THEN None ELSE EndOf(ms, Len(ms))) /\ EndOf(ms, Len(ms)) <= q
  /\ \A k \in 1 .. Len(ms) : Replaceable(text0, ms, k)
  /\ \A k \in 0 .. Len(ms) - 1 : NoneBefore(text0, ms, k, ms[k + 1][0])
  /\ q = EndOf(ms, Len(ms)) \/ PassedOver(text0, ms, Len(ms)) = EndOf(ms, Len(ms)) .. q - 1
  /\ o = WovenTo(text0, ms)
           \o Slice(text0, EndOf(ms, Len(ms)), IF q <= Len(text0) THEN q ELSE Len(text0))

LEMMA StaysLooping ==
  ASSUME object' = object, rewrite' = rewrite, text0' = text0, fun' = "global", str' = text0,
         LoopOf(replaced', count', p', lastend', out')
  PROVE  Looping'
<1>1. nvec' = nvec
  BY DEF nvec
<1>2. \A t, m : Vec(t, m)' = Vec(t, m)
  BY <1>1 DEF Vec, Slice
<1>3. \A t, q, a : Search(t, q, a)' = Search(t, q, a)
  BY DEF Search
<1>4. \A t, q : MatchAt(t, q)' = MatchAt(t, q)
  BY <1>3 DEF MatchAt
<1>5. \A t, ms : WovenTo(t, ms)' = WovenTo(t, ms)
  BY <1>2 DEF WovenTo, EndOf, Slice
<1>6. \A t : Starts(t)' = Starts(t) /\ Kept(t)' = Kept(t)
  BY DEF Starts, Kept
<1>7. /\ \A t, ms, k : PassedOver(t, ms, k)' = PassedOver(t, ms, k)
      /\ \A t, ms, k, q : NoneBefore(t, ms, k, q)' = NoneBefore(t, ms, k, q)
  <2>1. \A t, ms, k : PassedOver(t, ms, k)' = PassedOver(t, ms, k)
    BY <1>4 DEF PassedOver, EndOf
  <2> QED
    BY <1>4, <2>1 DEF NoneBefore, EndOf
<1>8. \A t, ms, k : Replaceable(t, ms, k)' = Replaceable(t, ms, k)
  BY <1>4, <1>6, <1>7 DEF Replaceable, EndOf
<1>9. EnoughGroups' = EnoughGroups
  BY <1>1 DEF EnoughGroups
<1>10. \A t, ms : Chained(t, ms)' = Chained(t, ms)
  BY DEF Chained, IsMatch, EndOf
<1>11. \A t, b, e : Slice(t, b, e)' = Slice(t, b, e)
  BY DEF Slice
<1> QED
  BY <1>5, <1>6, <1>7, <1>8, <1>9, <1>10, <1>11 DEF LoopOf, Looping, LastEnd, BytesDone, EndOf

LEMMA IsLoopOf ==
  Looping => LoopOf(replaced, count, p, lastend, out)
  BY DEF LoopOf, Looping, LastEnd, BytesDone

\* GlobalReplace begins.
LEMMA BeginsLooping ==
  ASSUME ReplaceInv, GlobalReplace
  PROVE  ReplaceInv'
<1>1. /\ object \in Objects /\ rewrite \in Rewrites /\ text0 \in Strings
      /\ p = 0 /\ lastend = None /\ out = << >> /\ count = 0 /\ replaced = << >> /\ str = text0
      /\ EnoughGroups
      /\ object' = object /\ rewrite' = rewrite /\ text0' = text0 /\ fun' = "global" /\ str' = str
      /\ doing' = "global" /\ replaced' = replaced /\ count' = count /\ p' = p
      /\ lastend' = lastend /\ out' = out
  BY DEF ReplaceInv, GlobalReplace, Unchanging
<1>2. Len(text0) \in Nat /\ 0 \in Starts(text0)
  BY <1>1, TextIs, CharStartsAre DEF Starts
<1>3. Chained(text0, << >>) /\ WovenTo(text0, << >>) = << >> /\ Len(<< >>) = 0 /\ EndOf(<< >>, 0) = 0
  BY WovenNone DEF EndOf
<1>4. Slice(text0, 0, 0) = << >> /\ << >> \o << >> = << >>
  BY SliceEmpty
<1>5. LoopOf(<< >>, 0, 0, None, << >>)
  BY <1>1, <1>2, <1>3, <1>4 DEF LoopOf
<1>6. Looping'
  BY <1>1, <1>5, StaysLooping
<1>7. ReplacedInTurn'
  BY <1>1 DEF ReplacedInTurn
<1> QED
  BY <1>1, <1>6, <1>7 DEF ReplaceInv

\* An empty match right behind the last one is passed over.
LEMMA SkipsAhead ==
  ASSUME ReplaceInv, SkipAhead
  PROVE  ReplaceInv'
<1> DEFINE len == Len(text0)
           n   == Len(replaced)
           m   == Match(p)
           d   == IF p < len THEN Advance ELSE 1
           e   == IF p < len THEN p + Advance ELSE p
<1>1. /\ object \in Objects /\ rewrite \in Rewrites /\ text0 \in Strings /\ Looping
      /\ p <= len /\ m # NoAnswer /\ m[0] = m[1] /\ m[0] = lastend
      /\ object' = object /\ rewrite' = rewrite /\ text0' = text0 /\ fun' = fun /\ str' = str
      /\ doing' = doing /\ doing = "global" /\ replaced' = replaced /\ count' = count /\ lastend' = lastend
      /\ out' = out \o Slice(text0, p, e) /\ p' = p + d
  BY DEF ReplaceInv, SkipAhead, InLoop, EmptyAgain, Looping
<1>2. /\ text0 \in Seq(Nat) /\ len \in Nat /\ count \in Nat /\ n \in Nat /\ count = n
      /\ LastEnd \in 0 .. len /\ BytesDone = p /\ p \in Nat /\ LastEnd <= p
      /\ Chained(text0, replaced) /\ EnoughGroups
      /\ lastend = (IF count = 0 THEN None ELSE LastEnd)
  BY <1>1, InvFacts DEF Looping
<1>3. /\ IsMatch(text0, m) /\ m[0] \in p .. len /\ m = MatchAt(text0, m[0])
  BY <1>1, NextMatch
<1> HIDE DEF m, len
<1>4. count # 0 /\ m[0] = p /\ p = LastEnd /\ n > 0
  <2>1. m[0] # -1
    BY <1>2, <1>3
  <2>2. count # 0 /\ m[0] = LastEnd
    BY <1>1, <1>2, <2>1 DEF None
  <2> QED
    BY <1>2, <1>3, <2>2
<1>5. PassedOver(text0, replaced, n)
        = LastEnd .. IF p < len THEN p + CharSize(object, text0, p) - 1 ELSE p
  <2>1. EndOf(replaced, n) = p /\ n # 0 /\ MatchAt(text0, p) = m /\ m # NoAnswer /\ m[1] = p
    BY <1>1, <1>2, <1>3, <1>4 DEF LastEnd
  <2> HIDE DEF n
  <2> QED
    BY <1>4, <2>1 DEF PassedOver, len
<1>6. CASE p < len
  <2>1. /\ Advance \in 1 .. len - p /\ Advance = CharSize(object, text0, p)
        /\ Kept(text0) => p + Advance \in Starts(text0)
    BY <1>1, <1>6, AdvanceIs DEF len
  <2> HIDE DEF Advance
  <2>2. e = p + Advance /\ d = Advance /\ p' = e /\ e \in p .. len /\ e \in 0 .. len + 1 /\ e <= len /\ p \in LastEnd .. len
    BY <1>1, <1>2, <1>4, <1>6, <2>1
  <2> HIDE DEF e, d
  <2>3. out' = WovenTo(text0, replaced) \o Slice(text0, LastEnd, e)
    <3>1. out = WovenTo(text0, replaced) \o Slice(text0, LastEnd, p)
      BY <1>1, <1>2 DEF Looping
    <3>2. WovenTo(text0, replaced) \in Seq(Nat)
      BY <1>1, <1>2, PiecesAre
    <3> QED
      BY <1>1, <1>2, <2>2, <3>1, <3>2, Lengthens DEF len
  <2>4. PassedOver(text0, replaced, n) = LastEnd .. e - 1
    BY <1>5, <1>6, <2>1, <2>2
  <2>5. LastEnd <= e
    BY <1>2, <1>4, <2>2
  <2>6. LoopOf(replaced, count, e, lastend, out')
    <3>1. LoopOf(replaced, count, p, lastend, out)
      BY <1>1, IsLoopOf
    <3> QED
      BY <2>1, <2>2, <2>3, <2>4, <2>5, <3>1 DEF LoopOf, LastEnd, len
  <2>7. Looping'
    BY <1>1, <2>2, <2>6, StaysLooping DEF Looping
  <2> QED
    BY <1>1, <2>7 DEF ReplaceInv, ReplacedInTurn
<1>7. CASE ~(p < len)
  <2>1. p = len /\ e = p /\ d = 1 /\ p' = len + 1
    BY <1>1, <1>2, <1>7
  <2> HIDE DEF e, d
  <2>2. out' = WovenTo(text0, replaced) \o Slice(text0, LastEnd, len)
    <3>1. out = WovenTo(text0, replaced) \o Slice(text0, LastEnd, p)
      BY <1>1, <1>2 DEF Looping
    <3>2. WovenTo(text0, replaced) \in Seq(Nat)
      BY <1>1, <1>2, PiecesAre
    <3>3. p \in LastEnd .. len /\ e \in p .. len
      BY <1>2, <2>1
    <3> QED
      BY <1>1, <1>2, <2>1, <3>1, <3>2, <3>3, Lengthens DEF len
  <2>3. PassedOver(text0, replaced, n) = LastEnd .. (len + 1) - 1
    <3>1. (len + 1) - 1 = p
      BY <1>2, <2>1
    <3> QED
      BY <1>5, <1>7, <3>1
  <2>4. LastEnd <= len + 1 /\ len + 1 \in 0 .. len + 1 /\ ~(len + 1 <= len)
    BY <1>2
  <2>5. LoopOf(replaced, count, len + 1, lastend, out')
    <3>1. LoopOf(replaced, count, p, lastend, out)
      BY <1>1, IsLoopOf
    <3> QED
      BY <2>2, <2>3, <2>4, <3>1 DEF LoopOf, LastEnd, len
  <2>6. Looping'
    BY <1>1, <2>1, <2>5, StaysLooping DEF Looping
  <2> QED
    BY <1>1, <2>6 DEF ReplaceInv, ReplacedInTurn
<1> QED
  BY <1>6, <1>7

\* A match is replaced.
LEMMA ReplacesOne ==
  ASSUME ReplaceInv, ReplaceOne
  PROVE  ReplaceInv'
<1> DEFINE len  == Len(text0)
           n    == Len(replaced)
           m    == Match(p)
           more == Append(replaced, m)
           w    == WovenTo(text0, replaced)
<1>1. /\ object \in Objects /\ rewrite \in Rewrites /\ text0 \in Strings /\ Looping
      /\ p <= len /\ m # NoAnswer /\ ~(m[0] = m[1] /\ m[0] = lastend)
      /\ object' = object /\ rewrite' = rewrite /\ text0' = text0 /\ fun' = fun /\ str' = str
      /\ fun = "global" /\ str = text0
      /\ doing' = doing /\ doing = "global" /\ replaced' = more /\ count' = count + 1
      /\ lastend' = m[1] /\ p' = m[1]
      /\ out' = Rewrite(out \o Slice(text0, p, m[0]), rewrite, Vec(text0, m)).out
  BY DEF ReplaceInv, ReplaceOne, InLoop, EmptyAgain, Looping, Rewritten
<1>2. /\ text0 \in Seq(Nat) /\ len \in Nat /\ count \in Nat /\ n \in Nat /\ count = n
      /\ LastEnd \in 0 .. len /\ BytesDone = p /\ p \in Nat /\ LastEnd <= p
      /\ Chained(text0, replaced) /\ EnoughGroups
      /\ lastend = (IF count = 0 THEN None ELSE LastEnd)
  BY <1>1, InvFacts DEF Looping
<1>3. /\ IsMatch(text0, m) /\ m[0] \in p .. len /\ m = MatchAt(text0, m[0])
      /\ \A q \in p .. m[0] - 1 : MatchAt(text0, q) = NoAnswer
      /\ Kept(text0) => m[0] \in Starts(text0) /\ m[1] \in Starts(text0)
  BY <1>1, NextMatch
<1>4. LoopOf(replaced, count, p, lastend, out)
  BY <1>1, IsLoopOf
<1> HIDE DEF m, len, w
<1>5. m[1] \in m[0] .. len /\ m[0] \in 0 .. len /\ m[1] \in 0 .. len /\ LastEnd <= m[0] /\ m \in AnyCaps
  BY <1>2, <1>3 DEF IsMatch, len
<1>6. /\ Chained(text0, more)
      /\ WovenTo(text0, more) = w \o (Slice(text0, LastEnd, m[0]) \o Added(text0, m))
  BY <1>1, <1>2, <1>3, <1>5, WovenOneMore DEF LastEnd, w
<1>7. Len(more) = n + 1 /\ more[n + 1] = m /\ \A k \in 1 .. n : more[k] = replaced[k]
  BY <1>2, <1>5 DEF Chained
<1>8. WovenTo(text0, more) \in Seq(Nat) /\ w \in Seq(Nat)
  BY <1>1, <1>2, <1>6, PiecesAre DEF w
<1>9. out' = WovenTo(text0, more)
  <2>1. out = w \o Slice(text0, LastEnd, p)
    BY <1>1, <1>2 DEF Looping, w
  <2>2. p \in LastEnd .. len
    BY <1>1, <1>2
  <2>3. out \o Slice(text0, p, m[0]) = w \o Slice(text0, LastEnd, m[0])
    BY <1>2, <1>3, <1>8, <2>1, <2>2, Lengthens DEF len
  <2>4. m[0] \in LastEnd .. len
    BY <1>2, <1>5
  <2>5. Slice(text0, LastEnd, m[0]) \in Seq(Nat)
    BY <1>2, <2>4, SliceIs DEF len
  <2>6. w \o Slice(text0, LastEnd, m[0]) \in Seq(Nat)
    BY <1>8, <2>5, ConcatProperties
  <2>7. /\ Added(text0, m) \in Seq(Nat)
        /\ out' = (w \o Slice(text0, LastEnd, m[0])) \o Added(text0, m)
    BY <1>1, <1>2, <1>3, <2>3, <2>6, AddedIs
  <2> QED
    BY <1>6, <1>8, <2>5, <2>7, JoinsAlike
<1> HIDE DEF more, n
<1>10. \A k \in 0 .. n : EndOf(more, k) = EndOf(replaced, k)
  <2> SUFFICES ASSUME NEW k \in 0 .. n PROVE EndOf(more, k) = EndOf(replaced, k)
    OBVIOUS
  <2>1. k = 0 \/ k \in 1 .. n
    BY <1>2
  <2> QED
    BY <1>7, <2>1 DEF EndOf
<1>11. EndOf(more, n + 1) = m[1] /\ LastEnd = EndOf(replaced, n)
  BY <1>2, <1>7 DEF EndOf, LastEnd, n
<1>12. \A k \in 0 .. n : PassedOver(text0, more, k) = PassedOver(text0, replaced, k)
  BY <1>10 DEF PassedOver
<1>13. p = LastEnd \/ PassedOver(text0, replaced, n) = LastEnd .. p - 1
  BY <1>1 DEF Looping, n
<1>14. m[0] \notin PassedOver(text0, replaced, n)
  <2>1. CASE PassedOver(text0, replaced, n) = LastEnd .. p - 1
    BY <1>2, <1>3, <2>1
  <2>2. CASE p = LastEnd
    <3>1. CASE m[0] = p
      <4>1. n = 0 \/ m[1] # p
        BY <1>1, <1>2, <2>2, <3>1
      <4>2. MatchAt(text0, EndOf(replaced, n)) = m /\ EndOf(replaced, n) = p
        BY <1>3, <1>11, <2>2, <3>1
      <4> QED
        BY <4>1, <4>2 DEF PassedOver
    <3>2. CASE m[0] # p
      <4>1. p \in p .. m[0] - 1
        BY <1>2, <1>3, <3>2
      <4>2. MatchAt(text0, EndOf(replaced, n)) = NoAnswer
        BY <1>3, <1>11, <2>2, <4>1
      <4> QED
        BY <4>2 DEF PassedOver
    <3> QED
      BY <3>1, <3>2
  <2> QED
    BY <1>13, <2>1, <2>2
<1>15. ASSUME NEW k \in 1 .. n + 1 PROVE Replaceable(text0, more, k)
  <2>1. k - 1 \in 0 .. n /\ (k \in 1 .. n \/ k = n + 1)
    BY <1>2
  <2>2. PassedOver(text0, more, k - 1) = PassedOver(text0, replaced, k - 1)
    BY <1>12, <2>1
  <2>3. CASE k \in 1 .. n
    <3>1. Replaceable(text0, replaced, k)
      BY <1>1, <2>3 DEF Looping, n
    <3>2. more[k] = replaced[k]
      BY <1>7, <2>3
    <3> QED
      BY <2>2, <3>1, <3>2 DEF Replaceable
  <2>4. CASE k = n + 1
    <3>1. k - 1 = n /\ more[k] = m
      BY <1>2, <1>7, <2>4
    <3> QED
      BY <1>1, <1>3, <1>14, <2>2, <3>1 DEF Replaceable
  <2> QED
    BY <2>1, <2>3, <2>4
<1>16. ASSUME NEW k \in 0 .. n PROVE NoneBefore(text0, more, k, more[k + 1][0])
  <2>1. /\ EndOf(more, k) = EndOf(replaced, k) /\ (k \in 0 .. n - 1 \/ k = n)
        /\ PassedOver(text0, more, k) = PassedOver(text0, replaced, k)
    BY <1>2, <1>10, <1>12
  <2>2. CASE k \in 0 .. n - 1
    <3>1. k + 1 \in 1 .. n
      BY <1>2, <2>2
    <3>2. more[k + 1] = replaced[k + 1]
      BY <1>7, <3>1
    <3>3. NoneBefore(text0, replaced, k, replaced[k + 1][0])
      BY <1>1, <2>2 DEF Looping, n
    <3> QED
      BY <2>1, <3>2, <3>3 DEF NoneBefore
  <2>3. CASE k = n
    <3>1. SUFFICES ASSUME NEW j \in LastEnd .. m[0] - 1
                   PROVE  j \in PassedOver(text0, replaced, n) \/ MatchAt(text0, j) = NoAnswer
      BY <1>7, <1>11, <2>1, <2>3 DEF NoneBefore
    <3>2. j \in LastEnd .. p - 1 \/ j \in p .. m[0] - 1
      BY <1>2, <1>5, <3>1
    <3>3. j \in LastEnd .. p - 1 => p # LastEnd
      BY <1>2
    <3> QED
      BY <1>3, <1>13, <3>2, <3>3
  <2> QED
    BY <2>1, <2>2, <2>3
<1>17. LoopOf(more, count + 1, m[1], m[1], out')
  <2>1. Slice(text0, m[1], m[1]) = << >>
    <3>1. m[1] \in Int /\ m[1] <= m[1]
      BY <1>2, <1>5
    <3> QED
      BY <3>1, SliceEmpty
  <2>2. out' = WovenTo(text0, more) \o Slice(text0, m[1], m[1])
    BY <1>8, <1>9, <2>1, ConcatEmptySeq
  <2>3. m[1] \in 0 .. Len(text0) + 1 /\ m[1] <= Len(text0) /\ count + 1 = Len(more) /\ count + 1 # 0
        /\ m[1] <= m[1] /\ Len(more) = n + 1 /\ (n + 1) - 1 = n
    BY <1>2, <1>5, <1>7 DEF len
  <2>5. EndOf(more, Len(more)) = m[1]
    BY <1>11, <2>3
  <2>6. \A k \in 0 .. Len(more) - 1 : NoneBefore(text0, more, k, more[k + 1][0])
    BY <1>16, <2>3
  <2>7. \A k \in 1 .. Len(more) : Replaceable(text0, more, k)
    BY <1>15, <2>3
  <2> QED
    BY <1>2, <1>3, <1>6, <2>2, <2>3, <2>5, <2>6, <2>7 DEF LoopOf
<1>18. Looping'
  BY <1>1, <1>17, StaysLooping
<1> QED
  BY <1>1, <1>18 DEF ReplaceInv, ReplacedInTurn

\* What CheckRewriteString accepts names no group that is not there.
LEMMA CheckedIsEnough ==
  ASSUME object \in Objects, rewrite \in Rewrites, CheckRewriteString(rewrite, object.captures)
  PROVE  EnoughGroups
<1>1. object.captures \in Nat /\ VecSize \in Nat /\ VecSize >= 10 /\ rewrite \in Seq(Nat)
  BY ReplacingAssumption
<1>2. MaxSubmatch(rewrite) \in 0 .. 9 /\ MaxSubmatch(rewrite) <= object.captures
  BY <1>1, MaxSubmatchIs DEF CheckRewriteString
<1> QED
  BY <1>1, <1>2 DEF EnoughGroups, nvec

LEMMA RefusesRightly ==
  ASSUME ReplaceInv, Refuse
  PROVE  ReplaceInv'
<1>1. /\ object \in Objects /\ rewrite \in Rewrites /\ text0 \in Strings /\ str = text0
      /\ ~EnoughGroups /\ object' = object /\ rewrite' = rewrite /\ text0' = text0
      /\ fun' = "refused" /\ result' = 0 /\ str' = str /\ out' = out /\ replaced' = replaced
      /\ doing' = "done"
  BY DEF ReplaceInv, Refuse, Unchanging, Return
<1>2. ~CheckRewriteString(rewrite, object.captures)
  BY <1>1, CheckedIsEnough
<1>3. RightAnswer(fun', result', str', out', text0', replaced')
  BY <1>1, <1>2 DEF RightAnswer
<1>4. ReplacedInTurn'
  BY <1>1, <1>3, StaysRight
<1> QED
  BY <1>1, <1>4 DEF ReplaceInv

\* The first match, and what it is replaced by.
LEMMA FirstIs ==
  ASSUME object \in Objects, rewrite \in Rewrites, text0 \in Strings, EnoughGroups, str = text0,
         Match(0) # NoAnswer
  PROVE  LET m == Match(0)
             s == Rewritten(<< >>, m)
         IN  /\ s.out = Added(text0, m)
             /\ CheckRewriteString(rewrite, object.captures) => s.ok
             /\ (Slice(str, 0, m[0]) \o s.out) \o Slice(str, m[1], Len(str)) = Woven(text0, <<m>>)
<1> DEFINE m == Match(0)
           s == Rewritten(<< >>, m)
<1>1. m = Answer(object.regexp, Search(text0, 0, FALSE)) /\ s = Rewrite(<< >>, rewrite, Vec(text0, m))
  BY DEF Match, Rewritten
<1>2. Len(text0) \in Nat /\ 0 \in 0 .. Len(text0) /\ << >> \in Seq(Nat) /\ text0 \in Seq(Nat)
  BY TextIs
<1> HIDE DEF m, s
<1>3. IsMatch(text0, m)
  BY <1>1, <1>2, MatchIs DEF m
<1>4. /\ s.out = Added(text0, m) /\ Added(text0, m) \in Seq(Nat)
      /\ CheckRewriteString(rewrite, object.captures) => s.ok
  BY <1>1, <1>2, <1>3, AddedIs DEF Added
<1>5. m[0] \in 0 .. Len(text0) /\ 0 <= m[0] /\ EndOf(<< >>, Len(<< >>)) = 0 /\ Append(<< >>, m) = <<m>>
  BY <1>2, <1>3 DEF IsMatch, EndOf
<1>6. WovenTo(text0, <<m>>) = << >> \o (Slice(text0, 0, m[0]) \o Added(text0, m))
  <2> DEFINE none == << >>
  <2>1. Chained(text0, none) /\ WovenTo(text0, none) = none
    BY WovenNone
  <2>2. EndOf(none, Len(none)) = 0 /\ 0 <= m[0] /\ Append(none, m) = <<m>>
    BY <1>5
  <2> HIDE DEF none
  <2>3. WovenTo(text0, Append(none, m))
          = WovenTo(text0, none) \o (Slice(text0, EndOf(none, Len(none)), m[0]) \o Added(text0, m))
    BY <1>3, <2>1, <2>2, WovenOneMore
  <2>4. WovenTo(text0, <<m>>) = none \o (Slice(text0, 0, m[0]) \o Added(text0, m))
    BY <2>1, <2>2, <2>3
  <2> QED
    BY <2>4 DEF none
<1>7. Slice(text0, 0, m[0]) \o Added(text0, m) \in Seq(Nat)
  BY <1>2, <1>3, <1>5, PieceIs
<1>8. WovenTo(text0, <<m>>) = Slice(text0, 0, m[0]) \o Added(text0, m)
  BY <1>6, <1>7, ConcatEmptySeq
<1>9. Len(<<m>>) = 1 /\ EndOf(<<m>>, 1) = m[1]
  BY DEF EndOf
<1>10. Woven(text0, <<m>>) = (Slice(text0, 0, m[0]) \o Added(text0, m)) \o Slice(text0, m[1], Len(text0))
  BY <1>8, <1>9 DEF Woven
<1> QED
  BY <1>4, <1>10 DEF m, s

LEMMA ReplacesFirst ==
  ASSUME ReplaceInv, Replace
  PROVE  ReplaceInv'
<1> DEFINE m == Match(0)
           s == Rewritten(<< >>, m)
           first == Answer(object.regexp, Search(text0, 0, FALSE))
           checked == CheckRewriteString(rewrite, object.captures)
           woven == (Slice(str, 0, m[0]) \o s.out) \o Slice(str, m[1], Len(str))
<1>1. /\ object \in Objects /\ rewrite \in Rewrites /\ text0 \in Strings /\ str = text0
      /\ EnoughGroups /\ object' = object /\ rewrite' = rewrite /\ text0' = text0
      /\ fun' = "replace" /\ out' = out /\ replaced' = replaced /\ doing' = "done"
  BY DEF ReplaceInv, Replace, Unchanging, Return
<1>2. /\ m = NoAnswer => result' = 0 /\ str' = str
      /\ m # NoAnswer /\ ~s.ok => result' = 0 /\ str' = str
      /\ m # NoAnswer /\ s.ok => result' = 1 /\ str' = woven
  BY DEF Replace, Return
<1>3. m = first
  BY <1>1 DEF Match
<1>4. m # NoAnswer => (checked => s.ok) /\ woven = Woven(text0, <<m>>)
  BY <1>1, FirstIs
<1> HIDE DEF m, s, first, checked, woven
<1>5. /\ result' \in {0, 1} /\ (result' = 1 => first # NoAnswer /\ str' = Woven(text0, <<first>>))
      /\ checked => (result' = 1 <=> first # NoAnswer)
      /\ result' = 0 => str' = text0
  <2>1. CASE m = NoAnswer
    BY <1>1, <1>2, <1>3, <2>1
  <2>2. CASE m # NoAnswer /\ ~s.ok
    BY <1>1, <1>2, <1>3, <1>4, <2>2
  <2>3. CASE m # NoAnswer /\ s.ok
    BY <1>1, <1>2, <1>3, <1>4, <2>3
  <2> QED
    BY <2>1, <2>2, <2>3
<1>6. result' > 0 <=> result' = 1
  BY <1>5
<1>7. RightAnswer(fun', result', str', out', text0', replaced')
  BY <1>1, <1>5, <1>6 DEF RightAnswer, first, checked
<1>8. ReplacedInTurn'
  BY <1>1, <1>7, StaysRight
<1> QED
  BY <1>1, <1>8 DEF ReplaceInv

LEMMA ExtractsFirst ==
  ASSUME ReplaceInv, Extract
  PROVE  ReplaceInv'
<1> DEFINE m == Match(0)
           s == Rewritten(<< >>, m)
           first == Answer(object.regexp, Search(text0, 0, FALSE))
           checked == CheckRewriteString(rewrite, object.captures)
<1>1. /\ object \in Objects /\ rewrite \in Rewrites /\ text0 \in Strings /\ str = text0
      /\ EnoughGroups /\ object' = object /\ rewrite' = rewrite /\ text0' = text0
      /\ fun' = "extract" /\ str' = str /\ replaced' = replaced /\ doing' = "done"
  BY DEF ReplaceInv, Extract, Unchanging, Return
<1>2. /\ m = NoAnswer => result' = 0
      /\ m # NoAnswer => result' = (IF s.ok THEN 1 ELSE 0) /\ out' = s.out
  BY DEF Extract, Return
<1>3. m = first
  BY <1>1 DEF Match
<1>4. m # NoAnswer => (checked => s.ok) /\ s.out = Added(text0, m)
  BY <1>1, FirstIs
<1> HIDE DEF m, s, first, checked
<1>5. /\ result' \in {0, 1}
      /\ result' = 1 => first # NoAnswer /\ out' = Rewrite(<< >>, rewrite, Vec(text0, first)).out
      /\ checked => (result' = 1 <=> first # NoAnswer)
  <2>1. CASE m = NoAnswer
    BY <1>2, <1>3, <2>1
  <2>2. CASE m # NoAnswer /\ ~s.ok
    BY <1>2, <1>3, <1>4, <2>2
  <2>3. CASE m # NoAnswer /\ s.ok
    BY <1>2, <1>3, <1>4, <2>3 DEF Added
  <2> QED
    BY <2>1, <2>2, <2>3
<1>6. result' > 0 <=> result' = 1
  BY <1>5
<1>7. RightAnswer(fun', result', str', out', text0', replaced')
  BY <1>1, <1>5, <1>6 DEF RightAnswer, first, checked
<1>8. ReplacedInTurn'
  BY <1>1, <1>7, StaysRight
<1> QED
  BY <1>1, <1>8 DEF ReplaceInv

\* What the loop leaves, when there is nothing more to replace.
LEMMA AllReplaced ==
  ASSUME object \in Objects, rewrite \in Rewrites, text0 \in Strings, Looping, ~InLoop,
         doing = "global"
  PROVE  /\ Successive(text0, replaced)
         /\ out \o Rest = Woven(text0, replaced)
         /\ count = 0 => str = Woven(text0, replaced)
         /\ count > 0 <=> Answer(object.regexp, Search(text0, 0, FALSE)) # NoAnswer
<1> DEFINE len == Len(text0)
           n   == Len(replaced)
           first == Answer(object.regexp, Search(text0, 0, FALSE))
<1>1. /\ text0 \in Seq(Nat) /\ len \in Nat /\ count \in Nat /\ n \in Nat /\ count = n
      /\ LastEnd \in 0 .. len /\ BytesDone \in LastEnd .. len /\ p \in Nat
      /\ p <= len => BytesDone = p
      /\ LastEnd <= p /\ p \in 0 .. len + 1
      /\ Chained(text0, replaced) /\ EnoughGroups /\ str = text0
  BY InvFacts DEF Looping
<1>2. \A q \in p .. len : MatchAt(text0, q) = NoAnswer
  <2>1. CASE p <= len
    <3>1. Match(p) = NoAnswer
      BY <1>1, <2>1 DEF InLoop
    <3> QED
      BY <2>1, <3>1, NextMatch DEF IsMatch
  <2>2. CASE ~(p <= len)
    BY <1>1, <2>2
  <2> QED
    BY <2>1, <2>2
<1>3. \A k \in 1 .. n : Replaceable(text0, replaced, k)
  BY DEF Looping
<1>4. ASSUME NEW k \in 0 .. n, NEW q \in Gap(text0, replaced, k) \ PassedOver(text0, replaced, k)
      PROVE  MatchAt(text0, q) = NoAnswer
  <2>1. CASE k = n
    <3>1. q \in LastEnd .. len
      BY <1>4, <2>1 DEF Gap, LastEnd
    <3>2. p = LastEnd \/ PassedOver(text0, replaced, n) = LastEnd .. p - 1
      BY DEF Looping
    <3>3. q \in p .. len
      BY <1>1, <1>4, <2>1, <3>1, <3>2
    <3> QED
      BY <1>2, <3>3
  <2>2. CASE k # n
    <3>1. k \in 0 .. n - 1
      BY <1>1, <2>2
    <3>2. q \in EndOf(replaced, k) .. replaced[k + 1][0] - 1
      BY <1>4, <2>2 DEF Gap
    <3>3. NoneBefore(text0, replaced, k, replaced[k + 1][0])
      BY <3>1 DEF Looping
    <3> QED
      BY <1>4, <3>2, <3>3 DEF NoneBefore
  <2> QED
    BY <2>1, <2>2
<1>5. Successive(text0, replaced)
  <2>1. DOMAIN replaced = 1 .. n
    BY <1>1 DEF Chained
  <2>2. ASSUME NEW k \in DOMAIN replaced
        PROVE  /\ replaced[k] = MatchAt(text0, replaced[k][0]) /\ replaced[k] # NoAnswer
               /\ EndOf(replaced, k - 1) <= replaced[k][0]
               /\ replaced[k][0] \notin PassedOver(text0, replaced, k - 1)
               /\ Kept(text0) => replaced[k][0] \in Starts(text0) /\ replaced[k][1] \in Starts(text0)
    BY <1>1, <1>3, <2>1 DEF Replaceable, Chained
  <2> QED
    BY <1>4, <2>2 DEF Successive, Starts, Kept
<1>6. out \o Rest = Woven(text0, replaced)
  <2> DEFINE w == WovenTo(text0, replaced)
  <2>1. w \in Seq(Nat)
    BY <1>1, PiecesAre
  <2>2. out = w \o Slice(text0, LastEnd, BytesDone)
    BY DEF Looping
  <2>3. Rest = Slice(text0, BytesDone, len)
    <3>1. CASE p <= len
      BY <1>1, <3>1 DEF Rest
    <3>2. CASE ~(p <= len)
      <4>1. BytesDone = len /\ Rest = Slice(text0, p, len) /\ p \in Int /\ len \in Int /\ len <= p /\ len <= len
        BY <1>1, <3>2 DEF BytesDone, Rest
      <4>2. Slice(text0, p, len) = << >> /\ Slice(text0, len, len) = << >>
        <5> HIDE DEF len
        <5> QED
          BY <4>1, SliceEmpty
      <4> QED
        BY <4>1, <4>2
    <3> QED
      BY <3>1, <3>2
  <2>4. len \in BytesDone .. len
    BY <1>1
  <2> HIDE DEF w, len
  <2>5. (w \o Slice(text0, LastEnd, BytesDone)) \o Slice(text0, BytesDone, len) = w \o Slice(text0, LastEnd, len)
    BY <1>1, <2>1, <2>4, Lengthens DEF len
  <2> QED
    BY <2>2, <2>3, <2>5 DEF Woven, w, LastEnd, len
<1>7. count = 0 => str = Woven(text0, replaced)
  <2> SUFFICES ASSUME count = 0 PROVE str = Woven(text0, replaced)
    OBVIOUS
  <2>1. replaced = << >> /\ n = 0 /\ EndOf(replaced, n) = 0
    BY <1>1 DEF Chained, EndOf
  <2>2. WovenTo(text0, replaced) = << >>
    BY <2>1, WovenNone
  <2>3. Slice(text0, 0, len) = text0
    BY <1>1, SubSeqFull DEF Slice
  <2>4. << >> \o text0 = text0
    BY <1>1, ConcatEmptySeq
  <2> QED
    BY <1>1, <2>1, <2>2, <2>3, <2>4 DEF Woven
<1>8. count > 0 <=> first # NoAnswer
  <2>1. 0 \in 0 .. len
    BY <1>1
  <2>2. \/ first = NoAnswer /\ \A q \in 0 .. len : MatchAt(text0, q) = NoAnswer
        \/ first # NoAnswer /\ first[0] \in 0 .. len /\ first = MatchAt(text0, first[0])
    BY <2>1, MatchIs DEF IsMatch
  <2> HIDE DEF first, len
  <2>3. ASSUME count > 0 PROVE first # NoAnswer
    <3>1. 1 \in 1 .. n
      BY <1>1, <2>3
    <3>2. /\ replaced[1] = MatchAt(text0, replaced[1][0]) /\ replaced[1] # NoAnswer
          /\ replaced[1][0] \in 0 .. len
      BY <1>1, <1>3, <3>1 DEF Replaceable, Chained, IsMatch, len
    <3> QED
      BY <2>2, <3>2
  <2>4. ASSUME ~(count > 0) PROVE first = NoAnswer
    <3>1. n = 0 /\ 0 \in 0 .. n
      BY <1>1, <2>4
    <3>2. \A q \in 0 .. len : q \in Gap(text0, replaced, 0) \ PassedOver(text0, replaced, 0)
      BY <3>1 DEF Gap, EndOf, PassedOver, len
    <3>3. \A q \in 0 .. len : MatchAt(text0, q) = NoAnswer
      BY <1>4, <3>1, <3>2
    <3> QED
      BY <2>2, <3>3
  <2> QED
    BY <2>3, <2>4
<1> QED
  BY <1>5, <1>6, <1>7, <1>8

LEMMA FinishesRightly ==
  ASSUME ReplaceInv, Finish
  PROVE  ReplaceInv'
<1>1. /\ object \in Objects /\ rewrite \in Rewrites /\ text0 \in Strings /\ doing = "global"
      /\ Looping /\ ~InLoop /\ fun = "global" /\ str = text0 /\ count = Len(replaced)
      /\ object' = object /\ rewrite' = rewrite /\ text0' = text0
      /\ fun' = fun /\ replaced' = replaced /\ doing' = "done" /\ result' = count
      /\ str' = IF count = 0 THEN str ELSE out \o Rest
  BY DEF ReplaceInv, Finish, Return, Looping
<1>2. /\ Successive(text0, replaced)
      /\ out \o Rest = Woven(text0, replaced)
      /\ count = 0 => str = Woven(text0, replaced)
      /\ count > 0 <=> Answer(object.regexp, Search(text0, 0, FALSE)) # NoAnswer
  BY <1>1, AllReplaced
<1>3. str' = Woven(text0, replaced) /\ (count = 0 => str' = text0)
  BY <1>1, <1>2
<1>4. RightAnswer(fun', result', str', out', text0', replaced')
  BY <1>1, <1>2, <1>3 DEF RightAnswer
<1>5. ReplacedInTurn'
  BY <1>1, <1>4, StaysRight
<1> QED
  BY <1>1, <1>5 DEF ReplaceInv

LEMMA ReplaceInvHolds == ReplaceSpec => []ReplaceInv
<1>1. ReplaceInit => ReplaceInv
  BY DEF ReplaceInit, ReplaceInv, ReplacedInTurn
<1>2. ReplaceInv /\ [ReplaceNext]_replacevars => ReplaceInv'
  <2> SUFFICES ASSUME ReplaceInv, [ReplaceNext]_replacevars PROVE ReplaceInv'
    OBVIOUS
  <2>1. CASE ReplaceNext
    BY <2>1, RefusesRightly, ReplacesFirst, ExtractsFirst, BeginsLooping, SkipsAhead, ReplacesOne,
       FinishesRightly DEF ReplaceNext
  <2>2. CASE UNCHANGED replacevars
    <3>1. /\ object' = object /\ str' = str /\ rewrite' = rewrite /\ doing' = doing /\ fun' = fun
          /\ p' = p /\ lastend' = lastend /\ out' = out /\ count' = count /\ result' = result
          /\ text0' = text0 /\ replaced' = replaced
      BY <2>2 DEF replacevars
    <3>2. doing = "global" => Looping'
      <4> SUFFICES ASSUME doing = "global" PROVE Looping'
        OBVIOUS
      <4>1. Looping
        BY DEF ReplaceInv
      <4>2. LoopOf(replaced, count, p, lastend, out) /\ fun = "global" /\ str = text0
        BY <4>1, IsLoopOf DEF Looping
      <4> QED
        BY <3>1, <4>2, StaysLooping
    <3>3. ReplacedInTurn'
      <4>1. CASE doing = "done"
        <5>1. RightAnswer(fun, result, str, out, text0, replaced)
          BY <4>1 DEF ReplaceInv, ReplacedInTurn, RightAnswer
        <5> QED
          BY <3>1, <5>1, StaysRight
      <4>2. CASE doing # "done"
        BY <3>1, <4>2 DEF ReplacedInTurn
      <4> QED
        BY <4>1, <4>2
    <3> QED
      BY <3>1, <3>2, <3>3 DEF ReplaceInv
  <2> QED
    BY <2>1, <2>2
<1> QED
  BY <1>1, <1>2, PTL DEF ReplaceSpec

\* RE2::GlobalReplace replaces successive matches and nothing else, Replace the
\* first of them, which Extract writes, and a rewrite string that
\* CheckRewriteString accepts makes them succeed whenever there is a match
\* (re2.cc:405-515, 945-1039).
THEOREM ReplacesInTurn == ReplaceSpec => []ReplacedInTurn
<1>1. ReplaceInv => ReplacedInTurn
  BY DEF ReplaceInv
<1> QED
  BY <1>1, ReplaceInvHolds, PTL

-----------------------------------------------------------------------------
(***************************************************************************)
(* The functions that consume (module Consuming).                          *)
(***************************************************************************)
ConsumeType ==
  /\ reader \in Readers /\ text \in Inputs /\ from \in 0 .. Len(text)
  /\ ret \in BOOLEAN /\ taken \in Seq(Nat \X Nat)

ConsumeInv == ConsumeType /\ ConsumedInTurn

\* What is left of the text, and the ways to match it.
LEMMA UnreadIs ==
  ASSUME ConsumeType
  PROVE  /\ Len(text) \in Nat /\ from \in Nat /\ Len(Input) = Len(text) - from /\ Len(Input) \in Nat
         /\ \A q \in 0 .. Len(Input) :
              LET whole == WaysOf(reader.regexp, text, Len(text), from + q)
                  rest  == WaysOf(reader.regexp, Input, Len(Input), q)
              IN  /\ from + q \in 0 .. Len(text)
                  /\ whole \in Seq(Place3(from + q, Len(text)))
                  /\ rest \in Seq(Place3(q, Len(Input)))
                  /\ DOMAIN whole = DOMAIN rest
                  /\ \A n \in DOMAIN whole : whole[n].p = rest[n].p + from
<1>1. text \in Seq(Nat) /\ Len(text) \in Nat /\ from \in Nat /\ from <= Len(text)
  BY InputsAssumption DEF ConsumeType
<1>2. Len(Input) = Len(text) - from /\ Len(Input) \in Nat
  BY <1>1 DEF Input
<1>3. ASSUME NEW q \in 0 .. Len(Input)
      PROVE  LET whole == WaysOf(reader.regexp, text, Len(text), from + q)
                 rest  == WaysOf(reader.regexp, Input, Len(Input), q)
             IN  /\ from + q \in 0 .. Len(text)
                 /\ whole \in Seq(Place3(from + q, Len(text)))
                 /\ rest \in Seq(Place3(q, Len(Input)))
                 /\ DOMAIN whole = DOMAIN rest
                 /\ \A n \in DOMAIN whole : whole[n].p = rest[n].p + from
  <2>1. /\ from + q \in 0 .. Len(text) /\ from + q \in from .. Len(text)
        /\ (from + q) - from = q /\ from \in 0 .. Len(text)
    BY <1>1, <1>2
  <2>2. reader \in Readers /\ text \in Inputs
    BY DEF ConsumeType
  <2>3. LET whole == WaysOf(reader.regexp, text, Len(text), from + q)
            rest  == WaysOf(reader.regexp, SubSeq(text, from + 1, Len(text)), Len(text) - from,
                            (from + q) - from)
        IN  /\ whole \in Seq([p : from + q .. Len(text), caps : AnyCaps])
            /\ rest \in Seq([p : (from + q) - from .. Len(text) - from, caps : AnyCaps])
            /\ DOMAIN whole = DOMAIN rest
            /\ \A n \in DOMAIN whole : whole[n].p = rest[n].p + from
    BY <2>1, <2>2, ReadersAssumption
  <2>4. SubSeq(text, from + 1, Len(text)) = Input
    BY DEF Input
  <2> QED
    BY <1>2, <2>1, <2>3, <2>4 DEF Place3
<1> QED
  BY <1>1, <1>2, <1>3

\* A match that begins at q.
LEMMA BeginsIs ==
  ASSUME ConsumeType, NEW q \in 0 .. Len(text), Len(text) \in Nat,
         WaysOf(reader.regexp, text, Len(text), q) \in Seq(Place3(q, Len(text)))
  PROVE  LET ways == WaysOf(reader.regexp, text, Len(text), q) IN
         /\ DOMAIN ways = {} => BeginsAt(q) = NoAnswer
         /\ DOMAIN ways # {} => BeginsAt(q) # NoAnswer /\ BeginsAt(q)[1] = ways[Least(DOMAIN ways)].p
<1> DEFINE c == [text |-> text, b |-> q, e |-> Len(text), anchored |-> TRUE, kind |-> "first"]
           ways == WaysOf(reader.regexp, text, Len(text), q)
<1>1. BeginsAt(q) = Answer(reader.regexp, c) /\ From(c) = {q} /\ Ways(reader.regexp, c, q) = ways
  BY DEF BeginsAt, From, Ways
<1>2. Wanted(Ways(reader.regexp, c, q), c) = DOMAIN ways
  BY <1>1 DEF Wanted
<1>3. q \in Nat /\ From(c) \in SUBSET Int
  <2>1. q \in Nat
    OBVIOUS
  <2> HIDE DEF c
  <2> QED
    BY <1>1, <2>1
<1> HIDE DEF c
<1>4. CASE DOMAIN ways = {}
  BY <1>1, <1>2, <1>4, NoHit DEF Hit
<1>5. CASE DOMAIN ways # {}
  <2>1. Hit(reader.regexp, c, q)
    BY <1>2, <1>5 DEF Hit
  <2>2. Chosen(reader.regexp, c, q) = ways[Least(DOMAIN ways)]
    BY <1>1, <1>2 DEF Chosen
  <2>3. Chosen(reader.regexp, c, q).caps \in AnyCaps
    BY <1>1, <2>1, ChosenIsOne
  <2>4. \A k \in From(c) : k < q => ~Hit(reader.regexp, c, k)
    BY <1>1, <1>3
  <2>5. q \in From(c)
    BY <1>1
  <2>6. Answer(reader.regexp, c) # NoAnswer
        /\ Answer(reader.regexp, c)[1] = Chosen(reader.regexp, c, q).p
    BY <1>3, <2>1, <2>3, <2>4, <2>5, FirstHit
  <2> QED
    BY <1>1, <1>5, <2>2, <2>6
<1> QED
  BY <1>4, <1>5

\* What a consuming call finds is the next match of the text.
LEMMA ConsumesNext ==
  ASSUME ConsumeType, NEW f \in {"Consume", "FindAndConsume"}, MatchOf(f) # NoAnswer
  PROVE  LET m == MatchOf(f) IN
         /\ m[0] \in 0 .. Len(Input) /\ m[1] \in m[0] .. Len(Input)
         /\ BeginsAt(from + m[0]) # NoAnswer /\ BeginsAt(from + m[0])[1] = from + m[1]
         /\ \A q \in from .. from + m[0] - 1 : BeginsAt(q) = NoAnswer
<1> DEFINE c == SearchOf(f)
           r == reader.regexp
           m  == MatchOf(f)
           WaysFrom(q) == WaysOf(r, Input, Len(Input), q)
<1>1. /\ c.text = Input /\ c.b = 0 /\ c.e = Len(Input) /\ c.kind = "first"
      /\ m = Answer(r, c) /\ \A q : Ways(r, c, q) = WaysFrom(q)
  BY DEF SearchOf, MatchOf, Ways
<1>2. /\ Len(Input) \in Nat /\ Len(Input) = Len(text) - from /\ from \in Nat /\ Len(text) \in Nat
      /\ \A q \in 0 .. Len(Input) : WaysFrom(q) \in Seq(Place3(q, Len(Input)))
  BY UnreadIs
<1>3. \A q : Wanted(Ways(r, c, q), c) = DOMAIN WaysFrom(q)
  BY <1>1 DEF Wanted
<1>4. From(c) = {0} \/ From(c) = 0 .. Len(Input)
  BY <1>1 DEF From
<1> HIDE DEF c
<1>5. PICK k \in 0 .. Len(Input) :
         /\ Best(r, c, k) /\ m[0] = k /\ m[1] = Chosen(r, c, k).p
         /\ Chosen(r, c, k).p \in k .. Len(Input)
  <2>1. c.b \in Nat /\ c.e \in Nat /\ c.b <= c.e
        /\ \A q \in c.b .. c.e : Ways(r, c, q) \in Seq(Place3(q, c.e))
    BY <1>1, <1>2
  <2> HIDE DEF WaysFrom
  <2>2. m # NoAnswer
    OBVIOUS
  <2> HIDE DEF m
  <2> QED
    BY <1>1, <2>1, <2>2, AnswerIs
<1>6. k \in From(c) /\ Hit(r, c, k) /\ \A q \in From(c) : q < k => ~Hit(r, c, q)
  BY <1>5 DEF Best
<1>7. DOMAIN WaysFrom(k) # {} /\ Chosen(r, c, k) = WaysFrom(k)[Least(DOMAIN WaysFrom(k))]
  BY <1>1, <1>3, <1>6 DEF Hit, Chosen
<1>8. /\ from + k \in 0 .. Len(text)
      /\ WaysOf(r, text, Len(text), from + k) \in Seq(Place3(from + k, Len(text)))
      /\ DOMAIN WaysOf(r, text, Len(text), from + k) = DOMAIN WaysFrom(k)
      /\ \A n \in DOMAIN WaysFrom(k) : WaysOf(r, text, Len(text), from + k)[n].p = WaysFrom(k)[n].p + from
  BY UnreadIs
<1>9. Least(DOMAIN WaysFrom(k)) \in DOMAIN WaysFrom(k)
  <2>1. WaysFrom(k) \in Seq(Place3(k, Len(Input)))
    BY <1>2
  <2>2. DOMAIN WaysFrom(k) \in SUBSET Int /\ \A n \in DOMAIN WaysFrom(k) : 1 <= n
    <3> HIDE DEF WaysFrom
    <3> QED
      BY <2>1
  <2> HIDE DEF WaysFrom
  <2> QED
    BY <1>7, <2>2, 1 \in Int, LeastOf
<1>10. BeginsAt(from + k) # NoAnswer /\ BeginsAt(from + k)[1] = from + m[1]
  <2>1. BeginsAt(from + k) # NoAnswer
        /\ BeginsAt(from + k)[1] = WaysOf(r, text, Len(text), from + k)[Least(DOMAIN WaysFrom(k))].p
    BY <1>2, <1>7, <1>8, BeginsIs
  <2>2. WaysOf(r, text, Len(text), from + k)[Least(DOMAIN WaysFrom(k))].p = m[1] + from
    BY <1>5, <1>7, <1>8, <1>9
  <2>3. m[1] \in Int
    BY <1>5
  <2> QED
    BY <1>2, <2>1, <2>2, <2>3
<1>11. ASSUME NEW q \in from .. from + k - 1 PROVE BeginsAt(q) = NoAnswer
  <2>1. q - from \in 0 .. Len(Input) /\ q - from < k /\ from + (q - from) = q /\ k # 0
    BY <1>2
  <2>2. q - from \in From(c)
    BY <1>4, <1>6, <2>1
  <2>3. DOMAIN WaysFrom(q - from) = {}
    BY <1>1, <1>3, <1>6, <2>1, <2>2 DEF Hit
  <2>4. /\ q \in 0 .. Len(text)
        /\ WaysOf(r, text, Len(text), q) \in Seq(Place3(q, Len(text)))
        /\ DOMAIN WaysOf(r, text, Len(text), q) = DOMAIN WaysFrom(q - from)
    BY <2>1, UnreadIs
  <2> QED
    BY <1>2, <2>3, <2>4, BeginsIs
<1> QED
  BY <1>5, <1>10, <1>11

\* A full match is one of the ways to consume.
LEMMA FullConsumes ==
  ASSUME ConsumeType, MatchOf("FullMatch") # NoAnswer
  PROVE  LET ways == Ways(reader.regexp, SearchOf("Consume"), 0) IN
         \E w \in {ways[k] : k \in DOMAIN ways} : w.p = Len(Input)
<1> DEFINE c == SearchOf("FullMatch")
           r == reader.regexp
           ways == Ways(r, SearchOf("Consume"), 0)
<1>1. /\ c.e = Len(Input) /\ c.kind = "full" /\ Ways(r, c, 0) = ways /\ From(c) = {0}
      /\ MatchOf("FullMatch") = Answer(r, c)
  BY DEF SearchOf, MatchOf, Ways, From
<1> HIDE DEF c
<1>2. Hit(r, c, 0)
  BY <1>1, NoHit
<1>3. PICK n \in DOMAIN ways : ways[n].p = Len(Input)
  BY <1>1, <1>2 DEF Hit, Wanted
<1> QED
  BY <1>3

\* ConsumeInv is inductive.
LEMMA ConsumeInvHolds == ConsumeSpec => []ConsumeInv
<1>1. ConsumeInit => ConsumeInv
  <2> SUFFICES ASSUME ConsumeInit PROVE ConsumeInv
    OBVIOUS
  <2>1. taken = << >> /\ from = 0 /\ ret = FALSE /\ text \in Seq(Nat)
    BY InputsAssumption DEF ConsumeInit
  <2>2. Len(text) \in Nat /\ 0 \in 0 .. Len(text)
    BY <2>1
  <2>3. DOMAIN taken = {} /\ taken \in Seq(Nat \X Nat) /\ called.fun = "none"
    BY <2>1 DEF ConsumeInit, NoCall
  <2>4. ConsumeType
    BY <2>1, <2>2, <2>3 DEF ConsumeInit, ConsumeType
  <2> QED
    BY <2>1, <2>3, <2>4 DEF ConsumeInv, ConsumedInTurn
<1>2. ASSUME ConsumeInv, [ConsumeNext]_cvars PROVE ConsumeInv'
  <2> USE <1>2
  <2>0. ConsumeType
    BY DEF ConsumeInv
  <2> DEFINE Chain(s) ==
        \A k \in DOMAIN s :
          LET before == IF k = 1 THEN 0 ELSE s[k - 1][2]
              m      == BeginsAt(s[k][1])
          IN  /\ before <= s[k][1] /\ m # NoAnswer /\ m[1] = s[k][2]
              /\ \A q \in before .. s[k][1] - 1 : BeginsAt(q) = NoAnswer
      Last(s) == IF s = << >> THEN 0 ELSE s[Len(s)][2]
      FullOnes == called.fun = "FullMatch" /\ ret =>
        \E w \in {Ways(reader.regexp, SearchOf("Consume"), 0)[k]
                  : k \in DOMAIN Ways(reader.regexp, SearchOf("Consume"), 0)} : w.p = Len(Input)
  <2>1. Chain(taken) /\ from = Last(taken) /\ FullOnes
    BY DEF ConsumeInv, ConsumedInTurn
  <2>2. ASSUME UNCHANGED <<reader, text, from, taken>>, ret' \in BOOLEAN, FullOnes'
        PROVE  ConsumeInv'
    BY <2>0, <2>1, <2>2 DEF ConsumeInv, ConsumeType, ConsumedInTurn, BeginsAt
  <2>3. ASSUME NEW f, NEW n, DoMatch(f, n)
        PROVE  /\ UNCHANGED <<reader, text>> /\ ret' \in BOOLEAN /\ called'.fun = f
               /\ ret' => MatchOf(f) # NoAnswer
    BY <2>3 DEF DoMatch
  <2>4. CASE FullMatchN
    <3>1. /\ UNCHANGED <<reader, text, from, taken>> /\ ret' \in BOOLEAN
          /\ called'.fun = "FullMatch" /\ ret' => MatchOf("FullMatch") # NoAnswer
      BY <2>3, <2>4 DEF FullMatchN
    <3>2. FullOnes'
      BY <2>0, <3>1, FullConsumes DEF SearchOf, Input, Ways
    <3> QED
      BY <2>2, <3>1, <3>2
  <2>5. CASE PartialMatchN
    <3>1. /\ UNCHANGED <<reader, text, from, taken>> /\ ret' \in BOOLEAN
          /\ called'.fun = "PartialMatch"
      BY <2>3, <2>5 DEF PartialMatchN
    <3> QED
      BY <2>2, <3>1
  <2>6. ASSUME NEW f \in {"Consume", "FindAndConsume"}, NEW n, DoMatch(f, n), Consumed(f)
        PROVE  ConsumeInv'
    <3> DEFINE m == MatchOf(f)
               last == <<from + m[0], from + m[1]>>
    <3>1. UNCHANGED <<reader, text>> /\ ret' \in BOOLEAN /\ called'.fun = f /\ (ret' => m # NoAnswer)
      BY <2>3, <2>6
    <3>2. CASE ~ret'
      <4>1. UNCHANGED <<from, taken>>
        BY <2>6, <3>2 DEF Consumed
      <4> QED
        BY <2>2, <3>1, <3>2, <4>1
    <3>3. CASE ret'
      <4>1. from' = from + m[1] /\ taken' = Append(taken, last)
        BY <2>6, <3>3 DEF Consumed
      <4>2. /\ m[0] \in 0 .. Len(Input) /\ m[1] \in m[0] .. Len(Input)
            /\ BeginsAt(from + m[0]) # NoAnswer /\ BeginsAt(from + m[0])[1] = from + m[1]
            /\ \A q \in from .. from + m[0] - 1 : BeginsAt(q) = NoAnswer
        BY <2>0, <3>1, <3>3, ConsumesNext
      <4>3. from \in Nat /\ Len(text) \in Nat /\ Len(Input) \in Nat /\ Len(Input) = Len(text) - from
        BY <2>0, UnreadIs
      <4>4. from + m[0] \in Nat /\ from + m[1] \in 0 .. Len(text) /\ from <= from + m[0]
        BY <4>2, <4>3
      <4> HIDE DEF m
      <4>5. /\ taken \in Seq(Nat \X Nat) /\ last \in Nat \X Nat
            /\ taken' \in Seq(Nat \X Nat) /\ Len(taken') = Len(taken) + 1 /\ Len(taken) \in Nat
            /\ DOMAIN taken = 1 .. Len(taken) /\ DOMAIN taken' = 1 .. Len(taken) + 1
            /\ taken'[Len(taken) + 1] = last /\ \A k \in 1 .. Len(taken) : taken'[k] = taken[k]
        BY <2>0, <4>1, <4>3, <4>4 DEF ConsumeType
      <4>6. ConsumeType'
        BY <2>0, <3>1, <4>1, <4>4, <4>5 DEF ConsumeType
      <4>7. from' = Last(taken')
        <5>1. taken' # << >>
          BY <4>5
        <5> QED
          BY <4>1, <4>5, <5>1
      <4>8. \A q : BeginsAt(q)' = BeginsAt(q)
        BY <3>1 DEF BeginsAt
      <4>9. Chain(taken')
        <5> SUFFICES ASSUME NEW k \in DOMAIN taken'
                     PROVE  LET before == IF k = 1 THEN 0 ELSE taken'[k - 1][2]
                                b      == BeginsAt(taken'[k][1])
                            IN  /\ before <= taken'[k][1] /\ b # NoAnswer /\ b[1] = taken'[k][2]
                                /\ \A q \in before .. taken'[k][1] - 1 : BeginsAt(q) = NoAnswer
          OBVIOUS
        <5>1. CASE k \in 1 .. Len(taken)
          <6>1. taken'[k] = taken[k] /\ (k # 1 => taken'[k - 1] = taken[k - 1])
            <7>1. k # 1 => k - 1 \in 1 .. Len(taken)
              <8>1. Len(taken) \in Nat
                BY <4>5
              <8> QED
                BY <5>1, <8>1
            <7> QED
              BY <4>5, <5>1, <7>1
          <6> QED
            BY <2>1, <4>5, <5>1, <6>1
        <5>2. CASE k = Len(taken) + 1
          <6>1. (IF k = 1 THEN 0 ELSE taken'[k - 1][2]) = from
            <7>1. CASE k = 1
              <8>1. taken = << >>
                BY <4>5, <5>2, <7>1
              <8> QED
                BY <2>1, <7>1, <8>1
            <7>2. CASE k # 1
              <8>1. taken # << >> /\ taken'[k - 1] = taken[Len(taken)]
                <9>1. k - 1 = Len(taken) /\ Len(taken) \in 1 .. Len(taken)
                  BY <4>5, <5>2, <7>2
                <9>2. taken'[k - 1] = taken[Len(taken)]
                  BY <4>5, <9>1
                <9>3. taken # << >>
                  BY <4>5, <9>1
                <9> QED
                  BY <9>2, <9>3
              <8> QED
                BY <2>1, <7>2, <8>1
            <7> QED
              BY <7>1, <7>2
          <6>2. taken'[k][1] = from + m[0] /\ taken'[k][2] = from + m[1]
            BY <4>5, <5>2
          <6>3. (IF k = 1 THEN 0 ELSE taken'[k - 1][2]) <= taken'[k][1]
            BY <4>4, <6>1, <6>2
          <6>4. \A q \in from .. taken'[k][1] - 1 : BeginsAt(q) = NoAnswer
            <7>1. \A q \in from .. from + m[0] - 1 : BeginsAt(q) = NoAnswer
              BY <4>2
            <7>2. taken'[k][1] - 1 = from + m[0] - 1
              <8>1. m[0] \in Int /\ from \in Int
                BY <4>2, <4>3
              <8> QED
                BY <6>2, <8>1
            <7> QED
              BY <7>1, <7>2
          <6>5. BeginsAt(taken'[k][1]) # NoAnswer /\ BeginsAt(taken'[k][1])[1] = taken'[k][2]
            <7>1. BeginsAt(from + m[0]) # NoAnswer /\ BeginsAt(from + m[0])[1] = from + m[1]
              BY <4>2
            <7>2. BeginsAt(taken'[k][1]) = BeginsAt(from + m[0])
              BY <6>2
            <7> QED
              BY <6>2, <7>1, <7>2
          <6> QED
            BY <6>1, <6>3, <6>4, <6>5
        <5> QED
          BY <4>5, <5>1, <5>2
      <4>10. called'.fun # "FullMatch"
        BY <3>1
      <4> HIDE DEF last
      <4> QED
        BY <3>1, <4>6, <4>7, <4>8, <4>9, <4>10 DEF ConsumeInv, ConsumedInTurn
    <3> QED
      BY <3>1, <3>2, <3>3
  <2>7. CASE ConsumeN
    BY <2>6, <2>7 DEF ConsumeN
  <2>8. CASE FindAndConsumeN
    BY <2>6, <2>8 DEF FindAndConsumeN
  <2>9. CASE UNCHANGED cvars
    BY <2>0, <2>1, <2>9
       DEF cvars, ConsumeInv, ConsumeType, ConsumedInTurn, BeginsAt, SearchOf, Input, Ways
  <2> QED
    BY <2>4, <2>5, <2>7, <2>8, <2>9 DEF ConsumeNext
<1> QED
  BY <1>1, <1>2, PTL DEF ConsumeSpec

\* Whoever reads a text bit by bit consumes successive matches of it, passes
\* over nothing that matches, and consumes nothing with a call that fails.
THEOREM ConsumesInTurn == ConsumeSpec => []ConsumedInTurn
<1>1. ConsumeInv => ConsumedInTurn
  BY DEF ConsumeInv
<1> QED
  BY <1>1, ConsumeInvHolds, PTL

-----------------------------------------------------------------------------
(***************************************************************************)
(* Perl's loop (module PerlEngine).                                        *)
(***************************************************************************)
\* An answer that Perl can be told of: the whole match is there, and of every
\* group both ends or none.
PerlAnswer(m) ==
  /\ DOMAIN m = 0 .. 5 /\ m[0] # -1
  /\ \A n \in 0 .. 2 : m[2 * n] = -1 <=> m[2 * n + 1] = -1

\* What has been read in the loop so far, and where the loop goes on.
FoundSoFar ==
  /\ \A k \in DOMAIN found : ReadInTurn(pattern, subject, EndRead(found, k - 1), found[k])
  /\ stage = "ready" => pos = EndRead(found, Len(found))
  /\ stage = "ended" =>
       \A q \in EndRead(found, Len(found)) .. Len(subject) : BeginsThere(pattern, subject, q) = NoAnswer

Readings == [offs : UNION {[0 .. n -> [start : Int, end : Int]] : n \in 0 .. 2}, lastparen : 0 .. 2]

PerlInv ==
  /\ pattern \in Patterns /\ strict \in BOOLEAN /\ subject \in Subjects
  /\ finds = FindsIn(pattern, subject)
  /\ pos \in 0 .. Len(subject)
  /\ stage \in {"comp", "perl", "croak", "crash"} => found = << >> /\ pos = 0
  /\ stage \in {"comp", "perl", "croak", "crash", "ready", "ended"}
  /\ stage \in {"ready", "ended"} => nparens = pattern.captures
  /\ found \in Seq(Readings)
  /\ FoundSoFar

\* What RE2::Match finds is such an answer.
LEMMA FindsArePerlAnswers ==
  ASSUME NEW x \in Patterns, NEW t \in Subjects, NEW q \in 0 .. Len(t)
  PROVE  LET m == FindsIn(x, t)[q] IN
         m # NoAnswer => PerlAnswer(m) /\ m[1] \in 0 .. Len(t)
<1> DEFINE c == PerlSearch(x, t, q, FALSE)
           m == Answer(x.regexp, c)
<1>1. FindsIn(x, t)[q] = m
  BY DEF FindsIn
<1>2. Len(t) \in Nat /\ q \in Nat /\ q <= Len(t)
  BY SubjectsAssumption
<1>3. c.b = q /\ c.e = Len(t) /\ \A k : Ways(x.regexp, c, k) = WaysOf(x.regexp, t, Len(t), k)
  BY DEF Ways, PerlSearch
<1> HIDE DEF c
<1>4. \A k \in c.b .. c.e :
        /\ k \in 0 .. Len(t)
        /\ Ways(x.regexp, c, k) \in Seq(Place3(k, c.e))
        /\ \A n \in DOMAIN Ways(x.regexp, c, k), i \in 1 .. 2 :
             Ways(x.regexp, c, k)[n].caps[2 * i] = -1
               <=> Ways(x.regexp, c, k)[n].caps[2 * i + 1] = -1
  <2>1. NCaps - 1 = 2 /\ \A k \in c.b .. c.e : k \in 0 .. Len(t)
    BY <1>2, <1>3 DEF NCaps
  <2>2. \A k \in 0 .. Len(t) :
          LET ways == WaysOf(x.regexp, t, Len(t), k) IN
          /\ ways \in Seq([p : k .. Len(t), caps : AnyCaps])
          /\ \A n \in DOMAIN ways, i \in 1 .. 2 :
               ways[n].caps[2 * i] = -1 <=> ways[n].caps[2 * i + 1] = -1
    BY <2>1, FindsAssumption
  <2>3. \A k \in c.b .. c.e : Ways(x.regexp, c, k) \in Seq(Place3(k, c.e))
    BY <1>3, <2>1, <2>2 DEF Place3
  <2>4. ASSUME NEW k \in c.b .. c.e, NEW n \in DOMAIN Ways(x.regexp, c, k), NEW i \in 1 .. 2
        PROVE  Ways(x.regexp, c, k)[n].caps[2 * i] = -1
                 <=> Ways(x.regexp, c, k)[n].caps[2 * i + 1] = -1
    <3>1. k \in 0 .. Len(t) /\ Ways(x.regexp, c, k) = WaysOf(x.regexp, t, Len(t), k)
      BY <1>3, <2>1
    <3>2. \A h \in DOMAIN WaysOf(x.regexp, t, Len(t), k), j \in 1 .. 2 :
            WaysOf(x.regexp, t, Len(t), k)[h].caps[2 * j] = -1
              <=> WaysOf(x.regexp, t, Len(t), k)[h].caps[2 * j + 1] = -1
      BY <2>2, <3>1
    <3>3. n \in DOMAIN WaysOf(x.regexp, t, Len(t), k)
      BY <2>4, <3>1
    <3> QED
      BY <3>1, <3>2, <3>3
  <2> QED
    BY <2>1, <2>3, <2>4
<1>5. CASE m = NoAnswer
  BY <1>1, <1>5
<1>6. CASE \E k \in From(c) :
              /\ k \in c.b .. c.e /\ Best(x.regexp, c, k) /\ m # NoAnswer
              /\ DOMAIN m = 0 .. 5 /\ m[0] = k /\ m[1] = Chosen(x.regexp, c, k).p
              /\ \A i \in 2 .. 5 : m[i] = Chosen(x.regexp, c, k).caps[i]
              /\ \E n \in DOMAIN Ways(x.regexp, c, k) :
                   Chosen(x.regexp, c, k) = Ways(x.regexp, c, k)[n]
              /\ Chosen(x.regexp, c, k).p \in k .. c.e
  <2>1. PICK k \in c.b .. c.e :
           /\ DOMAIN m = 0 .. 5 /\ m[0] = k /\ m[1] \in k .. c.e
           /\ \A i \in 2 .. 5 : m[i] = Chosen(x.regexp, c, k).caps[i]
           /\ \E n \in DOMAIN Ways(x.regexp, c, k) :
                Chosen(x.regexp, c, k) = Ways(x.regexp, c, k)[n]
    BY <1>6
  <2>2. k \in Nat /\ m[1] \in 0 .. Len(t) /\ m[1] \in Nat
    BY <1>2, <1>3, <2>1
  <2>3. \A i \in 1 .. 2 : m[2 * i] = -1 <=> m[2 * i + 1] = -1
    <3>1. \A i \in 1 .. 2 : Chosen(x.regexp, c, k).caps[2 * i] = -1
                             <=> Chosen(x.regexp, c, k).caps[2 * i + 1] = -1
      BY <1>4, <2>1
    <3>2. \A i \in 1 .. 2 : 2 * i \in 2 .. 5 /\ 2 * i + 1 \in 2 .. 5
      OBVIOUS
    <3> QED
      BY <2>1, <3>1, <3>2
  <2>4. \A n \in 0 .. 2 : m[2 * n] = -1 <=> m[2 * n + 1] = -1
    <3>1. m[0] # -1 /\ m[1] # -1
      BY <2>1, <2>2
    <3> HIDE DEF m
    <3>2. \A n \in 0 .. 2 : n = 0 \/ n \in 1 .. 2
      OBVIOUS
    <3> QED
      BY <2>3, <3>1, <3>2
  <2> QED
    BY <1>1, <2>1, <2>2, <2>4 DEF PerlAnswer
<1> QED
  BY <1>2, <1>3, <1>4, <1>5, <1>6, AnswerIs

\* The first position with a match, and what matches there on its own.
LEMMA LeftmostIs ==
  ASSUME NEW x \in Patterns, NEW t \in Subjects, NEW b \in 0 .. Len(t)
  PROVE  LET m == FindsIn(x, t)[b]
             At(q) == Answer(x.regexp, PerlSearch(x, t, q, TRUE))
         IN  \/ m = NoAnswer /\ \A q \in b .. Len(t) : At(q) = NoAnswer
             \/ /\ m # NoAnswer /\ m[0] \in b .. Len(t) /\ m[1] \in m[0] .. Len(t)
                /\ m \in AnyCaps /\ m = At(m[0])
                /\ \A q \in b .. m[0] - 1 : At(q) = NoAnswer
<1> DEFINE r == x.regexp
           c == PerlSearch(x, t, b, FALSE)
           d(q) == PerlSearch(x, t, q, TRUE)
           m == Answer(r, c)
           At(q) == Answer(r, d(q))
<1>1. Len(t) \in Nat /\ b \in Nat /\ b <= Len(t) /\ \A q \in b .. Len(t) : q \in 0 .. Len(t) /\ q \in Nat
  BY SubjectsAssumption
<1>2. FindsIn(x, t)[b] = m
  BY DEF FindsIn
<1>3. c.b = b /\ c.e = Len(t) /\ From(c) = b .. Len(t)
  BY DEF PerlSearch, From
<1>4. \A q : d(q).b = q /\ d(q).e = Len(t) /\ From(d(q)) = {q}
  BY DEF PerlSearch, From
<1>5. \A q : c.kind = d(q).kind /\ c.text = d(q).text /\ c.e = d(q).e
  BY DEF PerlSearch
<1>6. \A q \in 0 .. Len(t) : WaysOf(r, t, Len(t), q) \in Seq(Place3(q, Len(t)))
  BY FindsAssumption DEF Place3
<1>7. \A q \in 0 .. Len(t) : /\ Ways(r, c, q) \in Seq(Place3(q, Len(t)))
                              /\ \A k : Ways(r, d(k), q) = Ways(r, c, q)
  <2>1. \A q : Ways(r, c, q) = WaysOf(r, t, Len(t), q) /\ \A k : Ways(r, d(k), q) = Ways(r, c, q)
    BY DEF Ways, PerlSearch
  <2> QED
    BY <1>6, <2>1
<1> HIDE DEF c, d, r
<1>8. \A q, k : Hit(r, d(k), q) <=> Hit(r, c, q)
  <2>1. \A k, ways : Wanted(ways, d(k)) = Wanted(ways, c)
    <3> SUFFICES ASSUME NEW k, NEW ways PROVE Wanted(ways, d(k)) = Wanted(ways, c)
      OBVIOUS
    <3>1. c.kind = d(k).kind /\ c.e = d(k).e
      BY <1>5
    <3> QED
      BY <3>1 DEF Wanted
  <2>2. \A k, q : Ways(r, d(k), q) = Ways(r, c, q)
    BY <1>5 DEF Ways
  <2> QED
    BY <2>1, <2>2 DEF Hit
<1>9. \A q \in b .. Len(t) : ~Hit(r, c, q) => At(q) = NoAnswer
  BY <1>4, <1>8, NoHit
<1>10. \A q \in b .. Len(t) : Hit(r, c, q) =>
         At(q) = [Chosen(r, c, q).caps EXCEPT ![0] = q, ![1] = Chosen(r, c, q).p]
  <2> SUFFICES ASSUME NEW q \in b .. Len(t), Hit(r, c, q)
               PROVE  At(q) = [Chosen(r, c, q).caps EXCEPT ![0] = q, ![1] = Chosen(r, c, q).p]
    OBVIOUS
  <2>1. Chosen(r, d(q), q) = Chosen(r, c, q)
    BY <1>5, SameChosen
  <2>2. From(d(q)) \in SUBSET Int /\ q \in From(d(q)) /\ Hit(r, d(q), q)
        /\ \A k \in From(d(q)) : k < q => ~Hit(r, d(q), k)
    BY <1>1, <1>4, <1>8
  <2>3. Chosen(r, c, q).caps \in AnyCaps
    <3>1. Ways(r, c, q) \in Seq(Place3(q, Len(t)))
      BY <1>1, <1>7
    <3> QED
      BY <3>1, ChosenIsOne
  <2>4. Chosen(r, d(q), q).caps \in AnyCaps
    BY <2>1, <2>3
  <2>5. Answer(r, d(q)) = [Chosen(r, d(q), q).caps EXCEPT ![0] = q, ![1] = Chosen(r, d(q), q).p]
    BY <2>2, <2>4, FirstHit
  <2> QED
    BY <2>1, <2>5
<1>11. \/ m = NoAnswer /\ \A q \in From(c) : ~Hit(r, c, q)
       \/ \E q \in From(c) :
            /\ q \in c.b .. c.e /\ Best(r, c, q) /\ m # NoAnswer
            /\ m = [Chosen(r, c, q).caps EXCEPT ![0] = q, ![1] = Chosen(r, c, q).p]
            /\ m[0] = q /\ m[1] = Chosen(r, c, q).p
            /\ Chosen(r, c, q).p \in q .. c.e /\ Chosen(r, c, q).caps \in AnyCaps
  <2>1. \A q \in c.b .. c.e : Ways(r, c, q) \in Seq(Place3(q, c.e))
    BY <1>1, <1>3, <1>7
  <2> QED
    BY <1>1, <1>3, <2>1, AnswerIs
<1>12. CASE m = NoAnswer /\ \A q \in From(c) : ~Hit(r, c, q)
  <2>1. \A q \in b .. Len(t) : At(q) = NoAnswer
    BY <1>3, <1>9, <1>12
  <2> QED
    BY <1>2, <1>12, <2>1 DEF d, r
<1>13. ASSUME NEW q \in From(c), Best(r, c, q), m # NoAnswer,
              m = [Chosen(r, c, q).caps EXCEPT ![0] = q, ![1] = Chosen(r, c, q).p],
              m[0] = q, m[1] = Chosen(r, c, q).p,
              Chosen(r, c, q).p \in q .. c.e, Chosen(r, c, q).caps \in AnyCaps
       PROVE  /\ m[0] \in b .. Len(t) /\ m[1] \in m[0] .. Len(t) /\ m \in AnyCaps
              /\ m = At(m[0]) /\ \A k \in b .. m[0] - 1 : At(k) = NoAnswer
  <2>1. q \in b .. Len(t) /\ Hit(r, c, q) /\ \A k \in b .. Len(t) : k < q => ~Hit(r, c, k)
    BY <1>3, <1>13 DEF Best
  <2>2. m = At(q)
    BY <1>10, <1>13, <2>1
  <2>3. m \in AnyCaps
    <3>1. q \in Int /\ Chosen(r, c, q).p \in Int
      BY <1>1, <1>3, <1>13, <2>1
    <3> HIDE DEF m
    <3> QED
      BY <1>13, <3>1 DEF AnyCaps, NCaps
  <2>4. \A k \in b .. q - 1 : At(k) = NoAnswer
    <3> SUFFICES ASSUME NEW k \in b .. q - 1 PROVE At(k) = NoAnswer
      OBVIOUS
    <3> HIDE DEF m, At
    <3>1. k \in b .. Len(t) /\ k < q
      BY <1>1, <2>1
    <3> QED
      BY <1>9, <2>1, <3>1
  <2>5. m[1] \in q .. Len(t)
    BY <1>3, <1>13
  <2> HIDE DEF m, At
  <2> QED
    BY <1>13, <2>1, <2>2, <2>3, <2>4, <2>5
<1> HIDE DEF m, At
<1>14. CASE \E q \in From(c) :
            /\ q \in c.b .. c.e /\ Best(r, c, q) /\ m # NoAnswer
            /\ m = [Chosen(r, c, q).caps EXCEPT ![0] = q, ![1] = Chosen(r, c, q).p]
            /\ m[0] = q /\ m[1] = Chosen(r, c, q).p
            /\ Chosen(r, c, q).p \in q .. c.e /\ Chosen(r, c, q).caps \in AnyCaps
  <2>1. /\ m # NoAnswer /\ m[0] \in b .. Len(t) /\ m[1] \in m[0] .. Len(t) /\ m \in AnyCaps
        /\ m = At(m[0]) /\ \A k \in b .. m[0] - 1 : At(k) = NoAnswer
    BY <1>13, <1>14
  <2> QED
    BY <1>2, <2>1 DEF At, d, r
<1>15. (m = NoAnswer /\ \A q \in From(c) : ~Hit(r, c, q)) \/
       \E q \in From(c) :
            /\ q \in c.b .. c.e /\ Best(r, c, q) /\ m # NoAnswer
            /\ m = [Chosen(r, c, q).caps EXCEPT ![0] = q, ![1] = Chosen(r, c, q).p]
            /\ m[0] = q /\ m[1] = Chosen(r, c, q).p
            /\ Chosen(r, c, q).p \in q .. c.e /\ Chosen(r, c, q).caps \in AnyCaps
  BY <1>11
<1> QED
  BY <1>12, <1>14, <1>15

\* The last group that is set is one, and none behind it is.
LEMMA LastParenIs ==
  ASSUME nparens \in 0 .. 2, NEW m, PerlAnswer(m)
  PROVE  /\ LastParen(m) \in 0 .. nparens /\ m[2 * LastParen(m)] # -1
         /\ \A n \in LastParen(m) + 1 .. nparens : m[2 * n] = -1
<1> DEFINE S == {n \in 0 .. nparens : m[2 * n] # -1}
           T == {-n : n \in S}
<1>1. 0 \in S /\ S \subseteq 0 .. nparens /\ nparens \in Nat
  BY DEF PerlAnswer
<1>2. T \in SUBSET Int /\ T # {} /\ -nparens \in Int /\ \A x \in T : -nparens <= x
  BY <1>1
<1>3. Least(T) \in T /\ \A y \in T : Least(T) <= y
  <2> HIDE DEF T
  <2> QED
    BY <1>2, LeastOf
<1>4. \E n \in S : \A k \in S : n >= k
  <2>1. PICK n \in S : Least(T) = -n
    BY <1>3
  <2>2. \A k \in S : -n <= -k
    BY <1>3, <2>1
  <2>3. \A k \in S : k \in Int
    BY <1>1
  <2> QED
    BY <2>1, <2>2, <2>3
<1>5. LastParen(m) \in S /\ \A k \in S : LastParen(m) >= k
  <2>1. LastParen(m) = CHOOSE n \in S : \A k \in S : n >= k
    BY DEF LastParen, Max
  <2> HIDE DEF S
  <2> QED
    BY <1>4, <2>1
<1>6. ASSUME NEW n \in LastParen(m) + 1 .. nparens PROVE m[2 * n] = -1
  <2>1. n \in 0 .. nparens /\ ~(LastParen(m) >= n)
    BY <1>1, <1>5
  <2> QED
    BY <1>5, <2>1
<1> QED
  BY <1>5, <1>6

\* What Perl reads of an answer is what it says.
LEMMA ReadsIt ==
  ASSUME pattern \in Patterns, nparens = pattern.captures, NEW m \in AnyCaps, PerlAnswer(m),
         NEW reading, reading = [offs |-> OffsOf(m), lastparen |-> LastParen(m)]
  PROVE  /\ reading \in Readings /\ ReadsAsIn(pattern, reading, m)
         /\ reading.offs[0].start = m[0] /\ reading.offs[0].end = m[1]
<1>1. nparens \in 0 .. 2 /\ NCaps - 1 = 2
  BY PatternsAssumption DEF NCaps
<1>2. \A n \in 0 .. nparens : /\ n \in 0 .. 2 /\ 2 * n \in 0 .. 5 /\ 2 * n + 1 \in 0 .. 5
  BY <1>1
<1>3. \A n \in 0 .. nparens :
        reading.offs[n].start = m[2 * n] /\ reading.offs[n].end = m[2 * n + 1]
  <2> SUFFICES ASSUME NEW n \in 0 .. nparens
               PROVE  reading.offs[n].start = m[2 * n] /\ reading.offs[n].end = m[2 * n + 1]
    OBVIOUS
  <2>1. reading.offs[n] = IF m[2 * n] = -1 THEN NoOffs
                          ELSE [start |-> m[2 * n], end |-> m[2 * n + 1]]
    BY DEF OffsOf
  <2>2. m[2 * n] = -1 <=> m[2 * n + 1] = -1
    BY <1>2 DEF PerlAnswer
  <2> QED
    BY <2>1, <2>2 DEF NoOffs
<1>4. \A n \in 0 .. nparens : m[2 * n] \in Int /\ m[2 * n + 1] \in Int
  BY <1>2 DEF AnyCaps, NCaps
<1>5. OffsOf(m) \in [0 .. nparens -> [start : Int, end : Int]]
  BY <1>4 DEF OffsOf, NoOffs
<1>6. LastParen(m) \in 0 .. nparens /\ m[2 * LastParen(m)] # -1
      /\ \A n \in LastParen(m) + 1 .. nparens : m[2 * n] = -1
  BY <1>1, LastParenIs
<1>7. LastParen(m) \in 0 .. 2
  BY <1>1, <1>6
<1>8. reading \in Readings
  BY <1>1, <1>5, <1>7 DEF Readings
<1>9. ReadsAsIn(pattern, reading, m)
  BY <1>3, <1>6 DEF ReadsAsIn
<1>10. 0 \in 0 .. nparens /\ 2 * 0 = 0 /\ 2 * 0 + 1 = 1
  BY <1>1
<1> QED
  BY <1>3, <1>8, <1>9, <1>10

\* A search that begins with nothing found keeps PerlInv.
LEMMA BeginsLoop ==
  ASSUME PerlInv, strict' = strict, pattern' = pattern, subject' \in Subjects,
         finds' = FindsIn(pattern, subject'), pos' = 0, found' = << >>,
         stage' \in {"comp", "perl", "croak", "crash", "ready"},
         stage' = "ready" => nparens' = pattern.captures
  PROVE  PerlInv'
<1>1. 0 \in 0 .. Len(subject')
  BY SubjectsAssumption
<1>2. found' \in Seq(Readings) /\ Len(found') = 0 /\ DOMAIN found' = {}
  OBVIOUS
<1>3. FoundSoFar'
  BY <1>2 DEF FoundSoFar, EndRead
<1> QED
  BY <1>1, <1>2, <1>3 DEF PerlInv, Readings

\* Adding to a sequence what it does not end with.
LEMMA AddsNew ==
  ASSUME NEW S, NEW s \in Seq(S), NEW e \in S, NEW t,
         t = IF s # << >> /\ s[Len(s)] = e THEN s ELSE Append(s, e)
  PROVE  /\ t \in Seq(S) /\ Len(t) \in Nat /\ Len(t) >= 1 /\ DOMAIN t = 1 .. Len(t)
         /\ t[Len(t)] = e
         /\ \/ Len(t) = Len(s) /\ t = s
            \/ Len(t) = Len(s) + 1 /\ \A k \in 1 .. Len(s) : t[k] = s[k]
<1>1. CASE s # << >> /\ s[Len(s)] = e
  BY <1>1
<1>2. CASE ~(s # << >> /\ s[Len(s)] = e)
  BY <1>2
<1> QED
  BY <1>1, <1>2

\* A round of the loop finds the next match, or that there is none.
LEMMA FindsNext == PerlInv /\ GlobalMatch => PerlInv'
<1> SUFFICES ASSUME PerlInv, GlobalMatch PROVE PerlInv'
  OBVIOUS
<1> DEFINE m == FoundFrom(pos, pos + IF zerolen THEN 1 ELSE 0)
<1>1. m = FindsIn(pattern, subject)[pos] /\ pattern \in Patterns /\ subject \in Subjects
      /\ pos \in 0 .. Len(subject) /\ stage = "ready" /\ nparens = pattern.captures
      /\ found \in Seq(Readings) /\ Len(subject) \in Nat
  BY SubjectsAssumption DEF FoundFrom, PerlInv, GlobalMatch
<1>2. m # NoAnswer => PerlAnswer(m)
  BY <1>1, FindsArePerlAnswers
<1> DEFINE At(q) == BeginsThere(pattern, subject, q)
<1>3. \/ m = NoAnswer /\ \A q \in pos .. Len(subject) : At(q) = NoAnswer
      \/ /\ m # NoAnswer /\ m[0] \in pos .. Len(subject) /\ m[1] \in m[0] .. Len(subject)
         /\ m \in AnyCaps /\ m = At(m[0])
         /\ \A q \in pos .. m[0] - 1 : At(q) = NoAnswer
  BY <1>1, LeftmostIs DEF BeginsThere
<1>4. /\ UNCHANGED <<pattern, strict, subject, finds, nparens>>
      /\ m = NoAnswer => pos' = 0 /\ stage' = "ended" /\ UNCHANGED found
      /\ m # NoAnswer => SetOffs(m) /\ Noted(Reading') /\ pos' = m[1] /\ stage' = stage
  BY DEF GlobalMatch
<1>5. /\ pos = EndRead(found, Len(found))
      /\ \A k \in DOMAIN found : ReadInTurn(pattern, subject, EndRead(found, k - 1), found[k])
  BY <1>1 DEF PerlInv, FoundSoFar
<1> HIDE DEF m
<1>6. CASE m = NoAnswer
  <2>1. found' = found /\ stage' = "ended" /\ pos' = 0
    BY <1>4, <1>6
  <2>2. \A q \in EndRead(found, Len(found)) .. Len(subject) : At(q) = NoAnswer
    BY <1>3, <1>5, <1>6
  <2>3. FoundSoFar'
    BY <1>4, <1>5, <2>1, <2>2 DEF FoundSoFar
  <2>4. 0 \in 0 .. Len(subject')
    BY <1>1, <1>4
  <2> QED
    BY <1>1, <1>4, <2>1, <2>3, <2>4 DEF PerlInv, Readings
<1>7. CASE m # NoAnswer
  <2> DEFINE reading == [offs |-> OffsOf(m), lastparen |-> LastParen(m)]
             n == Len(found)
             n2 == Len(found')
  <2>1. reading \in Readings /\ ReadsAsIn(pattern, reading, m)
        /\ reading.offs[0].start = m[0] /\ reading.offs[0].end = m[1]
    BY <1>1, <1>2, <1>3, <1>7, ReadsIt
  <2>2. Reading' = reading
    BY <1>4, <1>7 DEF SetOffs, Reading
  <2> HIDE DEF reading
  <2>3. found' = IF found # << >> /\ found[Len(found)] = reading THEN found
                 ELSE Append(found, reading)
    BY <1>4, <1>7, <2>2 DEF Noted
  <2>4. n \in Nat /\ DOMAIN found = 1 .. n /\ (found = << >> <=> n = 0)
    BY <1>1
  <2>5. /\ found' \in Seq(Readings) /\ n2 \in Nat /\ n2 >= 1 /\ DOMAIN found' = 1 .. n2
        /\ found'[n2] = reading
        /\ (n2 = n /\ found' = found) \/ (n2 = n + 1 /\ \A k \in 1 .. n : found'[k] = found[k])
    BY <1>1, <2>1, <2>3, AddsNew
  <2>6. pos = EndRead(found, n) /\ EndRead(found', n2) = m[1]
    <3>1. n2 \in Nat /\ n2 >= 1 /\ found'[n2] = reading
      BY <2>5
    <3> HIDE DEF n2
    <3>2. n2 # 0 /\ found'[n2].offs[0].end = m[1]
      BY <2>1, <3>1
    <3> QED
      BY <1>5, <3>2 DEF EndRead
  <2> HIDE DEF n, n2
  <2>7. \A k \in 0 .. n : EndRead(found', k) = EndRead(found, k)
    BY <2>4, <2>5 DEF EndRead
  <2>8. ReadInTurn(pattern, subject, pos, reading)
    <3>1. pos <= m[0]
      BY <1>1, <1>3, <1>7
    <3> QED
      BY <1>3, <1>7, <2>1, <3>1 DEF ReadInTurn
  <2>9. ASSUME NEW k \in DOMAIN found'
        PROVE  ReadInTurn(pattern, subject, EndRead(found', k - 1), found'[k])
    <3>1. CASE k \in DOMAIN found
      <4>1. found'[k] = found[k] /\ k - 1 \in 0 .. n
        BY <2>4, <2>5, <3>1
      <4>2. EndRead(found', k - 1) = EndRead(found, k - 1)
        BY <2>7, <4>1
      <4> QED
        BY <1>5, <3>1, <4>1, <4>2
    <3>2. CASE k \notin DOMAIN found
      <4>1. k = n2 /\ k - 1 = n /\ n \in 0 .. n
        BY <2>4, <2>5, <2>9, <3>2
      <4>2. found'[k] = reading /\ EndRead(found', k - 1) = pos
        BY <2>5, <2>6, <2>7, <4>1
      <4> QED
        BY <2>8, <4>2
    <3> QED
      BY <3>1, <3>2
  <2>10. pos' = m[1] /\ stage' = "ready" /\ pos' \in 0 .. Len(subject)
    BY <1>1, <1>3, <1>4, <1>7
  <2>11. FoundSoFar'
    BY <1>4, <2>6, <2>9, <2>10 DEF FoundSoFar, n2
  <2> QED
    BY <1>1, <1>4, <2>5, <2>10, <2>11 DEF PerlInv, Readings
<1> QED
  BY <1>6, <1>7

\* PerlInv is inductive.
LEMMA PerlInvHolds == PerlSpec => []PerlInv
<1>1. PerlInit => PerlInv
  <2> SUFFICES ASSUME PerlInit PROVE PerlInv
    OBVIOUS
  <2>1. subject \in Subjects /\ 0 \in 0 .. Len(subject) /\ pos = 0
    BY SubjectsAssumption DEF PerlInit
  <2>2. found = << >> /\ found \in Seq(Readings) /\ DOMAIN found = {} /\ stage = "comp"
    BY DEF PerlInit
  <2>3. FoundSoFar
    BY <2>2 DEF FoundSoFar
  <2> QED
    BY <2>1, <2>2, <2>3 DEF PerlInit, PerlInv
<1>2. ASSUME PerlInv, [PerlNext]_perlvars PROVE PerlInv'
  <2>1. ASSUME NEW to, Compiling(to), to \in {"perl", "croak", "crash", "ready"},
               to = "ready" => nparens' = pattern.captures
        PROVE  PerlInv'
    <3>1. /\ strict' = strict /\ pattern' = pattern /\ subject' \in Subjects
          /\ finds' = FindsIn(pattern, subject') /\ pos' = 0 /\ found' = << >> /\ stage' = to
      BY <1>2, <2>1 DEF Compiling, PerlInv
    <3> QED
      BY <1>2, <2>1, <3>1, BeginsLoop
  <2>2. CASE Comp
    BY <2>1, <2>2 DEF Comp
  <2>3. CASE FallBack
    BY <2>1, <2>3 DEF FallBack
  <2>4. CASE Croak
    BY <2>1, <2>4 DEF Croak
  <2>5. CASE CroakOverExtended
    BY <2>1, <2>5 DEF CroakOverExtended
  <2>6. CASE GlobalMatch
    BY <1>2, <2>6, FindsNext
  <2>7. ASSUME Anew, subject' \in Subjects, finds' = FindsIn(pattern, subject') PROVE PerlInv'
    <3>1. /\ strict' = strict /\ pattern' = pattern /\ pos' = 0 /\ found' = << >> /\ stage' = "ready"
          /\ nparens' = pattern.captures
      BY <1>2, <2>7 DEF Anew, PerlInv
    <3> QED
      BY <1>2, <2>7, <3>1, BeginsLoop
  <2>8. CASE PerlMatch
    BY <2>7, <2>8 DEF PerlMatch
  <2>9. CASE ExecBehind
    BY <1>2, <2>7, <2>9 DEF ExecBehind, PerlInv
  <2>10. CASE UNCHANGED perlvars
    BY <1>2, <2>10
       DEF perlvars, PerlInv, FoundSoFar, Readings
  <2> QED
    BY <1>2, <2>2, <2>3, <2>4, <2>5, <2>6, <2>8, <2>9, <2>10 DEF PerlNext, PerlLoopNext
<1> QED
  BY <1>1, <1>2, PTL DEF PerlSpec

\* A loop over all matches of a text goes over the successive matches of the
\* whole text, first and leftmost or longest as the pattern was compiled,
\* reads the groups of each, and ends only where none is left; in between the
\* engine may be asked for anything else.
THEOREM PerlLoopsInTurn == PerlSpec => []LoopInTurn
<1>1. PerlInv => LoopInTurn
  BY DEF PerlInv, FoundSoFar, LoopInTurn
<1> QED
  BY <1>1, PerlInvHolds, PTL
=============================================================================
