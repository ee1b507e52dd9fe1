----------------------------- MODULE References -----------------------------
(***************************************************************************)
(* The reference counts of Regexp objects (re2/re2/regexp.cc).  The count  *)
(* has 16 bits in the object, and goes on in a map when they are full;     *)
(* what nobody refers to any more is destroyed with a stack of its own, so *)
(* that a deep tree does not use up the thread's.                          *)
(***************************************************************************)
EXTENDS Integers, Sequences, FiniteSets

CONSTANTS Node,      \* addresses, from 1
          kMaxRef,   \* 0xffff
          MaxSubs,   \* kMaxNsub, 0xffff: subexpressions of a regexp
          MaxHeld    \* bound: references that callers have at once

NULL == 0            \* no address

ASSUME NodeAssumption == NULL \notin Node
ASSUME BoundsAssumption ==
  kMaxRef \in Nat /\ kMaxRef > 1 /\ MaxSubs \in Nat /\ MaxHeld \in Nat

VARIABLES alive,     \* what is allocated
          ref,       \* ref_
          ref_map,   \* the counts that did not fit
          sub,       \* sub(); NULL where the parser has taken one out
          stack,     \* what Destroy has still to do, linked through down_
          re, at,    \* Destroy's re and i + 1: what it has at hand, or NULL
          held       \* history: the references that callers have

rvars == <<alive, ref, ref_map, sub, stack, re, at, held>>

RInit ==
  /\ alive = {} /\ ref = [x \in Node |-> 0] /\ ref_map = [x \in {} |-> 0]
  /\ sub = [x \in Node |-> << >>] /\ stack = << >> /\ re = NULL /\ at = 1
  /\ held = [x \in Node |-> 0]

-----------------------------------------------------------------------------
Occurrences(x, s) == Cardinality({k \in DOMAIN s : s[k] = x})
Total == Cardinality({h \in Node \X (1 .. MaxHeld) : h[2] <= held[h[1]]})
Returned == stack = << >> /\ re = NULL

\* What callers can get at.
Below(S) == S \cup {y \in Node : \E x \in S : \E k \in DOMAIN sub[x] : sub[x][k] = y}
Reachable == Below(Below({x \in Node : held[x] > 0}))

\* Any of the constructors, Capture, Concat and so on: the new regexp takes the
\* references of the caller to its subexpressions over.
Subs == {s \in UNION {[1 .. n -> alive] : n \in 0 .. MaxSubs} :
           \A x \in alive : Occurrences(x, s) <= held[x]}
New(x, s) ==
  /\ Returned /\ x \notin alive /\ Total - Len(s) < MaxHeld
  /\ alive' = alive \cup {x}
  /\ ref' = [ref EXCEPT ![x] = 1]
  /\ sub' = [sub EXCEPT ![x] = s]
  /\ held' = [y \in Node |-> IF y = x THEN 1 ELSE held[y] - Occurrences(y, s)]
  /\ UNCHANGED <<ref_map, stack, re, at>>

Incref(x) ==
  /\ Returned /\ x \in Reachable /\ Total < MaxHeld
  /\ held' = [held EXCEPT ![x] = @ + 1]
  /\ CASE ref[x] = kMaxRef ->
            ref_map' = [ref_map EXCEPT ![x] = @ + 1] /\ UNCHANGED ref
       [] ref[x] = kMaxRef - 1 ->
            /\ ref_map' = [y \in DOMAIN ref_map \cup {x} |-> IF y = x THEN kMaxRef ELSE ref_map[y]]
            /\ ref' = [ref EXCEPT ![x] = kMaxRef]
       [] OTHER ->
            ref' = [ref EXCEPT ![x] = @ + 1] /\ UNCHANGED ref_map
  /\ UNCHANGED <<alive, sub, stack, re, at>>

\* The parser takes a subexpression out and keeps its reference.
TakeOut(x, k) ==
  /\ Returned /\ held[x] > 0 /\ k \in DOMAIN sub[x] /\ sub[x][k] # NULL /\ Total < MaxHeld
  /\ ref[x] = 1
  /\ held' = [held EXCEPT ![sub[x][k]] = @ + 1]
  /\ sub' = [sub EXCEPT ![x][k] = NULL]
  /\ UNCHANGED <<alive, ref, ref_map, stack, re, at>>

-----------------------------------------------------------------------------
(***************************************************************************)
(* Decref and Destroy, on a record of the variables that they change.      *)
(***************************************************************************)
Heap == [alive |-> alive, ref |-> ref, map |-> ref_map, stack |-> stack]
Becomes(h) == alive' = h.alive /\ ref' = h.ref /\ ref_map' = h.map /\ stack' = h.stack

\* One reference less for an object whose count is in the map.
LessInMap(h, x) ==
  LET r == h.map[x] - 1 IN
  IF r < kMaxRef
    THEN [h EXCEPT !.ref[x] = r, !.map = [y \in DOMAIN h.map \ {x} |-> h.map[y]]]
  ELSE [h EXCEPT !.map[x] = r]
\* Mutant of Less: a count in the map is not looked for.
LessInObject(h, x) == [h EXCEPT !.ref[x] = @ - 1]
Less(h, x) ==
  IF h.ref[x] = kMaxRef THEN LessInMap(h, x) ELSE [h EXCEPT !.ref[x] = @ - 1]

\* QuickDestroy, or to the stack.
Unreferenced(h, x) ==
  IF sub[x] = << >> THEN [h EXCEPT !.alive = @ \ {x}] ELSE [h EXCEPT !.stack = <<x>> \o @]

Released(h, x) ==
  IF x = NULL THEN h
  ELSE LET less == Less(h, x) IN IF less.ref[x] = 0 THEN Unreferenced(less, x) ELSE less

Decref(x) ==
  /\ Returned /\ held[x] > 0
  /\ held' = [held EXCEPT ![x] = @ - 1]
  /\ Becomes(Released(Heap, x))
  /\ UNCHANGED <<sub, re, at>>

\* The loop of Destroy: the next regexp is taken from the stack, its references
\* are given up in turn, and then it is deleted.
Pop ==
  /\ re = NULL /\ stack # << >>
  /\ re' = Head(stack) /\ at' = 1
  /\ stack' = Tail(stack)
  /\ UNCHANGED <<alive, ref, ref_map, sub, held>>

ReleaseSub ==
  /\ re # NULL /\ at <= Len(sub[re])
  /\ Becomes(Released(Heap, sub[re][at]))
  /\ at' = at + 1
  /\ UNCHANGED <<sub, re, held>>

Delete ==
  /\ re # NULL /\ at > Len(sub[re])
  /\ alive' = alive \ {re}
  /\ sub' = [sub EXCEPT ![re] = << >>]
  /\ re' = NULL /\ at' = 1
  /\ UNCHANGED <<ref, ref_map, stack, held>>

Destroy == Pop \/ ReleaseSub \/ Delete

RNext ==
  \/ \E x \in Node : Incref(x) \/ Decref(x)
  \/ \E x \in Node : \E s \in Subs : New(x, s)
  \/ \E x \in Node : \E k \in 1 .. MaxSubs : TakeOut(x, k)
  \/ Destroy

RSpec == RInit /\ [][RNext]_rvars

-----------------------------------------------------------------------------
Ref(x) == IF ref[x] < kMaxRef THEN ref[x] ELSE ref_map[x]
Waiting == {stack[k] : k \in DOMAIN stack}

\* Who refers to x: callers, and the subexpressions that are still to be let go.
Slots(x) ==
  {e \in alive \X (1 .. MaxSubs) :
     LET y == e[1] k == e[2]
     IN  k \in DOMAIN sub[y] /\ sub[y][k] = x /\ (y = re => at <= k)}
Owners(x) == held[x] + Cardinality(Slots(x))

\* The count is the number of references, in the object or in the map, however
\* often it has gone back and forth (regexp.cc:89-132); what is referred to has
\* not been destroyed, what is not has been, or is about to be, once; and the
\* map has no entries of objects that are gone.
RefsCounted ==
  /\ \A x \in alive : Ref(x) = Owners(x) /\ (Ref(x) = 0 <=> x \in Waiting \cup {re})
  /\ \A x \in alive : \A k \in DOMAIN sub[x] : sub[x][k] \in alive \cup {NULL} \/ (x = re /\ k < at)
  /\ \A x \in Node : held[x] > 0 => x \in alive
  /\ DOMAIN ref_map = {x \in alive : ref[x] = kMaxRef}
  /\ \A x \in DOMAIN ref_map : ref_map[x] >= kMaxRef
  /\ Waiting \subseteq alive /\ Cardinality(Waiting) = Len(stack)
  /\ re # NULL => re \in alive \ Waiting
=============================================================================
