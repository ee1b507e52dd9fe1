------------------------------- MODULE Walker -------------------------------
(***************************************************************************)
(* Regexp::Walker (re2/re2/walker-inl.h): a depth-first walk with a stack  *)
(* of its own.  Walk copies the result of a child for the equal child next *)
(* to it; WalkExponential does not, and gives up on time.  A visitor is    *)
(* modelled by the term that tells which of its functions was called with  *)
(* what.                                                                   *)
(***************************************************************************)
EXTENDS Integers, Sequences

CONSTANTS Dags,       \* regexps that share subexpressions: their subs, and where to stop
          Budgets     \* what max_visits_ is at first

VARIABLES dag,            \* the regexp that is walked over; 1 is its root
          use_copy,       \* Walk or WalkExponential
          budget,         \* the visits that were granted
          max_visits,     \* and those that are left
          stack,          \* stack_, from the bottom
          stopped_early,  \* stopped_early_
          result          \* what the walk returns

vars == <<dag, use_copy, budget, max_visits, stack, stopped_early, result>>

NoResult == [fun |-> "none"]
Top == <<"top">>

\* The visitor: what its functions return.
Pre(re, parent) == Append(parent, re)
Post(re, parent, pre, kids) == [fun |-> "post", re |-> re, parent |-> parent, pre |-> pre, kids |-> kids]
Short(re, parent) == [fun |-> "short", re |-> re, parent |-> parent]
Stopped(re, pre) == [fun |-> "stop", re |-> re, pre |-> pre]

WalkState(re, parent) == [re |-> re, n |-> -1, parent |-> parent, pre |-> << >>, kids |-> << >>]

Init ==
  /\ dag \in Dags /\ use_copy \in BOOLEAN /\ budget \in Budgets
  /\ max_visits = budget /\ stopped_early = FALSE
  /\ stack = <<WalkState(1, Top)>> /\ result = NoResult

-----------------------------------------------------------------------------
s == stack[Len(stack)]
sub == dag.subs[s.re]
Walking == stack # << >>
WithTop(t) == [stack EXCEPT ![Len(stack)] = t]

\* The visit of stack_.top() is over: its result goes to the one below.
Finish(t) ==
  LET below == Len(stack) - 1 IN
  IF below = 0 THEN stack' = << >> /\ result' = t
  ELSE /\ stack' = [SubSeq(stack, 1, below) EXCEPT ![below].kids = Append(@, t), ![below].n = @ + 1]
       /\ UNCHANGED result

GiveUp ==
  /\ Walking /\ s.n = -1 /\ max_visits <= 0
  /\ max_visits' = max_visits - 1 /\ stopped_early' = TRUE
  /\ Finish(Short(s.re, s.parent))
  /\ UNCHANGED <<dag, use_copy, budget>>

PreVisit ==
  /\ Walking /\ s.n = -1 /\ max_visits > 0
  /\ max_visits' = max_visits - 1
  /\ LET pre == Pre(s.re, s.parent) IN
     IF s.re \in dag.stops THEN Finish(Stopped(s.re, pre))
     ELSE stack' = WithTop([s EXCEPT !.pre = pre, !.n = 0]) /\ UNCHANGED result
  /\ UNCHANGED <<dag, use_copy, budget, stopped_early>>

MoreChildren == Walking /\ s.n \in 0 .. Len(sub) - 1
Alike == use_copy /\ s.n > 0 /\ sub[s.n] = sub[s.n + 1]

\* Mutant of CopyChild: the copy is of the first child.
CopyFirstChild ==
  /\ MoreChildren /\ Alike
  /\ stack' = WithTop([s EXCEPT !.kids = Append(@, @[1]), !.n = @ + 1])
  /\ UNCHANGED <<dag, use_copy, budget, max_visits, stopped_early, result>>

CopyChild ==
  /\ MoreChildren /\ Alike
  /\ stack' = WithTop([s EXCEPT !.kids = Append(@, @[s.n]), !.n = @ + 1])
  /\ UNCHANGED <<dag, use_copy, budget, max_visits, stopped_early, result>>

VisitChild ==
  /\ MoreChildren /\ ~Alike
  /\ stack' = Append(stack, WalkState(sub[s.n + 1], s.pre))
  /\ UNCHANGED <<dag, use_copy, budget, max_visits, stopped_early, result>>

PostVisit ==
  /\ Walking /\ s.n = Len(sub)
  /\ Finish(Post(s.re, s.parent, s.pre, s.kids))
  /\ UNCHANGED <<dag, use_copy, budget, max_visits, stopped_early>>

Next == GiveUp \/ PreVisit \/ CopyChild \/ VisitChild \/ PostVisit

Spec == Init /\ [][Next]_vars

-----------------------------------------------------------------------------
(***************************************************************************)
(* The walk by recursion: each visit takes one of the visits that are left.*)
(***************************************************************************)
RECURSIVE Visit(_, _, _), Children(_, _, _, _)
Visit(re, parent, left) ==
  LET pre  == Pre(re, parent)
      kids == Children(dag.subs[re], pre, << >>, left - 1)
  IN  IF left <= 0 THEN [t |-> Short(re, parent), left |-> left - 1]
      ELSE IF re \in dag.stops THEN [t |-> Stopped(re, pre), left |-> left - 1]
      ELSE [t |-> Post(re, parent, pre, kids.ts), left |-> kids.left]
Children(subs, pre, ts, left) ==
  LET k == Len(ts) + 1
      v == Visit(subs[k], pre, left)
  IN  IF k > Len(subs) THEN [ts |-> ts, left |-> left]
      ELSE IF use_copy /\ k > 1 /\ subs[k] = subs[k - 1]
        THEN Children(subs, pre, Append(ts, ts[k - 1]), left)
      ELSE Children(subs, pre, Append(ts, v.t), v.left)

\* The loop with the stack computes what recursion would (walker-inl.h:8,
\* "traversing Regexps without recursion"), every PostVisit gets the results of all its
\* children in their order, copied or not; and stopped_early() says whether a
\* ShortVisit is among them.
WalkIsRecursion ==
  ~Walking => /\ result = Visit(1, Top, budget).t
              /\ max_visits = Visit(1, Top, budget).left
              /\ stopped_early = (max_visits < 0)
=============================================================================
