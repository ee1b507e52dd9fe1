------------------------------ MODULE RE2Sets -------------------------------
(***************************************************************************)
(* RE2::Set (re2/re2/set.cc): many regexps in one program.  Each pattern   *)
(* ends in a match instruction with its index; all are sorted by their     *)
(* text, made one alternation, factored like any other, simplified and     *)
(* compiled.  What the DFA then does is taken from the automaton modules:  *)
(* it finds the indices whose match instruction can be reached.            *)
(***************************************************************************)
EXTENDS Simplifier

CONSTANTS
  SetObjects,     \* RE2::Set objects
  PatternOf(_),   \* the parse tree of each pattern; patterns are numbers,
                  \* in the order of their text, and a bad one has NoRe
  SetFlags        \* the parse flags of the options, with never_capture

VARIABLES
  set,        \* the objects: elem_, compiled_, size_, prog_ and the anchor
  result      \* what the last call returned

svars == <<set, result>>

NoProg == NoRe
NewSet(anchor) ==
  [elem |-> << >>, compiled |-> FALSE, size |-> 0, prog |-> NoProg, anchor |-> anchor]
Quiet == [op |-> "none", obj |-> 0, id |-> 0, ids |-> {}]
Said(op, o, id) == [Quiet EXCEPT !.op = op, !.obj = o, !.id = id]

\* Mutant of WithMatch: the index is put in front.
MatchInFront(re, n) ==
  ConcatOrAlternate("Concat", <<HaveMatchOf(n, SetFlags)>> \o (IF re.op = "Concat" THEN re.subs ELSE <<re>>), SetFlags)

\* A pattern with its index behind it.
WithMatch(re, n) ==
  ConcatOrAlternate("Concat",
    (IF re.op = "Concat" THEN re.subs ELSE <<re>>) \o <<HaveMatchOf(n, SetFlags)>>, SetFlags)

SetAdd(o, pattern) ==
  LET s == set[o] IN
  IF s.compiled \/ PatternOf(pattern) = NoRe
    THEN result' = Said("add", o, -1) /\ UNCHANGED set
  ELSE /\ set' = [set EXCEPT ![o].elem =
                    Append(@, [pattern |-> pattern, re |-> WithMatch(PatternOf(pattern), Len(@))])]
       /\ result' = Said("add", o, Len(s.elem))

\* std::sort leaves equal patterns in any order.
PatternsSorted(elem) == \A i \in 1 .. Len(elem) - 1 : elem[i].pattern <= elem[i + 1].pattern
Orders(elem) ==
  LET orders == {[i \in DOMAIN elem |-> elem[q[i]]] : q \in {q \in [DOMAIN elem -> DOMAIN elem] : IsInjective(q)}}
  IN  {e \in orders : PatternsSorted(e)}

AlternateOf(elem) ==
  ConcatOrAlternate("Alternate", [i \in DOMAIN elem |-> elem[i].re], SetFlags)

\* A program that takes more than max_mem is given up.
SetCompile(o) ==
  LET s == set[o] IN
  IF s.compiled THEN result' = Said("compile", o, -1) /\ UNCHANGED set
  ELSE \E elem \in Orders(s.elem) : \E prog \in {Simplify(AlternateOf(elem)), NoProg} :
         /\ set' = [set EXCEPT ![o] = [s EXCEPT !.elem = << >>, !.compiled = TRUE, !.size = Len(elem),
                                                !.prog = prog]]
         /\ result' = Said("compile", o, IF prog = NoProg THEN -1 ELSE 0)

\* The program in which only the match instruction n is left; anchored at both
\* ends, it has \z in front.
RECURSIVE Reaching(_, _, _)
Reaching(re, n, anchor) ==
  IF re.op # "HaveMatch" THEN [re EXCEPT !.subs = [i \in DOMAIN @ |-> Reaching(@[i], n, anchor)]]
  ELSE IF re.id # n THEN Node("NoMatch", {})
  ELSE Node(IF anchor = "both" THEN "EndText" ELSE "EmptyMatch", {})

\* Unanchored, the program begins with .*
Starts(anchor, text) == IF anchor = "unanchored" THEN 0 .. Len(text) ELSE {0}
Reached(s, text) ==
  {n \in 0 .. s.size - 1 :
     \E p \in Starts(s.anchor, text) : MatchesAt(Reaching(s.prog, n, s.anchor), text, p)}

\* The kinds of error: there is no engine to fall back to when the DFA runs out
\* of memory.
NotCompiled == -1
OutOfMemory == -2

\* Not to be called when Compile has failed: a null pointer would be followed.
SetMatch(o, text) ==
  /\ UNCHANGED set
  /\ IF ~set[o].compiled THEN result' = Said("match", o, NotCompiled)
     ELSE /\ set[o].prog # NoProg
          /\ \/ result' = Said("match", o, OutOfMemory)
             \/ result' = [Said("match", o, 0) EXCEPT !.ids = Reached(set[o], text)] @@ [text |-> text]

\* The set that was moved from is empty and can be used again.
EmptiedSet(s) == NewSet(s.anchor)
SetMove(from, to) ==
  /\ from # to
  /\ set' = [set EXCEPT ![to] = set[from], ![from] = EmptiedSet(set[from])]
  /\ result' = Said("move", to, 0)
=============================================================================
