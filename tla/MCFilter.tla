------------------------------ MODULE MCFilter ------------------------------
(***************************************************************************)
(* FilteredRE2 and RE2::Set side by side, for TLC: collections from small  *)
(* pools of regexps, each with the kinds of formula and of prefix that the *)
(* code tells apart, queried with all short texts.                         *)
(***************************************************************************)
EXTENDS FilteredRE2, RE2Sets

CONSTANTS
  Scenarios,
  Pool,        \* per scenario, regexps for a filter
  Texts,       \* and the texts they are asked about
  SetTexts     \* the texts for sets

VARIABLES
  scenario,   \* which collection is put together
  promised    \* how many regexps each filter held when it was first compiled,
              \* and the patterns that each set has accepted

mcvars == <<fvars, svars, scenario, promised>>

-----------------------------------------------------------------------------
Low_a == 97   Low_b == 98   Low_c == 99   CapA == 65   Acute == 233   LongS == 383
Low_s == 115
MCWordChars == (48 .. 57) \cup (65 .. 90) \cup {95} \cup (97 .. 122)
MCCaseFolds ==
  <<<<65, 90, 32>>, <<97, 106, -32>>, <<107, 107, 8383>>, <<108, 114, -32>>, <<115, 115, 268>>,
    <<116, 122, -32>>, <<383, 383, -300>>>>
MCToLowers == <<<<65, 90, 32>>, <<192, 214, 32>>, <<216, 222, 32>>, <<383, 383, -268>>>>

Lit(runes) == LiteralString(runes, {})
Fold(runes) == LiteralString(runes, {"FoldCase"})
Cat(subs) == ConcatOrAlternate("Concat", subs, {})
Or(subs) == ConcatOrAlternate("Alternate", subs, {})
Dot == Node("AnyChar", {})
DotStar == StarPlusOrQuest("Star", Dot, {})
ClassOf(lo, hi) == NewCharClass(AddRange(NewBuilder, lo, hi), {})
a == Lit(<<Low_a>>)   b == Lit(<<Low_b>>)   ab == Lit(<<Low_a, Low_b>>)
AorB == ClassOf(Low_a, Low_b)

\* Pools of regexps, and the texts they are asked about.
MCPool ==
  [atoms  |-> <<Cat(<<a, DotStar, b>>), ab, Cat(<<AorB, AorB>>), Fold(<<Low_b, Low_a>>),
                Or(<<ab, Lit(<<Low_b, Low_b, Low_a>>)>>),
                Cat(<<CaptureOf(StarPlusOrQuest("Plus", ab, {}), {}, 1, ""), StarPlusOrQuest("Quest", b, {})>>)>>,
   empty  |-> <<DotStar, NewCharClass(NewBuilder, {}), Node("EmptyMatch", {}), ClassOf(0, Runemax),
                Cat(<<Node("BeginText", {}), RepeatOf(a, {}, 2, 2), Node("EndText", {})>>),
                Or(<<Cat(<<a, DotStar, a>>), NewCharClass(NewBuilder, {})>>),
                Cat(<<ClassOf(Low_a, Low_c), ClassOf(Low_a, Low_c), b>>),
                RepeatOf(Cat(<<a, AorB>>), {}, 4, 4)>>,
   shared |-> <<Cat(<<a, Dot, b>>), Cat(<<a, Dot, ab>>), Cat(<<b, Dot, a>>), Cat(<<a, DotStar, b, Dot, a>>),
                Or(<<Cat(<<a, Dot, b>>), Cat(<<b, Dot, Dot, b>>)>>), Cat(<<b, Dot, ab, Dot, b>>)>>,
   folded |-> <<Fold(<<Low_a, Low_s>>), Lit(<<LongS>>), Lit(<<CapA, Low_s>>), Or(<<Lit(<<Low_s, Low_s>>), Lit(<<LongS, Low_a>>)>>),
                LiteralString(<<Acute>>, {"Latin1"})>>,
   moved  |-> <<ab, Cat(<<a, Dot, b>>)>>]
MaxAdds == [atoms |-> 2, empty |-> 2, shared |-> 3, folded |-> 2, moved |-> 2]
Minimum == [atoms |-> {1, 2}, empty |-> {0, 1}, shared |-> {1}, folded |-> {1, 2}, moved |-> {1}]
Over(runes, n) == UNION {[1 .. k -> runes] : k \in 0 .. n}
MCTexts ==
  [atoms |-> Over({Low_a, Low_b, CapA}, 3), empty |-> Over({Low_a, Low_b}, 3),
   shared |-> [1 .. 4 -> {Low_a, Low_b}] \cup [1 .. 3 -> {Low_a, Low_b}], folded |-> Over({Low_a, CapA, Low_s, LongS, Acute}, 2),
   moved |-> {<<Low_a, Low_b>>, <<Low_a, Low_a, Low_b>>}]

\* Patterns of sets, in the order of their text.
MCPatternOf(pattern) ==
  CASE pattern = 1 -> a
    [] pattern = 2 -> ab
    [] pattern = 3 -> Or(<<a, b>>)
    [] pattern = 4 -> Cat(<<a, b, AorB>>)
    [] pattern = 5 -> AorB
    [] pattern = 6 -> NoRe
    [] pattern = 7 -> Cat(<<StarPlusOrQuest("Star", a, {}), b>>)
    [] pattern = 8 -> Node("EmptyMatch", {})
    [] pattern = 9 -> Cat(<<a, StarPlusOrQuest("Quest", b, {})>>)
MCSetTexts ==
  [sets |-> Over({Low_a, Low_b}, 3), movedsets |-> {<<Low_a>>, <<Low_a, Low_b>>}]

MCInit ==
  /\ scenario \in Scenarios
  /\ call = NoCall /\ walk = NewWalk(<< >>) /\ result = Quiet
  /\ promised = [o \in Objects \cup SetObjects |-> << >>]
  /\ IF scenario \in DOMAIN MaxAdds
       THEN /\ \E n \in Minimum[scenario] : filter = [o \in Objects |-> NewFilter(n)]
            /\ set = << >>
     ELSE /\ \E anchor \in {"start", "both", "unanchored"} : set = [o \in SetObjects |-> NewSet(anchor)]
          /\ filter = << >>

OnFilters == scenario \in DOMAIN MaxAdds
TwoObjects == scenario \in {"moved", "movedsets"}
\* A call leaves the objects as they were: nothing follows one here.
FilterOf(o) == OnFilters /\ (TwoObjects \/ o = 1) /\ call.op = "none"
SetOf(o) == ~OnFilters /\ (TwoObjects \/ o = 11) /\ result.op # "match"
AddsLeft(o) == Len(filter[o].re2_vec) < MaxAdds[scenario]

MCAdd(o) ==
  /\ FilterOf(o) /\ AddsLeft(o)
  /\ filter[o].compiled => TwoObjects
  /\ \E i \in DOMAIN Pool[scenario] : Add(o, Pool[scenario][i])
  /\ UNCHANGED <<svars, scenario, promised>>
MCCompile(o) ==
  /\ FilterOf(o) /\ Compile(o)
  /\ promised' = [promised EXCEPT ![o] = IF @ = << >> THEN filter[o].re2_vec ELSE @]
  /\ UNCHANGED <<svars, scenario>>
MCQuery(o) ==
  /\ FilterOf(o) /\ filter[o].re2_vec # << >> /\ promised[o] # << >>
  /\ \E text \in Texts[scenario] : Query(o, text)
  /\ UNCHANGED <<svars, scenario, promised>>
MCMove(from, to) ==
  /\ FilterOf(from) /\ FilterOf(to) /\ Move(from, to)
  /\ promised' = [promised EXCEPT ![to] = promised[from], ![from] = << >>]
  /\ UNCHANGED <<svars, scenario>>
MCWalk == OnFilters /\ (Propagate \/ Finish) /\ UNCHANGED <<svars, scenario, promised>>

\* Sets of at most three patterns.
MCSetAdd(o) ==
  /\ SetOf(o) /\ Len(set[o].elem) < 3
  /\ \E pattern \in 1 .. 9 :
       /\ TwoObjects => pattern \in {2, 9}
       /\ SetAdd(o, pattern)
       /\ promised' = IF result'.id = -1 THEN promised ELSE [promised EXCEPT ![o] = Append(@, pattern)]
  /\ UNCHANGED <<fvars, scenario>>
MCSetCompile(o) == SetOf(o) /\ SetCompile(o) /\ UNCHANGED <<fvars, scenario, promised>>
MCSetMatch(o) ==
  /\ SetOf(o) /\ \E text \in SetTexts[scenario] : SetMatch(o, text)
  /\ UNCHANGED <<fvars, scenario, promised>>
MCSetMove(from, to) ==
  /\ SetOf(from) /\ SetOf(to) /\ SetMove(from, to)
  /\ promised' = [promised EXCEPT ![to] = promised[from], ![from] = << >>]
  /\ UNCHANGED <<fvars, scenario>>

MCNext ==
  \/ \E o \in Objects : MCAdd(o) \/ MCCompile(o) \/ MCQuery(o)
  \/ \E o, p \in Objects : MCMove(o, p)
  \/ MCWalk
  \/ \E o \in SetObjects : MCSetAdd(o) \/ MCSetCompile(o) \/ MCSetMatch(o)
  \/ \E o, p \in SetObjects : MCSetMove(o, p)
MCSpec == MCInit /\ [][MCNext]_mcvars

-----------------------------------------------------------------------------
\* The atoms to look for are distinct, in lower case and long enough, and every
\* node of the tree that waits for parts has that many parts left to wait for.
Trees == IF OnFilters THEN {filter[o].prefilter_tree : o \in Objects} ELSE {}
Children(tree, j) == {k \in DOMAIN tree.entries : j - 1 \in tree.entries[k].parents}

\* "A regexp that does not pass the filter is guaranteed to not match": of the
\* regexps that were there when the filter was compiled, every one that matches
\* is among those the atoms select, whichever nodes of the tree were shared or cut
\* off, whatever order the atoms came in, and though the filter was moved.
FilterMissesNothing ==
  call.op = "done" =>
    \A i \in DOMAIN promised[call.obj] :
      PartialMatch(promised[call.obj][i], call.text) => i - 1 \in ToSet(call.potential)

\* FirstMatch and AllMatches find what asking every regexp in turn finds.
FilterAgrees ==
  call.op = "done" /\ filter[call.obj].re2_vec = promised[call.obj] =>
    /\ call.first = SlowFirstMatch(filter[call.obj], call.text)
    /\ ToSet(call.all) = {i - 1 : i \in {i \in DOMAIN promised[call.obj] :
                                           PartialMatch(promised[call.obj][i], call.text)}}

\* A set reports a text under the index that Add returned for each pattern that
\* matches it, with its anchors, however the patterns were sorted and factored
\* together, and though the set was moved.
WholeMatch(re, text, p) ==
  \E at \in ToSet(Try(ToRegexp(re), At(p, SomeGroups), text, Len(text))) : at.p = Len(text)
WantedFrom(s, pattern, text) ==
  \E p \in Starts(s.anchor, text) :
    IF s.anchor = "both" THEN WholeMatch(PatternOf(pattern), text, p)
    ELSE MatchesAt(PatternOf(pattern), text, p)
SetMatchesAll ==
  result.op = "match" /\ result.id = 0 =>
    result.ids = {i - 1 : i \in {i \in DOMAIN promised[result.obj] :
                                   WantedFrom(set[result.obj], promised[result.obj][i], result.text)}}
=============================================================================
