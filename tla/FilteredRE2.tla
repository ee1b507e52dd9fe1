---------------------------- MODULE FilteredRE2 -----------------------------
(***************************************************************************)
(* FilteredRE2 (re2/re2/filtered_re2.cc): many regexps, of which only      *)
(* those are run on a text whose formula the atoms found in it satisfy;    *)
(* below it Prefilter, the formulas, and PrefilterTree                     *)
(* (re2/re2/prefilter_tree.cc), the formulas of many regexps as one graph  *)
(* in which equal parts are one node.  Ids are numbered from 0, and node   *)
(* id is entries[id + 1].                                                  *)
(*                                                                         *)
(* The caller of FilteredRE2 finds the atoms: it lowers the text and       *)
(* reports, in any order, which strings that Compile returned are in it.   *)
(* One call is under way at a time; the walk over the graph takes a step   *)
(* per node.                                                               *)
(***************************************************************************)
EXTENDS Simplifier

(***************************************************************************)
(* Prefilter (re2/re2/prefilter.cc): from a regexp to a formula over atoms *)
(* such that a text the regexp matches satisfies the formula.  An atom is  *)
(* a string of runes, in lower case, and holds if the lowered text         *)
(* contains it.                                                            *)
(*                                                                         *)
(* Info, what is known of a part of the regexp, is either the exact set of *)
(* strings it matches or a formula that they all satisfy.                  *)
(***************************************************************************)
CONSTANTS
  ToLowers,        \* unicode_tolower: entries <<lo, hi, delta>> in order
  FirstBeyondASCII,\* Runeself
  MaxCross,        \* the most strings of a cross product, 16
  MaxClassSize,    \* the most runes of a class that is spelled out, 10
  MaxVisits        \* the nodes the walk may visit, 100000

ASSUME PrefilterAssumption ==
  /\ FirstBeyondASCII \in Nat
  /\ MaxCross \in Nat /\ MaxClassSize \in Nat /\ MaxVisits \in Nat

-----------------------------------------------------------------------------
(***************************************************************************)
(* Formulas.                                                               *)
(***************************************************************************)
NewPrefilter(op) == [op |-> op, subs |-> << >>, atom |-> << >>]
NullPrefilter == NewPrefilter("NULL")
FromString(str) == [NewPrefilter("ATOM") EXCEPT !.atom = str]
Rank == [ALL |-> 0, NONE |-> 1, ATOM |-> 2, AND |-> 3, OR |-> 4]

\* An empty AND or OR, and one that holds a single formula.
RECURSIVE Unwrapped(_)
Unwrapped(f) ==
  IF f.op \notin {"AND", "OR"} \/ Len(f.subs) > 1 THEN f
  ELSE IF f.subs = << >> THEN NewPrefilter(IF f.op = "AND" THEN "ALL" ELSE "NONE")
  ELSE Unwrapped(f.subs[1])

\* a and b with op between them; a is not above b in Rank.
Joined(op, a, b) ==
  IF a.op \in {"ALL", "NONE"}
    THEN IF <<a.op, op>> \in {<<"ALL", "AND">>, <<"NONE", "OR">>} THEN b ELSE a
  ELSE IF a.op = op /\ b.op = op THEN [a EXCEPT !.subs = @ \o b.subs]
  ELSE IF b.op = op THEN [b EXCEPT !.subs = Append(@, a)]
  ELSE IF a.op = op THEN [a EXCEPT !.subs = Append(@, b)]
  ELSE [NewPrefilter(op) EXCEPT !.subs = <<a, b>>]

InRankOrder(op, a, b) == IF Rank[a.op] > Rank[b.op] THEN Joined(op, b, a) ELSE Joined(op, a, b)
AndOr(op, a, b) == InRankOrder(op, Unwrapped(a), Unwrapped(b))

\* The order of std::set<std::string>.
Precedes(s, t) ==
  LET n == CommonLength(s, t)
  IN  n < Len(t) /\ (n = Len(s) \/ s[n + 1] < t[n + 1])

IsWithin(s, t) == \E k \in 0 .. Len(t) - Len(s) : SubSeq(t, k + 1, k + Len(s)) = s

\* Drops what holds only if a string before it does.
SimplifyStringSet(ss) ==
  {s \in ss : ~\E t \in ss : t # << >> /\ Precedes(t, s) /\ IsWithin(t, s)}

Sorted(ss) ==
  [k \in 1 .. Cardinality(ss) |-> CHOOSE s \in ss : Cardinality({t \in ss : Precedes(t, s)}) = k - 1]

OrStrings(ss) ==
  FoldLeft(LAMBDA f, s : AndOr("OR", f, FromString(s)),
           NewPrefilter("NONE"), Sorted(SimplifyStringSet(ss)))

-----------------------------------------------------------------------------
(***************************************************************************)
(* Info.                                                                   *)
(***************************************************************************)
Exactly(ss) == [is_exact |-> TRUE, exact |-> ss, match |-> NullPrefilter]
Matching(f) == [is_exact |-> FALSE, exact |-> {}, match |-> f]
NoInfo == Matching(NullPrefilter)

TakeMatch(info) == IF info.is_exact THEN OrStrings(info.exact) ELSE info.match

ToLowerRune(r) ==
  LET k == LookupCaseFold(ToLowers, r)
  IN  IF r < FirstBeyondASCII THEN ToLower(r)
      ELSE IF k = 0 \/ r < ToLowers[k][1] THEN r
      ELSE ApplyFold(ToLowers[k], r)

\* Under Latin-1 only ASCII letters have a lower case.
Lowered(r, latin1) == IF latin1 THEN ToLower(r) ELSE ToLowerRune(r)
LiteralInfo(runes, latin1) == Exactly({[k \in DOMAIN runes |-> Lowered(runes[k], latin1)]})

AnyCharOrAnyByte == Matching(NewPrefilter("ALL"))
NoMatchInfo == Matching(NewPrefilter("NONE"))
EmptyString == Exactly({<< >>})

\* The runes of a class that is small enough.
RunesOf(cc) == UNION {x[1] .. x[2] : x \in cc.ranges}
CClass(cc, latin1) ==
  IF cc.nrunes > MaxClassSize THEN AnyCharOrAnyByte
  ELSE Exactly({<<Lowered(r, latin1)>> : r \in RunesOf(cc)})

CrossProduct(a, b) == {x[1] \o x[2] : x \in a \X b}
ConcatInfo(a, b) == IF a = NoInfo THEN b ELSE Exactly(CrossProduct(a.exact, b.exact))
AndInfo(a, b) ==
  IF a = NoInfo THEN b ELSE IF b = NoInfo THEN a
  ELSE Matching(AndOr("AND", TakeMatch(a), TakeMatch(b)))
Alt(a, b) ==
  IF a.is_exact /\ b.is_exact THEN Exactly(a.exact \cup b.exact)
  ELSE Matching(AndOr("OR", TakeMatch(a), TakeMatch(b)))
QuestInfo == Matching(NewPrefilter("ALL"))
PlusInfo(a) == Matching(TakeMatch(a))

\* A concatenation: a formula for what is behind, and an exact run that may go on.
EndsRun(exact, ci) ==
  \/ ~ci.is_exact
  \/ exact # NoInfo /\ Cardinality(ci.exact) * Cardinality(exact.exact) > MaxCross
Extended(acc, ci) ==
  IF EndsRun(acc.exact, ci)
    THEN [info |-> AndInfo(AndInfo(acc.info, acc.exact), ci), exact |-> NoInfo]
  ELSE [acc EXCEPT !.exact = ConcatInfo(@, ci)]
ConcatAll(infos) ==
  LET end == FoldLeft(Extended, [info |-> NoInfo, exact |-> NoInfo], infos)
  IN  AndInfo(end.info, end.exact)

InfoOf(re, infos, latin1) ==
  CASE re.op = "NoMatch" -> NoMatchInfo
    [] re.op \in EmptyWidthOps \cup {"EmptyMatch"} -> EmptyString
    [] re.op \in LiteralOps -> LiteralInfo(re.runes, latin1)
    [] re.op = "Concat"    -> ConcatAll(infos)
    [] re.op = "Alternate" -> FoldLeft(Alt, infos[1], Tail(infos))
    [] re.op \in {"Star", "Quest"} -> QuestInfo
    [] re.op = "Plus"      -> PlusInfo(infos[1])
    [] re.op \in {"AnyChar", "AnyByte"} -> AnyCharOrAnyByte
    [] re.op = "CharClass" -> CClass(re.cc, latin1)
    [] re.op = "Capture"   -> infos[1]

RECURSIVE BuildInfo(_, _), Visits(_)
BuildInfo(re, latin1) == InfoOf(re, [i \in DOMAIN re.subs |-> BuildInfo(re.subs[i], latin1)], latin1)

\* WalkExponential stops early when it has seen too many nodes; then there is
\* no formula, and the regexp is never filtered out.
Visits(re) == 1 + FoldLeft(LAMBDA n, sub : n + Visits(sub), 0, re.subs)

IsLatin1(re) == "Latin1" \in re.flags
BuildPrefilter(simple) ==
  IF Visits(simple) > MaxVisits THEN NullPrefilter
  ELSE TakeMatch(BuildInfo(simple, IsLatin1(simple)))

-----------------------------------------------------------------------------
CONSTANT TooCommon      \* the most parents a node keeps without question, 8

ASSUME TooCommonAssumption == TooCommon \in Nat

NewTree(min_atom_len) ==
  [min_atom_len |-> min_atom_len, compiled |-> FALSE, prefilter_vec |-> << >>,
   entries |-> << >>, unfiltered |-> << >>, atom_index_to_id |-> << >>]

\* What a string takes in bytes: a rune is one of Latin-1, or a few of UTF-8.
RuneLen(r) == CASE r < 128 -> 1 [] r \in 128 .. 2047 -> 2 [] r \in 2048 .. 65535 -> 3 [] OTHER -> 4
ByteLen(str, latin1) ==
  IF latin1 THEN Len(str) ELSE FoldLeft(LAMBDA n, r : n + RuneLen(r), 0, str)

-----------------------------------------------------------------------------
(***************************************************************************)
(* Add: parts that say nothing, or have atoms too short to look for, go.   *)
(***************************************************************************)
RECURSIVE KeepNode(_, _, _)
KeepNode(f, min, latin1) ==
  LET subs == [i \in DOMAIN f.subs |-> KeepNode(f.subs[i], min, latin1)]
      left == SelectSeq(subs, LAMBDA sub : sub # NullPrefilter)
  IN  CASE f.op \in {"NULL", "ALL", "NONE"} -> NullPrefilter
        [] f.op = "ATOM" -> IF ByteLen(f.atom, latin1) >= min THEN f ELSE NullPrefilter
        [] f.op = "AND"  -> IF left = << >> THEN NullPrefilter ELSE [f EXCEPT !.subs = left]
        [] f.op = "OR"   -> IF Len(left) < Len(subs) THEN NullPrefilter ELSE [f EXCEPT !.subs = subs]

\* The atoms of a regexp are written in its encoding.
AddPrefilter(tree, re) ==
  LET simple == Simplify(re) IN
  [tree EXCEPT !.prefilter_vec =
     Append(@, KeepNode(BuildPrefilter(simple), tree.min_atom_len, IsLatin1(simple)))]

-----------------------------------------------------------------------------
(***************************************************************************)
(* AssignUniqueIds.                                                        *)
(***************************************************************************)
\* All nodes, from top to bottom.
RECURSIVE TopDown(_)
TopDown(level) ==
  IF level = << >> THEN << >>
  ELSE level \o TopDown(FlattenSeq([i \in DOMAIN level |-> level[i].subs]))

\* Which of nodes, a sequence of node strings, f is: its id.  The string of f
\* holds its operator and either its atom or the ids of its parts.
RECURSIVE NodeString(_, _), IdOf(_, _)
NodeString(nodes, f) ==
  IF f.op = "ATOM" THEN <<"ATOM", f.atom>>
  ELSE <<f.op, [i \in DOMAIN f.subs |-> IdOf(nodes, f.subs[i])]>>
IdOf(nodes, f) ==
  LET s == NodeString(nodes, f)
  IN  IF \E k \in DOMAIN nodes : nodes[k] = s
        THEN (CHOOSE k \in DOMAIN nodes : nodes[k] = s) - 1 ELSE -1

\* Unique nodes get their ids from the bottom up.
WithNode(acc, f) ==
  IF f = NullPrefilter \/ IdOf(acc.nodes, f) # -1 THEN acc
  ELSE [nodes |-> Append(acc.nodes, NodeString(acc.nodes, f)), unique |-> Append(acc.unique, f)]
UniqueNodes(v) == FoldLeft(WithNode, [nodes |-> << >>, unique |-> << >>], Reverse(v))

ChildIds(nodes, f) == {IdOf(nodes, f.subs[i]) : i \in DOMAIN f.subs}

\* How many parts of a node must match before it does.
Propagates(nodes, f) == IF f.op = "AND" THEN Cardinality(ChildIds(nodes, f)) ELSE 1

Entry(u, k, prefilter_vec) ==
  [propagate_up_at_count |-> Propagates(u.nodes, u.unique[k]),
   parents |-> {j - 1 : j \in {j \in DOMAIN u.unique : k - 1 \in ChildIds(u.nodes, u.unique[j])}},
   regexps |-> SelectSeq([i \in DOMAIN prefilter_vec |-> i - 1],
                         LAMBDA i : IdOf(u.nodes, prefilter_vec[i + 1]) = k - 1)]

AtomIds(u) == SelectSeq([k \in DOMAIN u.unique |-> k - 1], LAMBDA id : u.unique[id + 1].op = "ATOM")

WithIds(tree, u) ==
  [tree EXCEPT
     !.entries = [k \in DOMAIN u.unique |-> Entry(u, k, tree.prefilter_vec)],
     !.atom_index_to_id = AtomIds(u),
     !.unfiltered = SelectSeq([i \in DOMAIN tree.prefilter_vec |-> i - 1],
                              LAMBDA i : tree.prefilter_vec[i + 1] = NullPrefilter)]

-----------------------------------------------------------------------------
(***************************************************************************)
(* A node with too many parents is cut off from them, if each of them has  *)
(* another part left to wait for.                                          *)
(***************************************************************************)
\* Mutant of Expendable: the parents need nothing else to wait for.
ExpendableAnyway(entries, k) == Cardinality(entries[k].parents) > TooCommon

Expendable(entries, k) ==
  /\ Cardinality(entries[k].parents) > TooCommon
  /\ \A j \in entries[k].parents : entries[j + 1].propagate_up_at_count > 1

CutOff(entries, k) ==
  IF ~Expendable(entries, k) THEN entries
  ELSE [j \in DOMAIN entries |->
          [entries[j] EXCEPT
             !.propagate_up_at_count = IF j - 1 \in entries[k].parents THEN @ - 1 ELSE @,
             !.parents = IF j = k THEN {} ELSE @]]
Thinned(entries) == FoldLeft(CutOff, entries, [k \in DOMAIN entries |-> k])

\* The tree compiled, and the atoms to look for.
CompileNodes(tree, u) ==
  [tree  |-> [WithIds(tree, u) EXCEPT !.compiled = TRUE, !.entries = Thinned(@)],
   atoms |-> [k \in DOMAIN AtomIds(u) |-> u.unique[AtomIds(u)[k] + 1].atom]]
CompileTree(tree) ==
  IF tree.prefilter_vec = << >> THEN [tree |-> tree, atoms |-> << >>]
  ELSE CompileNodes(tree, UniqueNodes(TopDown(tree.prefilter_vec)))

-----------------------------------------------------------------------------
(***************************************************************************)
(* PropagateMatch: the nodes that match are a queue that grows while it is *)
(* walked; count holds how many parts of an AND have matched.              *)
(***************************************************************************)
NewWalk(ids) == [work |-> ids, at |-> 1, count |-> << >>, regexps |-> {}]

CountOf(w, j) == IF j \in DOMAIN w.count THEN w.count[j] + 1 ELSE 1

\* A part of node j has matched; j is queued once it need not wait for more.
Trigger(entries, w, j) ==
  LET waits   == entries[j + 1].propagate_up_at_count > 1
      counted == IF waits THEN [w EXCEPT !.count = (j :> CountOf(w, j)) @@ @] ELSE w
  IN  IF waits /\ CountOf(w, j) < entries[j + 1].propagate_up_at_count THEN counted
      ELSE IF Contains(w.work, j) THEN counted
      ELSE [counted EXCEPT !.work = Append(@, j)]

VisitEntry(entries, w) ==
  LET e == entries[w.work[w.at] + 1]
  IN  FoldLeft(LAMBDA acc, j : Trigger(entries, acc, j),
               [w EXCEPT !.at = @ + 1, !.regexps = @ \cup ToSet(e.regexps)],
               Ascending(e.parents))

-----------------------------------------------------------------------------
(***************************************************************************)
(* FilteredRE2.                                                            *)
(***************************************************************************)
CONSTANTS
  Objects,        \* FilteredRE2 objects
  DefaultMinLen   \* what FilteredRE2() passes for min_atom_len, 3

VARIABLES
  filter,     \* the objects: re2_vec_, compiled_, prefilter_tree_, the atoms
  call,       \* the call that is under way
  walk        \* its PropagateMatch

fvars == <<filter, call, walk>>

NewFilter(min_atom_len) ==
  [re2_vec |-> << >>, compiled |-> FALSE, prefilter_tree |-> NewTree(min_atom_len),
   atoms |-> << >>]
NoCall == [op |-> "none"]
Idle == call.op \in {"none", "done"}

\* Add: only a pattern that compiles is kept.
Add(o, re) ==
  /\ Idle
  /\ filter' = [filter EXCEPT ![o].re2_vec = Append(@, re)]
  /\ call' = NoCall /\ UNCHANGED walk

AllPrefilters(f) ==
  FoldLeft(AddPrefilter, f.prefilter_tree, f.re2_vec)

\* Compile: once, and not before there are regexps.
Compiled(f, c) == [f EXCEPT !.compiled = TRUE, !.prefilter_tree = c.tree, !.atoms = c.atoms]
Compile(o) ==
  /\ Idle
  /\ filter' = IF filter[o].compiled \/ filter[o].re2_vec = << >> THEN filter
               ELSE [filter EXCEPT ![o] = Compiled(@, CompileTree(AllPrefilters(@)))]
  /\ call' = NoCall /\ UNCHANGED walk

\* What is left of an object that was moved from.
Emptied(f) == NewFilter(DefaultMinLen)
Move(from, to) ==
  /\ Idle /\ from # to
  /\ filter' = [filter EXCEPT ![to] = filter[from], ![from] = Emptied(filter[from])]
  /\ call' = NoCall /\ UNCHANGED walk

-----------------------------------------------------------------------------
(***************************************************************************)
(* A query: first which regexps may match, then those that do.             *)
(***************************************************************************)
LowerText(text) == [p \in DOMAIN text |-> ToLowerRune(text[p])]

\* The indices of the atoms that the caller finds, in order or in reverse.
FoundIn(atoms, text) ==
  SelectSeq([k \in DOMAIN atoms |-> k], LAMBDA k : IsWithin(atoms[k], LowerText(text)))
Reports(atoms, text) == {FoundIn(atoms, text), Reverse(FoundIn(atoms, text))}

Query(o, text) ==
  /\ Idle
  /\ \E found \in Reports(filter[o].atoms, text) :
       walk' = NewWalk([k \in DOMAIN found |-> filter[o].prefilter_tree.atom_index_to_id[found[k]]])
  /\ call' = [op |-> "walk", obj |-> o, text |-> text]
  /\ UNCHANGED filter

Walking == call.op = "walk" /\ walk.at <= Len(walk.work)
Propagate ==
  /\ Walking
  /\ walk' = VisitEntry(filter[call.obj].prefilter_tree.entries, walk)
  /\ UNCHANGED <<filter, call>>

PartialMatch(re, text) == \E p \in 0 .. Len(text) : MatchesAt(re, text, p)

\* Mutant of RegexpsGivenStrings: what is not filtered comes last.
RegexpsGivenStringsUnsorted(tree, w) == Ascending(w.regexps) \o tree.unfiltered

\* RegexpsGivenStrings; a tree that is not compiled holds no regexps here.
RegexpsGivenStrings(tree, w) ==
  Ascending(w.regexps \cup ToSet(tree.unfiltered))

\* FirstMatch, AllMatches and AllPotentials.
Finish ==
  /\ call.op = "walk" /\ ~Walking
  /\ LET f         == filter[call.obj]
         potential == RegexpsGivenStrings(f.prefilter_tree, walk)
         all       == SelectSeq(potential, LAMBDA i : PartialMatch(f.re2_vec[i + 1], call.text))
     IN  call' = [call EXCEPT !.op = "done"] @@
                 [potential |-> potential, all |-> all,
                  first |-> IF f.compiled /\ all # << >> THEN all[1] ELSE -1]
  /\ UNCHANGED <<filter, walk>>

\* SlowFirstMatch asks every regexp.
SlowFirstMatch(f, text) ==
  LET hits == {i \in DOMAIN f.re2_vec : PartialMatch(f.re2_vec[i], text)}
  IN  IF hits = {} THEN -1 ELSE Min(hits) - 1
=============================================================================
