------------------------------ MODULE Compiler ------------------------------
(***************************************************************************)
(* Regexp to bytecode, re2/re2/compile.cc, for Latin-1 regexps.            *)
(*                                                                         *)
(* A compilation c is the array of instructions so far, the flags of the   *)
(* Compiler, and frag, the fragment just made.  Fragments keep the list of *)
(* their dangling ends in the unused out fields of the instructions.       *)
(***************************************************************************)
EXTENDS Regexps, Flatten

NullList == [head |-> 0, tail |-> 0]
Mk(p) == [head |-> p, tail |-> p]
Frag(begin, end, nullable) == [begin |-> begin, end |-> end, nullable |-> nullable]
NoFrag == Frag(0, NullList, FALSE)
IsNoMatch(a) == a.begin = 0

\* The field that entry h of a patch list names: out1 if odd, out if even.
Field(inst, h) == IF h % 2 = 1 THEN inst[h \div 2].out1 ELSE inst[h \div 2].out
SetField(inst, h, v) ==
  IF h % 2 = 1 THEN [inst EXCEPT ![h \div 2].out1 = v]
               ELSE [inst EXCEPT ![h \div 2].out = v]

RECURSIVE PatchFrom(_, _, _)
PatchFrom(inst, h, p) ==
  IF h = 0 THEN inst
  ELSE PatchFrom(SetField(inst, h, p), Field(inst, h), p)

\* Mutant: the list ends at its first entry.
PatchHead(c, l, p) ==
  IF l.head = 0 THEN c ELSE [c EXCEPT !.inst = SetField(c.inst, l.head, p)]

Patch(c, l, p) == [c EXCEPT !.inst = PatchFrom(c.inst, l.head, p)]

Append2(c, l1, l2) ==
  IF l1.head = 0 \/ l2.head = 0 THEN c
  ELSE [c EXCEPT !.inst = SetField(c.inst, l1.tail, l2.head)]
Joined(l1, l2) ==
  IF l1.head = 0 THEN l2
  ELSE IF l2.head = 0 THEN l1
  ELSE [head |-> l1.head, tail |-> l2.tail]

-----------------------------------------------------------------------------
(***************************************************************************)
(* Fragments.                                                              *)
(***************************************************************************)
NInst(c) == Cardinality(DOMAIN c.inst)

With(c, f) == [c EXCEPT !.frag = f]
Failed(c) == [c EXCEPT !.failed = TRUE, !.frag = NoFrag]

\* AllocInst: can c take n more instructions?
Room(c, n) == ~c.failed /\ NInst(c) + n <= c.max
Add(c, ip) == [c EXCEPT !.inst = @ @@ (NInst(c) :> ip)]

\* One new instruction ip with the given dangling end.
Single(c, ip, end, nullable) ==
  IF Room(c, 1) THEN With(Add(c, ip), Frag(NInst(c), end, nullable)) ELSE Failed(c)

Dangling(c) == Mk(2 * NInst(c))      \* the out field of the next instruction

Nop(c) == Single(c, InitNop, Dangling(c), TRUE)
Match(c, id) == Single(c, InitMatch(id), NullList, FALSE)
ByteRange(c, lo, hi, fold) ==
  Single(c, InitByteRange(lo, hi, fold, 0), Dangling(c), FALSE)
EmptyWidth(c, flag) == Single(c, InitEmptyWidth({flag}, 0), Dangling(c), TRUE)

\* The Alt that loops to or skips the fragment at begin, and its other way.
Loop(begin, nongreedy) ==
  IF nongreedy THEN InitAlt(0, begin) ELSE InitAlt(begin, 0)
OtherWay(id, nongreedy) == IF nongreedy THEN Mk(2 * id) ELSE Mk(2 * id + 1)

CatReversed(c, a, b) ==
  With(Patch(c, b.end, a.begin), Frag(b.begin, a.end, b.nullable /\ a.nullable))

Cat(c, a, b) ==
  IF IsNoMatch(a) \/ IsNoMatch(b) THEN With(c, NoFrag)
  ELSE IF /\ c.inst[a.begin].op = "nop"
          /\ a.end.head = 2 * a.begin
          /\ c.inst[a.begin].out = 0
    THEN With(Patch(c, a.end, b.begin), b)
  ELSE IF c.reversed THEN CatReversed(c, a, b)
  ELSE With(Patch(c, a.end, b.begin), Frag(a.begin, b.end, a.nullable /\ b.nullable))

Alt(c, a, b) ==
  IF IsNoMatch(a) THEN With(c, b)
  ELSE IF IsNoMatch(b) THEN With(c, a)
  ELSE IF ~Room(c, 1) THEN Failed(c)
  ELSE With(Append2(Add(c, InitAlt(a.begin, b.begin)), a.end, b.end),
            Frag(NInst(c), Joined(a.end, b.end), a.nullable \/ b.nullable))

MakePlus(c, a, nongreedy) ==
  LET id == NInst(c)
  IN  IF ~Room(c, 1) THEN Failed(c)
      ELSE With(Patch(Add(c, Loop(a.begin, nongreedy)), a.end, id),
                Frag(a.begin, OtherWay(id, nongreedy), a.nullable))

MakeQuest(c, a, nongreedy) ==
  LET id == NInst(c)
      pl == OtherWay(id, nongreedy)
  IN  IF IsNoMatch(a) THEN Nop(c)
      ELSE IF ~Room(c, 1) THEN Failed(c)
      ELSE With(Append2(Add(c, Loop(a.begin, nongreedy)), pl, a.end),
                Frag(id, Joined(pl, a.end), TRUE))

\* A nullable operand needs a second Alt to keep its priorities.
MakeStar(c, a, nongreedy) ==
  LET id   == NInst(c)
      some == MakePlus(c, a, nongreedy)
  IN  IF a.nullable THEN MakeQuest(some, some.frag, nongreedy)
      ELSE IF ~Room(c, 1) THEN Failed(c)
      ELSE With(Patch(Add(c, Loop(a.begin, nongreedy)), a.end, id),
                Frag(id, OtherWay(id, nongreedy), TRUE))

MakeCapture(c, a, n) ==
  LET id == NInst(c)
      c2 == Add(Add(c, InitCapture(2 * n, a.begin)), InitCapture(2 * n + 1, 0))
  IN  IF IsNoMatch(a) THEN With(c, NoFrag)
      ELSE IF ~Room(c, 2) THEN Failed(c)
      ELSE With(Patch(c2, a.end, id + 1), Frag(id, Mk(2 * (id + 1)), a.nullable))

-----------------------------------------------------------------------------
(***************************************************************************)
(* Character classes: an Alt for every range after the first.              *)
(***************************************************************************)
AddRange(c, f, r, fold) ==
  LET one == ByteRange(c, r[1], r[2], fold)
      all == With(Append2(one, f.end, one.frag.end),
                  Frag(f.begin, Joined(f.end, one.frag.end), FALSE))
  IN  IF one.failed THEN one
      ELSE IF f.begin = 0 THEN With(one, one.frag)
      ELSE IF ~Room(one, 1) THEN Failed(one)
      ELSE LET alt == Add(all, InitAlt(f.begin, one.frag.begin))
           IN  With(alt, [all.frag EXCEPT !.begin = NInst(all)])

\* Does the class contain an upper-case byte iff it contains the lower one?
FoldsASCII(ranges) ==
  LET in(x) == \E i \in DOMAIN ranges : ranges[i][1] <= x /\ x <= ranges[i][2]
  IN  \A u \in UpperCase : in(u) <=> in(ToLower(u))

\* Is the fold flag of any use to a range of a class that folds?
FoldMatters(r) ==
  ~ \/ r[1] <= FirstUpper /\ LastLower <= r[2]
    \/ r[2] < FirstUpper
    \/ LastLower < r[1]
    \/ LastUpper < r[1] /\ r[2] < FirstLower

CompileClass(c, ranges) ==
  LET folds == FoldsASCII(ranges)
      kept  == SelectSeq(ranges, LAMBDA r : ~(folds /\ FirstUpper <= r[1]
                                                    /\ r[2] <= LastUpper))
  IN  FoldLeft(LAMBDA x, r : AddRange(x, x.frag, r, folds /\ FoldMatters(r)),
               With(c, NoFrag), kept)

-----------------------------------------------------------------------------
(***************************************************************************)
(* The walk over the regexp, children first.                               *)
(***************************************************************************)
RECURSIVE Visit(_, _), VisitCat(_, _, _), VisitAlt(_, _, _), Size(_)

\* The fragments of subs[i], subs[i+1], ... chained to the one in c.  All
\* children are compiled before the first two are joined.
VisitAll(c, subs) ==
  LET add(frags, x) == [c |-> x, frags |-> Append(frags, x.frag)]
  IN  FoldLeft(LAMBDA x, re : add(x.frags, Visit(x.c, re)), [c |-> c, frags |-> << >>],
               subs)

VisitCat(c, f, frags) ==
  IF frags = << >> THEN With(c, f)
  ELSE LET joined == Cat(c, f, Head(frags)) IN VisitCat(joined, joined.frag, Tail(frags))

VisitAlt(c, f, frags) ==
  IF frags = << >> \/ c.failed THEN With(c, f)
  ELSE LET joined == Alt(c, f, Head(frags)) IN VisitAlt(joined, joined.frag, Tail(frags))

\* ^ and $ change places when the text is read backwards.
Mirror(flag) ==
  CASE flag = "BeginLine" -> "EndLine"   [] flag = "EndLine" -> "BeginLine"
    [] flag = "BeginText" -> "EndText"   [] flag = "EndText" -> "BeginText"
    [] OTHER -> flag

Visit(c, re) ==
  IF c.failed THEN Failed(c)
  ELSE CASE re.op = "NoMatch"    -> With(c, NoFrag)
         [] re.op = "EmptyMatch" -> Nop(c)
         [] re.op = "HaveMatch"  ->
              LET m == Match(c, re.id)
                  z == EmptyWidth(m, "EndText")
              IN  IF c.anchor = "both" THEN Cat(z, z.frag, m.frag) ELSE m
         [] re.op = "Literal"    ->
              IF re.runes = << >> THEN Nop(c)
              ELSE LET one(x, r) == ByteRange(x, r, r, re.fold)
                   IN  FoldLeft(LAMBDA x, r : LET y == one(x, r)
                                              IN  Cat(y, x.frag, y.frag),
                                one(c, Head(re.runes)), Tail(re.runes))
         [] re.op = "AnyByte"    -> ByteRange(c, 0, ByteMax, FALSE)
         [] re.op = "CharClass"  ->
              IF re.ranges = << >> THEN Failed(c) ELSE CompileClass(c, re.ranges)
         [] re.op = "Empty"      ->
              EmptyWidth(c, IF c.reversed THEN Mirror(re.flag) ELSE re.flag)
         [] re.op = "Concat"     ->
              LET all == VisitAll(c, re.subs)
              IN  IF all.c.failed THEN Failed(all.c)
                  ELSE VisitCat(all.c, Head(all.frags), Tail(all.frags))
         [] re.op = "Alternate"  ->
              LET all == VisitAll(c, re.subs)
              IN  IF all.c.failed THEN Failed(all.c)
                  ELSE VisitAlt(all.c, Head(all.frags), Tail(all.frags))
         [] OTHER ->
              LET x == Visit(c, re.sub)
              IN  IF x.failed THEN Failed(x)
                  ELSE CASE re.op = "Star"    -> MakeStar(x, x.frag, re.nongreedy)
                         [] re.op = "Plus"    -> MakePlus(x, x.frag, re.nongreedy)
                         [] re.op = "Quest"   -> MakeQuest(x, x.frag, re.nongreedy)
                         [] re.op = "Capture" -> MakeCapture(x, x.frag, re.n)

\* The nodes of a regexp, to which WalkExponential sets a limit.
Size(re) ==
  CASE re.op \in {"Concat", "Alternate"} ->
         FoldLeft(LAMBDA n, sub : n + Size(sub), 1, re.subs)
    [] re.op \in {"Star", "Plus", "Quest", "Capture"} -> 1 + Size(re.sub)
    [] OTHER -> 1

WalkExponential(c, re) == IF Size(re) > 2 * c.max THEN Failed(c) ELSE Visit(c, re)

-----------------------------------------------------------------------------
(***************************************************************************)
(* Anchors.  A leading \A or trailing \z, alone or inside up to three      *)
(* concatenations and captures, is cut out and recorded.                   *)
(***************************************************************************)
AnchorDepth == 4

RECURSIVE CutAnchor(_, _, _)
CutAnchor(re, flag, depth) ==
  LET no == [found |-> FALSE, re |-> re]
      i  == IF flag = "BeginText" THEN 1 ELSE Len(re.subs)
      inSub == CutAnchor(re.subs[i], flag, depth + 1)
      inCap == CutAnchor(re.sub, flag, depth + 1)
  IN  IF depth >= AnchorDepth THEN no
      ELSE IF re.op = "Concat" /\ re.subs # << >> THEN
        IF inSub.found
          THEN [found |-> TRUE, re |-> [re EXCEPT !.subs[i] = inSub.re]] ELSE no
      ELSE IF re.op = "Capture" THEN
        IF inCap.found THEN [found |-> TRUE, re |-> [re EXCEPT !.sub = inCap.re]] ELSE no
      ELSE IF re.op = "Empty" /\ re.flag = flag THEN [found |-> TRUE, re |-> EmptyMatch]
      ELSE no

-----------------------------------------------------------------------------
(***************************************************************************)
(* Whole programs.                                                         *)
(***************************************************************************)
NewCompiler(max, reversed, anchor) ==
  [inst |-> (0 :> InitFail), failed |-> FALSE, max |-> max,
   reversed |-> reversed, anchor |-> anchor, frag |-> NoFrag]

DotStar(c) ==
  LET any == ByteRange(c, 0, ByteMax, FALSE) IN MakeStar(any, any.frag, TRUE)

NoProg == [ok |-> FALSE]

\* RequiredPrefixForAccel: the literal that re begins with, seen through
\* captures.
RECURSIVE FirstIn(_)
FirstIn(re) ==
  LET sub == IF re.op = "Concat" /\ re.subs # << >> THEN re.subs[1] ELSE re
  IN  IF sub.op = "Capture" THEN FirstIn(sub.sub) ELSE sub

AccelPrefix(re) ==
  LET lit == FirstIn(re)
  IN  IF lit.op = "Literal" THEN [bytes |-> lit.runes, fold |-> lit.fold]
      ELSE [bytes |-> << >>, fold |-> FALSE]

\* The flattened program, begun at its second list, or none at all.
Assemble(flat, none, same) ==
  [ok |-> TRUE, inst |-> flat.inst, heads |-> flat.heads,
   unanchored |-> IF none THEN 0 ELSE flat.heads[2],
   start |-> IF none THEN 0 ELSE IF same THEN flat.heads[2] ELSE flat.heads[3],
   bytemap |-> ComputeByteMap(flat.inst)]

\* From any position the program begins with what c made last.
Finish(c, re, start, aStart, aEnd, reversed) ==
  LET unanchored == c.frag.begin
      none == start = 0 /\ unanchored = 0
      inst == Optimize(IF none THEN (0 :> InitFail) ELSE c.inst, start)
  IN  IF c.failed THEN NoProg
      ELSE Assemble(Flat(inst, start, unanchored), none, unanchored = start)
           @@ [anchorStart |-> aStart, anchorEnd |-> aEnd, reversed |-> reversed,
               prefix |-> AccelPrefix(IF reversed THEN NoMatchRe ELSE re)]

CutAnchors(re) ==
  LET atStart == CutAnchor(re, "BeginText", 0)
      atEnd   == CutAnchor(atStart.re, "EndText", 0)
  IN  [re |-> atEnd.re, start |-> atStart.found, end |-> atEnd.found]

CatLast(c, f) == Cat(c, f, c.frag)
CatTo(c, f)   == Cat(c, c.frag, f)

\* Whatever its direction, the program ends with the match.
EndInMatch(c) ==
  IF c.failed THEN c ELSE CatLast(Match([c EXCEPT !.reversed = FALSE], 0), c.frag)

\* Any bytes may come first, the fewer the better.
Unanchor(c, anchored) ==
  IF anchored \/ c.failed THEN c ELSE CatTo(DotStar(c), c.frag)

FinishMatch(whole, re, aStart, aEnd, reversed) ==
  Finish(Unanchor(whole, aStart), re, whole.frag.begin, aStart, aEnd, reversed)

Compile(re, reversed, max) ==
  LET cut    == CutAnchors(re)
      aStart == IF reversed THEN cut.end ELSE cut.start
      aEnd   == IF reversed THEN cut.start ELSE cut.end
  IN  FinishMatch(EndInMatch(WalkExponential(NewCompiler(max, reversed, "unused"), cut.re)),
                  re, aStart, aEnd, reversed)

(***************************************************************************)
(* RE2::Init: the object for a regexp.  A required prefix is not compiled. *)
(***************************************************************************)
RECURSIVE NumCaptures(_)
NumCaptures(x) ==
  CASE x.op = "Capture" -> 1 + NumCaptures(x.sub)
    [] x.op \in {"Star", "Plus", "Quest"} -> NumCaptures(x.sub)
    [] x.op \in {"Concat", "Alternate"} ->
         FoldLeft(+, 0, [k \in DOMAIN x.subs |-> NumCaptures(x.subs[k])])
    [] OTHER -> 0

NoPrefix(x) == [bytes |-> << >>, fold |-> FALSE, suffix |-> x]

\* A concatenation of \A, perhaps several, a literal and a rest.
RequiredPrefix(x) ==
  LET begin(k) == x.subs[k] = Empty("BeginText")
      lits == {k \in 2 .. Len(x.subs) : /\ \A j \in 1 .. k - 1 : begin(j)
                                         /\ x.subs[k].op = "Literal"}
      k    == CHOOSE l \in lits : TRUE
      rest == SubSeq(x.subs, k + 1, Len(x.subs))
  IN  IF x.op # "Concat" THEN NoPrefix(x)
      ELSE IF lits = {} THEN NoPrefix(x)
      ELSE [bytes |-> x.subs[k].runes, fold |-> x.subs[k].fold,
            suffix |-> CASE rest = << >> -> EmptyMatch
                         [] Len(rest) = 1 -> rest[1]
                         [] OTHER -> Concat(rest)]

\* The object for a regexp; whether its program is one-pass is left open.
NewRE2(x, longest, max) ==
  LET prefix == RequiredPrefix(x)
      prog   == Compile(prefix.suffix, FALSE, max)
  IN  [regexp |-> x, prefix |-> prefix, suffix |-> prefix.suffix, longest |-> longest,
       anchorStart |-> prog.anchorStart, anchorEnd |-> prog.anchorEnd,
       lists |-> Cardinality(DOMAIN prog.heads),
       insts |-> Cardinality(DOMAIN prog.inst),
       captures |-> NumCaptures(prefix.suffix)]

(***************************************************************************)
(* RE2::Set::Compile.                                                      *)
(***************************************************************************)
\* The elements, each ending with its own HaveMatch.
SetElement(re, n) ==
  Concat(Append(IF re.op = "Concat" THEN re.subs ELSE <<re>>, HaveMatch(n)))

SetRegexp(res) ==
  LET subs == [n \in DOMAIN res |-> SetElement(res[n], n)]
  IN  CASE Len(res) = 0 -> NoMatchRe
        [] Len(res) = 1 -> subs[1]
        [] OTHER        -> Alternate(subs)

\* All elements at once; anchor is "unanchored", "start" or "both".
FinishSet(c, re) == Finish(c, re, c.frag.begin, TRUE, TRUE, FALSE)

CompileSet(re, anchor, max) ==
  FinishSet(Unanchor(WalkExponential(NewCompiler(max, FALSE, anchor), re),
                     anchor # "unanchored"), re)
=============================================================================
