------------------------------ MODULE Flatten -------------------------------
(***************************************************************************)
(* Prog::Optimize, Prog::Flatten and Prog::ComputeHints of re2/re2/prog.cc *)
(* turn the graph of instructions that the compiler makes into lists: the  *)
(* Alts disappear, and an instruction that is not the last of its list is  *)
(* followed by the next thing to try.                                      *)
(***************************************************************************)
EXTENDS Programs, FiniteSetsExt, SequencesExt

(***************************************************************************)
(* Byte classes, Prog::ComputeByteMap of re2/re2/prog.cc: bytes that the   *)
(* program cannot tell apart are mapped to one class, so that the DFA and  *)
(* the one-pass matcher keep one edge for all of them.                     *)
(*                                                                         *)
(* Both this algorithm and ComputeHints colour ranges of bytes.  A         *)
(* colouring is a function from the last byte of each range to a colour.   *)
(***************************************************************************)
\* The last byte of the range that c is in.
RangeEnd(colors, c) == Min({s \in DOMAIN colors : s >= c})

\* Make byte `at` the end of a range.
Split(colors, at) ==
  IF at < 0 \/ at \in DOMAIN colors THEN colors
  ELSE colors @@ (at :> colors[RangeEnd(colors, at + 1)])

Cut(colors, lo, hi) == Split(Split(colors, lo - 1), hi)

\* The ranges that make up lo .. hi once it is cut out, in order.
Pieces(colors, lo, hi) ==
  Ascending({s \in DOMAIN colors : lo <= s /\ s <= hi})

\* The upper-case bytes that a folded range lo .. hi matches as well.
FoldRange(ip) ==
  LET lo == Max({ip.lo, FirstLower})
      hi == Min({ip.hi, LastLower})
  IN  IF ip.fold /\ lo <= hi THEN << <<lo - CaseShift, hi - CaseShift>> >> ELSE << >>

-----------------------------------------------------------------------------
(***************************************************************************)
(* ByteMapBuilder: colors, the next free colour, and the ranges marked     *)
(* since the last merge.  A merge recolours every marked range; what had   *)
(* one colour before the batch, and is marked in it, has one colour after. *)
(***************************************************************************)
NewBuilder == [colors |-> (ByteMax :> ByteMax + 1), next |-> ByteMax + 2,
               colormap |-> << >>, ranges |-> << >>]

MarkBytes(b, lo, hi) ==
  IF lo = 0 /\ hi = ByteMax THEN b ELSE [b EXCEPT !.ranges = Append(@, <<lo, hi>>)]

Recolor(b, at) ==
  LET old  == b.colors[at]
      hits == {i \in DOMAIN b.colormap :
                 old \in {b.colormap[i][1], b.colormap[i][2]}}
  IN  IF hits # {} THEN [b EXCEPT !.colors[at] = b.colormap[Min(hits)][2]]
      ELSE [b EXCEPT !.colors[at] = b.next, !.next = @ + 1,
                     !.colormap = Append(@, <<old, b.next>>)]

MergeRange(b, r) ==
  LET cut == [b EXCEPT !.colors = Cut(@, r[1], r[2])]
  IN  FoldLeft(Recolor, cut, Pieces(cut.colors, r[1], r[2]))

Merge(b) ==
  [FoldLeft(MergeRange, b, b.ranges) EXCEPT !.colormap = << >>, !.ranges = << >>]

\* The classes are numbered from 0 in the order of their ranges.
Build(b) ==
  LET done == FoldLeft(Recolor, [b EXCEPT !.next = 0], Pieces(b.colors, 0, ByteMax))
  IN  [c \in Byte |-> done.colors[RangeEnd(done.colors, c)]]

-----------------------------------------------------------------------------
\* The maximal ranges of a set of bytes.
RangesOf(S) ==
  LET firsts == Ascending({c \in S : c - 1 \notin S})
      lasts  == Ascending({c \in S : c + 1 \notin S})
  IN  [k \in DOMAIN firsts |-> <<firsts[k], lasts[k]>>]

MarkAll(b, ranges) == FoldLeft(LAMBDA x, r : MarkBytes(x, r[1], r[2]), b, ranges)

LineFlags == {"BeginLine", "EndLine"}
\* Mutant: word boundaries are not looked for.
WordFlagsNone == {}

WordFlags == {"WordBoundary", "NonWordBoundary"}

\* What instruction id adds.  Its range is merged later if the next
\* instruction of the list is a range with the same successor.
MarkInst(inst, b, id) ==
  LET ip     == inst[id]
      marked == MarkAll(MarkBytes(b, ip.lo, ip.hi), FoldRange(ip))
      defer  == /\ ~ip.last
                /\ inst[id + 1].op = "byte"
                /\ ip.out = inst[id + 1].out
      lines  == IF ip.empty \cap LineFlags # {} /\ ~b.lines
                  THEN [Merge(MarkBytes(b, Newline, Newline)) EXCEPT !.lines = TRUE]
                  ELSE b
      words  == Merge(MarkAll(Merge(MarkAll(lines, RangesOf(WordChars))),
                              RangesOf(Byte \ WordChars)))
  IN  CASE ip.op = "byte"  -> IF defer THEN marked ELSE Merge(marked)
        [] ip.op = "empty" -> IF ip.empty \cap WordFlags # {} /\ ~lines.words
                                THEN [words EXCEPT !.words = TRUE] ELSE lines
        [] OTHER           -> b

ComputeByteMap(inst) ==
  LET start == NewBuilder @@ [lines |-> FALSE, words |-> FALSE]
      ids   == [i \in 1 .. Cardinality(DOMAIN inst) |-> i - 1]
  IN  Build(FoldLeft(LAMBDA b, id : MarkInst(inst, b, id), start, ids))

-----------------------------------------------------------------------------
\* AddToQueue: a queue of distinct instruction ids; 0 is the Fail.
Enqueue(q, id) == IF id = 0 \/ Contains(q, id) THEN q ELSE Append(q, id)

RECURSIVE SkipNops(_, _), ElideNops(_, _, _), IsMatchAt(_, _),
          AltMatches(_, _, _)

SkipNops(inst, j) ==
  IF j # 0 /\ inst[j].op = "nop" THEN SkipNops(inst, inst[j].out) ELSE j

\* First pass of Optimize: out and out1 skip the Nops.
ElideNops(inst, q, i) ==
  IF i > Len(q) THEN inst
  ELSE LET id  == q[i]
           out == SkipNops(inst, inst[id].out)
           alt == inst[id].op = "alt"
           one == [inst EXCEPT ![id].out = out]
           out1 == SkipNops(one, one[id].out1)
       IN  IF alt
             THEN ElideNops([one EXCEPT ![id].out1 = out1],
                            Enqueue(Enqueue(q, out), out1), i + 1)
             ELSE ElideNops(one, Enqueue(q, out), i + 1)

\* IsMatch: a certain match at the end of the text, after some capturing.
IsMatchAt(inst, id) ==
  CASE inst[id].op = "match" -> TRUE
    [] inst[id].op \in {"cap", "nop"} -> IsMatchAt(inst, inst[id].out)
    [] OTHER -> FALSE

\* Second pass: an Alt between a loop over any byte and a match.
AltMatches(inst, q, i) ==
  IF i > Len(q) THEN inst
  ELSE LET id == q[i]
           ip == inst[id]
           qq == IF ip.op = "alt" THEN Enqueue(Enqueue(q, ip.out), ip.out1)
                 ELSE Enqueue(q, ip.out)
           is == /\ ip.op = "alt"
                 /\ \/ AnyByteLoop(inst, ip.out, id) /\ IsMatchAt(inst, ip.out1)
                    \/ AnyByteLoop(inst, ip.out1, id) /\ IsMatchAt(inst, ip.out)
       IN  AltMatches(IF is THEN [inst EXCEPT ![id].op = "altmatch"] ELSE inst,
                      qq, i + 1)

Optimize(inst, start) ==
  LET elided == ElideNops(inst, Enqueue(<< >>, start), 1)
  IN  AltMatches(elided, Enqueue(<< >>, start), 1)

-----------------------------------------------------------------------------
(***************************************************************************)
(* Roots.  roots is rootmap: the instructions that head a list, in the     *)
(* order of their numbers.  The head of stk is the top of the stack.       *)
(***************************************************************************)
AddRoot(roots, id) == IF Contains(roots, id) THEN roots ELSE Append(roots, id)

\* Where the flood goes on from an instruction inside one tree.
TreeOuts(ip) ==
  CASE ip.op \in {"alt", "altmatch"} -> <<ip.out, ip.out1>>
    [] ip.op = "nop"                 -> <<ip.out>>
    [] OTHER                         -> << >>

IsLeaf(ip) == ip.op \in {"byte", "cap", "empty"}

RECURSIVE MarkSuccessors(_, _, _, _), Tree(_, _, _, _, _)

\* Marks the successor of every leaf reachable from the stack.
MarkSuccessors(inst, stk, reachable, roots) ==
  IF stk = << >> THEN [roots |-> roots, reachable |-> reachable]
  ELSE LET id == Head(stk)
           ip == inst[id]
       IN  IF id \in reachable THEN MarkSuccessors(inst, Tail(stk), reachable, roots)
           ELSE IF IsLeaf(ip)
             THEN MarkSuccessors(inst, <<ip.out>> \o Tail(stk), reachable \cup {id},
                                 AddRoot(roots, ip.out))
             ELSE MarkSuccessors(inst, TreeOuts(ip) \o Tail(stk),
                                 reachable \cup {id}, roots)

\* The instructions of root's tree and the roots next to it, in the order
\* the flood reaches them.
Tree(inst, roots, root, stk, reachable) ==
  IF stk = << >> THEN reachable
  ELSE LET id == Head(stk)
       IN  IF Contains(reachable, id) THEN Tree(inst, roots, root, Tail(stk), reachable)
           ELSE IF id # root /\ Contains(roots, id)
             THEN Tree(inst, roots, root, Tail(stk), Append(reachable, id))
             ELSE Tree(inst, roots, root, TreeOuts(inst[id]) \o Tail(stk),
                       Append(reachable, id))

\* The Alts among the reachable instructions that lead to id.
Preds(inst, reachable, id) ==
  {a \in reachable : /\ inst[a].op \in {"alt", "altmatch"}
                     /\ id \in {inst[a].out, inst[a].out1}}

\* What can be entered from outside root's tree must be a root too.
MarkDominator(inst, reachable, roots, root) ==
  LET tree == Tree(inst, roots, root, <<root>>, << >>)
  IN  FoldLeft(LAMBDA rs, id : IF Preds(inst, reachable, id) \subseteq Range(tree)
                                 THEN rs ELSE AddRoot(rs, id),
               roots, tree)

Roots(inst, start, unanchored) ==
  LET marked == MarkSuccessors(inst, <<unanchored>>, {},
                               AddRoot(AddRoot(<<0>>, unanchored), start))
      sorted == Reverse(Ascending(Range(marked.roots) \ {0, start, unanchored}))
  IN  FoldLeft(LAMBDA rs, id : MarkDominator(inst, marked.reachable, rs, id),
               marked.roots, sorted)

-----------------------------------------------------------------------------
(***************************************************************************)
(* Lists.                                                                  *)
(***************************************************************************)
RootId(roots, id) == CHOOSE i \in DOMAIN roots : roots[i] = id

\* EmitList: the list of root, to be placed after the instructions of flat.
\* out is the number of a root for now.
RECURSIVE EmitList(_, _, _, _, _, _)
EmitList(inst, roots, root, flat, stk, reachable) ==
  IF stk = << >> THEN flat
  ELSE LET id   == Head(stk)
           ip   == inst[id]
           n    == Len(flat)      \* the id the next instruction will have
           next == IF id \in reachable THEN flat
                   ELSE IF id # root /\ Contains(roots, id)
                     THEN Append(flat, [InitNop EXCEPT !.out = RootId(roots, id)])
                   ELSE CASE ip.op = "altmatch" ->
                               Append(flat, [Blank EXCEPT !.op = "altmatch",
                                             !.out = n + 1, !.out1 = n + 2])
                          [] IsLeaf(ip) ->
                               Append(flat, [ip EXCEPT !.out = RootId(roots, ip.out)])
                          [] ip.op \in {"match", "fail"} -> Append(flat, ip)
                          [] OTHER -> flat
           more == IF id \in reachable \/ (id # root /\ Contains(roots, id))
                     THEN << >> ELSE TreeOuts(ip)
       IN  EmitList(inst, roots, root, next, more \o Tail(stk), reachable \cup {id})

\* ComputeHints for the list begin .. end - 1, from its last instruction to
\* its first: the hint of a byte range is the distance to the next
\* instruction that may match a byte it matches, 0 if there is none.
\* colors maps bytes to that next instruction.
RECURSIVE HintsFrom(_, _, _, _, _)
HintsFrom(flat, begin, end, id, colors) ==
  IF id < begin THEN flat
  ELSE LET ip     == flat[id + 1]
           ranges == << <<ip.lo, ip.hi>> >> \o FoldRange(ip)
           paint(c, r) ==
             LET cut == Cut(c, r[1], r[2])
             IN  [s \in DOMAIN cut |->
                    IF r[1] <= s /\ s <= r[2] THEN id ELSE cut[s]]
           seen(c, r) ==
             LET cut == Cut(c, r[1], r[2])
             IN  {cut[s] : s \in {x \in DOMAIN cut : r[1] <= x /\ x <= r[2]}}
           firsts == seen(colors, ranges[1])
                     \cup (IF Len(ranges) = 1 THEN {}
                           ELSE seen(paint(colors, ranges[1]), ranges[2]))
           first  == Min(firsts \cup {end})
           hinted == IF first = end THEN flat
                     ELSE [flat EXCEPT ![id + 1].hint = first - id]
       IN  IF ip.op # "byte"
             THEN HintsFrom(flat, begin, end, id - 1, (ByteMax :> id))
             ELSE HintsFrom(hinted, begin, end, id - 1,
                            FoldLeft(paint, colors, ranges))

\* Mutant: a hint may skip over an instruction that is not a byte range.
RECURSIVE HintsAcross(_, _, _, _, _)
HintsAcross(flat, begin, end, id, colors) ==
  IF id < begin THEN flat
  ELSE LET ip == flat[id + 1]
       IN  IF ip.op # "byte" THEN HintsAcross(flat, begin, end, id - 1, colors)
           ELSE HintsAcross(HintsFrom(flat, id, end, id, colors), begin, end, id - 1,
                            [c \in Byte |->
                               IF ip.lo <= c /\ c <= ip.hi THEN id
                               ELSE colors[RangeEnd(colors, c)]])

ComputeHintsAcross(flat, begin, end) ==
  HintsAcross(flat, begin, end, end - 1, (ByteMax :> end))

ComputeHints(flat, begin, end) ==
  HintsFrom(flat, begin, end, end - 1, (ByteMax :> end))

EndList(list, begin) ==
  ComputeHints([list EXCEPT ![Len(list)].last = TRUE], begin, Len(list))

\* One list after the other; heads are the flat ids they begin at.
AppendList(inst, roots, f, root) ==
  [flat  |-> EndList(EmitList(inst, roots, root, f.flat, <<root>>, {}), Len(f.flat)),
   heads |-> Append(f.heads, Len(f.flat))]

\* The numbers of roots become the ids of their lists.
Remap(lists) ==
  LET remap(ip) == IF ip.op = "altmatch" THEN ip
                   ELSE [ip EXCEPT !.out = IF @ = 0 THEN 0 ELSE lists.heads[@]]
  IN  [inst  |-> [id \in 0 .. Len(lists.flat) - 1 |-> remap(lists.flat[id + 1])],
       heads |-> lists.heads]

\* The flattened instructions, numbered from 0, and the heads of the lists.
Flat(inst, start, unanchored) ==
  LET roots == Roots(inst, start, unanchored)
  IN  Remap(FoldLeft(LAMBDA f, root : AppendList(inst, roots, f, root),
                     [flat |-> << >>, heads |-> << >>], roots))
=============================================================================
