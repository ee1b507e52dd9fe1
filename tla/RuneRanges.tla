----------------------------- MODULE RuneRanges -----------------------------
(***************************************************************************)
(* How re2/re2/compile.cc turns ranges of runes into instructions on bytes.*)
(*                                                                         *)
(* rune_range_ is a trie of byte ranges: sequences that begin alike share  *)
(* their beginning (AddSuffixRecursive), and what ends alike shares its    *)
(* end (rune_cache_), which must therefore never be changed.  An           *)
(* instruction without a successor is in the patch list rune_range_.end,   *)
(* linked through the out fields; entry id << 1 is the out of id.          *)
(***************************************************************************)
EXTENDS Runes, FiniteSetsExt, TLC

CONSTANT MaxNInst      \* max_ninst_

NullPatchList == [head |-> 0, tail |-> 0]

\* Instruction ids begin at 1; 0 is the instruction that fails.
BeginRange(encoding, reversed) ==
  [encoding |-> encoding, reversed |-> reversed, inst |-> << >>, failed |-> FALSE,
   rune_cache |-> << >>, begin |-> 0, end |-> NullPatchList]

ByteRange(lo, hi, fold, out) == [op |-> "byte", lo |-> lo, hi |-> hi, fold |-> fold, out |-> out]
Alt(out, out1) == [op |-> "alt", out |-> out, out1 |-> out1]

\* A builder, and the id it has come up with; 0 says that it failed.
With(c, id) == [c |-> c, id |-> id]

AllocInst(c, inst) ==
  IF Len(c.inst) + 2 > MaxNInst THEN With([c EXCEPT !.failed = TRUE], 0)
  ELSE With([c EXCEPT !.inst = Append(@, inst)], Len(c.inst) + 1)

\* PatchList::Append of the out of id.
Link(c, id) ==
  LET mk == [head |-> 2 * id, tail |-> 2 * id]
  IN  IF c.end.head = 0 THEN [c EXCEPT !.end = mk]
      ELSE [c EXCEPT !.inst[c.end.tail \div 2].out = mk.head, !.end.tail = mk.tail]

UncachedRuneByteSuffix(c, lo, hi, fold, next) ==
  LET new == AllocInst(c, ByteRange(lo, hi, fold, next))
  IN  IF new.id # 0 /\ next = 0 THEN With(Link(new.c, new.id), new.id) ELSE new

MakeRuneCacheKey(lo, hi, fold, next) == <<next, lo, hi, fold>>

CachedRuneByteSuffix(c, lo, hi, fold, next) ==
  LET key == MakeRuneCacheKey(lo, hi, fold, next)
      new == UncachedRuneByteSuffix(c, lo, hi, fold, next)
  IN  IF key \in DOMAIN c.rune_cache THEN With(c, c.rune_cache[key])
      ELSE With([new.c EXCEPT !.rune_cache = @ @@ (key :> new.id)], new.id)

IsCachedRuneByteSuffix(c, id) ==
  LET ip == c.inst[id]
  IN  MakeRuneCacheKey(ip.lo, ip.hi, ip.fold, ip.out) \in DOMAIN c.rune_cache

-----------------------------------------------------------------------------
ByteRangeEqual(c, id1, id2) ==
  /\ c.inst[id1].op = "byte" /\ c.inst[id2].op = "byte"
  /\ c.inst[id1].lo = c.inst[id2].lo /\ c.inst[id1].hi = c.inst[id2].hi
  /\ c.inst[id1].fold = c.inst[id2].fold

\* FindByteRange: where the instruction at root equal to id hangs: at no field,
\* because it is the root, or at a field of the alternative at.
Nowhere == [at |-> 0, field |-> "none"]
Found(at, field) == [at |-> at, field |-> field]
RECURSIVE FindAmong(_, _, _)
FindAmong(c, root, id) ==
  LET ip == c.inst[root] IN
  IF ByteRangeEqual(c, ip.out1, id) THEN Found(root, "out1")
  ELSE IF ~c.reversed THEN Nowhere
  ELSE IF c.inst[ip.out].op = "alt" THEN FindAmong(c, ip.out, id)
  ELSE IF ByteRangeEqual(c, ip.out, id) THEN Found(root, "out")
  ELSE Nowhere
FindByteRange(c, root, id) ==
  IF c.inst[root].op = "alt" THEN FindAmong(c, root, id)
  ELSE IF ByteRangeEqual(c, root, id) THEN Found(root, "root")
  ELSE Nowhere

Hanging(c, f) ==
  CASE f.field = "root" -> f.at
    [] f.field = "out"  -> c.inst[f.at].out
    [] f.field = "out1" -> c.inst[f.at].out1

\* Mutant of Cloned: the shared instruction itself is changed.
ClonedNever(c, root, f) == [c |-> c, br |-> Hanging(c, f), root |-> root]

\* A cached suffix is shared, so a copy of its head is hung in its place.
Cloned(c, root, f) ==
  LET br    == Hanging(c, f)
      clone == AllocInst(c, c.inst[br])
      hung  == CASE f.field = "root" -> clone.c
                 [] f.field = "out"  -> [clone.c EXCEPT !.inst[f.at].out = clone.id]
                 [] f.field = "out1" -> [clone.c EXCEPT !.inst[f.at].out1 = clone.id]
  IN  IF ~IsCachedRuneByteSuffix(c, br) THEN [c |-> c, br |-> br, root |-> root]
      ELSE IF clone.id = 0 THEN [c |-> clone.c, br |-> 0, root |-> 0]
      ELSE [c |-> hung, br |-> clone.id, root |-> IF f.field = "root" THEN clone.id ELSE root]

\* The head of id is in the trie already: it is cleared, if it is not shared, and
\* the last instruction, which it should be, is taken back.
Freed(c, id) ==
  IF IsCachedRuneByteSuffix(c, id) THEN c
  ELSE [c EXCEPT !.inst = SubSeq([@ EXCEPT ![id] = Alt(0, 0)], 1, Len(@) - 1)]

RECURSIVE AddSuffixRecursive(_, _, _)
AddSuffixRecursive(c, root, id) ==
  LET f    == FindByteRange(c, root, id)
      own  == Cloned(c, root, f)
      rest == AddSuffixRecursive(Freed(own.c, id), own.c.inst[own.br].out, c.inst[id].out)
  IN  IF f = Nowhere THEN AllocInst(c, Alt(root, id))
      ELSE IF own.br = 0 THEN With(own.c, 0)
      ELSE IF rest.id = 0 THEN With(rest.c, 0)
      ELSE With([rest.c EXCEPT !.inst[own.br].out = rest.id], own.root)

AddSuffix(c, id) ==
  LET added == IF c.encoding = "UTF8" THEN AddSuffixRecursive(c, c.begin, id)
               ELSE AllocInst(c, Alt(c.begin, id))
  IN  IF c.failed THEN c
      ELSE IF c.begin = 0 THEN [c EXCEPT !.begin = id]
      ELSE [added.c EXCEPT !.begin = added.id]

-----------------------------------------------------------------------------
\* A sequence of byte ranges <<lo, hi, cached>>, its last one first.
RECURSIVE Suffix(_, _, _)
Suffix(c, parts, next) ==
  LET p   == Head(parts)
      new == IF p[3] THEN CachedRuneByteSuffix(c, p[1], p[2], FALSE, next)
             ELSE UncachedRuneByteSuffix(c, p[1], p[2], FALSE, next)
  IN  IF parts = << >> THEN With(c, next) ELSE Suffix(new.c, Tail(parts), new.id)

AddSequence(c, parts, next) ==
  LET s == Suffix(c, parts, next) IN AddSuffix(s.c, s.id)

AddRuneRangeLatin1(c, lo, hi, fold) ==
  LET s == UncachedRuneByteSuffix(c, lo, IF hi > 255 THEN 255 ELSE hi, fold, 0)
  IN  IF lo > hi \/ lo > 255 THEN c ELSE AddSuffix(s.c, s.id)

Cont == <<Tx, T2 - 1, FALSE>>
Lead2 == <<T2 + 2, T3 - 1, FALSE>>
Lead3 == <<T3, T4 - 1, FALSE>>
Lead4 == <<T4, T4 + 4, FALSE>>

\* All runes beyond ASCII: longer sequences than a rune needs pass, too.
Add_80_10ffff(c) ==
  LET c1 == UncachedRuneByteSuffix(c, Cont[1], Cont[2], FALSE, 0)
      a2 == AddSequence(c1.c, <<Lead2>>, c1.id)
      c2 == UncachedRuneByteSuffix(a2, Cont[1], Cont[2], FALSE, c1.id)
      a3 == AddSequence(c2.c, <<Lead3>>, c2.id)
      c3 == UncachedRuneByteSuffix(a3, Cont[1], Cont[2], FALSE, c2.id)
  IN  IF c.reversed
        THEN AddSequence(AddSequence(AddSequence(c, <<Lead2, Cont>>, 0),
               <<Lead3, Cont, Cont>>, 0), <<Lead4, Cont, Cont, Cont>>, 0)
      ELSE AddSequence(c3.c, <<Lead4>>, c3.id)

MaxRune(len) == <<Rune1, Rune2, Rune3>>[len]

\* The bytes of lo .. hi, which differ in a last part only, and which of them
\* are cached.
Parts(lo, hi, reversed) ==
  LET u == runetochar(lo)
      v == runetochar(hi)
      n == Len(u)
      cached(i) == IF reversed THEN i = 1 \/ (u[i] = v[i] /\ i # n)
                   ELSE i = n \/ (u[i] < v[i] /\ i # 1)
      at(k) == IF reversed THEN k ELSE n + 1 - k
  IN  [k \in 1 .. n |-> <<u[at(k)], v[at(k)], cached(at(k))>>]

\* Where lo .. hi must be cut into two: before the rune that is returned, 0 if
\* it need not be.
LengthCut(lo, hi) ==
  LET lens == {i \in 1 .. 3 : lo <= MaxRune(i) /\ MaxRune(i) < hi}
  IN  IF lens = {} THEN 0 ELSE MaxRune(CHOOSE i \in lens : \A j \in lens : i <= j) + 1
BlockCut(lo, hi, i) ==
  LET m == 64 ^ i  IN
  IF lo \div m = hi \div m THEN 0
  ELSE IF lo % m # 0 THEN (lo \div m + 1) * m
  ELSE IF hi % m # m - 1 THEN (hi \div m) * m
  ELSE 0
LeadCut(lo, hi) ==
  LET cuts == {i \in 1 .. 3 : BlockCut(lo, hi, i) # 0}
  IN  IF cuts = {} THEN 0 ELSE BlockCut(lo, hi, CHOOSE i \in cuts : \A j \in cuts : i <= j)

RECURSIVE AddRuneRangeUTF8(_, _, _, _)
AddRuneRangeUTF8(c, lo, hi, fold) ==
  LET cut   == IF LengthCut(lo, hi) # 0 THEN LengthCut(lo, hi) ELSE LeadCut(lo, hi)
      ascii == UncachedRuneByteSuffix(c, lo, hi, fold, 0)
  IN  IF lo > hi THEN c
      ELSE IF lo = Rune1 + 1 /\ hi = Runemax THEN Add_80_10ffff(c)
      ELSE IF hi <= Rune1 THEN AddSuffix(ascii.c, ascii.id)
      ELSE IF cut # 0
        THEN AddRuneRangeUTF8(AddRuneRangeUTF8(c, lo, cut - 1, fold), cut, hi, fold)
      ELSE AddSequence(c, Parts(lo, hi, c.reversed), 0)

AddRuneRange(c, lo, hi, fold) ==
  IF c.encoding = "Latin1" THEN AddRuneRangeLatin1(c, lo, hi, fold)
  ELSE AddRuneRangeUTF8(c, lo, hi, fold)

-----------------------------------------------------------------------------
(***************************************************************************)
(* Classes of runes, one range after the other as a CharClass lists them,  *)
(* compiled forward, reversed and for Latin-1.                             *)
(***************************************************************************)
CONSTANTS RangeEnds,    \* where ranges begin; they end there or just before
          MaxRanges     \* ranges in a class

VARIABLES class,        \* the ranges, <<lo, hi, fold>>
          compiled      \* rune_range_ for each way to compile

Ways == {<<"UTF8", FALSE>>, <<"UTF8", TRUE>>, <<"Latin1", FALSE>>}

RangesInit ==
  /\ class = << >>
  /\ compiled = [w \in Ways |-> BeginRange(w[1], w[2])]

\* The ranges of a class are in order and do not touch.
Follows(lo) == \A k \in DOMAIN class : class[k][2] + 1 < lo

AddOne(lo, hi, fold) ==
  /\ Len(class) < MaxRanges
  /\ Follows(lo) /\ lo <= hi /\ hi <= Runemax
  /\ fold => hi <= Rune1
  /\ class' = Append(class, <<lo, hi, fold>>)
  /\ compiled' = [w \in Ways |-> AddRuneRange(compiled[w], lo, hi, fold)]

RangesNext ==
  \E lo \in RangeEnds, hi \in RangeEnds \cup {r - 1 : r \in RangeEnds}, fold \in BOOLEAN :
    AddOne(lo, hi, fold)

-----------------------------------------------------------------------------
RECURSIVE Listed(_, _), PathsFrom(_, _)

\* The instructions on the patch list, from entry h.
Listed(c, h) ==
  IF h = 0 THEN << >>
  ELSE IF h = c.end.tail THEN <<h \div 2>>
  ELSE <<h \div 2>> \o Listed(c, c.inst[h \div 2].out)
Ends(c) == Listed(c, c.end.head)

\* The sequences of byte ranges that lead from id to the end.
PathsFrom(c, id) ==
  LET ip   == c.inst[id]
      byte == <<ip.lo, ip.hi, ip.fold>>
  IN  IF ip.op = "alt" THEN PathsFrom(c, ip.out) \cup PathsFrom(c, ip.out1)
      ELSE IF \E k \in DOMAIN Ends(c) : Ends(c)[k] = id THEN {<<byte>>}
      ELSE {<<byte>> \o path : path \in PathsFrom(c, ip.out)}

InTextOrder(c, path) ==
  IF c.reversed THEN [k \in DOMAIN path |-> path[Len(path) + 1 - k]] ELSE path
Paths(c) == {InTextOrder(c, path) : path \in PathsFrom(c, c.begin)}

\* The three paths that stand for all runes beyond ASCII.
Beyond == {<<Lead2, Cont>>, <<Lead3, Cont, Cont>>, <<Lead4, Cont, Cont, Cont>>}

\* A path stands for the runes between its least and its greatest sequence, if
\* nothing but full ranges follow a range.
IsInterval(path) ==
  \A i \in DOMAIN path : path[i][1] < path[i][2] => \A j \in i + 1 .. Len(path) : path[j] = Cont
RuneOf(path, k) == chartorune([i \in DOMAIN path |-> path[i][k]]).rune
Interval(path, encoding) ==
  IF encoding = "Latin1" THEN path[1]
  ELSE <<RuneOf(path, 1), RuneOf(path, 2), \E i \in DOMAIN path : path[i][3]>>
Denoted(c) ==
  LET paths == Paths(c)
      all   == Beyond \subseteq paths /\ c.encoding = "UTF8"
  IN  {Interval(path, c.encoding) : path \in IF all THEN paths \ Beyond ELSE paths}
        \cup IF all THEN {<<Rune1 + 1, Runemax, FALSE>>} ELSE {}

Wanted(encoding) ==
  LET all == {class[k] : k \in DOMAIN class}
  IN  IF encoding = "UTF8" THEN all
      ELSE {<<x[1], Min({x[2], 255}), x[3]>> : x \in {y \in all : y[1] <= 255}}

SizeOf(ranges) == MapThenSumSet(LAMBDA x : x[2] - x[1] + 1, ranges)
Within(x, ranges) ==
  \E y \in ranges : y[1] <= x[1] /\ x[2] <= y[2] /\ (x[3] <=> y[3] /\ x[2] <= Rune1)
Apart(ranges) == \A x, y \in ranges : x # y => x[2] < y[1] \/ y[2] < x[1]

\* Every way to compile a class makes a program that reads the encodings of
\* exactly its runes, each in one way: no sequence is lost when a shared
\* suffix is copied or an instruction is taken back (compile.cc:445-617).
RangesExact ==
  \A w \in Ways : LET c == compiled[w] IN
    ~c.failed /\ Wanted(c.encoding) # {} =>
      /\ c.begin # 0
      /\ \A path \in Paths(c) : c.encoding = "UTF8" /\ path \notin Beyond => IsInterval(path)
      /\ LET got == Denoted(c) IN
           /\ Apart(got)
           /\ \A x \in got : Within(x, Wanted(c.encoding))
           /\ SizeOf(got) = SizeOf(Wanted(c.encoding))
=============================================================================
