---------------------------- MODULE CharClasses -----------------------------
(***************************************************************************)
(* CharClassBuilder and CharClass (re2/re2/regexp.h, regexp.cc): sets of   *)
(* runes kept as ranges.  A builder is a tree of ranges that neither       *)
(* overlap nor abut, ordered by "ends before the other begins", so that a  *)
(* lookup finds a range that shares a rune with the one looked for.  The   *)
(* count of runes and the bitmaps of ASCII letters are kept beside it.     *)
(*                                                                         *)
(* A rune here is a number up to ByteMax, which stands for Runemax.        *)
(***************************************************************************)
EXTENDS Programs, FiniteSetsExt, SequencesExt

Runemax == ByteMax
LowerCase == FirstLower .. LastLower

\* ranges_, upper_, lower_, nrunes_.
NewBuilder == [ranges |-> {}, upper |-> {}, lower |-> {}, nrunes |-> 0]

\* The ranges that ranges_.find(RuneRange(lo, hi)) may return.
Overlapping(ranges, lo, hi) == {x \in ranges : ~(x[2] < lo) /\ ~(hi < x[1])}

SizeOf(ranges) == MapThenSumSet(LAMBDA x : x[2] - x[1] + 1, ranges)

\* The ASCII letters of lo .. hi go into the bitmaps, already there or not.
MarkLetters(ccb, lo, hi) ==
  [ccb EXCEPT !.upper = @ \cup {c \in UpperCase : lo <= c /\ c <= hi},
              !.lower = @ \cup {c \in LowerCase : lo <= c /\ c <= hi}]

\* AddRange returns whether the class got bigger.
Grows(ccb, lo, hi) ==
  lo <= hi /\ ~\E x \in Overlapping(ccb.ranges, lo, lo) : x[1] <= lo /\ hi <= x[2]

\* The range x with what abuts it, first on its left and then on its right.
WidenLeft(ranges, lo, hi) ==
  LET left == IF lo > 0 THEN Overlapping(ranges, lo - 1, lo - 1) ELSE {}
  IN  <<Min({lo} \cup {x[1] : x \in left}), Max({hi} \cup {x[2] : x \in left})>>
WidenRight(ranges, x) ==
  LET right == IF x[2] < Runemax THEN Overlapping(ranges, x[2] + 1, x[2] + 1) ELSE {}
  IN  <<x[1], Max({x[2]} \cup {y[2] : y \in right})>>

\* Mutant of Widened: only what abuts on the left is taken in.
WidenedLeft(ranges, lo, hi) == WidenLeft(ranges, lo, hi)

Widened(ranges, lo, hi) == WidenRight(ranges, WidenLeft(ranges, lo, hi))

\* new in place of all that it overlaps.
Replaced(ccb, new, gone) ==
  [ccb EXCEPT !.ranges = (@ \ gone) \cup {new},
              !.nrunes = @ - SizeOf(gone) + (new[2] - new[1] + 1)]
InPlace(ccb, new) == Replaced(ccb, new, Overlapping(ccb.ranges, new[1], new[2]))

AddRange(ccb, lo, hi) ==
  IF hi < lo THEN ccb
  ELSE IF ~Grows(ccb, lo, hi) THEN MarkLetters(ccb, lo, hi)
  ELSE InPlace(MarkLetters(ccb, lo, hi), Widened(ccb.ranges, lo, hi))

\* AddCharClass: every range of the other class, in any order.
AddCharClass(ccb, other) ==
  FoldSet(LAMBDA x, acc : AddRange(acc, x[1], x[2]), ccb, other.ranges)

HasRune(ccb, r) == Overlapping(ccb.ranges, r, r) # {}
FoldsASCII(ccb) == {c + CaseShift : c \in ccb.upper} = ccb.lower
IsEmptyClass(cc) == cc.nrunes = 0
IsFullClass(cc) == cc.nrunes = Runemax + 1

RemoveAbove(ccb, r) ==
  IF r >= Runemax THEN ccb
  ELSE LET cut  == Overlapping(ccb.ranges, r + 1, Runemax)
           kept == {<<x[1], r>> : x \in {y \in cut : y[1] <= r}}
       IN  [ranges |-> (ccb.ranges \ cut) \cup kept,
            upper  |-> {c \in ccb.upper : c <= r},
            lower  |-> {c \in ccb.lower : c <= r},
            nrunes |-> ccb.nrunes - SizeOf(cut) + SizeOf(kept)]

\* The rune after the last range that ends before r.
NextLo(ranges, r) == Max({0} \cup {x[2] + 1 : x \in {y \in ranges : y[2] < r}})

Negate(ccb) ==
  LET before == {<<NextLo(ccb.ranges, x[1]), x[1] - 1>> : x \in {y \in ccb.ranges : y[1] # 0}}
      after  == NextLo(ccb.ranges, Runemax + 1)
  IN  [ranges |-> before \cup (IF after <= Runemax THEN {<<after, Runemax>>} ELSE {}),
       upper  |-> UpperCase \ ccb.upper,
       lower  |-> LowerCase \ ccb.lower,
       nrunes |-> Runemax + 1 - ccb.nrunes]

-----------------------------------------------------------------------------
(***************************************************************************)
(* CharClass: the same ranges in an array.                                 *)
(***************************************************************************)
InOrder(ranges) ==
  [k \in 1 .. Cardinality(ranges) |->
     CHOOSE x \in ranges : Cardinality({y \in ranges : y[1] < x[1]}) = k - 1]

GetCharClass(ccb) ==
  [ranges |-> InOrder(ccb.ranges), foldsASCII |-> FoldsASCII(ccb), nrunes |-> ccb.nrunes]

NegateClass(cc) ==
  LET nextLo(k) == IF k = 0 THEN 0 ELSE cc.ranges[k][2] + 1
      gap(k)    == <<nextLo(k), IF k = Len(cc.ranges) THEN Runemax
                                ELSE cc.ranges[k + 1][1] - 1>>
      gaps      == [k \in 1 .. Len(cc.ranges) + 1 |-> gap(k - 1)]
  IN  [ranges |-> SelectSeq(gaps, LAMBDA x : x[1] <= x[2]),
       foldsASCII |-> cc.foldsASCII, nrunes |-> Runemax + 1 - cc.nrunes]

-----------------------------------------------------------------------------
(***************************************************************************)
(* Case folding in the parser (re2/re2/parse.cc, unicode_casefold.h): a    *)
(* sorted table of ranges, each with the way to the next rune of the cycle *)
(* that its runes fold in, and classes closed under it.                    *)
(***************************************************************************)
CONSTANT CaseFolds     \* unicode_casefold: entries <<lo, hi, delta>> in order

EvenOdd == 1
OddEven == -1
EvenOddSkip == 2 ^ 30
OddEvenSkip == EvenOddSkip + 1

\* The entry that contains r, else the first one above r, else 0.
LookupCaseFold(f, r) ==
  LET find[k \in 0 .. Len(f), n \in 0 .. Len(f)] ==
        LET m == n \div 2  e == f[k + m + 1] IN
        IF n = 0 THEN (IF k < Len(f) THEN k + 1 ELSE 0)
        ELSE IF e[1] <= r /\ r <= e[2] THEN k + m + 1
        ELSE IF r < e[1] THEN find[k, m]
        ELSE find[k + m + 1, n - (m + 1)]
  IN  find[0, Len(f)]

\* A Skip entry applies to every other of its runes.
ApplyFold(e, r) ==
  IF e[3] \in {EvenOddSkip, OddEvenSkip} /\ (r - e[1]) % 2 = 1 THEN r
  ELSE CASE e[3] \in {EvenOdd, EvenOddSkip} -> IF r % 2 = 0 THEN r + 1 ELSE r - 1
         [] e[3] \in {OddEven, OddEvenSkip} -> IF r % 2 = 1 THEN r + 1 ELSE r - 1
         [] OTHER -> r + e[3]

CycleFoldRune(r) ==
  LET k == LookupCaseFold(CaseFolds, r)
  IN  IF k = 0 \/ r < CaseFolds[k][1] THEN r ELSE ApplyFold(CaseFolds[k], r)

\* What entry e makes of a range of its runes; pairs are taken whole.
FoldedRange(e, lo, hi) ==
  CASE e[3] = EvenOdd -> <<lo - (lo % 2), hi + (1 - (hi % 2))>>
    [] e[3] = OddEven -> <<lo - (1 - (lo % 2)), hi + (hi % 2)>>
    [] OTHER          -> <<lo + e[3], hi + e[3]>>

MaxFoldDepth == 10
RECURSIVE AddFoldedRange(_, _, _, _), AddFolds(_, _, _, _)

\* lo .. hi and what it folds to.  A range that is there already is taken to
\* have its folds there too.
AddFoldedRange(ccb, lo, hi, depth) ==
  IF depth > MaxFoldDepth THEN ccb
  ELSE IF ~Grows(ccb, lo, hi) THEN AddRange(ccb, lo, hi)
  ELSE AddFolds(AddRange(ccb, lo, hi), lo, hi, depth)

\* The folds of lo .. hi, entry by entry.
AddFolds(ccb, lo, hi, depth) ==
  LET e  == CaseFolds[LookupCaseFold(CaseFolds, lo)]
      to == FoldedRange(e, lo, Min({hi, e[2]}))
  IN  IF lo > hi \/ LookupCaseFold(CaseFolds, lo) = 0 THEN ccb
      ELSE IF lo < e[1] THEN AddFolds(ccb, e[1], hi, depth)
      ELSE AddFolds(AddFoldedRange(ccb, to[1], to[2], depth + 1), e[2] + 1, hi, depth)

\* Does newline match only where it is spelled out?
CutsNewline(flags) == "ClassNL" \notin flags \/ "NeverNL" \in flags
NewlineToo(ccb, flags) == IF CutsNewline(flags) THEN AddRange(ccb, Newline, Newline) ELSE ccb
WithoutNewline(lo, hi, flags) ==
  IF CutsNewline(flags) /\ lo <= Newline /\ Newline <= hi
    THEN <<<<lo, Newline - 1>>, <<Newline + 1, hi>>>>
  ELSE <<<<lo, hi>>>>

\* AddRangeFlags: leaves newline out if the flags say so, and folds case.
AddRangeFlags(ccb, lo, hi, flags) ==
  FoldLeft(LAMBDA cc, x : IF "FoldCase" \in flags THEN AddFoldedRange(cc, x[1], x[2], 0)
                          ELSE AddRange(cc, x[1], x[2]),
           ccb, WithoutNewline(lo, hi, flags))

AddAll(ccb, ranges, flags) ==
  FoldLeft(LAMBDA cc, x : AddRangeFlags(cc, x[1], x[2], flags), ccb, ranges)

\* The gaps between ranges that are in order.
GapsOf(ranges) ==
  [k \in 1 .. Len(ranges) + 1 |->
     <<IF k = 1 THEN 0 ELSE ranges[k - 1][2] + 1,
       IF k > Len(ranges) THEN Runemax ELSE ranges[k][1] - 1>>]

\* AddUGroup: a named group of ranges, or all runes but those.
AddUGroup(ccb, ranges, sign, flags) ==
  IF sign = -1 /\ "FoldCase" \in flags
    THEN AddCharClass(ccb, Negate(NewlineToo(AddAll(NewBuilder, ranges, flags), flags)))
  ELSE AddAll(ccb, IF sign = 1 THEN ranges ELSE GapsOf(ranges), flags)
=============================================================================
