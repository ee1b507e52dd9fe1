------------------------------- MODULE Parser -------------------------------
(***************************************************************************)
(* The regexp parser, Regexp::Parse (re2/re2/parse.cc): a loop that reads  *)
(* one piece of the pattern per round and pushes what it stands for onto a *)
(* stack of regexps and markers.                                           *)
(*                                                                         *)
(* A pattern is a sequence of characters, whose runes CodeOf gives; bytes  *)
(* that are not UTF-8 are a character without a rune.  What reads a number,*)
(* an escape, a repetition or a class from it returns what it has read,    *)
(* with the status and the rest of the pattern.  The parse state is a      *)
(* record of the stack, its top first, the flags in force, the groups seen *)
(* and the status.                                                         *)
(***************************************************************************)
EXTENDS ParseTrees

CONSTANTS
  kMaxRepeat,   \* the largest repetition count, nested ones multiplied
  CharOf        \* the printing ASCII characters, by rune

(***************************************************************************)
(* The named classes of re2/re2/perl_groups.cc: the sign of a group and    *)
(* its ranges of runes.                                                    *)
(***************************************************************************)
perl_ranges ==
  [d |-> <<<<48, 57>>>>,
   s |-> <<<<9, 10>>, <<12, 13>>, <<32, 32>>>>,
   w |-> <<<<48, 57>>, <<65, 90>>, <<95, 95>>, <<97, 122>>>>]

perl_groups ==
  LET group(sign, x) == [sign |-> sign, ranges |-> perl_ranges[x]]
  IN  "\\d" :> group(1, "d") @@ "\\s" :> group(1, "s") @@ "\\w" :> group(1, "w")
      @@ "\\D" :> group(-1, "d") @@ "\\S" :> group(-1, "s") @@ "\\W" :> group(-1, "w")

posix_ranges ==
  [alnum  |-> <<<<48, 57>>, <<65, 90>>, <<97, 122>>>>,
   alpha  |-> <<<<65, 90>>, <<97, 122>>>>,
   ascii  |-> <<<<0, 127>>>>,
   blank  |-> <<<<9, 9>>, <<32, 32>>>>,
   cntrl  |-> <<<<0, 31>>, <<127, 127>>>>,
   digit  |-> <<<<48, 57>>>>,
   graph  |-> <<<<33, 126>>>>,
   lower  |-> <<<<97, 122>>>>,
   print  |-> <<<<32, 126>>>>,
   punct  |-> <<<<33, 47>>, <<58, 64>>, <<91, 96>>, <<123, 126>>>>,
   space  |-> <<<<9, 13>>, <<32, 32>>>>,
   upper  |-> <<<<65, 90>>>>,
   word   |-> <<<<48, 57>>, <<65, 90>>, <<95, 95>>, <<97, 122>>>>,
   xdigit |-> <<<<48, 57>>, <<65, 70>>, <<97, 102>>>>]

\* [:name:] and its complement [:^name:].
posix_groups ==
  LET signed(sign, mark) ==
        {<<"[:" \o mark \o x \o ":]", [sign |-> sign, ranges |-> posix_ranges[x]]>>
           : x \in DOMAIN posix_ranges}
      all == signed(1, "") \cup signed(-1, "^")
  IN  [name \in {g[1] : g \in all} |-> (CHOOSE g \in all : g[1] = name)[2]]

-----------------------------------------------------------------------------
CONSTANTS
  CodeOf,            \* the rune of a character, or NoRune
  Latin1Max,         \* the largest rune of a Latin-1 pattern
  UnicodeGroups      \* the groups of unicode_groups.cc: name -> [sign, ranges]

NoRune == -1
NoName == ""
Runeself == 128
RuneMax(flags) == IF "Latin1" \in flags THEN Latin1Max ELSE Runemax

Drop(t, n) == SubSeq(t, n + 1, Len(t))
Starts(t, chars) == IsPrefix(chars, t)
Name(chars) == FoldLeft(LAMBDA s, c : s \o c, NoName, chars)
\* Where the characters c first stand in t, 0 if nowhere.
Find(t, c) ==
  LET places == {k \in DOMAIN t : Starts(Drop(t, k - 1), c)}
  IN  IF places = {} THEN 0 ELSE Min(places)

Digit == {"0", "1", "2", "3", "4", "5", "6", "7", "8", "9"}
OctalDigit == Digit \ {"8", "9"}
Value == [d \in Digit |-> CHOOSE k \in 0 .. 9 : CodeOf[d] = CodeOf["0"] + k]
         @@ [d \in {"a", "b", "c", "d", "e", "f"} |-> 10 + CodeOf[d] - CodeOf["a"]]
         @@ [d \in {"A", "B", "C", "D", "E", "F"} |-> 10 + CodeOf[d] - CodeOf["A"]]
HexDigit == DOMAIN Value

\* How many of the first characters of t are in S.
Leading(t, S) == Max({k \in 0 .. Len(t) : \A j \in 1 .. k : t[j] \in S})
\* The number that digits spell, not followed above what a Rune can be.
Number(digits, base) ==
  FoldLeft(LAMBDA n, d : IF n > Runemax THEN n ELSE n * base + Value[d], 0, digits)

Read(r, rest) == [code |-> "Success", rune |-> r, rest |-> rest]
Reject(code) == [code |-> code, rune |-> NoRune, rest |-> << >>]

Bad(t) == IF t = << >> THEN TRUE ELSE CodeOf[t[1]] = NoRune
StringPieceToRune(t) ==
  IF Bad(t) THEN Reject("BadUTF8") ELSE Read(CodeOf[t[1]], Tail(t))
IsValidUTF8(t) == \A i \in DOMAIN t : CodeOf[t[i]] # NoRune
\* An error in t, unless t is not even UTF-8.
RejectValid(t, code) == Reject(IF IsValidUTF8(t) THEN code ELSE "BadUTF8")

\* No leading zeros, and no more than nine digits.
ParseInteger(t) ==
  LET n == Leading(t, Digit)
  IN  [ok   |-> n >= 1 /\ ~(n >= 2 /\ t[1] = "0") /\ n <= 9,
       n    |-> Number(SubSeq(t, 1, n), 10),
       rest |-> Drop(t, n)]

\* {n}, {n,} with hi = -1, or {n,m}; anything else is no repetition.
UpTo(lo, hi) ==
  [ok |-> hi.ok /\ Starts(hi.rest, <<"}">>), lo |-> lo, hi |-> hi.n, rest |-> Drop(hi.rest, 1)]
RepetitionFrom(lo) ==
  IF ~lo.ok \/ ~Starts(lo.rest, <<",">>) THEN UpTo(lo.n, lo)
  ELSE IF Starts(lo.rest, <<",", "}">>) THEN UpTo(lo.n, [ok |-> TRUE, n |-> -1, rest |-> Tail(lo.rest)])
  ELSE UpTo(lo.n, ParseInteger(Tail(lo.rest)))
MaybeParseRepetition(t) == RepetitionFrom(ParseInteger(Tail(t)))

CEscape == [n |-> 10, r |-> 13, t |-> 9, a |-> 7, f |-> 12, v |-> 11]
Alphanumeric(r) ==
  (CodeOf["0"] <= r /\ r <= CodeOf["9"]) \/ r \in UpperCase \cup LowerCase

\* Behind \x{: any number of digits and a brace.
ParseBracedHex(d, max) ==
  LET n == Leading(d, HexDigit)
      code == Number(SubSeq(d, 1, n), 16)
  IN  IF n = 0 /\ Bad(d) THEN Reject("BadUTF8")
      ELSE IF code > max \/ (n > 0 /\ n = Len(d)) THEN Reject("BadEscape")
      ELSE IF Bad(Drop(d, n)) THEN Reject("BadUTF8")
      ELSE IF n = 0 \/ d[n + 1] # "}" THEN Reject("BadEscape")
      ELSE Read(code, Drop(d, n + 1))

\* Behind \x: two digits, or braces.
ParseHex(t, max) ==
  IF t = << >> THEN Reject("BadEscape")
  ELSE IF Bad(t) THEN Reject("BadUTF8")
  ELSE IF t[1] = "{" THEN ParseBracedHex(Tail(t), max)
  ELSE IF Len(t) = 1 THEN Reject("BadEscape")
  ELSE IF Bad(Tail(t)) THEN Reject("BadUTF8")
  ELSE IF Leading(t, HexDigit) < 2 THEN Reject("BadEscape")
  ELSE Read(Number(SubSeq(t, 1, 2), 16), Drop(t, 2))

\* Up to three digits; a lone digit from 1 to 7 would be a back reference.
ParseOctal(t, max) ==
  LET n    == Min({3, Leading(t, OctalDigit)})
      code == Number(SubSeq(t, 1, n), 8)
  IN  IF (t[1] # "0" /\ n = 1) \/ code > max THEN Reject("BadEscape")
      ELSE Read(code, Drop(t, n))

ParseEscape(t, max) ==
  LET c == t[2]
      s == Drop(t, 2)
  IN  IF Len(t) = 1 THEN Reject("TrailingBackslash")
      ELSE IF Bad(Tail(t)) THEN Reject("BadUTF8")
      ELSE IF c \in OctalDigit THEN ParseOctal(Tail(t), max)
      ELSE IF c = "x" THEN ParseHex(s, max)
      ELSE IF c \in DOMAIN CEscape THEN Read(CEscape[c], s)
      ELSE IF CodeOf[c] < Runeself /\ ~Alphanumeric(CodeOf[c]) THEN Read(CodeOf[c], s)
      ELSE Reject("BadEscape")

-----------------------------------------------------------------------------
(***************************************************************************)
(* Named classes.  A reader that finds none leaves it to the next one.     *)
(***************************************************************************)
Nothing == Reject("Nothing")
Group(group, sign, rest) ==
  [code |-> "Success", rune |-> NoRune, rest |-> rest, group |-> group, sign |-> sign]

\* [:alpha:] or the like, which t begins with "[:".
ParseCCName(t) ==
  LET k    == Find(Drop(t, 2), <<":", "]">>)
      name == Name(SubSeq(t, 1, k + 3))
  IN  IF k = 0 THEN Nothing
      ELSE IF name \notin DOMAIN posix_groups THEN Reject("BadCharRange")
      ELSE Group(posix_groups[name], posix_groups[name].sign, Drop(t, k + 3))

\* \d, \s, \w and their complements.
MaybeParsePerlCCEscape(t, flags) ==
  LET name == Name(SubSeq(t, 1, 2))
  IN  IF "PerlClasses" \in flags /\ Len(t) >= 2 /\ name \in DOMAIN perl_groups
        THEN Group(perl_groups[name], perl_groups[name].sign, Drop(t, 2))
      ELSE Nothing

AnyGroup == [sign |-> 1, ranges |-> <<<<0, 65535>>, <<65536, Runemax>>>>]
LookupUnicodeGroup(name, sign, rest) ==
  IF name = "Any" THEN Group(AnyGroup, sign, rest)
  ELSE IF name \in DOMAIN UnicodeGroups THEN Group(UnicodeGroups[name], sign, rest)
  ELSE Reject("BadCharRange")

\* \pN, \p{Name} or \p{^Name}, or \P for the complement.  Bytes behind \p that
\* are not UTF-8 make an empty name: the test of their error is never true.
ParseUnicodeGroup(t, flags) ==
  LET s    == Drop(t, 2)
      sign == IF t[2] = "P" THEN -1 ELSE 1
      k    == Find(Tail(s), <<"}">>)
      name == SubSeq(s, 2, k)
  IN  IF "UnicodeGroups" \notin flags THEN Nothing
      ELSE IF Bad(s) THEN Reject("BadCharRange")
      ELSE IF s[1] # "{" THEN LookupUnicodeGroup(s[1], sign, Tail(s))
      ELSE IF k = 0 THEN RejectValid(t, "BadCharRange")
      ELSE IF ~IsValidUTF8(name) THEN Reject("BadUTF8")
      ELSE IF Starts(name, <<"^">>)
        THEN LookupUnicodeGroup(Name(Tail(name)), -sign, Drop(s, k + 1))
      ELSE LookupUnicodeGroup(Name(name), sign, Drop(s, k + 1))

-----------------------------------------------------------------------------
(***************************************************************************)
(* Character classes.                                                      *)
(***************************************************************************)
ParseCCCharacter(t, flags) ==
  IF t = << >> THEN Reject("MissingBracket")
  ELSE IF t[1] = "\\" THEN ParseEscape(t, RuneMax(flags))
  ELSE StringPieceToRune(t)

\* A character or a range; a hyphen before the bracket stands for itself.
HyphenFollows(t) == Len(t) >= 2 /\ t[1] = "-" /\ t[2] # "]"
RangeTo(lo, hi) ==
  IF hi.code # "Success" THEN hi
  ELSE IF hi.rune < lo.rune THEN Reject("BadCharRange")
  ELSE [lo EXCEPT !.rest = hi.rest] @@ [hi |-> hi.rune]
RangeFrom(lo, flags) ==
  IF lo.code # "Success" THEN lo
  ELSE IF HyphenFollows(lo.rest) THEN RangeTo(lo, ParseCCCharacter(Tail(lo.rest), flags))
  ELSE lo @@ [hi |-> lo.rune]
ParseCCRange(t, flags) == RangeFrom(ParseCCCharacter(t, flags), flags)

\* A hyphen that only Perl would take.
StrayHyphen(t, first, flags) ==
  /\ t[1] = "-" /\ ~first /\ "PerlX" \notin flags
  /\ (Len(t) = 1 \/ t[2] # "]")

\* A named class where t begins, or a range.
ParseNamed(t, flags) ==
  IF Len(t) <= 2 THEN Nothing
  ELSE IF Starts(t, <<"[", ":">>) THEN ParseCCName(t)
  ELSE IF t[1] = "\\" /\ t[2] \in {"p", "P"} THEN ParseUnicodeGroup(t, flags)
  ELSE Nothing
OrElse(read, other) == IF read # Nothing THEN read ELSE other
ReadMember(t, flags) ==
  OrElse(OrElse(ParseNamed(t, flags), MaybeParsePerlCCEscape(t, flags)), ParseCCRange(t, flags))

\* What is spelled out, newline too, is in the class whatever the flags say.
Include(ccb, read, flags) ==
  IF "group" \in DOMAIN read THEN AddUGroup(ccb, read.group.ranges, read.sign, flags)
  ELSE AddRangeFlags(ccb, read.rune, read.hi, flags \cup {"ClassNL"})

\* The members of a class up to its bracket, which may be the first of them.
RECURSIVE ReadMembers(_, _, _, _), ReadMore(_, _, _)
ReadMembers(t, ccb, first, flags) ==
  IF t = << >> THEN Reject("MissingBracket")
  ELSE IF t[1] = "]" /\ ~first THEN Read(NoRune, Tail(t)) @@ [ccb |-> ccb]
  ELSE IF StrayHyphen(t, first, flags)
    THEN Reject(IF Bad(Tail(t)) THEN "BadUTF8" ELSE "BadCharRange")
  ELSE ReadMore(ReadMember(t, flags), ccb, flags)
ReadMore(read, ccb, flags) ==
  IF read.code # "Success" THEN read
  ELSE ReadMembers(read.rest, Include(ccb, read, flags), FALSE, flags)

\* Behind the opening bracket.  Where newline only matches if it is written, a
\* negated class begins as if it were.
NegatedRead(read) ==
  IF read.code = "Success" THEN [read EXCEPT !.ccb = Negate(@)] ELSE read
ParseCharClass(t, flags) ==
  IF ~Starts(t, <<"^">>) THEN ReadMembers(t, NewBuilder, TRUE, flags)
  ELSE NegatedRead(ReadMembers(Tail(t), NewlineToo(NewBuilder, flags), TRUE, flags))

-----------------------------------------------------------------------------
(***************************************************************************)
(* Flags in a group: what (?i-s: or the like makes of the flags.           *)
(***************************************************************************)
FlagsOf == [i |-> "FoldCase", m |-> "OneLine", s |-> "DotNL", U |-> "NonGreedy"]

\* m is the opposite of OneLine.
SetFlag(flags, c, negated) ==
  IF negated <=> (c = "m") THEN flags \cup {FlagsOf[c]} ELSE flags \ {FlagsOf[c]}

\* Up to the colon that opens a group, or the parenthesis that ends the flags.
RECURSIVE ReadFlags(_, _, _, _)
ReadFlags(t, flags, negated, sawflags) ==
  LET c == t[1] IN
  IF t = << >> THEN Reject("BadPerlOp")
  ELSE IF Bad(t) THEN Reject("BadUTF8")
  ELSE IF c \in DOMAIN FlagsOf THEN ReadFlags(Tail(t), SetFlag(flags, c, negated), negated, TRUE)
  ELSE IF c = "-" /\ ~negated THEN ReadFlags(Tail(t), flags, TRUE, FALSE)
  ELSE IF c \in {":", ")"} /\ (negated => sawflags)
    THEN Read(NoRune, Tail(t)) @@ [flags |-> flags, group |-> c = ":"]
  ELSE Reject("BadPerlOp")

\* The name of (?P<name>.
IsValidCaptureName(chars) ==
  chars # << >> /\ \A i \in DOMAIN chars : chars[i] = "_" \/ Alphanumeric(CodeOf[chars[i]])

ReadName(t) ==
  LET s == Drop(t, 4)
      k == Find(s, <<">">>)
      name == SubSeq(s, 1, k - 1)
  IN  IF k = 0 THEN RejectValid(t, "BadNamedCapture")
      ELSE IF ~IsValidUTF8(name) THEN Reject("BadUTF8")
      ELSE IF ~IsValidCaptureName(name) THEN Reject("BadNamedCapture")
      ELSE Read(NoRune, Drop(s, k)) @@ [name |-> Name(name)]

-----------------------------------------------------------------------------
(***************************************************************************)
(* The parse state.                                                        *)
(***************************************************************************)
NewParse(flags) == [stack |-> << >>, flags |-> flags, ncap |-> 0, status |-> "Success"]
Fail(ps, code) == [ps EXCEPT !.status = code]

Marker == {"LeftParen", "VerticalBar"}
IsMarker(re) == re.op \in Marker

\* FinishRegexp: a builder becomes a class.
Finished(re) == IF re.op = "CharClass" THEN [re EXCEPT !.open = FALSE] ELSE re

-----------------------------------------------------------------------------
(***************************************************************************)
(* The stack.                                                              *)
(***************************************************************************)
\* MaybeConcatString: may the two topmost regexps become one string?
CanConcat(stack) ==
  /\ Len(stack) >= 2
  /\ stack[1].op \in LiteralOps /\ stack[2].op \in LiteralOps
  /\ SameFlag(stack[1], stack[2], "FoldCase")

Joined(stack) ==
  [stack[2] EXCEPT !.op = "LiteralString", !.runes = @ \o stack[1].runes]

MaybeConcatString(stack) ==
  IF CanConcat(stack) THEN <<Joined(stack)>> \o Drop(stack, 2) ELSE stack

\* A class of one rune is a literal, and so is [Aa] with case folding.
LeastRune(ccb) == Min({x[1] : x \in ccb.ranges})
ClassOrLiteral(re, ccb, flags) ==
  IF ccb.nrunes = 1 THEN NewLiteral(LeastRune(ccb), flags)
  ELSE IF ccb.nrunes = 2 /\ \E lo \in UpperCase : HasRune(ccb, lo) /\ HasRune(ccb, lo + CaseShift)
    THEN NewLiteral(LeastRune(ccb) + CaseShift, flags \cup {"FoldCase"})
  ELSE [re EXCEPT !.cc = ccb]
Rewritten(re, flags) ==
  IF IF re.op = "CharClass" THEN re.open ELSE FALSE
    THEN ClassOrLiteral(re, RemoveAbove(re.cc, RuneMax(flags)), flags)
  ELSE re

Push(stack, re) ==
  <<IF IsMarker(re) THEN re ELSE Simple(re)>> \o MaybeConcatString(stack)
PushRegexp(ps, re) == [ps EXCEPT !.stack = Push(@, Rewritten(re, ps.flags))]

PushSimpleOp(ps, op) == PushRegexp(ps, Node(op, ps.flags))
PushBuilding(ps, ccb) == PushRegexp(ps, NewBuilding(ccb, ps.flags \ {"FoldCase"}))

\* r and the rest of its fold cycle, which ends at r1, without '\n' if it must
\* never match.
RECURSIVE AddCycle(_, _, _, _)
AddCycle(ccb, r, r1, flags) ==
  LET cc == IF "NeverNL" \in flags /\ r = Newline THEN ccb ELSE AddRange(ccb, r, r)
  IN  IF CycleFoldRune(r) = r1 THEN cc ELSE AddCycle(cc, CycleFoldRune(r), r1, flags)

\* What a rune stands for under the flags.
LiteralFor(r, flags) ==
  IF "FoldCase" \in flags /\ CycleFoldRune(r) # r
    THEN NewBuilding(AddCycle(NewBuilder, r, r, flags), flags \ {"FoldCase"})
  ELSE IF "NeverNL" \in flags /\ r = Newline THEN Node("NoMatch", flags)
  ELSE NewLiteral(r, flags)

\* A literal above two that become one string reuses the topmost node.
Stack(ps, re) ==
  IF re.op = "Literal" /\ CanConcat(ps.stack)
    THEN [ps EXCEPT !.stack = <<[@[1] EXCEPT !.op = "Literal", !.runes = re.runes,
                                             !.flags = re.flags],
                                Joined(@)>> \o Drop(@, 2)]
  ELSE PushRegexp(ps, re)
PushLiteral(ps, r) == Stack(ps, LiteralFor(r, ps.flags))

PushCaret(ps) ==
  PushSimpleOp(ps, IF "OneLine" \in ps.flags THEN "BeginText" ELSE "BeginLine")

PushDollar(ps) ==
  PushRegexp(ps, IF "OneLine" \in ps.flags THEN Node("EndText", ps.flags \cup {"WasDollar"})
                 ELSE Node("EndLine", ps.flags))

PushDot(ps) ==
  IF "DotNL" \in ps.flags /\ "NeverNL" \notin ps.flags THEN PushSimpleOp(ps, "AnyChar")
  ELSE PushBuilding(ps, AddRange(AddRange(NewBuilder, 0, Newline - 1),
                                 Newline + 1, RuneMax(ps.flags)))

NoArgument(ps) == ps.stack = << >> \/ IsMarker(ps.stack[1])
Greediness(flags, nongreedy) ==
  IF ~nongreedy THEN flags
  ELSE (flags \ {"NonGreedy"}) \cup ({"NonGreedy"} \ flags)
ReplaceTop(ps, re) == [ps EXCEPT !.stack[1] = re]

PushRepeatOp(ps, op, nongreedy) ==
  LET top   == ps.stack[1]
      fl    == Greediness(ps.flags, nongreedy)
  IN  IF NoArgument(ps) THEN Fail(ps, "RepeatArgument")
      ELSE IF top.op \in RepeatOps /\ fl = top.flags
        THEN ReplaceTop(ps, [top EXCEPT !.op = IF @ = op THEN op ELSE "Star"])
      ELSE ReplaceTop(ps, Simple(Unary(op, Finished(top), fl)))

\* Mutant of RepeatBudget: only the outermost count is looked at.
RepeatBudgetOuter(re, arg) == IF re.max > 0 THEN arg \div re.max ELSE arg

\* RepetitionWalker: what is left of arg, divided by every count on the way to
\* the innermost repetition.
RECURSIVE RepeatBudget(_, _)
RepeatBudget(re, arg) ==
  LET count == IF re.op # "Repeat" THEN 0 ELSE IF re.max < 0 THEN re.min ELSE re.max
      left  == IF count > 0 THEN arg \div count ELSE arg
  IN  Min({left} \cup {RepeatBudget(re.subs[i], left) : i \in DOMAIN re.subs})

PushRepetition(ps, min, max, nongreedy) ==
  LET re == Simple(RepeatOf(Finished(ps.stack[1]), Greediness(ps.flags, nongreedy), min, max))
  IN  IF (max # -1 /\ max < min) \/ min > kMaxRepeat \/ max > kMaxRepeat
        THEN Fail(ps, "RepeatSize")
      ELSE IF NoArgument(ps) THEN Fail(ps, "RepeatArgument")
      ELSE IF (min >= 2 \/ max >= 2) /\ RepeatBudget(re, kMaxRepeat) = 0
        THEN Fail(ReplaceTop(ps, re), "RepeatSize")
      ELSE ReplaceTop(ps, re)

-----------------------------------------------------------------------------
(***************************************************************************)
(* Groups and alternatives.                                                *)
(***************************************************************************)
\* All above the topmost marker becomes one op, flattened; one is left alone.
Collapsed(ps, op, n) ==
  LET part(re) == IF re.op = op THEN re.subs ELSE <<Finished(re)>>
      parts == [k \in 1 .. n |-> part(ps.stack[n + 1 - k])]
  IN  [ps EXCEPT !.stack =
         <<Simple(ConcatOrAlternate(op, FlattenSeq(parts), ps.flags))>> \o Drop(@, n)]
DoCollapse(ps, op) ==
  LET n == Max({k \in 0 .. Len(ps.stack) : \A j \in 1 .. k : ~IsMarker(ps.stack[j])})
  IN  IF n = 1 THEN ps ELSE Collapsed(ps, op, n)

DoConcatenation(ps) ==
  DoCollapse(IF NoArgument(ps) THEN PushSimpleOp(ps, "EmptyMatch") ELSE ps, "Concat")

\* What "any character" makes superfluous beside it.
Subsumed == {"Literal", "CharClass", "AnyChar"}

\* The topmost alternative goes below the bar above the others.
BelowBar(s) ==
  IF Len(s) >= 3 /\ s[3].op = "AnyChar" /\ s[1].op \in Subsumed THEN <<s[2]>> \o Drop(s, 2)
  ELSE IF Len(s) >= 3 /\ s[1].op = "AnyChar" /\ s[3].op \in Subsumed
    THEN <<s[2], s[1]>> \o Drop(s, 3)
  ELSE <<s[2], s[1]>> \o Drop(s, 2)
PushBar(ps) ==
  LET s == ps.stack IN
  IF IF Len(s) < 2 THEN TRUE ELSE s[2].op # "VerticalBar" THEN PushSimpleOp(ps, "VerticalBar")
  ELSE [ps EXCEPT !.stack = BelowBar(s)]
DoVerticalBar(ps) == PushBar(DoConcatenation([ps EXCEPT !.stack = MaybeConcatString(@)]))

DropTop(ps) == [ps EXCEPT !.stack = Tail(@)]
DoAlternation(ps) == DoCollapse(DropTop(DoVerticalBar(ps)), "Alternate")

DoLeftParen(ps, name) ==
  LET n == ps.ncap + 1
  IN  PushRegexp([ps EXCEPT !.ncap = n],
                 Node("LeftParen", ps.flags) @@ [cap |-> n, name |-> name])

DoLeftParenNoCapture(ps) ==
  PushRegexp(ps, Node("LeftParen", ps.flags) @@ [cap |-> -1, name |-> NoName])

\* Mutant of CloseParen: the flags set inside the group stay in force behind it.
CloseParenKeepingFlags(ps, re, paren) ==
  PushRegexp([ps EXCEPT !.stack = Drop(@, 2)],
             IF paren.cap > 0
               THEN Simple(CaptureOf(Finished(re), paren.flags, paren.cap, paren.name))
             ELSE re)

\* The group on top takes the place of its parenthesis, whose flags come back.
CloseParen(ps, re, paren) ==
  PushRegexp([ps EXCEPT !.stack = Drop(@, 2), !.flags = paren.flags],
             IF paren.cap > 0
               THEN Simple(CaptureOf(Finished(re), paren.flags, paren.cap, paren.name))
             ELSE re)
MatchParen(ps) ==
  IF IF Len(ps.stack) < 2 THEN TRUE ELSE ps.stack[2].op # "LeftParen"
    THEN Fail(ps, "UnexpectedParen")
  ELSE CloseParen(ps, ps.stack[1], ps.stack[2])
DoRightParen(ps) == MatchParen(DoAlternation(ps))

LastRegexp(ps) ==
  IF Len(ps.stack) > 1 THEN Fail(ps, "MissingParen")
  ELSE [ReplaceTop(ps, Finished(ps.stack[1])) EXCEPT !.status = "Done"]
DoFinish(ps) == LastRegexp(DoAlternation(ps))

-----------------------------------------------------------------------------
(***************************************************************************)
(* Regexp::Parse.  The parse goes on while its status is Success, and ends *)
(* in Done with the regexp alone on the stack, or in an error.             *)
(***************************************************************************)
VARIABLES
  t,           \* the rest of the pattern
  ps,          \* the parse state
  lastunary    \* was the last piece a repetition?

vars == <<t, ps, lastunary>>

Operators == {"(", ")", "|", "^", "$", ".", "[", "*", "+", "?", "{", "\\"}
Parsing == ps.status = "Success" /\ t # << >>
IsLiteral == "Literal" \in ps.flags
Reading(c) == Parsing /\ ~IsLiteral /\ t[1] = c
Second == IF Len(t) >= 2 THEN t[2] ELSE NoName

Piece(new, rest) == ps' = new /\ t' = rest /\ lastunary' = FALSE
\* What has been read is pushed, unless it was an error.
Take(read, push(_)) ==
  Piece(IF read.code = "Success" THEN push(read) ELSE Fail(ps, read.code), read.rest)
TakeLiteral(read) == Take(read, LAMBDA x : PushLiteral(ps, x.rune))
TakeClass(read) == Take(read, LAMBDA x : PushBuilding(ps, x.ccb))
TakeGroup(read) ==
  Take(read, LAMBDA x : PushBuilding(ps, AddUGroup(NewBuilder, x.group.ranges, x.sign, ps.flags)))

LiteralRune ==
  /\ Parsing
  /\ IsLiteral \/ t[1] \notin Operators
  /\ TakeLiteral(StringPieceToRune(t))

PerlGroup == "PerlX" \in ps.flags /\ Second = "?"
OpenGroup ==
  /\ Reading("(") /\ ~PerlGroup
  /\ Piece(IF "NeverCapture" \in ps.flags THEN DoLeftParenNoCapture(ps)
           ELSE DoLeftParen(ps, NoName), Tail(t))

\* A group that sets flags keeps the old ones on the stack.
PerlFlags ==
  /\ Reading("(") /\ PerlGroup
  /\ IF Len(t) > 4 /\ t[3] = "P" /\ t[4] = "<"
       THEN Take(ReadName(t), LAMBDA x : DoLeftParen(ps, x.name))
       ELSE Take(ReadFlags(Drop(t, 2), ps.flags, FALSE, FALSE),
                 LAMBDA x : [(IF x.group THEN DoLeftParenNoCapture(ps) ELSE ps)
                               EXCEPT !.flags = x.flags])

VerticalBar == Reading("|") /\ Piece(DoVerticalBar(ps), Tail(t))
CloseGroup == Reading(")") /\ Piece(DoRightParen(ps), Tail(t))
Caret == Reading("^") /\ Piece(PushCaret(ps), Tail(t))
Dollar == Reading("$") /\ Piece(PushDollar(ps), Tail(t))
Dot == Reading(".") /\ Piece(PushDot(ps), Tail(t))
Class == Reading("[") /\ TakeClass(ParseCharClass(Tail(t), ps.flags))

\* Behind a repetition: Perl's lazy ones, and the error of stacking them.
Repeat(rest, push(_)) ==
  LET perl == "PerlX" \in ps.flags
      lazy == perl /\ Starts(rest, <<"?">>)
  IN  /\ t' = IF lazy THEN Tail(rest) ELSE rest
      /\ ps' = IF perl /\ lastunary THEN Fail(ps, "RepeatOp") ELSE push(lazy)
      /\ lastunary' = TRUE

OpOf == "*" :> "Star" @@ "+" :> "Plus" @@ "?" :> "Quest"
RepeatOp ==
  \E c \in DOMAIN OpOf :
    Reading(c) /\ Repeat(Tail(t), LAMBDA lazy : PushRepeatOp(ps, OpOf[c], lazy))

\* A brace that begins no repetition is a literal.
TakeRepetition(r) ==
  IF r.ok THEN Repeat(r.rest, LAMBDA lazy : PushRepetition(ps, r.lo, r.hi, lazy))
  ELSE TakeLiteral(StringPieceToRune(t))
Repetition == Reading("{") /\ TakeRepetition(MaybeParseRepetition(t))

WordOps == [b |-> "WordBoundary", B |-> "NoWordBoundary"]
PerlOps == [A |-> "BeginText", z |-> "EndText", C |-> "AnyByte"]
IsWordOp == "PerlB" \in ps.flags /\ Second \in DOMAIN WordOps
IsPerlOp == "PerlX" \in ps.flags /\ Second \in DOMAIN PerlOps
IsQuote == "PerlX" \in ps.flags /\ Second = "Q"
EscapedOp ==
  /\ Reading("\\") /\ (IsWordOp \/ IsPerlOp)
  /\ Piece(PushSimpleOp(ps, (WordOps @@ PerlOps)[Second]), Drop(t, 2))

\* Literals up to \E or the end of the pattern.
RECURSIVE PushQuoted(_, _)
PushQuoted(s, q) ==
  IF q = << >> THEN [ps |-> s, rest |-> q]
  ELSE IF Starts(q, <<"\\", "E">>) THEN [ps |-> s, rest |-> Drop(q, 2)]
  ELSE IF Bad(q) THEN [ps |-> Fail(s, "BadUTF8"), rest |-> << >>]
  ELSE PushQuoted(PushLiteral(s, CodeOf[q[1]]), Tail(q))

TakeQuoted(q) == Piece(q.ps, q.rest)
Quoted == Reading("\\") /\ IsQuote /\ TakeQuoted(PushQuoted(ps, Drop(t, 2)))

EscapedGroup ==
  IF Second \in {"p", "P"} THEN ParseUnicodeGroup(t, ps.flags)
  ELSE MaybeParsePerlCCEscape(t, ps.flags)

EscapedRune ==
  /\ Reading("\\") /\ ~(IsWordOp \/ IsPerlOp \/ IsQuote)
  /\ IF EscapedGroup # Nothing THEN TakeGroup(EscapedGroup)
     ELSE TakeLiteral(ParseEscape(t, RuneMax(ps.flags)))

Finish ==
  /\ ps.status = "Success" /\ t = << >>
  /\ ps' = DoFinish(ps)
  /\ UNCHANGED <<t, lastunary>>

Start(pattern, flags) ==
  t = pattern /\ ps = NewParse(flags) /\ lastunary = FALSE

Parse ==
  \/ LiteralRune \/ OpenGroup \/ PerlFlags \/ VerticalBar \/ CloseGroup
  \/ Caret \/ Dollar \/ Dot \/ Class \/ RepeatOp \/ Repetition
  \/ EscapedOp \/ Quoted \/ EscapedRune \/ Finish

\* Regexp::Parse returns the regexp that is left.
Parsed == ps.stack[1]

-----------------------------------------------------------------------------
(***************************************************************************)
(* Regexp::ToString (re2/re2/tostring.cc): a pattern that spells out a     *)
(* regexp again.  A walk hands the precedence of the context down and puts *)
(* brackets where an operator binds less than that.  CharOf is the inverse *)
(* of CodeOf where a rune prints as itself.  The limit of nodes that the   *)
(* walk visits is left out.                                                *)
(***************************************************************************)
PrecAtom == 0
PrecUnary == 1
PrecConcat == 2
PrecAlternate == 3
PrecEmpty == 4
PrecParen == 5
PrecToplevel == 6

\* Mutant of Within: what binds no tighter than its place needs no group.
WithinAlike(prec, own, chars) ==
  IF prec + 1 < own THEN <<"(", "?", ":">> \o chars \o <<")">> ELSE chars

Within(prec, own, chars) ==
  IF prec < own THEN <<"(", "?", ":">> \o chars \o <<")">> ELSE chars

\* The characters of a name.
Chars(s) == [i \in 1 .. Len(s) |-> SubSeq(s, i, i)]

HexChars == <<"0", "1", "2", "3", "4", "5", "6", "7", "8", "9", "a", "b", "c", "d", "e", "f">>
RECURSIVE Spelled(_, _)
Spelled(n, base) ==
  (IF n < base THEN << >> ELSE Spelled(n \div base, base)) \o <<HexChars[(n % base) + 1]>>
Hex(n) == Spelled(n, 16)
Decimal(n) == Spelled(n, 10)

Special == {"(", ")", "{", "}", "[", "]", "*", "+", "?", "|", ".", "^", "$", "\\"}
ClassSpecial == {"[", "]", "^", "-", "\\"}
Backslashed == 9 :> "t" @@ 10 :> "n" @@ 12 :> "f" @@ 13 :> "r"

AppendCCChar(r) ==
  IF r \in DOMAIN CharOf
    THEN IF CharOf[r] \in ClassSpecial THEN <<"\\", CharOf[r]>> ELSE <<CharOf[r]>>
  ELSE IF r \in DOMAIN Backslashed THEN <<"\\", Backslashed[r]>>
  ELSE IF r < 16 THEN <<"\\", "x", "0">> \o Hex(r)
  ELSE IF r < 256 THEN <<"\\", "x">> \o Hex(r)
  ELSE <<"\\", "x", "{">> \o Hex(r) \o <<"}">>

AppendCCRange(lo, hi) ==
  AppendCCChar(lo) \o (IF lo < hi THEN <<"-">> \o AppendCCChar(hi) ELSE << >>)

AppendLiteral(r, foldcase) ==
  IF r \in DOMAIN CharOf /\ CharOf[r] \in Special THEN <<"\\", CharOf[r]>>
  ELSE IF foldcase /\ r \in LowerCase THEN <<"[", CharOf[r - CaseShift], CharOf[r], "]">>
  ELSE AppendCCRange(r, r)

NothingAtAll ==
  <<"[", "^", "\\", "x", "0", "0", "-", "\\", "x", "{", "1", "0", "f", "f", "f", "f", "}", "]">>

\* A class that has the last rune of the first plane shows as negated.
LateRune == 65534
AppendClass(cc) ==
  LET neg    == HasRune(cc, LateRune) /\ ~IsFullClass(cc)
      ranges == IF neg THEN NegateClass(GetCharClass(cc)).ranges ELSE GetCharClass(cc).ranges
  IN  IF cc.nrunes = 0 THEN NothingAtAll
      ELSE (IF neg THEN <<"[", "^">> ELSE <<"[">>)
           \o FlattenSeq([i \in DOMAIN ranges |-> AppendCCRange(ranges[i][1], ranges[i][2])])
           \o <<"]">>

RepeatSuffix(re) ==
  (CASE re.op = "Star"  -> <<"*">>
     [] re.op = "Plus"  -> <<"+">>
     [] re.op = "Quest" -> <<"?">>
     [] re.op = "Repeat" ->
          <<"{">> \o Decimal(re.min)
          \o (CASE re.max = -1     -> <<",">>
                [] re.max = re.min -> << >>
                [] OTHER           -> <<",">> \o Decimal(re.max))
          \o <<"}">>)
  \o (IF "NonGreedy" \in re.flags THEN <<"?">> ELSE << >>)

FixedText ==
  [NoMatch |-> NothingAtAll, AnyChar |-> <<".">>, AnyByte |-> <<"\\", "C">>,
   BeginLine |-> <<"^">>, EndLine |-> <<"$">>,
   BeginText |-> <<"(", "?", "-", "m", ":", "^", ")">>,
   WordBoundary |-> <<"\\", "b">>, NoWordBoundary |-> <<"\\", "B">>]

RECURSIVE Unparse(_, _)

\* The alternatives are told that they are, and leave a bar behind; the last
\* bar is taken back.
AppendAlternatives(subs) ==
  LET all == FlattenSeq([i \in DOMAIN subs |-> Unparse(subs[i], PrecAlternate)])
  IN  SubSeq(all, 1, Len(all) - 1)

AppendNode(re, prec) ==
  CASE re.op \in DOMAIN FixedText -> FixedText[re.op]
    [] re.op = "EmptyMatch" -> IF prec < PrecEmpty THEN <<"(", "?", ":", ")">> ELSE << >>
    [] re.op = "Literal" -> AppendLiteral(re.runes[1], "FoldCase" \in re.flags)
    [] re.op = "LiteralString" ->
         Within(prec, PrecConcat,
                FlattenSeq([i \in DOMAIN re.runes |->
                              AppendLiteral(re.runes[i], "FoldCase" \in re.flags)]))
    [] re.op = "Concat" ->
         Within(prec, PrecConcat,
                FlattenSeq([i \in DOMAIN re.subs |-> Unparse(re.subs[i], PrecConcat)]))
    [] re.op = "Alternate" -> Within(prec, PrecAlternate, AppendAlternatives(re.subs))
    [] re.op \in RepeatOps \cup {"Repeat"} ->
         Within(prec, PrecUnary, Unparse(re.subs[1], PrecAtom) \o RepeatSuffix(re))
    [] re.op = "EndText" ->
         IF "WasDollar" \in re.flags THEN <<"(", "?", "-", "m", ":", "$", ")">>
         ELSE <<"\\", "z">>
    [] re.op = "CharClass" -> AppendClass(re.cc)
    [] re.op = "Capture" ->
         <<"(">> \o (IF re.name = "" THEN << >> ELSE <<"?", "P", "<">> \o Chars(re.name) \o <<">">>)
         \o Unparse(re.subs[1], PrecParen) \o <<")">>

Unparse(re, prec) ==
  AppendNode(re, prec) \o (IF prec = PrecAlternate THEN <<"|">> ELSE << >>)

RegexpToString(re) == Unparse(re, PrecToplevel)
=============================================================================
