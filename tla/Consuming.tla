----------------------------- MODULE Consuming ------------------------------
(***************************************************************************)
(* FullMatchN, PartialMatchN, ConsumeN and FindAndConsumeN                 *)
(* (re2/re2/re2.cc): a caller who reads a text bit by bit and has the      *)
(* submatches converted, and the parsers for arguments                     *)
(* (re2_internal::Parse): which strings they take for numbers of which     *)
(* type.  strtol and its relatives are the C library's.                    *)
(***************************************************************************)
EXTENDS Answers

CONSTANTS MaxNumberLength,   \* kMaxNumberLength, 32
          LongMax            \* the largest long

Minus == 45
Plus1 == 43
Zero == 48
X == 120
Spaces == 9 .. 13 \cup {32}
isspace(c) == c \in Spaces

\* An integer type: signed or not, and the largest number.
Signed(max) == [kind |-> "integer", signed |-> TRUE, max |-> max]
Unsigned(max) == [kind |-> "integer", signed |-> FALSE, max |-> max]
LowestOf(type) == IF type.signed THEN -type.max - 1 ELSE 0

-----------------------------------------------------------------------------
\* One zero less as long as there are three at the beginning.
LeadingZeros(s) ==
  CHOOSE n \in 0 .. Len(s) :
    (\A k \in 1 .. n : s[k] = Zero) /\ (n < Len(s) => s[n + 1] # Zero)
WithoutZeros(s) ==
  LET n == LeadingZeros(s) IN SubSeq(s, IF n > 2 THEN n - 1 ELSE 1, Len(s))

\* Mutant of Shortened: the sign is forgotten.
ShortenedWithoutSign(s) == WithoutZeros(s)

\* All leading zeros but two are left out, behind a sign too.
Shortened(s) ==
  IF s # << >> /\ s[1] = Minus THEN <<Minus>> \o WithoutZeros(Tail(s)) ELSE WithoutZeros(s)

\* TerminateNumber, for numbers that may not begin with a space.  What it
\* refuses becomes the empty string, with the length that was given.
TerminateNumber(s) ==
  LET short == Shortened(s)
  IN  IF isspace(s[1]) \/ Len(short) > MaxNumberLength THEN [buf |-> << >>, n |-> Len(s)]
      ELSE [buf |-> short, n |-> Len(short)]

-----------------------------------------------------------------------------
(***************************************************************************)
(* strtol: a sign, a prefix, the digits.                                   *)
(***************************************************************************)
DigitOf(c) == CASE c \in 48 .. 57 -> c - 48 [] c \in 97 .. 102 -> c - 87 [] OTHER -> 99

SignSize(s) == IF s # << >> /\ s[1] \in {Minus, Plus1} THEN 1 ELSE 0
IsHex(s, k, radix) ==
  /\ radix \in {0, 16} /\ k + 2 < Len(s)
  /\ s[k + 1] = Zero /\ s[k + 2] = X /\ DigitOf(s[k + 3]) < 16
RadixOf(s, k, radix) ==
  CASE radix # 0 -> radix
    [] radix = 0 /\ IsHex(s, k, 0) -> 16
    [] radix = 0 /\ ~IsHex(s, k, 0) /\ k < Len(s) /\ s[k + 1] = Zero -> 8
    [] OTHER -> 10

\* Where the digits from k on end, and the number they are.
DigitsFrom(s, k, radix) ==
  LET last == CHOOSE n \in k - 1 .. Len(s) :
                /\ \A j \in k .. n : DigitOf(s[j]) < radix
                /\ n < Len(s) => DigitOf(s[n + 1]) >= radix
      upto[n \in k - 1 .. last] ==
        IF n < k THEN 0 ELSE upto[n - 1] * radix + DigitOf(s[n])
  IN  [end |-> last, value |-> upto[last]]

\* The number at the beginning of s and where it ends; 0 if there is none.
strtol(s, radix) ==
  LET k     == SignSize(s)
      base  == RadixOf(s, k, radix)
      first == k + 1 + IF IsHex(s, k, radix) THEN 2 ELSE 0
      run   == DigitsFrom(s, first, base)
      value == IF k = 1 /\ s[1] = Minus THEN -run.value ELSE run.value
  IN  IF run.end < first THEN [end |-> 0, value |-> 0] ELSE [end |-> run.end, value |-> value]

-----------------------------------------------------------------------------
Refused == [ok |-> FALSE]
Converted(v) == [ok |-> TRUE, value |-> v]

LongOf(type) == IF type.signed THEN Signed(LongMax) ELSE Unsigned(2 * LongMax + 1)
InRange(v, type) == LowestOf(type) <= v /\ v <= type.max

\* Parse for long and unsigned long, and then for what is narrower.
ParseLong(s, type, radix) ==
  LET t == TerminateNumber(s)
      r == strtol(t.buf, radix)
  IN  IF s = << >> THEN Refused
      ELSE IF ~type.signed /\ t.buf # << >> /\ t.buf[1] = Minus THEN Refused
      ELSE IF r.end # t.n \/ ~InRange(r.value, LongOf(type)) THEN Refused
      ELSE Converted(r.value)

ParseInteger(s, type, radix) ==
  LET r == ParseLong(s, type, radix)
  IN  IF r.ok /\ ~InRange(r.value, type) THEN Refused ELSE r

ParseString(s) == Converted(s)
ParseChar(s) == IF Len(s) = 1 THEN Converted(s[1]) ELSE Refused
ParseNothing(s) == Converted("nothing")    \* a NULL void*

-----------------------------------------------------------------------------
CONSTANTS Readers,    \* a regexp, its groups, and the types of the arguments
          Inputs,     \* texts
          NArgMax     \* how many arguments are passed

ASSUME InputsAssumption == NArgMax \in Nat /\ \A t \in Inputs : t \in Seq(Nat)

\* The ways to match of those who read bit by bit are the same in the text and
\* in what is left of it: their regexps look at nothing before the match.
ASSUME ReadersAssumption ==
  \A x \in Readers, t \in Inputs : \A f \in 0 .. Len(t) : \A q \in f .. Len(t) :
    LET whole == WaysOf(x.regexp, t, Len(t), q)
        rest  == WaysOf(x.regexp, SubSeq(t, f + 1, Len(t)), Len(t) - f, q - f)
    IN  /\ whole \in Seq([p : q .. Len(t), caps : AnyCaps])
        /\ rest \in Seq([p : q - f .. Len(t) - f, caps : AnyCaps])
        /\ DOMAIN whole = DOMAIN rest
        /\ \A n \in DOMAIN whole : whole[n].p = rest[n].p + f

VARIABLES reader, text, \* who reads what
          from,         \* *input: the text behind this position
          args,         \* what the arguments point to
          ret,          \* what the last call returned
          called,       \* the last call
          taken         \* history: what has been consumed, place by place

cvars == <<reader, text, from, args, ret, called, taken>>

Unwritten == "unwritten"
NoCall == [fun |-> "none", n |-> 0]

ConsumeInit ==
  /\ reader \in Readers /\ text \in Inputs
  /\ from = 0 /\ ret = FALSE /\ called = NoCall /\ taken = << >>
  /\ args = [k \in 1 .. NArgMax |-> Unwritten]

-----------------------------------------------------------------------------
Input == SubSeq(text, from + 1, Len(text))
Anchored(fun) == fun \in {"FullMatch", "Consume"}
SearchOf(fun) ==
  [text |-> Input, b |-> 0, e |-> Len(Input), anchored |-> Anchored(fun),
   kind |-> IF fun = "FullMatch" THEN "full" ELSE "first"]
MatchOf(fun) == Answer(reader.regexp, SearchOf(fun))

\* A group that did not take part is the empty string.
GroupText(m, k) == SubSeq(Input, m[2 * k] + 1, m[2 * k + 1])
Parsed(m, k) ==
  LET type == reader.types[k] IN
  CASE type.kind = "string"  -> ParseString(GroupText(m, k))
    [] type.kind = "char"    -> ParseChar(GroupText(m, k))
    [] type.kind = "nothing" -> ParseNothing(GroupText(m, k))
    [] type.kind = "integer" -> ParseInteger(GroupText(m, k), type, 10)

\* The arguments before the first that cannot be converted.
Stored(m, n) ==
  {k \in 1 .. n : \A j \in 1 .. k : Parsed(m, j).ok}

\* DoMatch, and what the call does with the answer.  The arguments that could
\* be converted keep their values even if a later one cannot.
DoMatch(fun, n) ==
  LET m == MatchOf(fun)
      matched == n <= reader.captures /\ m # NoAnswer
      stored  == IF matched THEN Stored(m, n) ELSE {}
  IN  /\ called' = [fun |-> fun, n |-> n]
      /\ ret' = (matched /\ stored = 1 .. n)
      /\ args' = [k \in DOMAIN args |-> IF k \in stored THEN Parsed(m, k).value ELSE args[k]]
      /\ UNCHANGED <<reader, text>>

\* Mutant of Consumed: the text that matched is consumed, converted or not.
ConsumedAnyway(fun) ==
  LET m == MatchOf(fun) IN
  IF m # NoAnswer THEN /\ from' = from + m[1]
                       /\ taken' = IF ret' THEN Append(taken, <<from + m[0], from + m[1]>>) ELSE taken
  ELSE UNCHANGED <<from, taken>>

Consumed(fun) ==
  LET m == MatchOf(fun) IN
  IF ret' THEN from' = from + m[1] /\ taken' = Append(taken, <<from + m[0], from + m[1]>>)
  ELSE UNCHANGED <<from, taken>>

FullMatchN == \E n \in 0 .. NArgMax : DoMatch("FullMatch", n) /\ UNCHANGED <<from, taken>>
PartialMatchN == \E n \in 0 .. NArgMax : DoMatch("PartialMatch", n) /\ UNCHANGED <<from, taken>>
ConsumeN == \E n \in 0 .. NArgMax : DoMatch("Consume", n) /\ Consumed("Consume")
FindAndConsumeN ==
  \E n \in 0 .. NArgMax : DoMatch("FindAndConsume", n) /\ Consumed("FindAndConsume")

\* Bound: the caller stops when it has consumed as much as the text is long
\* plus one, for an empty match is consumed again and again.
CallAgain == Len(taken) <= Len(text)

ConsumeNext == CallAgain /\ (FullMatchN \/ PartialMatchN \/ ConsumeN \/ FindAndConsumeN)

ConsumeSpec == ConsumeInit /\ [][ConsumeNext]_cvars

-----------------------------------------------------------------------------
\* A match of the whole text that begins at q, if the regexp does not look at
\* what is around it.
BeginsAt(q) ==
  Answer(reader.regexp, [text |-> text, b |-> q, e |-> Len(text), anchored |-> TRUE, kind |-> "first"])

\* What has been consumed are successive matches of the text, and what has
\* been passed over begins no match: a call that fails, be it that the text
\* does not match or that a submatch is no number, consumes nothing
\* (re2.cc:383-403, 882-943).  A full match agrees with a search that finds
\* all of the input.
ConsumedInTurn ==
  /\ from = (IF taken = << >> THEN 0 ELSE taken[Len(taken)][2])
  /\ \A k \in DOMAIN taken :
       LET before == IF k = 1 THEN 0 ELSE taken[k - 1][2]
           m      == BeginsAt(taken[k][1])
       IN  /\ before <= taken[k][1]
           /\ m # NoAnswer /\ m[1] = taken[k][2]
           /\ \A q \in before .. taken[k][1] - 1 : BeginsAt(q) = NoAnswer
  /\ called.fun = "FullMatch" /\ ret =>
       \E w \in {Ways(reader.regexp, SearchOf("Consume"), 0)[k]
                 : k \in DOMAIN Ways(reader.regexp, SearchOf("Consume"), 0)} : w.p = Len(Input)
=============================================================================
