------------------------------ MODULE MCParse -------------------------------
(***************************************************************************)
(* Patterns parsed, simplified, printed and parsed again, for TLC.  The    *)
(* patterns are put together from the pieces of some vocabularies, each    *)
(* about one part of the notation, and are held against Notation's reading *)
(* of the same pieces on all short texts of an alphabet.                   *)
(***************************************************************************)
EXTENDS Parser, Simplifier, Notation

CONSTANT Vocabularies   \* which of Vocabulary to use

VARIABLES
  pattern,   \* the pieces, the flags and what to try it on
  stage,     \* parse, or reparse of the tree printed
  tree       \* what the first parse returned

mcvars == <<vars, pattern, stage, tree>>

-----------------------------------------------------------------------------
(***************************************************************************)
(* The runes at hand, by name.                                             *)
(***************************************************************************)
NL == 10
CapA == 65   CapK == 75   Low_a == 97   Low_b == 98   Low_k == 107
One == 49   Acute == 233   Kelvin == 8490

\* The printing ASCII characters but for the backquote, which no string can hold.
Low64 == " !\"#$%&'()*+,-./0123456789:;<=>?@ABCDEFGHIJKLMNOPQRSTUVWXYZ[\\]^_"
High30 == "abcdefghijklmnopqrstuvwxyz{|}~"
PrintChars ==
  {<<31 + k, SubSeq(Low64, k, k)>> : k \in 1 .. Len(Low64)}
  \cup {<<96 + k, SubSeq(High30, k, k)>> : k \in 1 .. Len(High30)} \cup {<<96, "GRAVE">>}

MCCodeOf ==
  FoldSet(LAMBDA x, f : f @@ (x[2] :> x[1]),
          "NL" :> NL @@ "ACUTE" :> Acute @@ "KELVIN" :> Kelvin @@ "BAD" :> NoRune, PrintChars)
MCCharOf == FoldSet(LAMBDA x, f : f @@ (x[1] :> x[2]), << >>, PrintChars)
MCWordChars == (48 .. 57) \cup (65 .. 90) \cup {95} \cup (97 .. 122)

\* The part of the tables that the runes at hand fall in.
MCCaseFolds ==
  <<<<65, 90, 32>>, <<97, 106, -32>>, <<107, 107, 8383>>, <<108, 114, -32>>, <<115, 115, 268>>,
    <<116, 122, -32>>, <<383, 383, -300>>, <<452, 452, EvenOdd>>, <<453, 453, OddEven>>,
    <<454, 454, -2>>, <<8490, 8490, -8415>>>>
MCUnicodeGroups ==
  [Ll |-> [sign |-> 1, ranges |-> <<<<97, 122>>, <<181, 181>>, <<223, 246>>, <<248, 255>>>>],
   N  |-> [sign |-> 1, ranges |-> <<<<48, 57>>, <<178, 179>>, <<185, 185>>, <<188, 190>>>>]]

MCAlphabet == {NL, One, CapA, CapK, Low_a, Low_b, Low_k, Acute, Kelvin}
MCOrbits == {{CapA, Low_a}, {CapK, Low_k, Kelvin}}
Word == {One, CapA, CapK, Low_a, Low_b, Low_k}

\* The characters of a piece; BAD is a byte that is not UTF-8.
Spelling ==
  "NL" :> <<"NL">> @@ "ACUTE" :> <<"ACUTE">> @@ "KELVIN" :> <<"KELVIN">> @@ "BAD" :> <<"BAD">>
  @@ "[BAD" :> <<"[", "BAD", "]">> @@ "[a-BAD" :> <<"[", "a", "-", "BAD", "]">>
  @@ "\\BAD" :> <<"\\", "BAD">> @@ "\\xBAD" :> <<"\\", "x", "BAD">>
  @@ "\\x6BAD" :> <<"\\", "x", "6", "BAD">> @@ "\\x{BAD" :> <<"\\", "x", "{", "BAD">>
  @@ "\\x{6BAD" :> <<"\\", "x", "{", "6", "BAD">> @@ "\\p{BAD}" :> <<"\\", "p", "{", "BAD", "}">>
  @@ "\\p{BAD" :> <<"\\", "p", "{", "BAD">> @@ "\\pBAD" :> <<"\\", "p", "BAD">>
  @@ "(?P<BAD>" :> <<"(", "?", "P", "<", "BAD", ">">> @@ "(?P<BAD" :> <<"(", "?", "P", "<", "BAD">>
  @@ "POSIX \\d" :> <<"\\", "d">> @@ "POSIX \\A" :> <<"\\", "A">> @@ "POSIX \\b" :> <<"\\", "b">>
  @@ "(?BAD" :> <<"(", "?", "BAD">> @@ "\\Qa\\BAD" :> <<"\\", "Q", "a", "BAD">>
CharsOf(piece) == IF piece \in DOMAIN Spelling THEN Spelling[piece] ELSE Chars(piece)

-----------------------------------------------------------------------------
NamedItem(set) == Item(set, TRUE, FALSE)
ExceptItem(set) == Item(set, TRUE, TRUE)
Single(item) == ClassPiece(FALSE, {item})

Letters ==
  "a" :> RunePiece(Low_a) @@ "b" :> RunePiece(Low_b) @@ "k" :> RunePiece(Low_k)
  @@ "A" :> RunePiece(CapA) @@ "(?i:a)" :> Single(Listed({Low_a, CapA})) @@ "1" :> RunePiece(One) @@ "KELVIN" :> RunePiece(Kelvin)
  @@ "ACUTE" :> RunePiece(Acute) @@ "NL" :> RunePiece(NL)

Grouping ==
  "(" :> OpenPiece(TRUE, {}, {}) @@ "(?:" :> OpenPiece(FALSE, {}, {})
  @@ "(?P<x>" :> [OpenPiece(TRUE, {}, {}) EXCEPT !.kind = "open"]
  @@ "(?i:" :> OpenPiece(FALSE, {"FoldCase"}, {}) @@ "(?-i:" :> OpenPiece(FALSE, {}, {"FoldCase"})
  @@ "(?i)" :> FlagsPiece({"FoldCase"}, {}) @@ "(?s-i)" :> FlagsPiece({"DotNL"}, {"FoldCase"})
  @@ "(?m)" :> FlagsPiece({}, {"OneLine"}) @@ "(?-m:" :> OpenPiece(FALSE, {"OneLine"}, {})
  @@ "(?s)" :> FlagsPiece({"DotNL"}, {}) @@ "(?U:" :> OpenPiece(FALSE, {"NonGreedy"}, {})
  @@ ")" :> ClosePiece @@ "|" :> BarPiece

Repeating ==
  "*" :> Op(0, -1, FALSE) @@ "+" :> Op(1, -1, FALSE) @@ "?" :> Op(0, 1, FALSE)
  @@ "*?" :> Op(0, -1, TRUE) @@ "+?" :> Op(1, -1, TRUE) @@ "??" :> Op(0, 1, TRUE)
  @@ "{2}" :> Times(2, 2, FALSE) @@ "{0}" :> Times(0, 0, FALSE) @@ "{1}" :> Times(1, 1, FALSE)
  @@ "{2,}" :> Times(2, -1, FALSE) @@ "{0,1}" :> Times(0, 1, FALSE) @@ "{1,3}" :> Times(1, 3, FALSE)
  @@ "{0,2}?" :> Times(0, 2, TRUE) @@ "{5}" :> Times(5, 5, FALSE) @@ "{2,1}" :> Times(2, 1, FALSE)
  @@ "{1,}" :> Times(1, -1, FALSE)

Conditions ==
  "^" :> EmptyPiece("BeginLine") @@ "$" :> EmptyPiece("EndLine")
  @@ "\\A" :> EmptyPiece("BeginText") @@ "\\z" :> EmptyPiece("EndText")
  @@ "\\b" :> EmptyPiece("WordBoundary") @@ "\\B" :> EmptyPiece("NonWordBoundary")

Classes ==
  "." :> AnyPiece
  @@ "[ab]" :> Single(Listed({Low_a, Low_b})) @@ "[a]" :> Single(Listed({Low_a}))
  @@ "[ak]" :> Single(Listed({Low_a, Low_k}))
  @@ "[a-k]" :> Single(Listed({Low_a, Low_b, Low_k}))
  @@ "[^a]" :> ClassPiece(TRUE, {Listed({Low_a})})
  @@ "[\\na]" :> Single(Listed({NL, Low_a}))
  @@ "[^\\n]" :> ClassPiece(TRUE, {Listed({NL})})
  @@ "[]a-]" :> Single(Listed({Low_a})) @@ "[^]k]" :> ClassPiece(TRUE, {Listed({Low_k})})
  @@ "\\d" :> Single(NamedItem({One})) @@ "\\D" :> Single(ExceptItem({One}))
  @@ "\\W" :> Single(ExceptItem(Word)) @@ "[^\\W]" :> ClassPiece(TRUE, {ExceptItem(Word)})
  @@ "[\\Wk]" :> ClassPiece(FALSE, {ExceptItem(Word), Listed({Low_k})})
  @@ "[[:lower:]]" :> Single(NamedItem({Low_a, Low_b, Low_k}))
  @@ "[[:^lower:]A]" :> ClassPiece(FALSE, {ExceptItem({Low_a, Low_b, Low_k}), Listed({CapA})})
  @@ "[[:space:]]" :> Single(NamedItem({NL}))
  @@ "\\pN" :> Single(NamedItem({One})) @@ "\\P{Ll}" :> Single(ExceptItem({Low_a, Low_b, Low_k, Acute}))
  @@ "\\p{^N}" :> Single(ExceptItem({One})) @@ "[\\p{Ll}1]" :> ClassPiece(FALSE, {NamedItem({Low_a, Low_b, Low_k, Acute}), Listed({One})})
  @@ "\\p{Any}" :> Single(NamedItem(MCAlphabet)) @@ "[^\\p{Any}]" :> ClassPiece(TRUE, {NamedItem(MCAlphabet)})
  @@ "[[:word:]-k]" :> ClassPiece(FALSE, {NamedItem(Word), Listed({Low_k})})
  @@ "[^ab]" :> ClassPiece(TRUE, {Listed({Low_a, Low_b})})

Escapes ==
  "\\x61" :> RunePiece(Low_a) @@ "\\x{212a}" :> RunePiece(Kelvin) @@ "\\141" :> RunePiece(Low_a)
  @@ "\\n" :> RunePiece(NL) @@ "\\Qa(\\E" :> RunesPiece(<<Low_a, 40>>) @@ "\\Qab\\E" :> RunesPiece(<<Low_a, Low_b>>)
  @@ "{" :> RunePiece(123) @@ "\\*" :> RunePiece(42) @@ "\\101" :> RunePiece(CapA)
  @@ "[\\x61-\\x{6b}]" :> Single(Listed({Low_a, Low_b, Low_k}))

Mistakes ==
  LET wrong(code, list) == FoldLeft(LAMBDA f, x : f @@ (x :> Wrong(code)), << >>, list)
  IN  wrong("BadEscape", <<"\\8", "\\1", "\\x", "\\x6", "\\xg1", "\\x{}", "\\x{61",
                           "\\x{110000}", "\\x{6g}", "\\q", "[\\q]", "\\Z", "[a-\\1">>)
      @@ wrong("TrailingBackslash", <<"\\">>)
      @@ wrong("BadCharRange", <<"[k-a]", "[[:foo:]]", "\\pX", "[\\p{Foo}]", "\\p{N", "\\p{^}",
                                 "\\p", "\\pBAD">>)
      @@ wrong("MissingBracket", <<"[", "[a", "[a-", "[^", "[]", "[[:a">>)
      @@ wrong("BadUTF8", <<"BAD", "[BAD", "[a-BAD", "\\BAD", "\\xBAD", "\\x6BAD", "\\x{BAD",
                            "\\x{6BAD", "\\p{BAD}", "\\p{BAD", "(?P<BAD>", "(?P<BAD", "(?BAD",
                            "\\Qa\\BAD", "\\x{">>)
      @@ wrong("BadPerlOp", <<"(?", "(?i", "(?i-", "(?i-:", "(?x:", "(?--i)", "(?P=x)">>)
      @@ wrong("BadNamedCapture", <<"(?P<x", "(?P<>", "(?P<x y>">>)

\* Without Perl's syntax a hyphen stands only at an end of a class.
Strict ==
  "[a-b-k]" :> Wrong("BadCharRange") @@ "[ab-" :> Wrong("BadUTF8")
  @@ "[a-b-]" :> Single(Listed({Low_a, Low_b})) @@ "(?:a)" :> Wrong("RepeatArgument")
  @@ "POSIX \\d" :> Wrong("BadEscape") @@ "POSIX \\A" :> Wrong("BadEscape")
  @@ "POSIX \\b" :> Wrong("BadEscape")

MCPieceOf ==
  Letters @@ Grouping @@ Repeating @@ Conditions @@ Classes @@ Escapes @@ Mistakes @@ Strict

-----------------------------------------------------------------------------
(***************************************************************************)
(* Vocabularies: which pieces, at most how many of them, under which       *)
(* flags, and texts of how many of which runes.  The flags are such as     *)
(* RE2::Options::ParseFlags yields, and ClassNL is missing in one set, as  *)
(* it may where Regexp::Parse is called.                                   *)
(***************************************************************************)
LikePerl == {"ClassNL", "OneLine", "PerlClasses", "PerlB", "PerlX", "UnicodeGroups"}
Posix == {"ClassNL"}
Over(runes, length) == [runes |-> runes, length |-> length]
Voc(words, max, flags, over) == [pieces |-> words, max |-> max, flags |-> flags, over |-> over]

Small == Over({Low_a, Low_b}, 2)
Cased == Over({Low_a, CapA, Low_k, Kelvin}, 2)
Lines == Over({Low_a, NL}, 3)

Vocabulary ==
  [factoring |-> Voc({"a", "b", "|"}, 6, {LikePerl}, Over({Low_a, Low_b}, 3)),
   merging   |-> Voc({"a", "[ab]", "^", "|", "{2}", "."}, 4, {LikePerl}, Small),
   groups    |-> Voc({"a", "b", "(", "(?P<x>", "(?:", ")", "|"}, 4,
                     {LikePerl}, Small),
   captures  |-> Voc({"a", "(", "(?:", ")", "|"}, 3, {LikePerl \cup {"NeverCapture"}}, Small),
   quests    |-> Voc({"a", "[ab]", "?", ".", "^"}, 2, {LikePerl, Posix}, Small),
   repeats   |-> Voc({"a", "(?:", "(", ")", "*", "+?", "{2}", "{2,}", "{1,3}"}, 3,
                     {LikePerl}, Over({Low_a}, 3)),
   stacked   |-> Voc({"a", "*", "+", "{2}", "{0}", "{1,}", "{1,3}", "{5}", "{2,1}", "{"}, 3,
                     {Posix, LikePerl}, Small),
   runs      |-> Voc({"a", "b", "*", "*?", "{2}", "{2,}", "\\Qab\\E"}, 3, {LikePerl}, Over({Low_a, Low_b}, 3)),
   folds     |-> Voc({"a", "k", "1", "(?i)", "(?i:", "(?-i:", ")", "[a-k]"}, 3, {LikePerl}, Cased),
   folded    |-> Voc({"a", "k", "1", "|", "[ab]", "[a-k]", "KELVIN"}, 3,
                     {LikePerl \cup {"FoldCase"}}, Cased),
   latin1    |-> Voc({"k", "ACUTE", "|", "[a-k]", "[^a]", "."}, 3,
                     {{"ClassNL", "Latin1"}, {"ClassNL", "Latin1", "FoldCase"}},
                     Over({Low_k, CapK, Acute, NL}, 2)),
   classes   |-> Voc(DOMAIN Classes, 1,
                     {LikePerl, LikePerl \cup {"FoldCase"}, LikePerl \cup {"NeverNL"},
                      LikePerl \cup {"DotNL"}, LikePerl \cup {"NeverNL", "FoldCase", "DotNL"},
                      LikePerl \ {"ClassNL"}, (LikePerl \ {"ClassNL"}) \cup {"FoldCase"}},
                     Over(MCAlphabet, 1)),
   lines     |-> Voc({"a", "NL", "^", "$", ".", "|", "(?m)", "(?-m:", ")", "(?s)"}, 3,
                     {LikePerl, LikePerl \cup {"NeverNL"}}, Lines),
   posix     |-> Voc({"a", "[ab]", "^", "$", "*", ".", "(", ")", "|"}, 3, {Posix}, Lines),
   edges     |-> Voc({"a", "1", "\\b", "\\B", "\\A", "\\z", "^", "$", "*", "(", ")"}, 3, {LikePerl},
                     Over({Low_a, NL}, 2)),
   lazy      |-> Voc({"a", "*", "??", "+?", "{0,2}?", "(?U:", ")", "b"}, 4, {LikePerl}, Small),
   escapes   |-> Voc(DOMAIN Escapes \cup {"a", "*"}, 2, {LikePerl, LikePerl \cup {"FoldCase"}}, Cased),
   mistakes  |-> Voc(DOMAIN Mistakes, 1, {LikePerl}, Over({}, 0)),
   strict    |-> Voc(DOMAIN Strict, 1, {Posix}, Small),
   literal   |-> Voc({"a", "k", ".", "(", "[a]", "\\d", "*", "BAD"}, 2,
                     {LikePerl \cup {"Literal"}, LikePerl \cup {"Literal", "FoldCase"}}, Cased),
   prefixes  |-> Voc({"^", "a", "b", "(", ")", "(?i)", "$", "{2}"}, 4, {LikePerl}, Small),
   mixed     |-> Voc({"a", "(?i:a)", "[ak]", "|", "1"}, 3, {LikePerl}, Cased),
   named     |-> Voc({"(?P<x>", "(", "a", ")"}, 3, {LikePerl \cup {"NeverCapture"}}, Over({}, 0))]

MCInit ==
  \E name \in Vocabularies :
    LET v == Vocabulary[name] IN
    \E f \in v.flags, n \in 0 .. v.max : \E words \in [1 .. n -> v.pieces] :
      /\ pattern = [pieces |-> words, flags |-> f, over |-> v.over]
      /\ Start(FlattenSeq([i \in 1 .. n |-> CharsOf(words[i])]), f)
      /\ stage = "parse" /\ tree = NoRe

\* What ToString prints is for Perl's syntax, with "." and classes that match
\* newline, as parse_test.cc reads it.
ReparseFlags == {"ClassNL", "DotNL", "PerlX", "PerlClasses", "PerlB", "UnicodeGroups"}

Reparse ==
  /\ stage = "parse" /\ ps.status = "Done"
  /\ stage' = "reparse" /\ tree' = Parsed
  /\ t' = RegexpToString(Parsed) /\ ps' = NewParse(ReparseFlags) /\ lastunary' = FALSE
  /\ UNCHANGED pattern

MCNext == (Parse /\ UNCHANGED <<pattern, stage, tree>>) \/ Reparse
MCSpec == MCInit /\ [][MCNext]_mcvars

-----------------------------------------------------------------------------
Texts(over) == UNION {[1 .. n -> over.runes] : n \in 0 .. over.length}
MaxGroups == 6
NoGroups == [i \in 0 .. 2 * MaxGroups + 1 |-> -1]

\* Do two regexps match the same, and prefer the same?  Not asked of loops over
\* what can be empty.
Agree(re1, re2) ==
  RepeatsEmpty(re1) \/ RepeatsEmpty(re2) \/
  \A text \in Texts(pattern.over) : \A p \in 0 .. Min({1, Len(text)}) :
    Ends(re1, text, p, NoGroups) = Ends(re2, text, p, NoGroups)

\* The reading of the pattern; as a literal it is nothing but runes.
Expected ==
  IF "Literal" \notin pattern.flags THEN ReadPieces(pattern.pieces, pattern.flags)
  ELSE LET chars == FlattenSeq([i \in DOMAIN pattern.pieces |-> CharsOf(pattern.pieces[i])])
       IN  IF IsValidUTF8(chars)
             THEN Step(NewGroup(<< >>, pattern.flags, 0, 0),
                       RunesPiece([i \in DOMAIN chars |-> CodeOf[chars[i]]]))
           ELSE WithError(NewGroup(<< >>, pattern.flags, 0, 0), "BadUTF8")

IsParsed == stage = "parse" /\ ps.status = "Done"
Failed == ps.status \notin {"Success", "Done"}

\* The parse state holds group numbers that the pattern can give, and classes
\* whose ranges neither overlap nor abut, with the right count of runes.
WellFormedClass(cc) ==
  /\ \A x \in cc.ranges : x[1] \in 0 .. Runemax /\ x[2] \in x[1] .. Runemax
  /\ \A x, y \in cc.ranges : x = y \/ x[2] + 1 < y[1] \/ y[2] + 1 < x[1]
  /\ cc.nrunes = SizeOf(cc.ranges)
ParseTypeOK ==
  /\ stage \in {"parse", "reparse"} /\ lastunary \in BOOLEAN
  /\ ps.ncap \in 0 .. MaxGroups /\ ps.status \in STRING
  /\ \A i \in DOMAIN ps.stack : ps.stack[i].op = "CharClass" => WellFormedClass(ps.stack[i].cc)

\* A pattern that is accepted matches what its pieces say, prefers the same
\* matches and sets the same groups, after all that is done to it: strings and
\* classes put together, alternatives factored, repetitions squashed, coalesced
\* and spelled out.
PatternMeans ==
  IsParsed => Agree(Meaning(Expected), ToRegexp(Simplify(Parsed)))

\* A pattern is rejected exactly if a piece of it is wrong where it stands, with
\* the error of the first such piece: among them counts whose product over nested
\* repetitions is too large.
ErrorsAgree ==
  stage = "parse" /\ (Failed \/ IsParsed) =>
    Expected.code = IF IsParsed THEN "Success" ELSE ps.status

\* Whatever simple_ was cached while the tree was rearranged, Simplify leaves no
\* operator that the compiler cannot compile.
RECURSIVE Compilable(_)
Compilable(re) ==
  /\ re.op # "Repeat"
  /\ re.op = "CharClass" => ~IsEmptyClass(re.cc)
  /\ \A i \in DOMAIN re.subs : Compilable(re.subs[i])
SimplifiedFully == ps.status = "Done" => Compilable(Simplify(Parsed))

\* Every group of the pattern is in the tree once, numbered from the left, and
\* a name leads to the leftmost group that has it; simplifying, which copies
\* groups, keeps the numbers.
GroupsNumbered ==
  IsParsed =>
    LET groups == Captures(Parsed) IN
    /\ NumCaptures(Parsed) = Expected.ncap
    /\ \A i \in DOMAIN groups : groups[i].cap = i
    /\ \A name \in DOMAIN NamedCaptures(Parsed) :
         /\ groups[NamedCaptures(Parsed)[name]].name = name
         /\ \A i \in 1 .. NamedCaptures(Parsed)[name] - 1 : groups[i].name # name
    /\ \A i \in DOMAIN groups :
         groups[i].name # "" => CaptureNames(Parsed)[i] = groups[i].name
    /\ {c.cap : c \in ToSet(Captures(Simplify(Parsed)))} \subseteq DOMAIN groups

\* What ToString prints is a pattern again, and means the same.
PrintedMeans ==
  stage = "reparse" =>
    /\ ~Failed
    /\ ps.status = "Done" => Agree(ToRegexp(tree), ToRegexp(Parsed))

SameRune(x, y, fold) == x = y \/ (fold /\ ToLower(x) = ToLower(y))
Begins(pre, text, p) ==
  /\ Len(pre.runes) <= Len(text) - p
  /\ \A i \in DOMAIN pre.runes : SameRune(text[p + i], pre.runes[i], pre.fold)

\* The prefix that RE2 compares first is one that a match must have, and what is
\* left of the regexp matches behind it just where the whole does; the prefix
\* that the compiler looks for begins every match.
PrefixesRequired ==
  IsParsed =>
    LET re    == ToRegexp(Parsed)
        pre   == RequiredPrefix(Parsed)
        accel == RequiredPrefixForAccel(Simplify(Parsed))
    IN  \A text \in Texts(pattern.over) : \A p \in 0 .. Min({1, Len(text)}) :
          LET ends == Ends(re, text, p, NoGroups) IN
          /\ accel.ok => ends = << >> \/ Begins(accel, text, p)
          /\ pre.ok =>
               ends = IF p = 0 /\ Begins(pre, text, 0)
                        THEN Ends(ToRegexp(pre.suffix), text, Len(pre.runes), NoGroups)
                      ELSE << >>

\* "If lo-hi is already in the class, assume that the fold-equivalent chars are
\* there too" (parse.cc:345): an alternative under (?i) still matches both cases
\* when it is merged with its neighbours into one class.
FoldsAreThere ==
  IsParsed => Agree(Meaning(Expected), ToRegexp(Parsed))
=============================================================================
