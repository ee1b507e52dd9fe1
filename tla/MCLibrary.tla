----------------------------- MODULE MCLibrary ------------------------------
(***************************************************************************)
(* The callers and the helpers of RE2, each on its own: Replace and its    *)
(* relatives, the consuming matches, the parsers of numbers, the binding   *)
(* to Perl, sparse containers, reference counts and the walker.  A         *)
(* behaviour is one of one part, which has the variables to itself.        *)
(***************************************************************************)
EXTENDS Regexps, SparseSets, References, Replacing, Consuming, PerlEngine

(***************************************************************************)
(* What the callers of RE2 are modelled with: regexps, texts, rewrite      *)
(* strings and Perl patterns, in bytes of UTF-8.                           *)
(***************************************************************************)
a == 97
b == 98
one == 49
Acute == <<195, 169>>
Lit(r) == Literal(<<r>>, FALSE)
Two(x, y) == Concat(<<x, y>>)
Greedily(x) == Star(x, FALSE)
Maybe(x) == Quest(x, FALSE)
Byte1 == CharClass(<< <<0, 255>> >>)

\* a*, (\xc3\xa9)?, (a)(b?), |ab, (a)|ab, \b, \B, (\B)\C?, (\C), \Ab? and b*?\z.
Object(regexp, captures, utf8, longest) ==
  [regexp |-> regexp, captures |-> captures, utf8 |-> utf8, longest |-> longest]
MCObjects == {
  Object(Greedily(Lit(a)), 0, TRUE, FALSE),
  Object(Greedily(Lit(a)), 0, FALSE, FALSE),
  Object(Maybe(Capture(Literal(Acute, FALSE), 1)), 1, TRUE, FALSE),
  Object(Two(Capture(Lit(a), 1), Capture(Maybe(Lit(b)), 2)), 2, TRUE, FALSE),
  Object(Alternate(<<EmptyMatch, Literal(<<a, b>>, FALSE)>>), 0, TRUE, FALSE),
  Object(Alternate(<<Capture(Lit(a), 1), Literal(<<a, b>>, FALSE)>>), 1, FALSE, TRUE),
  Object(Empty("WordBoundary"), 0, TRUE, FALSE),
  Object(Empty("NonWordBoundary"), 0, TRUE, FALSE),
  Object(Two(Capture(Empty("NonWordBoundary"), 1), Maybe(Byte1)), 1, TRUE, FALSE),
  Object(Capture(Byte1, 1), 1, TRUE, FALSE),
  Object(Two(Empty("BeginText"), Maybe(Lit(b))), 0, TRUE, FALSE),
  Object(Two(Star(Lit(b), TRUE), Empty("EndText")), 0, TRUE, FALSE)}

MCStrings == UNION {[1 .. k -> {a, b}] : k \in 0 .. 3} \cup
  {Acute, <<a>> \o Acute, Acute \o <<a>>, Acute \o Acute, <<b, 195, b>>, <<195>>,
   <<244, 144, 128, 128>>, <<244, 144, 128, 128, a>>, <<169, a, 169>>, Acute \o <<b, a, 195>>}

\* Nothing, x, \0, x\1, \2x, \\, and what is ill-formed: x\, 0\x, \9.
MCRewrites == {<< >>, <<120>>, <<92, 48>>, <<120, 92, 49>>, <<92, 50, 120>>, <<92, 92>>,
  <<120, 92>>, <<48, 92, 120>>, <<92, 57>>}

\* What is read bit by bit: (-?1*)(a?), (a|1)-?(1)?, ([1a]*?) and (\C)(\C)?.
Kind(kind) == [kind |-> kind]
Reader(regexp, types) == [regexp |-> regexp, captures |-> Len(types), types |-> types]
MCReaders == {
  Reader(Two(Capture(Two(Maybe(Lit(45)), Greedily(Lit(one))), 1), Capture(Maybe(Lit(a)), 2)),
         <<Signed(3), Kind("char")>>),
  Reader(Two(Capture(CharClass(<< <<one, one>>, <<a, a>> >>), 1),
             Two(Maybe(Lit(45)), Maybe(Capture(Lit(one), 2)))),
         <<Unsigned(1), Kind("string")>>),
  Reader(Capture(Star(CharClass(<< <<one, one>>, <<a, a>> >>), TRUE), 1), <<Kind("nothing")>>),
  Reader(Two(Capture(Byte1, 1), Maybe(Capture(Byte1, 2))), <<Kind("char"), Signed(1)>>)}
MCInputs == UNION {[1 .. k -> {a, one, 45}] : k \in 0 .. 3} \cup
  {<<one, one, one, one>>, <<45, one, a, one>>, <<a, 45, one, one>>}

\* Numbers grow from these: 0, 1, 7, -, +, x and a space.
MCDigits == {48, 49, 55, 45, 43, 120, 32}
MCTypes == {Signed(1), Unsigned(3), Signed(3), Unsigned(7)}

\* a, (a)|b, (a*)(b)?, b*, (a)?(b)?, \b(a), (\Aa)|b(a)?, a|(a)b for the longest
\* match, and what RE2 does not compile.
Pattern(regexp, captures, longest) ==
  [regexp |-> regexp, captures |-> captures, longest |-> longest,
   extended |-> FALSE, accepted |-> TRUE]
MCPatterns == {
  Pattern(Lit(a), 0, FALSE),
  Pattern(Alternate(<<Capture(Lit(a), 1), Lit(b)>>), 1, FALSE),
  Pattern(Two(Capture(Greedily(Lit(a)), 1), Maybe(Capture(Lit(b), 2))), 2, FALSE),
  Pattern(Greedily(Lit(b)), 0, FALSE),
  Pattern(Two(Maybe(Capture(Lit(a), 1)), Maybe(Capture(Lit(b), 2))), 2, FALSE),
  Pattern(Two(Empty("WordBoundary"), Capture(Lit(a), 1)), 1, FALSE),
  Pattern(Alternate(<<Capture(Two(Empty("BeginText"), Lit(a)), 1),
                      Two(Lit(b), Maybe(Capture(Lit(a), 2)))>>), 2, FALSE),
  Pattern(Alternate(<<Lit(a), Two(Capture(Lit(a), 1), Lit(b))>>), 1, TRUE),
  [Pattern(Lit(a), 0, FALSE) EXCEPT !.extended = TRUE],
  [Pattern(EmptyMatch, 0, FALSE) EXCEPT !.accepted = FALSE],
  [Pattern(EmptyMatch, 0, FALSE) EXCEPT !.extended = TRUE, !.accepted = FALSE]}
MCSubjects == UNION {[1 .. k -> {a, b}] : k \in 0 .. 3} \cup
  {<<a, a, b, a>>, <<a, 32, a, a>>, <<b, a, 32, a>>}

\* What is left in uninitialised memory.
MCGarbage == {-1, 0, 1}

-----------------------------------------------------------------------------
CONSTANTS NumberLen, Budgets

VARIABLES
  part,       \* the part that a behaviour is about
  number,     \* a string that grows, to be read as a number
  dag, use_copy, budget, max_visits, frames, stopped_early, walked   \* Walker's

walkvars == <<dag, use_copy, budget, max_visits, frames, stopped_early, walked>>
Unused == "unused"

\* Regexps that share subexpressions: x{3} of a group, x*x*y, y(yy)(yy)y, one
\* where the visitor stops, and a single node.
Dag(subs, stops) == [subs |-> subs, stops |-> stops]
Dags == {
  Dag(<< <<2, 2, 2>>, <<3>>, << >> >>, {}),
  Dag(<< <<2, 2, 3>>, <<3>>, << >> >>, {3}),
  Dag(<< <<3, 2, 2, 3>>, <<3, 3>>, << >> >>, {}),
  Dag(<< <<2, 3>>, <<4, 4>>, <<4, 3, 4>>, << >> >>, {3}),
  Dag(<< << >> >>, {})}
Walk == INSTANCE Walker WITH stack <- frames, result <- walked

-----------------------------------------------------------------------------
\* The parts that a behaviour is not about.
NoArray ==
  /\ max = 0 /\ size = 0 /\ answer = FALSE
  /\ sparse = [k \in {} |-> 0] /\ dense = sparse /\ values = sparse /\ entries = sparse
NoReplacing ==
  /\ object = Unused /\ str = Unused /\ rewrite = Unused /\ doing = Unused /\ fun = Unused
  /\ p = Unused /\ lastend = Unused /\ out = Unused /\ count = Unused /\ result = Unused
  /\ text0 = Unused /\ replaced = Unused
NoConsuming ==
  /\ reader = Unused /\ text = Unused /\ from = 0 /\ args = Unused /\ ret = Unused
  /\ called = NoCall /\ taken = << >>
NoPerl ==
  /\ pattern = Unused /\ strict = FALSE /\ subject = Unused /\ finds = Unused /\ stage = Unused
  /\ nparens = Unused /\ offs = Unused /\ lastparen = Unused /\ pos = Unused
  /\ zerolen = Unused /\ found = << >>
NoWalk ==
  /\ dag = Unused /\ use_copy = Unused /\ budget = Unused /\ max_visits = Unused
  /\ frames = Unused /\ stopped_early = Unused /\ walked = Unused

Parts == {"Replacing", "Consuming", "Perl", "Walk", "Numbers", "Sparse", "Counts"}

LibraryInit ==
  /\ part \in Parts
  /\ RInit
  /\ IF part = "Sparse" THEN AInit ELSE NoArray
  /\ IF part = "Replacing" THEN ReplaceInit ELSE NoReplacing
  /\ IF part = "Consuming" THEN ConsumeInit ELSE NoConsuming
  /\ IF part = "Perl" THEN PerlInit ELSE NoPerl
  /\ IF part = "Walk" THEN Walk!Init ELSE NoWalk
  /\ number = IF part = "Numbers" THEN << >> ELSE Unused

GrowNumber ==
  /\ Len(number) < NumberLen
  /\ \E c \in MCDigits : (isspace(c) => number = << >>) /\ number' = Append(number, c)

LibraryNext ==
  \/ /\ part = "Replacing" /\ ReplaceNext
     /\ UNCHANGED <<part, number, walkvars, avars, rvars, cvars, perlvars>>
  \/ /\ part = "Consuming" /\ ConsumeNext
     /\ UNCHANGED <<part, number, walkvars, avars, rvars, replacevars, perlvars>>
  \/ /\ part = "Perl" /\ PerlNext
     /\ UNCHANGED <<part, number, walkvars, avars, rvars, replacevars, cvars>>
  \/ /\ part = "Walk" /\ Walk!Next
     /\ UNCHANGED <<part, number, avars, rvars, replacevars, cvars, perlvars>>
  \/ /\ part = "Numbers" /\ GrowNumber
     /\ UNCHANGED <<part, walkvars, avars, rvars, replacevars, cvars, perlvars>>
  \/ /\ part = "Sparse" /\ ANext
     /\ UNCHANGED <<part, number, walkvars, rvars, replacevars, cvars, perlvars>>
  \/ /\ part = "Counts" /\ RNext
     /\ UNCHANGED <<part, number, walkvars, avars, replacevars, cvars, perlvars>>

libraryvars == <<part, number, walkvars, avars, rvars, replacevars, cvars, perlvars>>
LibrarySpec == LibraryInit /\ [][LibraryNext]_libraryvars

\* A Perl program that does nothing but a loop, while ($text =~ /.../g), and
\* gets on with it.
LoopInit == part = "Perl" /\ LibraryInit
LoopNext ==
  /\ PerlLoopNext
  /\ UNCHANGED <<part, number, walkvars, avars, rvars, replacevars, cvars>>
LoopSpec == LoopInit /\ [][LoopNext]_libraryvars /\ WF_perlvars(LoopNext)

-----------------------------------------------------------------------------
WalkIsRecursion == part = "Walk" => Walk!WalkIsRecursion

-----------------------------------------------------------------------------
(***************************************************************************)
(* What the parsers of numbers accept, said by how a number is written.    *)
(***************************************************************************)
Radixes == {0, 8, 10, 16}
Signs == {<< >>, <<Minus>>, <<Plus1>>}
HexPrefixes == {<< >>, <<Zero, X>>}
RadixMeant(radix, prefix, digits) ==
  IF radix # 0 THEN radix
  ELSE IF prefix # << >> THEN 16 ELSE IF digits[1] = Zero THEN 8 ELSE 10
Magnitude(digits, radix) == FoldLeft(LAMBDA n, c : n * radix + c - Zero, 0, digits)

\* The values that a string of a sign, a prefix and digits can have; + and 0x
\* count for the length, leading zeros do not.
ValuesOf(t, type, radix) ==
  {v \in LowestOf(type) .. type.max :
    \E sign \in Signs, prefix \in HexPrefixes :
      LET n      == Len(sign) + Len(prefix)
          digits == SubSeq(t, n + 1, Len(t))
      IN  /\ n < Len(t) /\ sign \o prefix = SubSeq(t, 1, n)
          /\ \A k \in DOMAIN digits : digits[k] \in {48, 49, 55}
          /\ prefix # << >> => radix \in {0, 16}
          /\ sign = <<Minus>> => type.signed
          /\ sign = <<Plus1>> \/ prefix # << >> => Len(t) <= MaxNumberLength
          /\ v = LET m == Magnitude(digits, RadixMeant(radix, prefix, digits))
                 IN  IF sign = <<Minus>> THEN -m ELSE m}

\* "We are less forgiving than the strtoxxx() routines and do not allow leading
\* spaces", and "we can still handle arbitrarily large integers correctly by
\* omitting leading zeros" (re2.cc:1098, 1110): an argument of every type and
\* radix gets the number that is written there, and no other string passes.
NumbersExact ==
  part = "Numbers" =>
    \A type \in MCTypes, radix \in Radixes :
      LET r == ParseInteger(number, type, radix)
          meant == ValuesOf(number, type, radix)
      IN  IF meant = {} THEN ~r.ok ELSE r.ok /\ meant = {r.value}
=============================================================================
