----------------------------- MODULE MCRegexps ------------------------------
(***************************************************************************)
(* Regexps for the models of the engines, the programs compiled from them, *)
(* and the answers a search for them ought to give.                        *)
(*                                                                         *)
(* Four bytes stand for the 256: 0 is '\n', 1 'A', 2 '-' and 3 'a'.        *)
(***************************************************************************)
EXTENDS Compiler

nl == 0
A == 1
dash == 2
a == 3

Lit(r) == Literal(<<r>>, FALSE)
Fold(rs) == Literal(rs, TRUE)
Greedily(sub) == Star(sub, FALSE)
Lazily(sub) == Star(sub, TRUE)
Dot == CharClass(<< <<1, 3>> >>)

\* One regexp for every construct, and for every way constructs meet.
Samples == <<
  \* 1: a-|aA
  Alternate(<<Literal(<<a, dash>>, FALSE), Literal(<<a, A>>, FALSE)>>),
  \* 2: (a|a-)(-|)
  Concat(<<Capture(Alternate(<<Lit(a), Literal(<<a, dash>>, FALSE)>>), 1),
           Capture(Alternate(<<Lit(dash), EmptyMatch>>), 2)>>),
  \* 3: (a*)*
  Greedily(Capture(Greedily(Lit(a)), 1)),
  \* 4: (a|-*?)*A
  Concat(<<Greedily(Capture(Alternate(<<Lit(a), Lazily(Lit(dash))>>), 1)), Lit(A)>>),
  \* 5: (a*?)+-
  Concat(<<Plus(Capture(Lazily(Lit(a)), 1), FALSE), Lit(dash)>>),
  \* 6: \Aa+?(A?)
  Concat(<<Empty("BeginText"), Plus(Lit(a), TRUE), Capture(Quest(Lit(A), FALSE), 1)>>),
  \* 7: (a?\C*)\z
  Concat(<<Capture(Concat(<<Quest(Lit(a), FALSE), Greedily(AnyByte)>>), 1), Empty("EndText")>>),
  \* 8: ^-*$
  Concat(<<Empty("BeginLine"), Greedily(Lit(dash)), Empty("EndLine")>>),
  \* 9: \b(a|A-)\b
  Concat(<<Empty("WordBoundary"),
           Capture(Alternate(<<Lit(a), Literal(<<A, dash>>, FALSE)>>), 1),
           Empty("WordBoundary")>>),
  \* 10: \B(?i:a-)|\C
  Alternate(<<Concat(<<Empty("NonWordBoundary"), Fold(<<a, dash>>)>>), AnyByte>>),
  \* 11: (?i:a-?)
  Concat(<<Fold(<<a>>), Quest(Lit(dash), FALSE)>>),
  \* 12: [Aa][A-\-]*(a)?
  Concat(<<CharClass(<< <<A, A>>, <<a, a>> >>), Greedily(CharClass(<< <<A, dash>> >>)),
           Quest(Capture(Lit(a), 1), FALSE)>>),
  \* 13: (-)\C*
  Concat(<<Capture(Lit(dash), 1), Greedily(AnyByte)>>),
  \* 14: \C*?(-)
  Concat(<<Lazily(AnyByte), Capture(Lit(dash), 1)>>),
  \* 15: -a.*-
  Concat(<<Literal(<<dash, a>>, FALSE), Greedily(Dot), Lit(dash)>>),
  \* 16: (?:aa|a|-)*
  Greedily(Alternate(<<Literal(<<a, a>>, FALSE), Lit(a), Lit(dash)>>)),
  \* 17: (a)|b|c, no match
  Concat(<<Alternate(<<Lit(a), NoMatchRe>>), Quest(NoMatchRe, FALSE)>>),
  \* 18: [^\x00-\xff]
  NoMatchRe,
  \* 19: empty
  EmptyMatch,
  \* 20: (?:(a)-?|(-))+?\z
  Concat(<<Plus(Alternate(<<Concat(<<Capture(Lit(a), 1), Quest(Lit(dash), FALSE)>>),
           Capture(Lit(dash), 2)>>), TRUE), Empty("EndText")>>),
  \* 21: \C*
  Greedily(AnyByte),
  \* 22: (\C*?)
  Capture(Lazily(AnyByte), 1),
  \* 23: a(?:-|A(?:a|-))*
  Concat(<<Lit(a), Greedily(Alternate(<<Lit(dash),
           Concat(<<Lit(A), Alternate(<<Lit(a), Lit(dash)>>)>>)>>))>>),
  \* 24: (?i:aa)
  Fold(<<a, a>>),
  \* 25: (\Aa|-\z|$)
  Capture(Alternate(<<Concat(<<Empty("BeginText"), Lit(a)>>),
           Concat(<<Lit(dash), Empty("EndText")>>), Empty("EndLine")>>), 1),
  \* 26: (()|-)|A
  Alternate(<<Capture(Alternate(<<Capture(EmptyMatch, 2), Lit(dash)>>), 1), Lit(A)>>),
  \* 27: a\C*|-
  Alternate(<<Concat(<<Lit(a), Greedily(AnyByte)>>), Lit(dash)>>),
  \* 28: (?:[^\x00-\xff])*a
  Concat(<<Greedily(NoMatchRe), Lit(a)>>),
  \* 29: (|a)*
  Greedily(Capture(Alternate(<<EmptyMatch, Lit(a)>>), 1)),
  \* 30: \A(a*?)(-*?)A
  Concat(<<Empty("BeginText"), Capture(Lazily(Lit(a)), 1),
           Capture(Lazily(Lit(dash)), 2), Lit(A)>>),
  \* 31: \Aa\z
  Concat(<<Empty("BeginText"), Lit(a), Empty("EndText")>>),
  \* 32: a[^\x00-\xff]|-
  Alternate(<<Concat(<<Lit(a), NoMatchRe>>), Lit(dash)>>),
  \* 33: -a|\C*
  Alternate(<<Literal(<<dash, a>>, FALSE), Greedily(AnyByte)>>)
>>

Compiled == [n \in DOMAIN Samples |-> Compile(Samples[n], FALSE, 100)]
ReversedProgs == [n \in DOMAIN Samples |-> Compile(Samples[n], TRUE, 100)]

-----------------------------------------------------------------------------
Compared(re, call) == IF RepeatsEmpty(re) THEN Min({call.nmatch, 1}) ELSE call.nmatch

\* Does an engine's result agree with the answer?  Submatches count unless
\* the regexp loops over something empty.
AgreesWith(want, n, found, match) ==
  IF want = NoAnswer THEN ~found
  ELSE found /\ \A k \in 0 .. 2 * n - 1 : match[k] = want[k]

Agrees(prog, call, found, match) ==
  LET re == Samples[prog.sample]
  IN  AgreesWith(Answer(re, call), Compared(re, call), found, match)

-----------------------------------------------------------------------------
(***************************************************************************)
(* Calls for the samples: every kind of match in every text up to ShortLen *)
(* bytes and every text up to LongLen bytes of LongByte, and in contexts   *)
(* of two bytes without the first or the last.                             *)
(***************************************************************************)
CONSTANTS Sample, ShortLen, LongLen, LongByte

AllSamples == DOMAIN Samples

Texts(len, bytes) == UNION {[1 .. n -> bytes] : n \in 0 .. len}

Subject(text, b, e) == [text |-> text, b |-> b, e |-> e]
Subjects ==
  {Subject(text, 0, Len(text)) : text \in Texts(ShortLen, Byte) \cup Texts(LongLen, LongByte)}
  \cup {Subject(text, 1, 2) : text \in [1 .. 2 -> Byte]}
  \cup {Subject(text, 0, 1) : text \in [1 .. 2 -> Byte]}

Kinds ==
  {[anchored |-> x, kind |-> k, nmatch |-> NCaps]
   : x \in BOOLEAN, k \in {"first", "longest"}}
  \cup {[anchored |-> TRUE, kind |-> "full", nmatch |-> NCaps],
        [anchored |-> FALSE, kind |-> "first", nmatch |-> 0],
        [anchored |-> FALSE, kind |-> "full", nmatch |-> 0]}

MCCalls ==
  {[text |-> s.text, b |-> s.b, e |-> s.e,
    anchored |-> k.anchored, kind |-> k.kind, nmatch |-> k.nmatch] :
     s \in Subjects, k \in Kinds}

\* A program knows the sample it was compiled from.
MCProgs == {Compiled[n] @@ [sample |-> n] : n \in Sample}
=============================================================================
