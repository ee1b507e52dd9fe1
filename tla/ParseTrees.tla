----------------------------- MODULE ParseTrees -----------------------------
(***************************************************************************)
(* Regexp objects as trees (re2/re2/regexp.h, regexp.cc), and the part of  *)
(* the parser that rearranges them: constructors, equality, and factoring  *)
(* of alternations (re2/re2/parse.cc, FactorAlternation).                  *)
(*                                                                         *)
(* A node is a record; simple is the cached simple_, and open says that a  *)
(* class is still a CharClassBuilder.  Reference counts, and the explicit  *)
(* stacks that keep the C++ from recurring, are left out here.             *)
(***************************************************************************)
EXTENDS CharClasses, Regexps

CONSTANT kMaxNsub      \* the most subexpressions of one node

ASSUME MaxNsubAssumption == kMaxNsub \in Nat /\ kMaxNsub >= 2

Node(op, flags) == [op |-> op, flags |-> flags, simple |-> FALSE, subs |-> << >>]
Unary(op, sub, flags) == [Node(op, flags) EXCEPT !.subs = <<sub>>]
NoRe == Node("NULL", {})

LiteralOps == {"Literal", "LiteralString"}
RepeatOps == {"Star", "Plus", "Quest"}
EmptyWidthOps == {"BeginLine", "EndLine", "WordBoundary", "NoWordBoundary",
                  "BeginText", "EndText"}
OneRuneOps == {"Literal", "CharClass", "AnyChar", "AnyByte"}

NewLiteral(r, flags) == Node("Literal", flags) @@ [runes |-> <<r>>]
LiteralString(runes, flags) ==
  CASE runes = << >>  -> Node("EmptyMatch", flags)
    [] Len(runes) = 1 -> NewLiteral(runes[1], flags)
    [] OTHER          -> Node("LiteralString", flags) @@ [runes |-> runes]
NewCharClass(cc, flags) == Node("CharClass", flags) @@ [cc |-> cc, open |-> FALSE]
NewBuilding(ccb, flags) == Node("CharClass", flags) @@ [cc |-> ccb, open |-> TRUE]
RepeatOf(sub, flags, min, max) ==
  Unary("Repeat", sub, flags) @@ [min |-> min, max |-> max]
CaptureOf(sub, flags, cap, name) ==
  Unary("Capture", sub, flags) @@ [cap |-> cap, name |-> name]

HaveMatchOf(match_id, flags) == Node("HaveMatch", flags) @@ [id |-> match_id]

\* Star, Plus and Quest squash a repeat of a repeat with the same flags.
StarPlusOrQuest(op, sub, flags) ==
  IF sub.op \in RepeatOps /\ flags = sub.flags
    THEN IF sub.op \in {op, "Star"} THEN sub ELSE Unary("Star", sub.subs[1], flags)
  ELSE Unary(op, sub, flags)

-----------------------------------------------------------------------------
SameFlag(x, y, flag) == (flag \in x.flags) <=> (flag \in y.flags)

TopEqual(x, y) ==
  /\ x.op = y.op
  /\ CASE x.op = "EndText"   -> SameFlag(x, y, "WasDollar")
       [] x.op \in LiteralOps -> x.runes = y.runes /\ SameFlag(x, y, "FoldCase")
       [] x.op \in {"Concat", "Alternate"} -> Len(x.subs) = Len(y.subs)
       [] x.op \in RepeatOps -> SameFlag(x, y, "NonGreedy")
       [] x.op = "Repeat"    -> /\ SameFlag(x, y, "NonGreedy")
                                /\ x.min = y.min /\ x.max = y.max
       [] x.op = "Capture"   -> x.cap = y.cap /\ x.name = y.name
       [] x.op = "CharClass" -> x.cc.ranges = y.cc.ranges /\ x.cc.nrunes = y.cc.nrunes
       [] x.op = "HaveMatch" -> x.id = y.id
       [] OTHER              -> TRUE

RECURSIVE Equal(_, _)
Equal(x, y) == TopEqual(x, y) /\ \A i \in DOMAIN x.subs : Equal(x.subs[i], y.subs[i])

\* Mutant of ComputeSimple: the subexpression of a repetition is not asked.
ComputeSimpleAlone(re) ==
  CASE re.op \in {"Concat", "Alternate", "Capture"} -> \A i \in DOMAIN re.subs : re.subs[i].simple
    [] re.op = "CharClass" -> ~IsEmptyClass(re.cc) /\ ~IsFullClass(re.cc)
    [] re.op \in RepeatOps -> re.subs[1].op \notin RepeatOps \cup {"EmptyMatch", "NoMatch"}
    [] re.op = "Repeat" -> FALSE
    [] OTHER -> TRUE

\* Is re what Simplify would leave, given that its subexpressions' simple_
\* are accurate?
ComputeSimple(re) ==
  CASE re.op \in {"Concat", "Alternate", "Capture"} -> \A i \in DOMAIN re.subs : re.subs[i].simple
    [] re.op = "CharClass" -> ~IsEmptyClass(re.cc) /\ ~IsFullClass(re.cc)
    [] re.op \in RepeatOps ->
         /\ re.subs[1].simple
         /\ re.subs[1].op \notin RepeatOps \cup {"EmptyMatch", "NoMatch"}
    [] re.op = "Repeat" -> FALSE
    [] OTHER -> TRUE

Simple(re) == [re EXCEPT !.simple = ComputeSimple(re)]

-----------------------------------------------------------------------------
(***************************************************************************)
(* What a regexp begins with, and what is left without it.                 *)
(***************************************************************************)
IsSequence(re) == re.op = "Concat" /\ Len(re.subs) >= 2

LeadingRegexp(re) ==
  LET first == IF IsSequence(re) THEN re.subs[1] ELSE re
  IN  IF first.op = "EmptyMatch" THEN NoRe ELSE first

RemoveLeadingRegexp(re) ==
  IF LeadingRegexp(re) = NoRe THEN re
  ELSE IF ~IsSequence(re) THEN Node("EmptyMatch", re.flags)
  ELSE IF Len(re.subs) = 2 THEN re.subs[2]
  ELSE [re EXCEPT !.subs = Tail(@)]

RECURSIVE LeadingString(_), RemoveLeadingString(_, _)
LeadingString(re) ==
  IF re.op = "Concat" /\ re.subs # << >> THEN LeadingString(re.subs[1])
  ELSE [runes |-> IF re.op \in LiteralOps THEN re.runes ELSE << >>,
        flags |-> re.flags \cap {"FoldCase"}]

\* In place: the node keeps its flags and its simple_, even those of a
\* literal that has become an empty match.
RemoveLeadingString(re, n) ==
  CASE re.op \in LiteralOps ->
         LET left == SubSeq(re.runes, n + 1, Len(re.runes))
         IN  [re EXCEPT !.runes = left,
                        !.op = CASE left = << >> -> "EmptyMatch"
                                 [] Len(left) = 1 -> "Literal"
                                 [] OTHER -> "LiteralString"]
    [] re.op = "Concat" ->
         LET first == RemoveLeadingString(re.subs[1], n)
         IN  IF first.op # "EmptyMatch" THEN [re EXCEPT !.subs[1] = first]
             ELSE IF Len(re.subs) = 2 THEN re.subs[2]
             ELSE [re EXCEPT !.subs = Tail(@)]
    [] OTHER -> re

-----------------------------------------------------------------------------
(***************************************************************************)
(* FactorAlternation: three rounds over the alternatives, each of which    *)
(* replaces runs of neighbours by one regexp.  What is left of neighbours  *)
(* with a common prefix is factored in turn.                               *)
(***************************************************************************)
CommonLength(s, t) ==
  Max({m \in 0 .. Min({Len(s), Len(t)}) : SubSeq(s, 1, m) = SubSeq(t, 1, m)})

\* How many runes the alternatives of a run have in common, 0 if none.
SharedLength(run) ==
  LET lead(k) == LeadingString(run[k]) IN
  IF \E k \in DOMAIN run : lead(k).flags # lead(1).flags THEN 0
  ELSE Min({CommonLength(lead(1).runes, lead(k).runes) : k \in DOMAIN run})

CanFactor(re) ==
  \/ re.op \in EmptyWidthOps \cup (OneRuneOps \ {"Literal"})
  \/ re.op = "Repeat" /\ re.min = re.max /\ re.subs[1].op \in OneRuneOps

\* Neighbours that go together: joins(run, re) says if re goes with a run.
Runs(sub, joins(_, _)) ==
  FoldLeft(LAMBDA runs, re :
             IF runs # << >> /\ joins(runs[Len(runs)], re)
               THEN [runs EXCEPT ![Len(runs)] = Append(@, re)]
             ELSE Append(runs, <<re>>),
           << >>, sub)

\* A prefix for a run and what is left of its alternatives; one is left alone.
Splice(prefix, suffixes) == [prefix |-> prefix, suffixes |-> suffixes]

\* Common literal prefixes.
StringSplice(run, n, lead) ==
  Splice(LiteralString(SubSeq(lead.runes, 1, n), lead.flags),
         [k \in DOMAIN run |-> RemoveLeadingString(run[k], n)])
Round1(sub) ==
  LET splice(run) == IF Len(run) = 1 THEN Splice(NoRe, run)
                     ELSE StringSplice(run, SharedLength(run), LeadingString(run[1]))
      runs == Runs(sub, LAMBDA run, re : SharedLength(Append(run, re)) > 0)
  IN  [i \in DOMAIN runs |-> splice(runs[i])]

\* Common first pieces that are simple enough.
SameLead(first, re) == first # NoRe /\ CanFactor(first) /\ Equal(first, LeadingRegexp(re))
Round2(sub) ==
  LET splice(run) == IF Len(run) = 1 THEN Splice(NoRe, run)
                     ELSE Splice(LeadingRegexp(run[1]),
                                 [k \in DOMAIN run |-> RemoveLeadingRegexp(run[k])])
      runs == Runs(sub, LAMBDA run, re : SameLead(LeadingRegexp(run[1]), re))
  IN  [i \in DOMAIN runs |-> splice(runs[i])]

\* Literals and classes become one class.
Mergeable(re) == re.op \in {"Literal", "CharClass"}
MergeInto(ccb, re) ==
  IF re.op = "CharClass" THEN AddCharClass(ccb, re.cc)
  ELSE AddRangeFlags(ccb, re.runes[1], re.runes[1], re.flags)
Merged(run, flags) ==
  IF Len(run) = 1 THEN run[1] ELSE NewCharClass(FoldLeft(MergeInto, NewBuilder, run), flags)
Round3(sub, flags) ==
  LET runs == Runs(sub, LAMBDA run, re : Mergeable(run[1]) /\ Mergeable(re))
  IN  [i \in DOMAIN runs |-> Merged(runs[i], flags)]

\* More than kMaxNsub subexpressions make a tree of two levels.
RECURSIVE ConcatOrAlternateNoFactor(_, _, _)
ConcatOrAlternateNoFactor(op, sub, flags) ==
  LET nbig == (Len(sub) + kMaxNsub - 1) \div kMaxNsub
      part(k) == SubSeq(sub, (k - 1) * kMaxNsub + 1, Min({k * kMaxNsub, Len(sub)}))
  IN  CASE Len(sub) = 1 -> sub[1]
        [] Len(sub) = 0 -> Node(IF op = "Alternate" THEN "NoMatch" ELSE "EmptyMatch", flags)
        [] Len(sub) > kMaxNsub ->
             [Node(op, flags) EXCEPT
                !.subs = [k \in 1 .. nbig |-> ConcatOrAlternateNoFactor(op, part(k), flags)]]
        [] OTHER -> [Node(op, flags) EXCEPT !.subs = sub]

\* What is left of the alternatives of a run is factored in turn.
RECURSIVE FactorAlternation(_, _), Spliced(_, _)
Spliced(splices, flags) ==
  LET suffix(s) == ConcatOrAlternateNoFactor("Alternate", FactorAlternation(s.suffixes, flags), flags)
      apply(s) == IF s.prefix = NoRe THEN s.suffixes[1]
                  ELSE ConcatOrAlternateNoFactor("Concat", <<s.prefix, suffix(s)>>, flags)
  IN  [i \in DOMAIN splices |-> apply(splices[i])]

FactorAlternation(sub, flags) ==
  Round3(Spliced(Round2(Spliced(Round1(sub), flags)), flags), flags)

ConcatOrAlternate(op, sub, flags) ==
  ConcatOrAlternateNoFactor(
    op, IF op = "Alternate" /\ Len(sub) > 1 THEN FactorAlternation(sub, flags) ELSE sub, flags)
-----------------------------------------------------------------------------
(***************************************************************************)
(* What RE2 asks a parsed regexp (re2/re2/regexp.cc): its capturing groups *)
(* and their names, and whether it can only match behind a fixed prefix.   *)
(***************************************************************************)
\* The nodes of a walk, parents before children, children from the left.
RECURSIVE PreOrder(_)
PreOrder(re) ==
  <<re>> \o FlattenSeq([i \in DOMAIN re.subs |-> PreOrder(re.subs[i])])

Captures(re) == SelectSeq(PreOrder(re), LAMBDA x : x.op = "Capture")
Named(re) == SelectSeq(Captures(re), LAMBDA x : x.name # "")

NumCaptures(re) == Len(Captures(re))

\* Mutant of NamedCaptures: the rightmost group of a name counts.
NamedCapturesLast(re) ==
  FoldLeft(LAMBDA map, x : (x.name :> x.cap) @@ map, << >>, Named(re))

\* Of groups with the same name, the leftmost one counts.
NamedCaptures(re) ==
  FoldLeft(LAMBDA map, x : map @@ (x.name :> x.cap), << >>, Named(re))

CaptureNames(re) ==
  FoldLeft(LAMBDA map, x : (x.cap :> x.name) @@ map, << >>, Named(re))

-----------------------------------------------------------------------------
NoPrefix == [ok |-> FALSE]
PrefixOf(re, suffix) ==
  [ok |-> TRUE, runes |-> re.runes, fold |-> "FoldCase" \in re.flags, suffix |-> suffix]

\* Mutant of RequiredPrefix: the literal need not be anchored.
RequiredPrefixAnywhere(re) ==
  LET n == Max({k \in 0 .. Len(re.subs) : \A j \in 1 .. k : re.subs[j].op = "BeginText"})
  IN  IF re.op # "Concat" \/ n = Len(re.subs) THEN NoPrefix
      ELSE IF re.subs[n + 1].op \notin LiteralOps THEN NoPrefix
      ELSE PrefixOf(re.subs[n + 1],
                    ConcatOrAlternate("Concat", SubSeq(re.subs, n + 2, Len(re.subs)), re.flags))

\* Some ^ anchors, a literal, and the rest.
RequiredPrefix(re) ==
  LET n == Max({k \in 0 .. Len(re.subs) : \A j \in 1 .. k : re.subs[j].op = "BeginText"})
  IN  IF re.op # "Concat" \/ n = 0 \/ n = Len(re.subs) THEN NoPrefix
      ELSE IF re.subs[n + 1].op \notin LiteralOps THEN NoPrefix
      ELSE PrefixOf(re.subs[n + 1],
                    ConcatOrAlternate("Concat", SubSeq(re.subs, n + 2, Len(re.subs)), re.flags))

\* The literal that re begins with, inside capturing groups too.
RECURSIVE FirstPiece(_)
FirstPiece(re) ==
  LET first == IF re.op = "Concat" /\ re.subs # << >> THEN re.subs[1] ELSE re
  IN  IF first.op = "Capture" THEN FirstPiece(first.subs[1]) ELSE first

RequiredPrefixForAccel(re) ==
  LET first == FirstPiece(re)
  IN  IF first.op \in LiteralOps THEN PrefixOf(first, NoRe) ELSE NoPrefix

-----------------------------------------------------------------------------
(***************************************************************************)
(* What a parse tree matches: the tree as a regexp of module Regexps, in   *)
(* which a counted repetition is spelled out.                              *)
(***************************************************************************)
\* A tree as a regexp of module Regexps.
RECURSIVE ToRegexp(_)
ToRegexp(re) ==
  LET subs == [i \in DOMAIN re.subs |-> ToRegexp(re.subs[i])]
      lazy == "NonGreedy" \in re.flags
  IN  CASE re.op = "NoMatch"    -> NoMatchRe
        [] re.op = "EmptyMatch" -> EmptyMatch
        [] re.op \in LiteralOps -> Literal(re.runes, "FoldCase" \in re.flags)
        [] re.op = "CharClass"  -> CharClass(GetCharClass(re.cc).ranges)
        [] re.op \in {"AnyChar", "AnyByte"} -> CharClass(<<<<0, Runemax>>>>)
        [] re.op = "Concat"     -> Concat(subs)
        [] re.op = "Alternate"  -> Alternate(subs)
        [] re.op = "Star"       -> Star(subs[1], lazy)
        [] re.op = "Plus"       -> Plus(subs[1], lazy)
        [] re.op = "Quest"      -> Quest(subs[1], lazy)
        [] re.op = "Repeat"     -> Repeated(subs[1], re.min, re.max, lazy)
        [] re.op = "Capture"    -> Capture(subs[1], re.cap)
        [] re.op = "HaveMatch"  -> HaveMatch(re.id)
        [] re.op = "NoWordBoundary" -> Empty("NonWordBoundary")
        [] re.op \in EmptyWidthOps \ {"NoWordBoundary"} -> Empty(re.op)

\* The ends of matches at p in order of preference, each with its groups.
Ends(re, text, p, caps) ==
  FoldLeft(LAMBDA seen, x : IF \E i \in DOMAIN seen : seen[i].p = x.p THEN seen ELSE seen \o <<x>>,
           << >>, Try(re, At(p, caps), text, Len(text)))
\* Does a tree match at p, whatever its groups?
SomeGroups == [i \in 0 .. 7 |-> -1]
MatchesAt(re, text, p) == Try(ToRegexp(re), At(p, SomeGroups), text, Len(text)) # << >>
=============================================================================
