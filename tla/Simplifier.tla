----------------------------- MODULE Simplifier -----------------------------
(***************************************************************************)
(* Regexp::Simplify (re2/re2/simplify.cc): counted repetitions are spelled *)
(* out with *, + and ?, and classes that are empty or full get operators   *)
(* of their own.  Before that, neighbours that repeat the same rune become *)
(* one repetition.                                                         *)
(*                                                                         *)
(* Both are walks from the leaves up that share what does not change; here *)
(* a changed tree is one that differs in more than its cached simple_.     *)
(***************************************************************************)
EXTENDS ParseTrees

RECURSIVE Bare(_)
Bare(re) == [re EXCEPT !.simple = FALSE, !.subs = [i \in DOMAIN @ |-> Bare(@[i])]]

ChildArgsChanged(re, args) == \E i \in DOMAIN args : Bare(args[i]) # Bare(re.subs[i])

\* A node built anew around args: its name, if it had one, is not copied.
Rebuilt(re, args) ==
  LET new == [re EXCEPT !.subs = args, !.simple = FALSE]
  IN  IF re.op = "Capture" THEN [new EXCEPT !.name = ""] ELSE new

-----------------------------------------------------------------------------
(***************************************************************************)
(* CoalesceWalker.                                                         *)
(***************************************************************************)
CountedOps == RepeatOps \cup {"Repeat"}

CanCoalesce(r1, r2) ==
  /\ r1.op \in CountedOps /\ r1.subs[1].op \in OneRuneOps
  /\ LET x == r1.subs[1] IN
     \/ r2.op \in CountedOps /\ Equal(x, r2.subs[1]) /\ SameFlag(r1, r2, "NonGreedy")
     \/ Equal(x, r2)
     \/ /\ x.op = "Literal" /\ r2.op = "LiteralString"
        /\ r2.runes[1] = x.runes[1] /\ SameFlag(x, r2, "FoldCase")

\* How often a regexp stands for its subexpression; -1 is no limit.
MinCount(re) ==
  CASE re.op = "Repeat" -> re.min
    [] re.op \in {"Star", "Quest"} -> 0
    [] OTHER -> 1
MaxCount(re) ==
  CASE re.op = "Repeat" -> re.max
    [] re.op \in {"Star", "Plus"} -> -1
    [] OTHER -> 1

Counted(r1, min, max) ==
  RepeatOf(r1.subs[1], r1.flags,
           MinCount(r1) + min,
           IF MaxCount(r1) = -1 \/ max = -1 THEN -1 ELSE MaxCount(r1) + max)

\* Two neighbours become an empty match and their sum, or a sum and the rest
\* of a literal string.
DoCoalesce(r1, r2) ==
  LET n == Max({k \in 1 .. Len(r2.runes) : \A j \in 1 .. k : r2.runes[j] = r2.runes[1]})
      left == SubSeq(r2.runes, n + 1, Len(r2.runes))
  IN  IF r2.op # "LiteralString"
        THEN <<Node("EmptyMatch", {}), Counted(r1, MinCount(r2), MaxCount(r2))>>
      ELSE IF left = << >> THEN <<Node("EmptyMatch", {}), Counted(r1, n, n)>>
      ELSE <<Counted(r1, n, n), LiteralString(left, r2.flags)>>

CoalesceAll(args) ==
  LET step(a, i) == IF ~CanCoalesce(a[i], a[i + 1]) THEN a
                    ELSE LET two == DoCoalesce(a[i], a[i + 1])
                         IN  [a EXCEPT ![i] = two[1], ![i + 1] = two[2]]
  IN  SelectSeq(FoldLeft(step, args, [i \in 1 .. Len(args) - 1 |-> i]),
                LAMBDA re : re.op # "EmptyMatch")

Coalesced(re, args) ==
  IF re.op = "Concat" /\ \E i \in 1 .. Len(args) - 1 : CanCoalesce(args[i], args[i + 1])
    THEN Rebuilt(re, CoalesceAll(args))
  ELSE IF ChildArgsChanged(re, args) THEN Rebuilt(re, args)
  ELSE re

RECURSIVE Coalesce(_)
Coalesce(re) == Coalesced(re, [i \in DOMAIN re.subs |-> Coalesce(re.subs[i])])

-----------------------------------------------------------------------------
(***************************************************************************)
(* SimplifyWalker.  Nodes made here are left with simple_ unset, but for   *)
(* the one that the walk returns.                                          *)
(***************************************************************************)
Copies(re, n) == [i \in 1 .. n |-> re]
ConcatOf(subs, flags) == ConcatOrAlternateNoFactor("Concat", subs, flags)
Concat2(re1, re2, flags) == [Node("Concat", flags) EXCEPT !.subs = <<re1, re2>>]

\* (x(x(x)?)?)?, n deep.
RECURSIVE NestedQuests(_, _, _)
NestedQuests(re, n, f) ==
  StarPlusOrQuest("Quest",
    IF n = 1 THEN re ELSE Concat2(re, NestedQuests(re, n - 1, f), f), f)

SimplifyRepeat(re, min, max, f) ==
  IF max = -1
    THEN CASE min = 0 -> StarPlusOrQuest("Star", re, f)
           [] min = 1 -> StarPlusOrQuest("Plus", re, f)
           [] OTHER   -> ConcatOf(Copies(re, min - 1) \o <<StarPlusOrQuest("Plus", re, f)>>, f)
  ELSE IF min = 0 /\ max = 0 THEN Node("EmptyMatch", f)
  ELSE IF min = 1 /\ max = 1 THEN re
  ELSE IF max = min THEN ConcatOf(Copies(re, min), f)
  ELSE IF min = 0 THEN NestedQuests(re, max, f)
  ELSE Concat2(ConcatOf(Copies(re, min), f), NestedQuests(re, max - min, f), f)

SimplifyCharClass(re) ==
  IF IsEmptyClass(re.cc) THEN Node("NoMatch", re.flags)
  ELSE IF IsFullClass(re.cc) THEN Node("AnyChar", re.flags)
  ELSE re

SimplifyUnary(re, args) ==
  IF args[1].op = "EmptyMatch" THEN args[1]
  ELSE IF re.op = "Repeat" THEN SimplifyRepeat(args[1], re.min, re.max, re.flags)
  ELSE IF ~ChildArgsChanged(re, args) THEN [re EXCEPT !.subs = args]
  ELSE IF re.op = args[1].op /\ re.flags = args[1].flags THEN args[1]
  ELSE Rebuilt(re, args)

SimplifiedNode(re, args) ==
  CASE re.op \in CountedOps -> SimplifyUnary(re, args)
    [] re.op = "CharClass"  -> SimplifyCharClass(re)
    [] OTHER -> IF ChildArgsChanged(re, args) THEN Rebuilt(re, args)
                ELSE [re EXCEPT !.subs = args]
MarkSimple(re) == [re EXCEPT !.simple = TRUE]

RECURSIVE SimplifyNode(_)
SimplifyNode(re) ==
  IF re.simple THEN re
  ELSE MarkSimple(SimplifiedNode(re, [i \in DOMAIN re.subs |-> SimplifyNode(re.subs[i])]))

Simplify(re) == SimplifyNode(Coalesce(re))
=============================================================================
