------------------------------ MODULE Programs ------------------------------
(***************************************************************************)
(* The bytecode of re2/re2/prog.h, as data: what an instruction is, which  *)
(* bytes it matches, and which empty-width conditions hold where.          *)
(*                                                                         *)
(* Bytes are numbers from 0 to ByteMax, so that ranges of them mean what   *)
(* they mean in the code; a few stand for the 256 of the program.  A text  *)
(* is a sequence of bytes and p is the number of bytes before a position.  *)
(***************************************************************************)
EXTENDS Integers, Sequences, FiniteSets, TLC

CONSTANTS
  ByteMax,                \* the largest byte, 255 in the code
  Newline,                \* '\n'
  WordChars,              \* the bytes with Prog::IsWordChar
  FirstUpper, LastUpper,  \* 'A' and 'Z'
  CaseShift               \* 'a' - 'A'

Byte == 0 .. ByteMax
NoByte == -1     \* what the matchers call a byte past the end of the text

UpperCase == FirstUpper .. LastUpper
FirstLower == FirstUpper + CaseShift
LastLower == LastUpper + CaseShift
ToLower(c) == IF c \in UpperCase THEN c + CaseShift ELSE c

ASSUME ByteAssumption ==
  /\ ByteMax \in Nat
  /\ Newline \in Byte
  /\ WordChars \subseteq Byte
  /\ FirstUpper \in Byte /\ LastUpper \in FirstUpper .. ByteMax
  /\ CaseShift \in Nat /\ LastUpper < FirstLower /\ LastLower \in Byte

\* The elements of a finite set of numbers, from the smallest.
Ascending(S) ==
  [k \in 1 .. Cardinality(S) |->
     CHOOSE x \in S : Cardinality({y \in S : y < x}) = k - 1]

OpCode == {"alt", "altmatch", "byte", "cap", "empty", "match", "nop", "fail"}
EmptyOp == {"BeginLine", "EndLine", "BeginText", "EndText",
            "WordBoundary", "NonWordBoundary"}

\* One instruction.  The fields an opcode does not use keep their zeros.
Blank == [op |-> "fail", out |-> 0, out1 |-> 0, lo |-> 0, hi |-> 0,
          fold |-> FALSE, hint |-> 0, cap |-> 0, empty |-> {}, id |-> 0,
          last |-> FALSE]

InitAlt(out, out1) ==
  [Blank EXCEPT !.op = "alt", !.out = out, !.out1 = out1]
InitByteRange(lo, hi, fold, out) ==
  [Blank EXCEPT !.op = "byte", !.lo = lo, !.hi = hi, !.fold = fold, !.out = out]
InitCapture(cap, out) == [Blank EXCEPT !.op = "cap", !.cap = cap, !.out = out]
InitEmptyWidth(e, out) == [Blank EXCEPT !.op = "empty", !.empty = e, !.out = out]
InitMatch(id) == [Blank EXCEPT !.op = "match", !.id = id]
InitNop == [Blank EXCEPT !.op = "nop"]   \* its argument is not used
InitFail == Blank

\* Does the byte range ip match c?
Matches(ip, c) ==
  LET d == IF ip.fold THEN ToLower(c) ELSE c
  IN  ip.lo <= d /\ d <= ip.hi

\* Does j loop over any byte, back to id?
AnyByteLoop(inst, j, id) ==
  /\ inst[j].op = "byte" /\ inst[j].out = id
  /\ inst[j].lo = 0 /\ inst[j].hi = ByteMax

\* For an AltMatch: does it rather go on with bytes than match?
Greedy(inst, ip) ==
  \/ inst[ip.out].op = "byte"
  \/ inst[ip.out].op = "nop" /\ inst[inst[ip.out].out].op = "byte"

(***************************************************************************)
(* The empty-width conditions that hold at position p of a text.           *)
(***************************************************************************)
EmptyFlags(text, p) ==
  LET n      == Len(text)
      before == p > 0 /\ text[p] \in WordChars
      after  == p < n /\ text[p + 1] \in WordChars
  IN  (IF p = 0 THEN {"BeginText"} ELSE {})
      \cup (IF p = 0 \/ text[p] = Newline THEN {"BeginLine"} ELSE {})
      \cup (IF p = n THEN {"EndText"} ELSE {})
      \cup (IF p = n \/ text[p + 1] = Newline THEN {"EndLine"} ELSE {})
      \cup {IF before # after THEN "WordBoundary" ELSE "NonWordBoundary"}

\* The byte at p of a text that ends at e.
ByteAt(text, p, e) == IF p < e THEN text[p + 1] ELSE NoByte

(***************************************************************************)
(* A finished program: its instructions from 0, where 0 is the Fail, the   *)
(* heads of its lists in order, and its entry points and anchors.          *)
(***************************************************************************)
InstCount(prog, op) == Cardinality({i \in DOMAIN prog.inst : prog.inst[i].op = op})

\* list_heads_: the position of a list head among the heads.
ListId(prog, id) == CHOOSE i \in DOMAIN prog.heads : prog.heads[i] = id

Heads(prog) == {prog.heads[i] : i \in DOMAIN prog.heads}

\* Is instruction j after id in the same list?
SameList(prog, id, j) ==
  /\ id < j /\ j \in DOMAIN prog.inst
  /\ \A k \in id .. j - 1 : ~prog.inst[k].last

\* What a hint skips does not match: whoever takes a byte range on some byte
\* may leave out all up to the hint, or to the end of the list if there is
\* none, as they are byte ranges for other bytes.
HintsSound(prog) ==
  \A i, j \in DOMAIN prog.inst :
    LET ip == prog.inst[i] IN
    ip.op = "byte" /\ SameList(prog, i, j) /\ (ip.hint = 0 \/ j < i + ip.hint) =>
      /\ prog.inst[j].op = "byte"
      /\ \A b \in Byte : ~(Matches(ip, b) /\ Matches(prog.inst[j], b))

\* What is behind n when only captures and nops come first.
AfterCaptures(prog, n) ==
  IF prog.inst[n].op \in {"cap", "nop"} THEN prog.inst[n].out ELSE n
MatchBehind(prog, n) ==
  LET size == Cardinality(DOMAIN prog.inst)
      chain[k \in 0 .. size] == IF k = 0 THEN n ELSE AfterCaptures(prog, chain[k - 1])
  IN  \E f \in {chain} :
        /\ f[0] = n
        /\ \A k \in 1 .. size : f[k] = AfterCaptures(prog, f[k - 1])
        /\ prog.inst[f[size]].op = "match"

\* An AltMatch is what it is taken for: a loop over any bytes, perhaps behind a
\* nop, and a certain match.  The arm of the match is the second one if the
\* loop is greedy.
MatchArm(prog, id) ==
  IF Greedy(prog.inst, prog.inst[id]) THEN prog.inst[id].out1 ELSE prog.inst[id].out
LoopArm(prog, id) ==
  IF Greedy(prog.inst, prog.inst[id]) THEN prog.inst[id].out ELSE prog.inst[id].out1
LoopsSound(prog) ==
  \A id \in DOMAIN prog.inst : prog.inst[id].op = "altmatch" =>
    /\ LET j == LoopArm(prog, id) IN
       \/ AnyByteLoop(prog.inst, j, id)
       \/ prog.inst[j].op = "nop" /\ AnyByteLoop(prog.inst, prog.inst[j].out, id)
    /\ MatchBehind(prog, MatchArm(prog, id))

\* What every instruction of a flattened program keeps to.
InstOK(prog, id) ==
  LET ip == prog.inst[id] IN
  /\ ip.op \in OpCode \ {"alt"}
  /\ ip.op = "fail" => id = 0
  /\ ip.lo \in Byte /\ ip.hi \in Byte /\ ip.empty \subseteq EmptyOp
  /\ ip.hint \in Nat /\ ip.cap \in Nat /\ ip.fold \in BOOLEAN /\ ip.last \in BOOLEAN
  /\ ip.op \in {"byte", "cap", "empty", "nop"} => ip.out \in Heads(prog)
  /\ ip.op = "cap" => ip.cap >= 2
  /\ ip.op = "altmatch" => /\ ip.out = id + 1 /\ ip.out1 = id + 2
                           /\ SameList(prog, id, id + 2)
  /\ ip.op = "byte" /\ ip.hint # 0 => SameList(prog, id, id + ip.hint)
  /\ ~ip.last => id + 1 \in DOMAIN prog.inst
  /\ ip.last => id + 1 \in Heads(prog) \cup {Cardinality(DOMAIN prog.inst)}

WellFormed(prog) ==
  LET n == Cardinality(DOMAIN prog.inst) IN
  /\ IsFiniteSet(DOMAIN prog.inst) /\ n > 0 /\ DOMAIN prog.inst = 0 .. n - 1
  /\ prog.inst[0].op = "fail" /\ prog.inst[0].last
  /\ prog.heads \in Seq(0 .. n - 1)
  /\ \A id \in DOMAIN prog.inst : InstOK(prog, id)
  /\ \A h \in Heads(prog) \ {0} : prog.inst[h - 1].last
  /\ 0 \in Heads(prog) /\ prog.start \in Heads(prog)
  /\ prog.unanchored \in Heads(prog)
=============================================================================
