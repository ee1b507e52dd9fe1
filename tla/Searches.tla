------------------------------ MODULE Searches ------------------------------
(***************************************************************************)
(* A call of one of the search engines: Prog::SearchNFA and its siblings   *)
(* in re2/re2/prog.h.  The text searched is positions b .. e of a context, *)
(* to which the empty-width conditions and the anchors \A and \z refer.    *)
(***************************************************************************)
EXTENDS Programs

CONSTANTS Progs,   \* programs
          Calls    \* and the calls of an engine for each of them

MatchKind == {"first", "longest", "full", "many"}
NoPos == -1          \* a NULL pointer into the text

ASSUME ProgsAssumption ==
  \A prog \in Progs :
    /\ WellFormed(prog) /\ HintsSound(prog) /\ LoopsSound(prog)
    /\ prog.prefix.bytes \in Seq(Byte)

\* A call has the context, the bounds of the text, and the other arguments.
ASSUME CallsAssumption ==
  \A c \in Calls :
    /\ c.text \in Seq(Byte)
    /\ c.b \in 0 .. Len(c.text) /\ c.e \in c.b .. Len(c.text)
    /\ c.anchored \in BOOLEAN /\ c.kind \in MatchKind /\ c.nmatch \in Nat

\* Does the text lie in its context as the program's anchors demand?
AnchorsFit(prog, c) ==
  /\ prog.anchorStart => c.b = 0
  /\ prog.anchorEnd => c.e = Len(c.text)

\* A full match is asked for as an anchored longest match.
Anchored(prog, c) == c.anchored \/ c.kind = "full" \/ prog.anchorStart
Longest(prog, c) == c.kind # "first" \/ prog.anchorEnd
NMatch(c) == IF c.kind = "full" /\ c.nmatch = 0 THEN 1 ELSE c.nmatch

-----------------------------------------------------------------------------
(***************************************************************************)
(* Prefix acceleration: the next position from p on where the literal that *)
(* every match begins with may occur, e if there is none.  Only its first  *)
(* and last byte are compared, unless case is folded; then all of it is,   *)
(* up to nine bytes.                                                       *)
(***************************************************************************)
CanPrefixAccel(prog) == prog.prefix.bytes # << >>

ShiftDFAFinal == 9

Occurs(prefix, text, q) ==
  LET n     == Len(prefix.bytes)
      m     == IF n < ShiftDFAFinal THEN n ELSE ShiftDFAFinal
      byte(i) == text[q + i]
  IN  IF prefix.fold THEN \A i \in 1 .. m : ToLower(byte(i)) = prefix.bytes[i]
      ELSE byte(1) = prefix.bytes[1] /\ byte(n) = prefix.bytes[n]

AccelSize(prefix) ==
  IF prefix.fold /\ Len(prefix.bytes) > ShiftDFAFinal THEN ShiftDFAFinal
  ELSE Len(prefix.bytes)

PrefixAccel(prog, text, p, e) ==
  LET size == AccelSize(prog.prefix)
      hits == {q \in p .. e - size : Occurs(prog.prefix, text, q)}
  IN  IF hits = {} THEN e ELSE CHOOSE q \in hits : \A r \in hits : q <= r
=============================================================================
