------------------------------ MODULE Notation ------------------------------
(***************************************************************************)
(* What patterns mean: a reading of regexp notation piece by piece, with   *)
(* its groups, alternatives, repetitions and flags, straight into the      *)
(* regexps of module Regexps.  It neither folds literals into strings and  *)
(* classes nor factors or simplifies anything: the parser, the simplifier  *)
(* and the unparser are held against it.                                   *)
(*                                                                         *)
(* A piece of notation is a string, and PieceOf says what it is; a class   *)
(* of runes is a subset of the few runes of Alphabet.                      *)
(***************************************************************************)
EXTENDS Regexps, SequencesExt

CONSTANTS
  Alphabet,     \* the runes that texts are made of
  Orbits,       \* sets of runes that differ in case only
  PieceOf,        \* what a piece of notation stands for
  MaxRepeat     \* the largest product of nested counts

RunePiece(r) == [kind |-> "runes", runes |-> <<r>>]
RunesPiece(rs) == [kind |-> "runes", runes |-> rs]
\* A class of items, each a set that is spelled out or named.
Item(set, named, neg) == [set |-> set, named |-> named, neg |-> neg]
Listed(set) == Item(set, FALSE, FALSE)
ClassPiece(neg, items) == [kind |-> "class", neg |-> neg, items |-> items]
AnyPiece == [kind |-> "any"]
EmptyPiece(cond) == [kind |-> "empty", cond |-> cond]
OpenPiece(captures, on, off) == [kind |-> "open", captures |-> captures, on |-> on, off |-> off]
FlagsPiece(on, off) == [kind |-> "flags", on |-> on, off |-> off]
ClosePiece == [kind |-> "close"]
BarPiece == [kind |-> "bar"]
Times(min, max, lazy) == [kind |-> "repeat", min |-> min, max |-> max, lazy |-> lazy, counted |-> TRUE]
Op(min, max, lazy) == [Times(min, max, lazy) EXCEPT !.counted = FALSE]
Wrong(code) == [kind |-> "wrong", code |-> code]

-----------------------------------------------------------------------------
Folded(S, flags) ==
  IF "FoldCase" \in flags THEN S \cup UNION {o \in Orbits : o \cap S # {}} ELSE S

\* Newline, where it is not implied by a complement or a name.
Kept(flags) == IF "ClassNL" \in flags /\ "NeverNL" \notin flags THEN {} ELSE {Newline}
Banned(flags) == IF "NeverNL" \in flags THEN {Newline} ELSE {}

ItemSet(item, flags) ==
  LET S == Folded(item.set, flags)
  IN  IF ~item.named THEN S \ Banned(flags)
      ELSE (IF item.neg THEN Alphabet \ S ELSE S) \ Kept(flags)

ClassSet(class, flags) ==
  LET S == UNION {ItemSet(x, flags) : x \in class.items}
  IN  IF class.neg THEN Alphabet \ (S \cup Kept(flags)) ELSE S

OneOf(S) == CharClass([k \in 1 .. Cardinality(S) |-> <<Ascending(S)[k], Ascending(S)[k]>>])

OneRune(r, flags) == OneOf(Folded({r}, flags) \ Banned(flags))
Dotted(flags) ==
  OneOf(IF "DotNL" \in flags /\ "NeverNL" \notin flags THEN Alphabet ELSE Alphabet \ {Newline})

\* ^ and $ depend on OneLine.
Holds(cond, flags) ==
  Empty(IF "OneLine" \in flags
          THEN CASE cond = "BeginLine" -> "BeginText" [] cond = "EndLine" -> "EndText"
                 [] OTHER -> cond
        ELSE cond)

-----------------------------------------------------------------------------
(***************************************************************************)
(* Reading a group, up to its end: the alternatives so far, the atoms of   *)
(* the last one, each with the product of the counts nested in it, the     *)
(* flags in force and the number of groups.                                *)
(***************************************************************************)
NewGroup(rest, flags, ncap, depth) ==
  [rest |-> rest, flags |-> flags, ncap |-> ncap, depth |-> depth, code |-> "Success",
   alts |-> << >>, weight |-> 1, atoms |-> << >>, repeated |-> FALSE]

Atom(re, weight) == [re |-> re, weight |-> weight]
Sequence(atoms) == Concat([i \in DOMAIN atoms |-> atoms[i].re])
Meaning(g) == Alternate(g.alts \o <<Sequence(g.atoms)>>)
Weight(atoms) == Max({1} \cup {atoms[i].weight : i \in DOMAIN atoms})

Count(p) == IF ~p.counted THEN 1 ELSE IF p.max = -1 THEN Max({1, p.min}) ELSE Max({1, p.max})
TooMany(p) == p.counted /\ ((p.max # -1 /\ p.max < p.min) \/ Max({p.min, p.max}) > MaxRepeat)

WithAtoms(g, atoms) == [g EXCEPT !.atoms = @ \o atoms, !.repeated = FALSE]
WithError(g, code) == [g EXCEPT !.code = code]

WithRepeat(g, p) ==
  LET n     == Len(g.atoms)
      last  == g.atoms[n]
      lazy  == p.lazy # ("NonGreedy" \in g.flags)
      total == last.weight * Count(p)
  IN  IF g.repeated /\ "PerlX" \in g.flags THEN WithError(g, "RepeatOp")
      ELSE IF TooMany(p) THEN WithError(g, "RepeatSize")
      ELSE IF g.atoms = << >> THEN WithError(g, "RepeatArgument")
      ELSE IF total > MaxRepeat THEN WithError(g, "RepeatSize")
      ELSE [g EXCEPT !.atoms[n] = Atom(Repeated(last.re, p.min, p.max, lazy), total),
                     !.repeated = TRUE]

RECURSIVE ReadGroup(_)

\* A group in g, read to its end.
WithGroup(g, p) ==
  LET captures == p.captures /\ "NeverCapture" \notin g.flags
      n     == IF captures THEN g.ncap + 1 ELSE g.ncap
      inner == ReadGroup(NewGroup(g.rest, (g.flags \cup p.on) \ p.off, n, g.depth + 1))
      re    == IF captures THEN Capture(Meaning(inner), n) ELSE Meaning(inner)
      heavy == Max({Weight(inner.atoms), inner.weight})
  IN  IF inner.code # "Success" THEN WithError(g, inner.code)
      ELSE [WithAtoms(g, <<Atom(re, heavy)>>) EXCEPT !.rest = inner.rest, !.ncap = inner.ncap]

Step(g, p) ==
  CASE p.kind = "runes"  -> WithAtoms(g, [i \in DOMAIN p.runes |-> Atom(OneRune(p.runes[i], g.flags), 1)])
    [] p.kind = "class"  -> WithAtoms(g, <<Atom(OneOf(ClassSet(p, g.flags)), 1)>>)
    [] p.kind = "any"    -> WithAtoms(g, <<Atom(Dotted(g.flags), 1)>>)
    [] p.kind = "empty"  -> WithAtoms(g, <<Atom(Holds(p.cond, g.flags), 1)>>)
    [] p.kind = "flags"  -> [g EXCEPT !.flags = (@ \cup p.on) \ p.off, !.repeated = FALSE]
    [] p.kind = "bar"    -> [g EXCEPT !.alts = @ \o <<Sequence(g.atoms)>>, !.atoms = << >>,
                                      !.repeated = FALSE, !.weight = Max({@, Weight(g.atoms)})]
    [] p.kind = "repeat" -> WithRepeat(g, p)
    [] p.kind = "open"   -> WithGroup(g, p)
    [] p.kind = "wrong"  -> WithError(g, p.code)

ReadGroup(g) ==
  IF g.code # "Success" THEN g
  ELSE IF g.rest = << >> THEN IF g.depth = 0 THEN g ELSE WithError(g, "MissingParen")
  ELSE IF PieceOf[g.rest[1]].kind # "close" THEN ReadGroup(Step([g EXCEPT !.rest = Tail(@)], PieceOf[g.rest[1]]))
  ELSE IF g.depth = 0 THEN WithError(g, "UnexpectedParen")
  ELSE [g EXCEPT !.rest = Tail(@)]

ReadPieces(pieces, flags) == ReadGroup(NewGroup(pieces, flags, 0, 0))
=============================================================================
