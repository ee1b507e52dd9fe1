----------------------------- MODULE MCCompile ------------------------------
(***************************************************************************)
(* The way from a regexp to a program, for every regexp that grows from an *)
(* atom in a few steps: compiler, Optimize, Flatten, hints and byte map.   *)
(* Beside it, what the compiler makes of the runes of a class.             *)
(***************************************************************************)
EXTENDS Compiler

CONSTANTS MaxSteps, MaxInst, TextLen, RangeEnds, MaxRanges, MaxNInst

VARIABLES re,      \* a regexp
          progs,   \* its programs, forward and reversed
          steps,   \* how often it has grown
          class,     \* a class as ranges of runes
          compiled   \* what it is compiled to

Classes == INSTANCE RuneRanges

A == 1
dash == 2
a == 3
Lit(r) == Literal(<<r>>, FALSE)

Operand == {Lit(a), EmptyMatch, Empty("EndText"), CharClass(<< <<1, 1>>, <<3, 3>> >>)}
Atom == Operand \cup
  {Literal(<<a, dash>>, TRUE), NoMatchRe, AnyByte, Empty("BeginText"),
   Empty("WordBoundary"), Empty("EndLine"), CharClass(<< <<0, 1>> >>),
   CharClass(<< <<2, 3>> >>)}

Programs(x) ==
  {p \in {Compile(x, reversed, MaxInst) : reversed \in BOOLEAN} : p.ok}

\* Each behaviour is about a regexp on bytes or about a class of runes.
Nothing == EmptyMatch
Init ==
  \/ re \in Atom /\ progs = Programs(re) /\ steps = 0 /\ class = << >> /\ compiled = << >>
  \/ re = Nothing /\ progs = {} /\ steps = -1 /\ Classes!RangesInit

Repeats(x) ==
  UNION {{Star(x, lazy), Plus(x, lazy), Quest(x, lazy)} : lazy \in BOOLEAN}
Groups(x) == {Capture(x, 1)}
Joins(x) ==
  UNION {{Concat(<<x, y>>), Concat(<<y, x>>), Alternate(<<x, y>>), Alternate(<<y, x>>)}
         : y \in Operand}

Grow ==
  /\ steps \in 0 .. MaxSteps - 1 /\ steps' = steps + 1
  /\ \E x \in Repeats(re) \cup Groups(re) \cup Joins(re) :
       re' = x /\ progs' = Programs(x)
  /\ UNCHANGED <<class, compiled>>

GrowClass == steps = -1 /\ Classes!RangesNext /\ UNCHANGED <<re, progs, steps>>

Next == Grow \/ GrowClass

vars == <<re, progs, steps, class, compiled>>
Spec == Init /\ [][Next]_vars

-----------------------------------------------------------------------------
(***************************************************************************)
(* What a program matches, by reachability alone.                          *)
(***************************************************************************)
RECURSIVE Reach(_, _, _, _)

\* The steps a configuration <<id, p>> can take.
After(prog, text, x) ==
  LET ip   == prog.inst[x[1]]
      p    == x[2]
      rest == IF ip.last THEN {} ELSE {<<x[1] + 1, p>>}
  IN  rest \cup
      CASE ip.op = "byte"  -> IF p < Len(text) /\ Matches(ip, text[p + 1])
                                THEN {<<ip.out, p + 1>>} ELSE {}
        [] ip.op = "empty" -> IF ip.empty \subseteq EmptyFlags(text, p)
                                THEN {<<ip.out, p>>} ELSE {}
        [] ip.op \in {"cap", "nop"} -> {<<ip.out, p>>}
        [] OTHER -> {}

Reach(prog, text, todo, seen) ==
  IF todo = {} THEN seen
  ELSE LET next == UNION {After(prog, text, x) : x \in todo}
       IN  Reach(prog, text, next \ (seen \cup todo), seen \cup todo)

\* The <<from, to>> that the program matches, entered at `entry`.
Spans(prog, text, entry) ==
  LET ends(q) == {x[2] : x \in {y \in Reach(prog, text, {<<entry, q>>}, {}) :
                                  prog.inst[y[1]].op = "match"}}
      n == Len(text)
  IN  UNION {{<<q, r>> : r \in ends(q) \cap (IF prog.anchorEnd THEN {n} ELSE 0 .. n)}
             : q \in IF prog.anchorStart THEN {0} ELSE 0 .. n}

WantedOf(text) ==
  LET ways(q) == Try(re, At(q, [k \in 0 .. 3 |-> -1]), text, Len(text))
  IN  UNION {{<<q, at.p>> : at \in Range(ways(q))} : q \in 0 .. Len(text)}

\* A program matches what its regexp does, a reversed program does so in the
\* reversed text, and from the unanchored entry it matches after any bytes
\* (compile.cc, with the rewriting of Optimize and Flatten).
ProgramsMeanRegexp ==
  \A text \in UNION {[1 .. n -> Byte] : n \in 0 .. TextLen} :
    \A prog \in progs :
      LET n    == Len(text)
          txet == [i \in 1 .. n |-> text[n + 1 - i]]
          want == IF prog.reversed THEN {<<n - x[2], n - x[1]>> : x \in WantedOf(text)}
                  ELSE WantedOf(text)
          in   == IF prog.reversed THEN txet ELSE text
      IN  /\ Spans(prog, in, prog.start) = want
          /\ Spans(prog, in, prog.unanchored) =
               {<<q, r>> \in (0 .. n) \X (0 .. n) :
                  \E x \in want : q <= x[1] /\ r = x[2] /\ (prog.anchorStart => q = 0)}

\* Programs are what the engines take them for.  What a hint skips does not
\* match (prog.cc, ComputeHints): the byte ranges between an instruction and its
\* hint, or the end of the list, are for bytes that it is not for.  An AltMatch
\* is a loop over any byte and a match (Optimize, Flatten), and all arrows lead
\* to the head of a list (EmitList).
ProgramsAsAssumed ==
  \A prog \in progs : WellFormed(prog) /\ HintsSound(prog) /\ LoopsSound(prog)

\* Bytes of one class are alike to every byte range that leads somewhere else
\* and to every empty-width condition the program asks for: replacing one by
\* the other changes no match (prog.cc, ComputeByteMap).
ClassesAlike ==
  \A prog \in progs : \A b \in Byte : \A c \in b + 1 .. ByteMax :
    prog.bytemap[b] = prog.bytemap[c] =>
      \A text \in UNION {[1 .. n -> Byte] : n \in 1 .. TextLen} :
        \A k \in DOMAIN text :
          text[k] = b => Spans(prog, text, prog.start)
                           = Spans(prog, [text EXCEPT ![k] = c], prog.start)

\* Every way to compile a class of runes makes a program that reads the
\* encodings of exactly its runes, each in one way: no sequence is lost or won
\* when beginnings and ends are shared, a shared suffix is copied or an
\* instruction is taken back (compile.cc:445-832).
RangesExact == steps = -1 => Classes!RangesExact
=============================================================================
