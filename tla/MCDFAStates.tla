---------------------------- MODULE MCDFAStates -----------------------------
(***************************************************************************)
(* The determinised programs, forward and reversed, over all short texts,  *)
(* and sets of regexps, searched for all at once (re2/re2/set.cc).         *)
(***************************************************************************)
EXTENDS DFAStates, MCRegexps

\* Only many-match searches and those for the longest match run backwards.
MCDFAProgs ==
  UNION {{Compiled[n] @@ [sample |-> n, set |-> 0],
          ReversedProgs[n] @@ [sample |-> n, set |-> 0]} : n \in Sample}

\* Numbers of samples that make up a set.
Sets == << <<1, 10, 11>>, <<2, 8, 9>>, <<3, 15, 21>>, <<20, 23, 33>>, <<6, 14, 31>>,
           <<18, 19, 25>>, <<4, 12>>, <<27>>, <<7, 7, 16>>, << >> >>

Anchors == {"unanchored", "start", "both"}

Elements(n) == [i \in DOMAIN Sets[n] |-> Samples[Sets[n][i]]]

CompiledSets ==
  [n \in DOMAIN Sets |->
     [x \in Anchors |-> CompileSet(SetRegexp(Elements(n)), x, 200)]]

MCSetProgs ==
  UNION {{CompiledSets[n][x] @@ [sample |-> 0, set |-> n, anchor |-> x]
          : x \in Anchors} : n \in DOMAIN Sets}

\* RE2::Set::Match is anchored as far as the search is concerned, and its
\* text is its own context.  No matches are collected if nmatch is 0.
MCSetCalls ==
  {[text |-> t, b |-> 0, e |-> Len(t), anchored |-> TRUE, kind |-> "many", nmatch |-> n] :
     t \in Texts(ShortLen, Byte) \cup Texts(LongLen, LongByte), n \in {0, 1}}

AllProgs == MCDFAProgs \cup MCSetProgs
AllCalls == MCCalls \cup MCSetCalls

\* Many-match searches are for sets, and only they are.
MCInit == Init /\ (prog.set # 0 <=> call.kind = "many")
MCSpec == MCInit /\ [][Next]_vars

-----------------------------------------------------------------------------

\* The ends of the matches from position from, or their beginnings.
Spans ==
  LET re == Samples[prog.sample]
      ends(q) == {at.p : at \in Range(Ways(re, call, q))}
  IN  UNION {{<<q, r>> : r \in ends(q)} : q \in call.b .. call.e}

FirstEnd == Answer(Samples[prog.sample], call)[1]

Backwards ==
  LET spans == {x \in Spans : /\ AnchoredRun => x[2] = call.e
                              /\ EndMatch => x[1] = call.b}
      last  == Max({x[2] : x \in spans})
  IN  IF spans = {} THEN ~Found
      ELSE Found /\ (call.nmatch > 0 => End = Min({x[1] : x \in {y \in spans : y[2] = last}}))

\* The DFA finds a match when there is one and knows where it ends, or, when
\* it runs backwards, where the longest begins (Prog::SearchDFA).
AnswerCorrect ==
  pc = "done" /\ prog.set = 0 =>
    IF prog.reversed THEN call.kind = "first" \/ Backwards
    ELSE IF Answer(Samples[prog.sample], call) = NoAnswer THEN ~Found
    ELSE Found /\ (call.nmatch > 0 => End = FirstEnd)

\* The elements that match somewhere, as the anchor demands.
Expected ==
  LET from == IF prog.anchor = "unanchored" THEN 0 .. call.e ELSE {0}
      ends(i, q) == {w.p : w \in Range(Ways(Elements(prog.set)[i], call, q))}
  IN  {i \in DOMAIN Sets[prog.set] :
         \E q \in from : IF prog.anchor = "both" THEN call.e \in ends(i, q)
                         ELSE ends(i, q) # {}}

\* The search matches if some element does, and collects just the elements
\* that do (RE2::Set::Match).
SetAnswerCorrect ==
  pc = "done" /\ prog.set # 0 =>
    /\ Found = (Expected # {})
    /\ call.nmatch > 0 => matches = Expected

\* "Any string s that is an anchored match for this regexp satisfies min <= s
\* && s <= max" (re2.h:503-505), however short the strings are to be: of the
\* range that the DFA finds for a program.
RangeHolds ==
  pc = "search" /\ [call EXCEPT !.nmatch = 1] = RangeCall /\ ~prog.reversed /\ prog.set = 0 =>
    LET range == [maxlen \in 1 .. 3 |-> PossibleMatchRange(maxlen)] IN
    \A t \in Texts(3, Byte) :
      Answer(Samples[prog.sample], [RangeCall EXCEPT !.text = t, !.e = Len(t), !.kind = "full"])
        # NoAnswer => \A maxlen \in 1 .. 3 : Within(t, range[maxlen])
=============================================================================
