----------------------------- MODULE MCSubmatch -----------------------------
(***************************************************************************)
(* The three engines that report submatches, over the same compiled        *)
(* regexps and all short texts.  RE2::Match takes any of them for a search *)
(* (one-pass and bit-state when the program and the text allow), so they   *)
(* must agree.  RE2::Match itself is the fourth: it is called for regexps  *)
(* with every kind of anchor and prefix, on parts of texts, and asks       *)
(* engines that answer as the three here are seen to.  A behaviour is one  *)
(* call of one of the four.                                                *)
(***************************************************************************)
EXTENDS NFA, MCRegexps, RE2Match

CONSTANTS NodeBudget,
          \* For RE2::Match: samples and texts.
          ObjectSample, ObjectShortLen, ObjectLongLen, ObjectLongByte

\* Beside the variables of NFA and RE2Match.
VARIABLES engine, cap, start, job, visited, found,
          nodes, byid, it, workq, stack, cond, state, matchcap

common == <<engine, prog, call, pc, p, id, match, matched, cap>>
ofNFA == <<runq, i, nextq, ref, caps, free, stk, at, t0>>
ofBitState == <<start, job, visited, found>>
ofOnePass == <<nodes, byid, it, workq, stack, cond, state, matchcap>>

Back == INSTANCE BitState
One == INSTANCE OnePass WITH
         Calls <- {x \in Calls : x.anchored \/ x.kind = "full"}

\* The DFA for the longest match of a program, with memory enough.
DFA(program) ==
  INSTANCE DFAStates WITH
    Progs <- {}, Calls <- {}, prog <- program,
    call <- [text |-> << >>, b |-> 0, e |-> 0, anchored |-> TRUE, kind |-> "longest", nmatch |-> 1],
    pc <- "search", s <- 0, start <- 0, q0 <- 0, q1 <- 0, p <- 0,
    matched <- FALSE, lastmatch <- 0, matches <- {}
RangeOfProgram(program, maxlen) == DFA(program)!PossibleMatchRange(maxlen)
Successor(str) == DFA(0)!PrefixSuccessor(str)

ASSUME OnePassAssumption ==
  NodeBudget \in Nat /\ \A x \in Calls : 2 * x.nmatch <= One!MaxCap

-----------------------------------------------------------------------------
(***************************************************************************)
(* What RE2::Match is called with.                                         *)
(***************************************************************************)
AtBegin == Empty("BeginText")
AtEnd == Empty("EndText")

\* Regexps with a required prefix, or anchored at the end only.
Prefixed == <<
  \* \Aa(A|-)*
  Concat(<<AtBegin, Lit(a), Greedily(Capture(Alternate(<<Lit(A), Lit(dash)>>), 1))>>),
  \* (?i:\Aa-)
  Concat(<<AtBegin, Fold(<<a, dash>>)>>),
  \* \A-\b(\C*?)a
  Concat(<<AtBegin, Lit(dash), Empty("WordBoundary"), Capture(Lazily(AnyByte), 1), Lit(a)>>),
  \* \A\A(?i:a)(a?)\z
  Concat(<<AtBegin, AtBegin, Fold(<<a>>), Capture(Quest(Lit(a), FALSE), 1), AtEnd>>),
  \* \A-\A
  Concat(<<AtBegin, Lit(dash), AtBegin>>),
  \* \Aa$(\C?)
  Concat(<<AtBegin, Lit(a), Empty("EndLine"), Capture(Quest(AnyByte, FALSE), 1)>>),
  \* (a|)-?\z
  Concat(<<Capture(Alternate(<<Lit(a), EmptyMatch>>), 1), Quest(Lit(dash), FALSE), AtEnd>>),
  \* \Aa\b(A|-)
  Concat(<<AtBegin, Lit(a), Empty("WordBoundary"),
           Capture(Alternate(<<Lit(A), Lit(dash)>>), 1)>>)
>>

Patterns == {Samples[n] : n \in ObjectSample} \cup {Prefixed[n] : n \in DOMAIN Prefixed}

MCRE2s == UNION {{NewRE2(x, FALSE, 100), NewRE2(x, TRUE, 100)} : x \in Patterns}

MCRE2Calls ==
  UNION {[text : {t}, startpos : 0 .. Len(t) + 1, endpos : 0 .. Len(t) + 1,
          anchor : {"UNANCHORED", "ANCHOR_START", "ANCHOR_BOTH"}, nsubmatch : {0, 1, 2, 3}] :
           t \in Texts(ObjectShortLen, Byte) \cup Texts(ObjectLongLen, ObjectLongByte)}

-----------------------------------------------------------------------------
\* The variables of the engines that are not at work.
IdleNFA == /\ runq = << >> /\ i = 0 /\ nextq = << >> /\ ref = << >> /\ caps = << >>
           /\ free = << >> /\ stk = << >> /\ at = None /\ t0 = NoThread
IdleBitState == start = 0 /\ job = 0 /\ visited = 0 /\ found = 0
IdleOnePass == /\ nodes = 0 /\ byid = 0 /\ it = 0 /\ workq = 0
               /\ stack = 0 /\ cond = 0 /\ state = 0 /\ matchcap = 0

IdleEngines == /\ prog = 0 /\ call = 0 /\ pc = "idle" /\ p = 0 /\ id = 0
               /\ match = 0 /\ matched = FALSE /\ cap = 0
IdleRE2 == /\ re = 0 /\ query = 0 /\ onepass = 0 /\ stage = "idle" /\ sub = 0 /\ anchor = 0
           /\ place = 0 /\ skipped = 0 /\ asked = 0 /\ ret = 0 /\ submatch = 0

InitNFA == /\ engine = "nfa" /\ Init
           /\ cap = 0 /\ IdleBitState /\ IdleOnePass /\ IdleRE2
InitBitState == /\ engine = "bitstate" /\ Back!Init
                /\ matched = FALSE /\ IdleNFA /\ IdleOnePass /\ IdleRE2
InitOnePass == /\ engine = "onepass" /\ One!Init
               /\ match = 0 /\ IdleNFA /\ IdleBitState /\ IdleRE2
InitRE2 == /\ engine = "re2" /\ MInit
           /\ IdleEngines /\ IdleNFA /\ IdleBitState /\ IdleOnePass

MCInit == InitNFA \/ InitBitState \/ InitOnePass \/ InitRE2

NextNFA == /\ engine = "nfa" /\ Next
           /\ UNCHANGED <<engine, cap, ofBitState, ofOnePass, mvars>>
NextBitState == /\ engine = "bitstate" /\ Back!Next
                /\ UNCHANGED <<engine, matched, ofNFA, ofOnePass, mvars>>
NextOnePass == /\ engine = "onepass" /\ One!Next
               /\ UNCHANGED <<engine, match, ofNFA, ofBitState, mvars>>
NextRE2 == /\ engine = "re2" /\ MNext
           /\ UNCHANGED <<common, ofNFA, ofBitState, ofOnePass>>

MCNext == NextNFA \/ NextBitState \/ NextOnePass \/ NextRE2
MCVars == <<common, ofNFA, ofBitState, ofOnePass, mvars>>
MCSpec == MCInit /\ [][MCNext]_MCVars

\* RE2::Match alone.
RE2Spec == InitRE2 /\ [][NextRE2]_MCVars

-----------------------------------------------------------------------------
\* Whichever engine answers, it finds what the regexp asks for, in the place
\* and with the submatches a backtracking matcher prefers, whatever the text
\* around the part searched (the promise of Search in prog.h, kept by nfa.cc
\* and bitstate.cc for every program, by onepass.cc for those it accepts).
AnswerCorrect ==
  pc = "done" =>
    LET result == CASE engine = "nfa"      -> <<Found, match>>
                    [] engine = "bitstate" -> <<Back!Found, match>>
                    [] engine = "onepass"  -> <<matched, matchcap>>
    IN  Agrees(prog, call, result[1], result[2])

\* The undo jobs on the backtracker's stack take every capture register back
\* to unset (BitState::Push and TrySearch).
CapturesUndone == engine = "bitstate" => Back!CapturesUndone

\* The flood of IsOnePass never overruns its stack.
FloodStackFits == engine = "onepass" => One!StackFits

FullMatchOf(t) == [text |-> t, b |-> 0, e |-> Len(t), anchored |-> TRUE, kind |-> "full"]

\* "Any string s that is an anchored match for this regexp satisfies min <= s
\* && s <= max" (re2.h:503-505), of RE2::PossibleMatchRange.
MatchesInRange ==
  stage = "done" =>
    LET program == Compile(re.suffix, FALSE, 100) IN
    \A maxlen \in 1 .. 3 :
      LET range == PossibleMatchRange(re, program, maxlen) IN
      \A t \in Texts(3, Byte) :
        Answer(re.regexp, FullMatchOf(t)) # NoAnswer => DFA(0)!Within(t, range)
=============================================================================
