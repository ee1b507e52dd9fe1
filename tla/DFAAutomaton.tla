---------------------------- MODULE DFAAutomaton ----------------------------
(***************************************************************************)
(* The automaton behind one DFA object of re2/re2/dfa.cc, as data.         *)
(*                                                                         *)
(* A DFA state is identified by its content: the ordered instruction list  *)
(* and the flag word that StateHash and StateEqual compare.  Contents are  *)
(* opaque values here; Delta[k][c] is what RunStateOnByte computes from    *)
(* content k on byte class c, and StartOf[kind] what AnalyzeSearchHelper   *)
(* computes for one of the start_ slots.  Both may instead be one of the   *)
(* two special pointers DeadState and FullMatchState.  How contents are    *)
(* computed from a program is left abstract.                               *)
(***************************************************************************)
EXTENDS Integers, Sequences

CONSTANTS
  Content,         \* the contents (inst_, flag_) a state may have
  Byte,            \* byte classes, the imaginary kByteEndText among them
  EndText,         \* kByteEndText
  StartKind,       \* the slots of start_ in use
  DeadState,       \* special pointer: no match is possible any more
  FullMatchState,  \* special pointer: the rest of the text matches
  Delta,           \* content -> byte class -> content or special pointer
  StartOf,         \* start slot -> content or special pointer
  IsMatch,         \* kFlagMatch of a content
  MatchId,         \* the match ids that a many-match state may carry
  MatchIds,        \* content -> the match ids stored after its MatchSep
  CanAccel,        \* start slot -> params->can_prefix_accel
  Prefix,          \* what PrefixAccel looks for: the byte classes that it takes
                   \* for each byte of the required prefix
  ManyMatch        \* kind_ == Prog::kManyMatch

Special == {DeadState, FullMatchState}
Target  == Content \cup Special

\* lastmatch == NULL, and params->ep == NULL
NoPos == -1

ASSUME SpecialAssumption ==
  /\ DeadState # FullMatchState
  /\ Content \cap Special = {}
  /\ EndText \in Byte

ASSUME AutomatonAssumption ==
  /\ Delta \in [Content -> [Byte -> Target]]
  /\ StartOf \in [StartKind -> Target]
  /\ IsMatch \in [Content -> BOOLEAN]
  /\ MatchIds \in [Content -> SUBSET MatchId]
  /\ CanAccel \in [StartKind -> BOOLEAN]
  /\ Prefix \in Seq(SUBSET (Byte \ {EndText})) /\ Prefix # << >>
  /\ ManyMatch \in BOOLEAN

\* WorkqToCachedState never returns FullMatchState to a many-match DFA.
ASSUME ManyMatchAssumption ==
  ManyMatch => /\ \A k \in Content, c \in Byte : Delta[k][c] # FullMatchState
               /\ \A kind \in StartKind : StartOf[kind] # FullMatchState

\* Start flags never include kFlagMatch, and a special start state is not
\* accelerated.
ASSUME StartAssumption ==
  \A kind \in StartKind :
    /\ StartOf[kind] \in Content => ~IsMatch[StartOf[kind]]
    /\ CanAccel[kind] => StartOf[kind] \in Content

-----------------------------------------------------------------------------
(***************************************************************************)
(* One call of DFA::Search.  text is the sequence of byte classes in scan  *)
(* order (a reversed program scans from the other end); last is the class  *)
(* of the byte after it in the context, EndText at the context's end.      *)
(***************************************************************************)
Request == [text : Seq(Byte \ {EndText}), last : Byte,
            kind : StartKind, earliest : BOOLEAN]

\* The symbol consumed by step i; step Len(text) + 1 is the extra one.
Symbol(r, i) == IF i <= Len(r.text) THEN r.text[i] ELSE r.last

\* The out parameters of a search: ep, the collected ids, and how it ended.
Run == [ep : Int, ids : SUBSET MatchId,
        outcome : {"running", "match", "nomatch", "failed", "fatal"}]

At(ep, ids, outcome) == [ep |-> ep, ids |-> ids, outcome |-> outcome]

NewRun == At(NoPos, {}, "running")

Ended(lastmatch) == IF lastmatch = NoPos THEN "nomatch" ELSE "match"

(***************************************************************************)
(* The bookkeeping of InlinedSearchLoop once step i has led to k: a dead   *)
(* state ends the search with what was found so far, a full match ends it  *)
(* at the end of the text, a match is noted one byte late, and the         *)
(* earliest match ends the search.                                         *)
(***************************************************************************)
Arrive(r, run, i, k) ==
  CASE k = DeadState      -> At(run.ep, run.ids, Ended(run.ep))
    [] k = FullMatchState -> At(Len(r.text), run.ids, "match")
    [] OTHER ->
       LET ep   == IF IsMatch[k] THEN i - 1 ELSE run.ep
           ids  == IF IsMatch[k] /\ ManyMatch /\ ~r.earliest
                     THEN run.ids \cup MatchIds[k] ELSE run.ids
           last == i > Len(r.text) \/ (IsMatch[k] /\ r.earliest)
       IN  At(ep, ids, IF last THEN Ended(ep) ELSE "running")

\* What DFA::Search makes of the start state: a special one ends it at once.
Begin(r, k) ==
  CASE k = DeadState      -> At(NoPos, {}, "nomatch")
    [] k = FullMatchState -> At(IF r.earliest THEN 0 ELSE Len(r.text), {}, "match")
    [] OTHER              -> NewRun

(***************************************************************************)
(* Prefix acceleration.                                                    *)
(***************************************************************************)
\* The prefix is in the text, its first byte read by step i.
Occurs(r, i) ==
  /\ i + Len(Prefix) - 1 <= Len(r.text)
  /\ \A k \in DOMAIN Prefix : r.text[i + k - 1] \in Prefix[k]

\* After p steps PrefixAccel goes on with step i: the next that begins an
\* occurrence, or the extra one if none does.
SkipsTo(r, p, i) ==
  /\ \A j \in (p + 1) .. (i - 1) : ~Occurs(r, j)
  /\ i <= Len(r.text) => Occurs(r, i)

\* What the steps from i on find, with the automaton in q before them.
Finds(r, i, q) ==
  LET found[left \in 0 .. Len(r.text) + 1] ==
        [k \in Content |->
           LET step  == Len(r.text) + 2 - left
               now   == Arrive(r, NewRun, step, Delta[k][Symbol(r, step)])
               later == found[left - 1][Delta[k][Symbol(r, step)]]
               ep    == IF later.ep = NoPos THEN now.ep ELSE later.ep
           IN  IF left = 0 THEN NewRun
               ELSE IF now.outcome # "running" THEN now
               ELSE At(ep, now.ids \cup later.ids, Ended(ep))]
  IN  found[Len(r.text) + 2 - i][q]
=============================================================================
