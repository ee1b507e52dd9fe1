----------------------------- MODULE DFAStates ------------------------------
(***************************************************************************)
(* How re2/re2/dfa.cc makes its states: the subset construction that keeps *)
(* the order of preference, and the search that follows it.  Which states  *)
(* are kept, discarded and made again is the business of DFACache; here    *)
(* every state is made when it is needed.                                  *)
(***************************************************************************)
EXTENDS Searches, FiniteSetsExt, SequencesExt

VARIABLES
  prog, call,      \* the program and the call being answered
  pc,              \* "search", "scan" or "done"
  s, start,        \* the current state and the one the search began with
  q0, q1,          \* the work queues that made it, as the last step left them
  p,               \* bytes consumed
  matched, lastmatch,  \* DFA::Search: did it match, and after how many bytes?
  matches          \* the match ids collected

vars == <<prog, call, pc, s, start, q0, q1, p, matched, lastmatch, matches>>

Mark == -1          \* separates threads that began at different positions
EndOfText == -1     \* kByteEndText
DeadState == [op |-> "dead"]
FullMatchState == [op |-> "full"]
Special == {DeadState, FullMatchState}

\* SearchDFA turns a full match into an anchored longest one, and an end
\* anchor or a caller who does not care where the match is do the same.
Reversed == prog.reversed
EndMatch == call.kind # "many" /\ (call.kind = "full" \/ prog.anchorEnd)
Earliest == call.nmatch = 0 /\ ~EndMatch
Kind == IF call.kind = "many" THEN "many"
        ELSE IF EndMatch \/ Earliest THEN "longest" ELSE call.kind
Caret == IF Reversed THEN prog.anchorEnd ELSE prog.anchorStart
Dollar == IF Reversed THEN prog.anchorStart ELSE prog.anchorEnd

-----------------------------------------------------------------------------
(***************************************************************************)
(* The work queue: instructions in order of preference, and marks.  high   *)
(* is the deepest that the stack of AddToQueue has been.                   *)
(***************************************************************************)
ProgSize == Cardinality(DOMAIN prog.inst)
MaxMark == IF Kind = "longest" THEN ProgSize ELSE 0

\* Mutant: no stack entries for nops.
StackSizeNoNop ==
  InstCount(prog, "cap") + InstCount(prog, "empty") + MaxMark + 1

StackSize ==
  InstCount(prog, "cap") + InstCount(prog, "empty") + InstCount(prog, "nop")
  + MaxMark + 1

NewQueue == [ids |-> << >>, last |-> TRUE, high |-> 0]
Clear(q) == [q EXCEPT !.ids = << >>]
Insert(q, id) == [q EXCEPT !.ids = Append(@, id), !.last = FALSE]

\* mark(): last_was_mark_ is true only until something has been inserted.
PutMark(q) == IF q.last THEN q ELSE Insert(q, Mark)

MarkCount(q) == Len(SelectSeq(q.ids, LAMBDA id : id = Mark))

\* The loop over any byte in front of an unanchored search.  Threads that it
\* starts later are less preferred than those under way.
StartsLater(id) == MaxMark > 0 /\ id = prog.unanchored /\ id # prog.start

\* Follow the empty arrows from id, and then from what is on the stack.
RECURSIVE Follow(_, _, _, _)
Follow(q, id, stk, flag) ==
  LET ip     == prog.inst[id]
      in     == Insert(q, id)
      rest   == IF ip.last THEN << >> ELSE <<id + 1>>
      pushed == (IF ip.op = "nop" /\ StartsLater(id) THEN <<Mark>> ELSE << >>)
                \o rest \o stk
      deeper == [in EXCEPT !.high = Max({@, Len(pushed)})]
      pop(x, st) == IF st = << >> THEN x ELSE Follow(x, Head(st), Tail(st), flag)
      next(x) == IF ip.last THEN pop(x, stk) ELSE Follow(x, id + 1, stk, flag)
  IN  IF id = Mark THEN pop(PutMark(q), stk)
      ELSE IF id = 0 \/ Contains(q.ids, id) THEN pop(q, stk)
      ELSE CASE ip.op \in {"byte", "match", "altmatch"} -> next(in)
             [] ip.op \in {"cap", "nop"} -> Follow(deeper, ip.out, pushed, flag)
             [] ip.op = "empty" ->
                  IF ip.empty \subseteq flag THEN Follow(deeper, ip.out, pushed, flag)
                  ELSE pop(deeper, pushed)

AddToQueue(q, id, flag) ==
  Follow([q EXCEPT !.high = Max({@, 1})], id, << >>, flag)

AddAll(q, ids, flag) == FoldLeft(LAMBDA x, id : AddToQueue(x, id, flag), Clear(q), ids)

StateToWorkq(st, q) ==
  FoldLeft(LAMBDA x, id : IF id = Mark THEN PutMark(x)
                          ELSE AddToQueue(x, id, st.flag \cap EmptyOp),
           Clear(q), st.inst)

RunWorkqOnEmptyString(oldq, newq, flag) == AddAll(newq, oldq.ids, flag)

-----------------------------------------------------------------------------
(***************************************************************************)
(* RunWorkqOnByte: what follows byte c.  A byte range that matches leads   *)
(* on to the instruction its hint names, or else to the end of its list.   *)
(***************************************************************************)
ListEnd(id) == Min({j \in id .. ProgSize - 1 : prog.inst[j].last})

Skip(id) ==
  LET ip == prog.inst[id] IN IF ip.hint # 0 THEN ip.hint ELSE ListEnd(id) - id + 1

\* k is the place in oldq; the result has the queue and whether it matched.
RECURSIVE RunFrom(_, _, _, _, _, _)
RunFrom(oldq, k, newq, c, flag, ismatch) ==
  LET id   == oldq.ids[k]
      ip   == prog.inst[id]
      over == [q |-> newq, ismatch |-> ismatch]
      go(q, j, m) == RunFrom(oldq, j, q, c, flag, m)
  IN  IF k > Len(oldq.ids) THEN over
      ELSE IF id = Mark
        THEN IF ismatch THEN over ELSE go(PutMark(newq), k + 1, ismatch)
      ELSE IF ip.op = "byte" /\ Matches(ip, c)
        THEN go(AddToQueue(newq, ip.out, flag), k + Skip(id), ismatch)
      ELSE IF /\ ip.op = "match"
              /\ ~(prog.anchorEnd /\ c # EndOfText /\ Kind # "many")
        THEN IF Kind = "first" THEN [over EXCEPT !.ismatch = TRUE]
             ELSE go(newq, k + 1, TRUE)
      ELSE go(newq, k + 1, ismatch)

RunWorkqOnByte(oldq, newq, c, flag) == RunFrom(oldq, 1, Clear(newq), c, flag, FALSE)

-----------------------------------------------------------------------------
(***************************************************************************)
(* WorkqToCachedState: the state for a queue.  It keeps the heads of the   *)
(* lists, no more than what can still matter, in an order that does not    *)
(* depend on how they were reached where that does not matter.             *)
(***************************************************************************)
\* Mutant: no matter what is preferred to it.
AllFromHereAnywhere(k, id, sawmark, flag) == Kind # "many" /\ "Match" \in flag

\* A match is certain behind this AltMatch, whatever follows.
AllFromHere(k, id, sawmark, flag) ==
  /\ Kind # "many"
  /\ Kind = "first" => k = 1 /\ Greedy(prog.inst, prog.inst[id])
  /\ Kind = "longest" => ~sawmark
  /\ "Match" \in flag

Gathered == [inst |-> << >>, need |-> {}, sawmatch |-> FALSE, sawmark |-> FALSE,
             over |-> FALSE, full |-> FALSE]

Gather(g, k, id, flag) ==
  LET ip == prog.inst[id]
  IN  IF g.over \/ (g.sawmatch /\ (Kind = "first" \/ id = Mark))
        THEN [g EXCEPT !.over = TRUE]
      ELSE IF id = Mark
        THEN IF g.inst # << >> /\ Last(g.inst) # Mark
               THEN [g EXCEPT !.sawmark = TRUE, !.inst = Append(@, Mark)] ELSE g
      ELSE IF ip.op = "altmatch" /\ AllFromHere(k, id, g.sawmark, flag)
        THEN [g EXCEPT !.over = TRUE, !.full = TRUE]
      ELSE [g EXCEPT !.inst = IF prog.inst[id - 1].last THEN Append(@, id) ELSE @,
                     !.need = IF ip.op = "empty" THEN @ \cup ip.empty ELSE @,
                     !.sawmatch = @ \/ (ip.op = "match" /\ ~prog.anchorEnd)]

RECURSIVE SortRuns(_)
SortRuns(ids) ==
  LET marks == {k \in DOMAIN ids : ids[k] = Mark}
      n     == IF marks = {} THEN Len(ids) ELSE Min(marks) - 1
      run   == Ascending({ids[k] : k \in 1 .. n})
  IN  IF marks = {} THEN run
      ELSE run \o <<Mark>> \o SortRuns(SubSeq(ids, n + 2, Len(ids)))

\* Mutant: only the first match is recorded.
MatchIdsFirst(mq) ==
  LET hits == SelectSeq(mq, LAMBDA id : prog.inst[id].op = "match")
  IN  IF hits = << >> THEN {} ELSE {prog.inst[hits[1]].id}

\* What follows the MatchSep: the ids of the matches in the queue mq.
MatchIds(mq) ==
  {prog.inst[id].id : id \in {x \in Range(mq) : prog.inst[x].op = "match"}}

WithoutLastMark(ids) == IF ids # << >> /\ Last(ids) = Mark THEN Front(ids) ELSE ids

CachedState(g, inst, mq, flag) ==
  LET kept == IF g.need = {} THEN flag \cap {"Match"} ELSE flag
  IN  IF g.full THEN FullMatchState
      ELSE IF inst = << >> /\ kept = {} THEN DeadState
      ELSE [op |-> "state", flag |-> kept, need |-> g.need, ids |-> MatchIds(mq),
            inst |-> IF Kind = "first" THEN inst ELSE SortRuns(inst)]

FromGathered(g, mq, flag) == CachedState(g, WithoutLastMark(g.inst), mq, flag)

WorkqToCachedState(q, mq, flag) ==
  FromGathered(FoldLeft(LAMBDA g, k : Gather(g, k, q.ids[k], flag), Gathered,
                        [k \in DOMAIN q.ids |-> k]), mq, flag)

-----------------------------------------------------------------------------
(***************************************************************************)
(* RunStateOnByte, on the queues a and b: the flags around the byte c, the *)
(* part that needs new flags, and the byte itself.                         *)
(***************************************************************************)
IsWord(c) == c \in WordChars

BeforeFlag(st, c) ==
  (st.flag \cap EmptyOp)
  \cup (IF c = Newline THEN {"EndLine"} ELSE {})
  \cup (IF c = EndOfText THEN {"EndLine", "EndText"} ELSE {})
  \cup {IF IsWord(c) = ("LastWord" \in st.flag) THEN "NonWordBoundary" ELSE "WordBoundary"}

AfterFlag(c) == IF c = Newline THEN {"BeginLine"} ELSE {}

FlagAfter(ismatch, c) ==
  AfterFlag(c) \cup (IF ismatch THEN {"Match"} ELSE {})
               \cup (IF IsWord(c) THEN {"LastWord"} ELSE {})

\* The state after byte c, when ran is what the queue `from` has become.
Landed(ran, from, c) ==
  LET mq == IF ran.ismatch /\ Kind = "many" THEN from.ids ELSE << >>
  IN  [s |-> WorkqToCachedState(ran.q, mq, FlagAfter(ran.ismatch, c)),
       q0 |-> ran.q, q1 |-> from]

RunByte(from, spare, c) ==
  Landed(RunWorkqOnByte(from, spare, c, AfterFlag(c)), from, c)

\* If flags that the state waits for hold now, its queue is made again first.
StepFrom(old, spare, st, before, c) ==
  LET again == (before \ st.flag) \cap st.need # {}
      from  == IF again THEN RunWorkqOnEmptyString(old, spare, before) ELSE old
  IN  RunByte(from, IF again THEN old ELSE spare, c)

Step(st, c, a, b) == StepFrom(StateToWorkq(st, a), b, st, BeforeFlag(st, c), c)

-----------------------------------------------------------------------------
(***************************************************************************)
(* SearchDFA.  A reversed program reads the text from its end.             *)
(***************************************************************************)
TextSize == call.e - call.b

\* Byte number n of the text in the order of the search, the one after the
\* last included, and the one before the first.
Symbol(n) ==
  LET k == IF Reversed THEN call.e - n + 1 ELSE call.b + n
  IN  IF k \in DOMAIN call.text THEN call.text[k] ELSE EndOfText

\* AnalyzeSearch: what the byte before the text makes hold at its start.
StartFlags ==
  LET c == Symbol(0)
  IN  CASE c = EndOfText -> {"BeginText", "BeginLine"}
        [] c = Newline   -> {"BeginLine"}
        [] IsWord(c)     -> {"LastWord"}
        [] OTHER         -> {}

AnchoredRun == call.anchored \/ prog.anchorStart \/ call.kind = "full"
Entry == IF AnchoredRun THEN prog.start ELSE prog.unanchored

Init ==
  /\ prog \in Progs /\ call \in Calls
  /\ pc = "search" /\ s = DeadState /\ start = DeadState /\ p = 0
  /\ q0 = NewQueue /\ q1 = NewQueue
  /\ matched = FALSE /\ lastmatch = 0 /\ matches = {}

Reject ==
  /\ pc = "search"
  /\ ~((Caret => call.b = 0) /\ (Dollar => call.e = Len(call.text)))
  /\ pc' = "done"
  /\ UNCHANGED <<prog, call, s, start, q0, q1, p, matched, lastmatch, matches>>

\* A special start state ends the search at once.
StartAt(q, st) ==
  /\ q0' = q /\ s' = st /\ start' = st
  /\ matched' = (st = FullMatchState)
  /\ lastmatch' = IF st = FullMatchState /\ ~Earliest THEN TextSize ELSE 0
  /\ pc' = IF st \in Special THEN "done" ELSE "scan"
  /\ UNCHANGED <<prog, call, q1, p, matches>>

StartWith(q) == StartAt(q, WorkqToCachedState(q, << >>, StartFlags))

Start ==
  /\ pc = "search"
  /\ (Caret => call.b = 0) /\ (Dollar => call.e = Len(call.text))
  /\ StartWith(AddToQueue(Clear(q0), Entry, StartFlags))

CanAccel ==
  CanPrefixAccel(prog) /\ ~AnchoredRun /\ start \notin Special /\ start.need = {}

\* From the start state to where the prefix may occur, or to the end.
Skipped ==
  IF CanAccel /\ s = start
    THEN PrefixAccel(prog, call.text, call.b + p, call.e) - call.b ELSE p

\* In the state of r after one more byte.  A match is noticed one byte late.
Arrive(r) ==
  LET match == r.s \notin Special /\ "Match" \in r.s.flag IN
  /\ p' = Skipped + 1
  /\ s' = r.s /\ q0' = r.q0 /\ q1' = r.q1
  /\ matched' = (matched \/ match \/ r.s = FullMatchState)
  /\ lastmatch' = IF r.s = FullMatchState THEN TextSize ELSE IF match THEN Skipped ELSE lastmatch
  /\ matches' = IF match /\ Kind = "many" /\ ~Earliest THEN matches \cup r.s.ids
                ELSE matches
  /\ pc' = IF r.s \in Special \/ Skipped = TextSize \/ (match /\ Earliest) THEN "done" ELSE pc
  /\ UNCHANGED <<prog, call, start>>

\* One byte, and the imaginary one after the text at last.
Scan == pc = "scan" /\ Arrive(Step(s, Symbol(Skipped + 1), q0, q1))

Done == pc = "done" /\ UNCHANGED vars

Next == Reject \/ Start \/ Scan \/ Done

Spec == Init /\ [][Next]_vars

\* What SearchDFA returns, and the end of the match, or its beginning if the
\* program is reversed.
Found == matched /\ (EndMatch => lastmatch = TextSize)
End == IF Reversed THEN call.e - lastmatch ELSE call.b + lastmatch

-----------------------------------------------------------------------------
(***************************************************************************)
(* Properties.                                                             *)
(***************************************************************************)
\* The work queues have room for the marks that pile up in them, and the
\* stack for the marks pushed with the instructions (dfa.cc:421-433, 818-827).
QueuesFit ==
  /\ MarkCount(q0) <= MaxMark /\ MarkCount(q1) <= MaxMark
  /\ q0.high <= StackSize /\ q1.high <= StackSize

-----------------------------------------------------------------------------
(***************************************************************************)
(* DFA::PossibleMatchRange (re2/re2/dfa.cc): strings between which every   *)
(* string lies that the program matches from its first byte to its last.   *)
(* The DFA is one for the longest match, the call anchored in an empty     *)
(* text.                                                                   *)
(***************************************************************************)
RangeCall ==
  [text |-> << >>, b |-> 0, e |-> 0, anchored |-> TRUE, kind |-> "longest", nmatch |-> 1]

NoRange == [ok |-> FALSE]
PossibleRange(min, max) == [ok |-> TRUE, min |-> min, max |-> max]

RangeStart == WorkqToCachedState(AddToQueue(NewQueue, prog.start, StartFlags), << >>, StartFlags)

\* RunStateOnByte, as the walk uses it.
To(st, c) == IF st = FullMatchState THEN st ELSE Step(st, c, NewQueue, NewQueue).s
Arrows(st) == [c \in Byte \cup {EndOfText} |-> To(st, c)]
IsMatch(ns) == ns = FullMatchState \/ (ns # DeadState /\ "Match" \in ns.flag)
Goes(ns) == ns = FullMatchState \/ (ns # DeadState /\ ns.inst # << >>)

\* The bytes that the walk takes from st: the lowest until there is a match, or
\* the highest as long as there are any.  Both end where they have been before.
Preceded(c, path) == [path EXCEPT !.bytes = <<c>> \o @]
RECURSIVE Path(_, _, _, _), Along(_, _, _, _)
Path(st, seen, n, low) ==
  IF n = 0 \/ st \in seen THEN [bytes |-> << >>, done |-> FALSE]
  ELSE Along(Arrows(st), seen \cup {st}, n, low)
Along(to, seen, n, low) ==
  LET bytes == {c \in Byte : Goes(to[c])}
      c     == IF low THEN Min(bytes) ELSE Max(bytes)
  IN  IF bytes = {} \/ (low /\ IsMatch(to[EndOfText])) THEN [bytes |-> << >>, done |-> TRUE]
      ELSE Preceded(c, Path(to[c], seen, n - 1, low))

\* Mutant of PrefixSuccessor: the last byte is always incremented.
PrefixSuccessorWrapping(str) ==
  IF str = << >> THEN str ELSE [str EXCEPT ![Len(str)] = (@ + 1) % (ByteMax + 1)]

\* The least string that is greater than all with this prefix; empty if there
\* is none.
PrefixSuccessor(str) ==
  LET low == {k \in DOMAIN str : str[k] # ByteMax}
  IN  IF low = {} THEN << >> ELSE [SubSeq(str, 1, Max(low)) EXCEPT ![Max(low)] = @ + 1]

Between(low, high) ==
  LET max == IF high.done THEN high.bytes ELSE PrefixSuccessor(high.bytes)
  IN  IF ~high.done /\ max = << >> THEN NoRange ELSE PossibleRange(low.bytes, max)

RangeFrom(st, maxlen) ==
  CASE st = DeadState -> PossibleRange(<< >>, << >>)
    [] st = FullMatchState -> NoRange
    [] OTHER -> Between(Path(st, {}, maxlen, TRUE), Path(st, {}, maxlen, FALSE))

PossibleMatchRange(maxlen) == RangeFrom(RangeStart, maxlen)

\* std::string's order.
AtMost(s1, s2) ==
  \/ IsPrefix(s1, s2)
  \/ \E k \in 1 .. Min({Len(s1), Len(s2)}) :
       SubSeq(s1, 1, k - 1) = SubSeq(s2, 1, k - 1) /\ s1[k] < s2[k]

Within(str, range) == range.ok => AtMost(range.min, str) /\ AtMost(str, range.max)
=============================================================================
