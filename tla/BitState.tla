------------------------------ MODULE BitState ------------------------------
(***************************************************************************)
(* The bounded backtracker of re2/re2/bitstate.cc.  It tries the choices   *)
(* in order of preference, one start position after the other, and visits  *)
(* no list of the program twice at one position of the text.               *)
(***************************************************************************)
EXTENDS Searches

VARIABLES
  prog,     \* the program
  call,     \* the call being answered
  pc,       \* "search", "start", "pop", "visit" or "done"
  start,    \* the start position being tried
  id, p,    \* the instruction visited, and where
  job,      \* the stack, top first
  visited,  \* the (list ID, position) pairs visited
  cap,      \* the capture registers
  match,    \* the best match so far, NoMatch before the first
  found     \* what the search returns

vars == <<prog, call, pc, start, id, p, job, visited, cap, match, found>>

ip == prog.inst[id]
NCap == IF NMatch(call) = 0 THEN 2 ELSE 2 * NMatch(call)
NoMatch == << >>

Init ==
  /\ prog \in Progs /\ call \in Calls
  /\ pc = "search" /\ start = call.b
  /\ id = 0 /\ p = 0
  /\ job = << >> /\ visited = {}
  /\ cap = [n \in 0 .. NCap - 1 |-> NoPos]
  /\ match = NoMatch /\ found = FALSE

Reject ==
  /\ pc = "search"
  /\ ~AnchorsFit(prog, call)
  /\ pc' = "done"
  /\ UNCHANGED <<prog, call, start, id, p, job, visited, cap, match, found>>

Begin ==
  /\ pc = "search"
  /\ AnchorsFit(prog, call)
  /\ pc' = "start"
  /\ UNCHANGED <<prog, call, start, id, p, job, visited, cap, match, found>>

-----------------------------------------------------------------------------
(***************************************************************************)
(* Jobs.  A job [id, p, rle] stands for id at p, p + 1, .. p + rle; a job  *)
(* with id < 0 puts p back into the register of the capture at -id.        *)
(***************************************************************************)
Job(n, q, rle) == [id |-> n, p |-> q, rle |-> rle]

Push(n, q, jobs) ==
  IF n >= 0 /\ jobs # << >> /\ jobs[1].id = n /\ q = jobs[1].p + jobs[1].rle + 1
    THEN [jobs EXCEPT ![1].rle = @ + 1]
    ELSE <<Job(n, q, 0)>> \o jobs

PushRest == IF ip.last THEN job ELSE Push(id + 1, p, job)

ShouldVisit(n, q) == <<ListId(prog, n), q>> \notin visited

\* CheckAndLoop: go on at the head of a list, unless it was visited there.
CheckAndLoop(n, q) ==
  IF ShouldVisit(n, q)
    THEN /\ visited' = visited \cup {<<ListId(prog, n), q>>}
         /\ id' = n /\ p' = q /\ UNCHANGED pc
    ELSE pc' = "pop" /\ UNCHANGED <<visited, id, p>>

\* Next: go on with the rest of the list.
GoOn ==
  IF ip.last THEN pc' = "pop" /\ UNCHANGED id ELSE id' = id + 1 /\ UNCHANGED pc

-----------------------------------------------------------------------------
(***************************************************************************)
(* Search: one start position after the other.                             *)
(***************************************************************************)
Skipped ==
  IF ~Anchored(prog, call) /\ start < call.e /\ CanPrefixAccel(prog)
    THEN PrefixAccel(prog, call.text, start, call.e) ELSE start

TrySearch ==
  /\ pc = "start"
  /\ start <= call.e /\ (Anchored(prog, call) => start = call.b)
  /\ start' = Skipped
  /\ cap' = [cap EXCEPT ![0] = start']
  /\ job' = IF ShouldVisit(prog.start, start')
              THEN Push(prog.start, start', << >>) ELSE << >>
  /\ visited' = visited \cup {<<ListId(prog, prog.start), start'>>}
  /\ pc' = "pop"
  /\ UNCHANGED <<prog, call, id, p, match, found>>

NoStartLeft ==
  /\ pc = "start"
  /\ ~(start <= call.e /\ (Anchored(prog, call) => start = call.b))
  /\ pc' = "done"
  /\ UNCHANGED <<prog, call, start, id, p, job, visited, cap, match, found>>

\* No job is left.  A match, if there was one, began at this start.
Drained ==
  /\ pc = "pop" /\ job = << >>
  /\ IF match # NoMatch THEN found' = TRUE /\ pc' = "done" /\ UNCHANGED start
     ELSE start' = start + 1 /\ pc' = "start" /\ UNCHANGED found
  /\ UNCHANGED <<prog, call, id, p, job, visited, cap, match>>

\* Mutant: the register keeps the value of the choice that failed.
PopCaptureOnly ==
  /\ pc = "pop" /\ job # << >> /\ Head(job).id < 0
  /\ job' = Tail(job)
  /\ UNCHANGED <<prog, call, pc, start, id, p, visited, cap, match, found>>

\* Undo a capture.
PopCapture ==
  /\ pc = "pop" /\ job # << >> /\ Head(job).id < 0
  /\ cap' = [cap EXCEPT ![prog.inst[-Head(job).id].cap] = Head(job).p]
  /\ job' = Tail(job)
  /\ UNCHANGED <<prog, call, pc, start, id, p, visited, match, found>>

\* The last position of a run comes first.
PopJob ==
  LET top == Head(job) IN
  /\ pc = "pop" /\ job # << >> /\ top.id >= 0
  /\ id' = top.id
  /\ p' = top.p + top.rle
  /\ job' = IF top.rle > 0 THEN [job EXCEPT ![1].rle = @ - 1] ELSE Tail(job)
  /\ pc' = "visit"
  /\ UNCHANGED <<prog, call, start, visited, cap, match, found>>

-----------------------------------------------------------------------------
(***************************************************************************)
(* TrySearch: visit id at p.                                               *)
(***************************************************************************)
Visiting(op) ==
  /\ pc = "visit" /\ ip.op = op
  /\ UNCHANGED <<prog, call, start>>

VisitFail ==
  /\ Visiting("fail")
  /\ pc' = "pop"
  /\ UNCHANGED <<id, p, job, visited, cap, match, found>>

\* The rest of the text is the loop's, if it wants it or has to take it.
VisitAltMatch ==
  /\ Visiting("altmatch")
  /\ IF Greedy(prog.inst, ip) THEN id' = ip.out1 /\ p' = call.e
     ELSE IF Longest(prog, call) THEN id' = ip.out /\ p' = call.e
     ELSE id' = id + 1 /\ UNCHANGED p
  /\ UNCHANGED <<pc, job, visited, cap, match, found>>

VisitByteRange ==
  /\ Visiting("byte")
  /\ IF Matches(ip, ByteAt(call.text, p, call.e))
       THEN /\ job' = IF ip.hint = 0 THEN job ELSE Push(id + ip.hint, p, job)
            /\ CheckAndLoop(ip.out, p + 1)
       ELSE GoOn /\ UNCHANGED <<p, job, visited>>
  /\ UNCHANGED <<cap, match, found>>

VisitCapture ==
  /\ Visiting("cap")
  /\ IF ip.cap < NCap
       THEN /\ job' = Push(-id, cap[ip.cap], PushRest)
            /\ cap' = [cap EXCEPT ![ip.cap] = p]
       ELSE job' = PushRest /\ UNCHANGED cap
  /\ CheckAndLoop(ip.out, p)
  /\ UNCHANGED <<match, found>>

VisitEmptyWidth ==
  /\ Visiting("empty")
  /\ IF ip.empty \subseteq EmptyFlags(call.text, p)
       THEN job' = PushRest /\ CheckAndLoop(ip.out, p)
       ELSE GoOn /\ UNCHANGED <<p, job, visited>>
  /\ UNCHANGED <<cap, match, found>>

VisitNop ==
  /\ Visiting("nop")
  /\ job' = PushRest
  /\ CheckAndLoop(ip.out, p)
  /\ UNCHANGED <<cap, match, found>>

EndsHere == prog.anchorEnd => p = call.e

VisitNoMatch ==
  /\ Visiting("match") /\ ~EndsHere
  /\ GoOn
  /\ UNCHANGED <<p, job, visited, cap, match, found>>

\* A match: the first is the best, unless a longer one is wanted.
VisitMatch ==
  LET ends   == [cap EXCEPT ![1] = p]
      better == match = NoMatch \/ (Longest(prog, call) /\ p > match[1])
      last   == NMatch(call) = 0 \/ ~Longest(prog, call) \/ p = call.e IN
  /\ Visiting("match") /\ EndsHere
  /\ IF NMatch(call) = 0 THEN UNCHANGED <<cap, match>>
     ELSE cap' = ends /\ match' = IF better THEN ends ELSE match
  /\ IF last THEN found' = TRUE /\ pc' = "done" /\ UNCHANGED id
     ELSE GoOn /\ UNCHANGED found
  /\ UNCHANGED <<p, job, visited>>

Done == pc = "done" /\ UNCHANGED vars

VisitAny == \/ VisitFail \/ VisitAltMatch \/ VisitByteRange \/ VisitCapture
         \/ VisitEmptyWidth \/ VisitNop \/ VisitNoMatch \/ VisitMatch
Next == \/ Reject \/ Begin \/ TrySearch \/ NoStartLeft \/ Drained
        \/ PopCapture \/ PopJob \/ VisitAny \/ Done

Spec == Init /\ [][Next]_vars

\* SearchBitState checks that a full match ends with the text.
Found == found /\ (call.kind = "full" => match[1] = call.e)

-----------------------------------------------------------------------------
(***************************************************************************)
(* Properties.                                                             *)
(***************************************************************************)
\* The capture registers once the undo jobs in jobs have run.
Undone(jobs) ==
  LET reg(k) == prog.inst[-jobs[k].id].cap
      last(n) == {k \in DOMAIN jobs : jobs[k].id < 0 /\ reg(k) = n}
  IN  [n \in DOMAIN cap |->
         IF last(n) = {} THEN cap[n]
         ELSE jobs[CHOOSE k \in last(n) : \A m \in last(n) : m <= k].p]

\* Whatever choices are still open, the undo jobs on the stack take every
\* register back to unset, so that no start position and no alternative
\* inherits a submatch from one that failed.
CapturesUndone ==
  \A n \in DOMAIN cap : n >= 2 => Undone(job)[n] = NoPos
=============================================================================
