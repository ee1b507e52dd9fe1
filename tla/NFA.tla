-------------------------------- MODULE NFA ---------------------------------
(***************************************************************************)
(* The Pike machine of re2/re2/nfa.cc: all threads advance over the text   *)
(* in lockstep, in order of preference.  Threads are shared by reference   *)
(* count between the entries of the queues and recycled on a free list;    *)
(* the closure over empty arrows keeps an explicit stack of fixed size.    *)
(***************************************************************************)
EXTENDS Searches

VARIABLES
  prog, call,      \* the program and the call being answered
  pc,              \* where NFA::Search is
  p,               \* the position in the text
  runq, i,         \* the queue of this step and the entry being run
  nextq,           \* the queue of the next step
  ref, caps, free, \* the arena: reference counts, captures, the free list
  stk, at, t0,     \* AddToThreadq: its stack, instruction and thread
  match, matched,  \* the best match so far
  id               \* where a shortcut to the end of the text goes on

vars == <<prog, call, pc, p, runq, i, nextq, ref, caps, free, stk, at, t0,
          match, matched, id>>
arena == <<ref, caps, free>>
adding == <<stk, at, t0>>
best == <<match, matched>>

Inst(n) == prog.inst[n]
NCapture == IF NMatch(call) = 0 THEN 2 ELSE 2 * NMatch(call)

\* A queue is a sequence of entries [id, t]; t is NoThread for an
\* instruction that was visited and has no thread to run.
NoThread == 0
None == -1           \* AddToThreadq has no instruction at hand
Entry(n, t) == [id |-> n, t |-> t]
HasIndex(q, n) == \E k \in DOMAIN q : q[k].id = n

\* The stack that the constructor allocates for AddToThreadq.
NStack == 2 * InstCount(prog, "cap") + InstCount(prog, "empty")
          + InstCount(prog, "nop") + 1

Init ==
  /\ prog \in Progs /\ call \in Calls
  /\ pc = "search" /\ p = 0 /\ i = 0 /\ id = 0
  /\ runq = << >> /\ nextq = << >> /\ stk = << >>
  /\ ref = << >> /\ caps = << >> /\ free = << >>
  /\ at = None /\ t0 = NoThread
  /\ match = << >> /\ matched = FALSE

-----------------------------------------------------------------------------
(***************************************************************************)
(* The arena.                                                              *)
(***************************************************************************)
Incref(t) == ref' = [ref EXCEPT ![t] = @ + 1]

Decref(t) ==
  /\ ref' = [ref EXCEPT ![t] = @ - 1]
  /\ free' = IF ref[t] = 1 THEN <<t>> \o free ELSE free

\* The thread AllocThread returns, and the capture its caller puts in it.
NewThread == IF free # << >> THEN Head(free) ELSE Len(ref) + 1
AllocThread(capture) ==
  IF free # << >>
    THEN /\ free' = Tail(free)
         /\ ref' = [ref EXCEPT ![NewThread] = 1]
         /\ caps' = [caps EXCEPT ![NewThread] = capture]
    ELSE /\ ref' = Append(ref, 1)
         /\ caps' = Append(caps, capture)
         /\ UNCHANGED free

-----------------------------------------------------------------------------
(***************************************************************************)
(* AddToThreadq.  It adds to nextq; the position p decides what c and the  *)
(* empty-width flags are.                                                  *)
(***************************************************************************)
c == ByteAt(call.text, p, call.e)

StartAdd(n, t) ==
  /\ at' = n
  /\ t0' = t
  /\ stk' = << >>

\* Take the next entry off the stack; a thread in it replaces t0.
AddPop ==
  /\ pc = "add" /\ at = None /\ stk # << >>
  /\ at' = Head(stk).id
  /\ stk' = Tail(stk)
  /\ IF Head(stk).t # NoThread
       THEN Decref(t0) /\ t0' = Head(stk).t
       ELSE UNCHANGED <<ref, free, t0>>
  /\ UNCHANGED <<prog, call, pc, p, runq, i, nextq, caps, best, id>>

\* The only Fail is instruction 0, which is never followed.
AddSeen ==
  /\ pc = "add" /\ at # None
  /\ at = 0 \/ HasIndex(nextq, at)
  /\ at' = None
  /\ UNCHANGED <<prog, call, pc, p, runq, i, nextq, arena, stk, t0, best, id>>

\* An instruction is processed at most once; op is its opcode.
Adding(op) ==
  /\ pc = "add" /\ at # None
  /\ at # 0 /\ ~HasIndex(nextq, at)
  /\ Inst(at).op = op
  /\ UNCHANGED <<prog, call, pc, p, runq, i, best, id>>

AddEntry(t) == nextq' = Append(nextq, Entry(at, t))

AfterThis == IF Inst(at).last THEN None ELSE at + 1

\* Come back to the rest of the list after what is pushed on top of it.
PushRest(more) ==
  stk' = more \o (IF Inst(at).last THEN << >> ELSE <<Entry(at + 1, NoThread)>>) \o stk

AddAltMatch ==
  /\ Adding("altmatch")
  /\ AddEntry(t0) /\ Incref(t0) /\ at' = at + 1
  /\ UNCHANGED <<caps, free, stk, t0>>

AddNop ==
  /\ Adding("nop")
  /\ AddEntry(NoThread) /\ PushRest(<< >>) /\ at' = Inst(at).out
  /\ UNCHANGED <<arena, t0>>

\* Mutant: the capture is recorded in the shared thread.
AddCaptureInPlace ==
  /\ Adding("cap")
  /\ AddEntry(NoThread) /\ at' = Inst(at).out
  /\ PushRest(<< >>)
  /\ caps' = IF Inst(at).cap < NCapture
               THEN [caps EXCEPT ![t0][Inst(at).cap] = p] ELSE caps
  /\ UNCHANGED <<ref, free, t0>>

\* A capture is recorded in a copy of the thread; a dummy entry restores it.
AddCapture ==
  /\ Adding("cap")
  /\ AddEntry(NoThread) /\ at' = Inst(at).out
  /\ IF Inst(at).cap < NCapture
       THEN /\ AllocThread([caps[t0] EXCEPT ![Inst(at).cap] = p])
            /\ PushRest(<<Entry(0, t0)>>)
            /\ t0' = NewThread
       ELSE PushRest(<< >>) /\ UNCHANGED <<arena, t0>>

AddByteRange ==
  LET ip == Inst(at) IN
  /\ Adding("byte")
  /\ IF Matches(ip, c)
       THEN /\ AddEntry(t0) /\ Incref(t0)
            /\ at' = IF ip.hint = 0 THEN None ELSE at + ip.hint
       ELSE /\ AddEntry(NoThread) /\ UNCHANGED ref
            /\ at' = AfterThis
  /\ UNCHANGED <<caps, free, stk, t0>>

AddMatch ==
  /\ Adding("match")
  /\ AddEntry(t0) /\ Incref(t0) /\ at' = AfterThis
  /\ UNCHANGED <<caps, free, stk, t0>>

AddEmptyWidth ==
  /\ Adding("empty")
  /\ AddEntry(NoThread) /\ PushRest(<< >>)
  /\ at' = IF Inst(at).empty \subseteq EmptyFlags(call.text, p)
             THEN Inst(at).out ELSE None
  /\ UNCHANGED <<arena, t0>>

\* The caller gives up its own reference; i = 0 says that it is Search.
AddDone ==
  /\ pc = "add" /\ at = None /\ stk = << >>
  /\ Decref(t0)
  /\ t0' = NoThread
  /\ IF i = 0 THEN pc' = "spawned" /\ UNCHANGED i
              ELSE pc' = "step" /\ i' = i + 1
  /\ UNCHANGED <<prog, call, p, runq, nextq, caps, stk, at, best, id>>

-----------------------------------------------------------------------------
(***************************************************************************)
(* Step: run the threads of runq on the byte at p.                         *)
(***************************************************************************)
T == runq[i].t

\* Entry i is done with and its thread released.
Next_i == i' = i + 1

Running ==
  /\ pc = "step" /\ i <= Len(runq)
  /\ UNCHANGED <<prog, call, p, runq, caps>>

\* A thread that began to the right of the best match is of no use.
TooLate == Longest(prog, call) /\ matched /\ match[0] < caps[T][0]

StepEmpty ==
  /\ Running /\ T = NoThread
  /\ Next_i
  /\ UNCHANGED <<pc, nextq, ref, free, adding, best, id>>

\* Mutant: a skipped thread is not released.
StepSkipLeaking ==
  /\ Running /\ T # NoThread /\ TooLate
  /\ Next_i
  /\ UNCHANGED <<pc, nextq, ref, free, adding, best, id>>

StepSkip ==
  /\ Running /\ T # NoThread /\ TooLate
  /\ Decref(T) /\ Next_i
  /\ UNCHANGED <<pc, nextq, adding, best, id>>

Stepping(op) ==
  /\ Running /\ T # NoThread /\ ~TooLate
  /\ Inst(runq[i].id).op = op

StepByteRange ==
  /\ Stepping("byte")
  /\ pc' = "add"
  /\ StartAdd(Inst(runq[i].id).out, T)
  /\ UNCHANGED <<i, nextq, ref, free, best, id>>

\* The first thread is at a loop over any byte with a match behind it: it
\* takes all of the text if it wants to, and nobody else can do better.
StepAltMatch ==
  LET ip     == Inst(runq[i].id)
      greedy == Greedy(prog.inst, ip)
      mine   == i = 1 /\ (greedy \/ Longest(prog, call)) IN
  /\ Stepping("altmatch")
  /\ Decref(T) /\ Next_i
  /\ IF mine THEN /\ match' = caps[T] /\ matched' = TRUE
                  /\ id' = IF greedy THEN ip.out1 ELSE ip.out
                  /\ pc' = "cut"
             ELSE UNCHANGED <<pc, best, id>>
  /\ UNCHANGED <<nextq, adding>>

EndsAt(t) == [caps[t] EXCEPT ![1] = p - 1]

\* Leftmost first, then longest.
Better(t) ==
  \/ ~matched
  \/ caps[t][0] < match[0]
  \/ caps[t][0] = match[0] /\ p - 1 > match[1]

StepMatch ==
  LET ends == prog.anchorEnd => p - 1 = call.e IN
  /\ Stepping("match")
  /\ Decref(T) /\ Next_i
  /\ IF ends /\ (Longest(prog, call) => Better(T))
       THEN match' = EndsAt(T) /\ matched' = TRUE ELSE UNCHANGED best
  /\ pc' = IF ends /\ ~Longest(prog, call) THEN "cut" ELSE pc
  /\ UNCHANGED <<nextq, adding, id>>

\* Release the threads that are worse than the match.
CutOff ==
  /\ pc = "cut" /\ i <= Len(runq)
  /\ IF T # NoThread THEN Decref(T) ELSE UNCHANGED <<ref, free>>
  /\ Next_i
  /\ UNCHANGED <<prog, call, pc, p, runq, nextq, caps, adding, best, id>>

-----------------------------------------------------------------------------
(***************************************************************************)
(* Search.                                                                 *)
(***************************************************************************)
Reject ==
  /\ pc = "search"
  /\ prog.start = 0 \/ ~AnchorsFit(prog, call)
  /\ pc' = "done"
  /\ UNCHANGED <<prog, call, p, runq, i, nextq, arena, adding, best, id>>

Begin ==
  /\ pc = "search"
  /\ prog.start # 0 /\ AnchorsFit(prog, call)
  /\ match' = [n \in 0 .. NCapture - 1 |-> NoPos]
  /\ p' = call.b
  /\ pc' = "step" /\ i' = 1
  /\ UNCHANGED <<prog, call, runq, nextq, arena, adding, matched, id>>

\* The step is over: a shortcut ends the search, and so does the end of
\* the text; otherwise a new thread may start here, unless there has been
\* a match already.
Start == ~matched /\ (Anchored(prog, call) => p = call.b)

StepDone ==
  /\ pc \in {"step", "cut"} /\ i > Len(runq)
  /\ runq' = << >>
  /\ i' = 0
  /\ pc' = IF id # 0 THEN "shortcut" ELSE IF p > call.e THEN "drain"
           ELSE IF Start THEN "spawn" ELSE "spawned"
  /\ UNCHANGED <<prog, call, p, nextq, arena, adding, best, id>>

\* The rest of the text is the loop's: only captures and the match follow,
\* and anything else would end the search without one.
Shortcut ==
  LET ip == Inst(id) IN
  /\ pc = "shortcut"
  /\ IF ip.op \in {"cap", "nop"}
       THEN /\ match' = IF ip.op = "cap" /\ ip.cap < NCapture
                          THEN [match EXCEPT ![ip.cap] = call.e] ELSE match
            /\ id' = ip.out /\ UNCHANGED <<pc, matched>>
       ELSE /\ match' = IF ip.op = "match" THEN [match EXCEPT ![1] = call.e] ELSE match
            /\ matched' = (matched \/ ip.op = "match")
            /\ pc' = "drain" /\ UNCHANGED id
  /\ UNCHANGED <<prog, call, p, runq, i, nextq, arena, adding>>

\* Nothing can match before the required prefix, when no thread is under way.
Skipped ==
  IF ~Anchored(prog, call) /\ nextq = << >> /\ p < call.e /\ CanPrefixAccel(prog)
    THEN PrefixAccel(prog, call.text, p, call.e) ELSE p

Spawn ==
  /\ pc = "spawn"
  /\ p' = Skipped
  /\ AllocThread([match EXCEPT ![0] = p'])
  /\ StartAdd(prog.start, NewThread)
  /\ pc' = "add"
  /\ UNCHANGED <<prog, call, runq, i, nextq, best, id>>

\* The queues change places; without threads the search stops early.
Advance ==
  /\ pc = "spawned"
  /\ runq' = nextq
  /\ nextq' = << >>
  /\ IF nextq = << >> THEN pc' = "drain" /\ UNCHANGED <<p, i>>
     ELSE pc' = "step" /\ p' = p + 1 /\ i' = 1
  /\ UNCHANGED <<prog, call, arena, adding, best, id>>

\* Whatever is still queued is released before the answer is given.
Drain ==
  /\ pc = "drain"
  /\ IF nextq = << >> THEN pc' = "done" /\ UNCHANGED <<nextq, ref, free>>
     ELSE /\ nextq' = Tail(nextq)
          /\ IF Head(nextq).t # NoThread THEN Decref(Head(nextq).t)
             ELSE UNCHANGED <<ref, free>>
          /\ UNCHANGED pc
  /\ UNCHANGED <<prog, call, p, runq, i, caps, adding, best, id>>

Done == pc = "done" /\ UNCHANGED vars

AddInst == \/ AddPop \/ AddSeen \/ AddAltMatch \/ AddNop
           \/ AddCapture \/ AddByteRange \/ AddMatch \/ AddEmptyWidth \/ AddDone
StepInst == StepEmpty \/ StepSkip \/ StepByteRange \/ StepAltMatch \/ StepMatch \/ CutOff
Next == \/ AddInst \/ StepInst
        \/ Reject \/ Begin \/ StepDone \/ Shortcut \/ Spawn \/ Advance \/ Drain \/ Done

Spec == Init /\ [][Next]_vars

\* SearchNFA checks that a full match ends with the text.
Found == matched /\ (call.kind = "full" => match[1] = call.e)

-----------------------------------------------------------------------------
(***************************************************************************)
(* Properties.                                                             *)
(***************************************************************************)
\* Who holds thread t: the entries of runq still to be run, those of nextq,
\* the dummies on the stack, and AddToThreadq itself.
Holders(t) ==
  Cardinality({k \in DOMAIN runq : k >= i /\ i > 0 /\ runq[k].t = t
                                   /\ ~(pc = "add" /\ k = i)})
  + Cardinality({k \in DOMAIN nextq : nextq[k].t = t})
  + Cardinality({k \in DOMAIN stk : stk[k].t = t})
  + (IF t0 = t THEN 1 ELSE 0)

\* A thread's reference count is the number of its holders, and a thread is
\* on the free list, once, exactly when it has none: no thread is recycled
\* under a holder, and at the end every thread has come back (nfa.cc:97-99
\* makes the count and the list link share a word, so one thread too many
\* on the list would corrupt the count).
ThreadsCounted ==
  /\ \A t \in DOMAIN ref : ref[t] = Holders(t)
  /\ \A t \in DOMAIN ref :
       Cardinality({k \in DOMAIN free : free[k] = t}) = IF ref[t] = 0 THEN 1 ELSE 0

=============================================================================
