------------------------------ MODULE DFACache ------------------------------
(***************************************************************************)
(* The lazily built, bounded DFA state cache of re2/re2/dfa.cc, shared by  *)
(* all threads that search with one DFA object.                            *)
(*                                                                         *)
(*   cache_mutex_  held for reading by every search; a search that finds   *)
(*                 the cache full drops it, takes it for writing, discards *)
(*                 every state, and keeps it to its end (RWLocker)         *)
(*   mutex_        held while a state or an edge is added                  *)
(*   next_, start_ read without mutex_ (atomics, double-checked); modelled *)
(*                 as sequentially consistent                              *)
(*                                                                         *)
(* A State* is an address of Addr, NULL or a special pointer.  heap[a] is  *)
(* the content of the live state at a, Free after deallocation, and any    *)
(* free address may be handed out again: a pointer kept across a reset is  *)
(* then dangling, or names another state.                                  *)
(***************************************************************************)
EXTENDS DFAAutomaton, FiniteSets

CONSTANTS
  Threads, Requests,
  NoThread,
  Addr,           \* addresses the allocator may return for a State
  NULL, Free,
  Cost,           \* content -> bytes CachedState charges for it
  MaxCost,        \* the largest such charge
  StateBudget,    \* state_budget_
  BailFactor,     \* the 10 of "10*state_cache_.size()"
  Reversed,       \* the DFA of a reversed Prog, which scans backwards
  SizeModulus,    \* 2^w for the w bits of a size_t
  WalkBound,      \* bound on the steps of one PossibleMatchRange
  Ops             \* the entry points in use: "search", "build", "range"

Pointer == Addr \cup Special \cup {NULL}

ASSUME RequestsAssumption == Requests \subseteq Request /\ Requests # {}

\* A prefix is looked for only if a match has to begin with it: what is skipped
\* begins none.  DFAStates has the programs and their prefixes.
ASSUME AccelAssumption ==
  \A r \in Requests : CanAccel[r.kind] =>
    \A n \in 0 .. Len(r.text) : \A i \in (n + 1) .. (Len(r.text) + 1) :
      SkipsTo(r, n, i) => Finds(r, i, StartOf[r.kind]) = Finds(r, n + 1, StartOf[r.kind])

ASSUME PointerAssumption ==
  /\ NoThread \notin Threads
  /\ NULL \notin Addr \cup Special
  /\ Addr \cap Special = {}
  /\ Free \notin Content \cup Special

\* The constructor refuses a budget below 20 states, and one state's charge
\* in CachedState stays below a sixth of that; three is what searches need.
ASSUME BudgetAssumption ==
  /\ StateBudget \in Nat /\ MaxCost \in Nat /\ BailFactor \in Nat
  /\ WalkBound \in Nat /\ SizeModulus \in Nat \ {0}
  /\ Reversed \in BOOLEAN
  /\ Cost \in [Content -> 1 .. MaxCost]
  /\ 3 * MaxCost <= StateBudget

ASSUME OpsAssumption == Ops \subseteq {"search", "build", "range"}

VARIABLES
  \* shared by all threads
  cacheR, cacheW,   \* cache_mutex_: the readers, the writer
  mu,               \* mutex_: its holder
  memBudget,        \* mem_budget_
  heap,             \* state_cache_: address -> content, or Free
  next,             \* address -> byte class -> pointer
  startInfo,        \* start_: slot -> pointer
  \* one of each per thread
  pc, op, req,      \* where it is, the entry point, and its arguments
  start, s, ns,     \* the State* locals of InlinedSearchLoop
  p, resetp,        \* steps consumed, and p at the last reset
  retried,          \* past the reset of the current start or step
  saved,            \* the two StateSavers
  run,              \* the out parameters
  seen, cursor      \* BuildAllStates: its map m, and the loop's position

lockVars   == <<cacheR, cacheW, mu>>
cacheVars  == <<memBudget, heap, next, startInfo>>
callVars   == <<op, req>>
localVars  == <<start, s, ns, p, resetp, retried, saved, run>>
buildVars  == <<seen, cursor>>
vars == <<lockVars, cacheVars, pc, callVars, localVars, buildVars>>

Goto(t, to) == pc' = [pc EXCEPT ![t] = to]

NoEdges == [c \in Byte |-> NULL]
NoneSaved == [start |-> DeadState, s |-> DeadState]

Writing(t) == cacheW = t              \* RWLocker::writing_
Live == {a \in Addr : heap[a] # Free} \* state_cache_

\* The content a pointer stands for.
Denotes(a) == IF a \in Addr THEN heap[a] ELSE a

Init ==
  /\ cacheR = {} /\ cacheW = NoThread /\ mu = NoThread
  /\ memBudget = StateBudget
  /\ heap = [a \in Addr |-> Free]
  /\ next = [a \in Addr |-> NoEdges]
  /\ startInfo = [kind \in StartKind |-> NULL]
  /\ pc = [t \in Threads |-> "idle"]
  /\ op = [t \in Threads |-> "search"]
  /\ req = [t \in Threads |-> CHOOSE r \in Requests : TRUE]
  /\ start = [t \in Threads |-> NULL]
  /\ s = [t \in Threads |-> NULL]
  /\ ns = [t \in Threads |-> NULL]
  /\ p = [t \in Threads |-> 0]
  /\ resetp = [t \in Threads |-> NoPos]
  /\ retried = [t \in Threads |-> FALSE]
  /\ saved = [t \in Threads |-> NoneSaved]
  /\ run = [t \in Threads |-> NewRun]
  /\ seen = [t \in Threads |-> << >>]
  /\ cursor = [t \in Threads |-> [at |-> 1, left |-> Byte]]

-----------------------------------------------------------------------------
(***************************************************************************)
(* The state cache.  Callers hold mutex_.                                  *)
(***************************************************************************)

\* Mutant: the charge is made before the budget is looked at.
CachedStateCharging(k, r) ==
  \/ /\ r \in Addr /\ heap[r] = k
     /\ UNCHANGED <<heap, memBudget>>
  \/ /\ \A a \in Addr : heap[a] # k
     /\ memBudget' = memBudget - Cost[k]
     /\ \/ memBudget < Cost[k] /\ r = NULL /\ UNCHANGED heap
        \/ /\ memBudget >= Cost[k]
           /\ r \in Addr /\ heap[r] = Free
           /\ heap' = [heap EXCEPT ![r] = k]

\* Mutant: the hash set does not find the equal state.
CachedStateTwice(k, r) ==
  \/ memBudget < Cost[k] /\ r = NULL /\ memBudget' = -1 /\ UNCHANGED heap
  \/ /\ memBudget >= Cost[k]
     /\ r \in Addr /\ heap[r] = Free
     /\ memBudget' = memBudget - Cost[k]
     /\ heap' = [heap EXCEPT ![r] = k]

\* The state with content k: the cached one, or a new one if the budget
\* allows.  When it does not, the budget is spoilt until the next reset.
CachedState(k, r) ==
  \/ /\ r \in Addr /\ heap[r] = k
     /\ UNCHANGED <<heap, memBudget>>
  \/ /\ \A a \in Addr : heap[a] # k
     /\ memBudget < Cost[k]
     /\ r = NULL
     /\ memBudget' = -1
     /\ UNCHANGED heap
  \/ /\ \A a \in Addr : heap[a] # k
     /\ memBudget >= Cost[k]
     /\ r \in Addr /\ heap[r] = Free
     /\ memBudget' = memBudget - Cost[k]
     /\ heap' = [heap EXCEPT ![r] = k]

\* The edges once r is known to be cached: a new state has none.
EdgesWith(r) ==
  IF r \in Addr /\ heap[r] = Free THEN [next EXCEPT ![r] = NoEdges] ELSE next

\* The successor r of state a on byte class c, computed unless someone else
\* already did.  Running out of memory leaves the edge unknown.
RunStateOnByte(a, c, r) ==
  \/ /\ a = FullMatchState
     /\ r = FullMatchState
     /\ UNCHANGED <<heap, memBudget, next>>
  \/ /\ a \in Addr /\ next[a][c] # NULL
     /\ r = next[a][c]
     /\ UNCHANGED <<heap, memBudget, next>>
  \/ /\ a \in Addr /\ next[a][c] = NULL
     /\ Delta[heap[a]][c] \in Special
     /\ r = Delta[heap[a]][c]
     /\ next' = [next EXCEPT ![a][c] = r]
     /\ UNCHANGED <<heap, memBudget>>
  \/ /\ a \in Addr /\ next[a][c] = NULL
     /\ Delta[heap[a]][c] \in Content
     /\ CachedState(Delta[heap[a]][c], r)
     /\ next' = [EdgesWith(r) EXCEPT ![a][c] = r]

Lock(t)   == mu = NoThread /\ mu' = t
Unlock(t) == mu' = NoThread

-----------------------------------------------------------------------------
(***************************************************************************)
(* Entering a search, and AnalyzeSearch.                                   *)
(***************************************************************************)

Call(t) ==
  /\ pc[t] = "idle"
  /\ \E o \in Ops, r \in Requests :
       op' = [op EXCEPT ![t] = o] /\ req' = [req EXCEPT ![t] = r]
  /\ start' = [start EXCEPT ![t] = NULL]
  /\ s' = [s EXCEPT ![t] = NULL]
  /\ ns' = [ns EXCEPT ![t] = NULL]
  /\ p' = [p EXCEPT ![t] = 0]
  /\ resetp' = [resetp EXCEPT ![t] = NoPos]
  /\ retried' = [retried EXCEPT ![t] = FALSE]
  /\ saved' = [saved EXCEPT ![t] = NoneSaved]
  /\ run' = [run EXCEPT ![t] = NewRun]
  /\ Goto(t, "rlock")
  /\ UNCHANGED <<lockVars, cacheVars, buildVars>>

\* RWLocker's constructor.
ReaderLock(t) ==
  /\ pc[t] = "rlock"
  /\ cacheW = NoThread
  /\ cacheR' = cacheR \cup {t}
  /\ Goto(t, "quick")
  /\ UNCHANGED <<cacheW, mu, cacheVars, callVars, localVars, buildVars>>

\* AnalyzeSearchHelper before it takes mutex_.
QuickCheck(t) ==
  /\ pc[t] = "quick"
  /\ Goto(t, IF startInfo[req[t].kind] # NULL THEN "loadStart" ELSE "startLock")
  /\ UNCHANGED <<lockVars, cacheVars, callVars, localVars, buildVars>>

StartLock(t) ==
  /\ pc[t] = "startLock"
  /\ Lock(t)
  /\ Goto(t, "startHeld")
  /\ UNCHANGED <<cacheR, cacheW, cacheVars, callVars, localVars, buildVars>>

\* The slot was filled, or can be filled, while waiting for mutex_.
StartFound(t) ==
  LET kind == req[t].kind IN
  /\ pc[t] = "startHeld"
  /\ \/ /\ startInfo[kind] # NULL
        /\ UNCHANGED cacheVars
     \/ /\ startInfo[kind] = NULL
        /\ StartOf[kind] \in Special
        /\ startInfo' = [startInfo EXCEPT ![kind] = StartOf[kind]]
        /\ UNCHANGED <<memBudget, heap, next>>
     \/ /\ startInfo[kind] = NULL
        /\ StartOf[kind] \in Content
        /\ \E a \in Addr :
             /\ CachedState(StartOf[kind], a)
             /\ next' = EdgesWith(a)
             /\ startInfo' = [startInfo EXCEPT ![kind] = a]
  /\ Unlock(t)
  /\ Goto(t, "loadStart")
  /\ UNCHANGED <<cacheR, cacheW, callVars, localVars, buildVars>>

Fail(t, how) ==
  /\ run' = [run EXCEPT ![t].outcome = how]
  /\ Goto(t, "done")

\* The cache is full: reset it once and try again.
StartFailed(t) ==
  LET kind == req[t].kind IN
  /\ pc[t] = "startHeld"
  /\ startInfo[kind] = NULL
  /\ StartOf[kind] \in Content
  /\ CachedState(StartOf[kind], NULL)
  /\ Unlock(t)
  /\ IF retried[t]
       THEN Fail(t, "fatal") /\ UNCHANGED retried
       ELSE /\ Goto(t, IF Writing(t) THEN "reset" ELSE "drop")
            /\ retried' = [retried EXCEPT ![t] = TRUE]
            /\ UNCHANGED run
  /\ UNCHANGED <<cacheR, cacheW, next, startInfo, callVars,
                 start, s, ns, p, resetp, saved, buildVars>>

\* params->start is loaded; DFA::Search ends on a special start state, the
\* other two entry points turn to their own loops.
LoadStart(t) ==
  LET a == startInfo[req[t].kind] IN
  /\ pc[t] = "loadStart"
  /\ start' = [start EXCEPT ![t] = a]
  /\ \/ /\ op[t] = "search"
        /\ run' = [run EXCEPT ![t] = Begin(req[t], Denotes(a))]
        /\ s' = [s EXCEPT ![t] = IF a \in Special THEN NULL ELSE a]
        /\ Goto(t, IF a \in Special THEN "done" ELSE "loop")
        /\ UNCHANGED buildVars
     \/ /\ op[t] = "build"
        /\ Goto(t, IF a = DeadState THEN "done" ELSE "build")
        /\ seen' = [seen EXCEPT ![t] = <<a>>]
        /\ cursor' = [cursor EXCEPT ![t] = [at |-> 1, left |-> Byte]]
        /\ UNCHANGED <<s, run>>
     \/ /\ op[t] = "range"
        /\ Goto(t, IF a \in Special THEN "done" ELSE "range")
        /\ s' = [s EXCEPT ![t] = a]
        /\ cursor' = [cursor EXCEPT ![t] = [at |-> 1, left |-> Byte]]
        /\ UNCHANGED <<run, seen>>
  /\ UNCHANGED <<lockVars, cacheVars, callVars,
                 ns, p, resetp, retried, saved>>

-----------------------------------------------------------------------------
(***************************************************************************)
(* InlinedSearchLoop.  Steps 1 .. Len(text) are its loop, the next one is  *)
(* the extra byte after it.                                                *)
(***************************************************************************)

InText(t) == p[t] <= Len(req[t].text)

\* Mutant: "&& s == start" is forgotten.
ReadsAtAnyState(t, i) ==
  IF CanAccel[req[t].kind] THEN SkipsTo(req[t], p[t], i) ELSE i = p[t] + 1

\* The step whose byte is read next: in the start state PrefixAccel leaves out
\* those before the next occurrence of the prefix.
ReadsAt(t, i) ==
  IF CanAccel[req[t].kind] /\ s[t] = start[t] THEN SkipsTo(req[t], p[t], i)
  ELSE i = p[t] + 1

FetchNext(t) ==
  /\ pc[t] = "loop"
  /\ \E i \in (p[t] + 1) .. (Len(req[t].text) + 1) :
       LET a == next[s[t]][Symbol(req[t], i)] IN
       /\ ReadsAt(t, i)
       /\ p' = [p EXCEPT ![t] = i]
       /\ ns' = [ns EXCEPT ![t] = a]
       /\ Goto(t, IF a = NULL THEN "runLock" ELSE "step")
  /\ retried' = [retried EXCEPT ![t] = FALSE]
  /\ UNCHANGED <<lockVars, cacheVars, callVars,
                 start, s, resetp, saved, run, buildVars>>

RunLock(t) ==
  /\ pc[t] = "runLock"
  /\ Lock(t)
  /\ Goto(t, "runHeld")
  /\ UNCHANGED <<cacheR, cacheW, cacheVars, callVars, localVars, buildVars>>

RunHeld(t) ==
  /\ pc[t] = "runHeld"
  /\ \E r \in Pointer :
       /\ RunStateOnByte(s[t], Symbol(req[t], p[t]), r)
       /\ ns' = [ns EXCEPT ![t] = r]
       /\ Goto(t, IF r = NULL THEN "full" ELSE "step")
  /\ Unlock(t)
  /\ UNCHANGED <<cacheR, cacheW, startInfo, callVars,
                 start, s, p, resetp, retried, saved, run, buildVars>>

\* Mutant: the distance is measured from the beginning of the text.
SinceBeginning(t) == p[t]

\* static_cast<size_t>(p - resetp): the pointer falls in a backward scan.
SinceReset(t) ==
  IF Reversed THEN (resetp[t] - p[t]) % SizeModulus
              ELSE (p[t] - resetp[t]) % SizeModulus

\* The state after the current one did not fit.  A search that has already
\* reset the cache at resetp, and has made too little of it since, gives up.
Slow(t) ==
  /\ InText(t)
  /\ resetp[t] # NoPos
  /\ SinceReset(t) < BailFactor * Cardinality(Live)
  /\ ~ManyMatch

CacheFull(t) ==
  /\ pc[t] = "full"
  /\ IF retried[t] THEN
       /\ Fail(t, "fatal")
       /\ UNCHANGED <<resetp, saved, retried>>
     ELSE IF Slow(t) THEN
       /\ Fail(t, "failed")
       /\ UNCHANGED <<resetp, saved, retried>>
     ELSE
       /\ resetp' = [resetp EXCEPT ![t] = IF InText(t) THEN p[t] ELSE @]
       /\ saved' = [saved EXCEPT ![t] =
            [s |-> heap[s[t]],
             start |-> IF InText(t) THEN heap[start[t]] ELSE DeadState]]
       /\ retried' = [retried EXCEPT ![t] = TRUE]
       /\ Goto(t, IF Writing(t) THEN "reset" ELSE "drop")
       /\ UNCHANGED run
  /\ UNCHANGED <<lockVars, cacheVars, callVars, start, s, ns, p, buildVars>>

\* LockForWriting lets go of the lock before it takes it for writing.
DropRead(t) ==
  /\ pc[t] = "drop"
  /\ cacheR' = cacheR \ {t}
  /\ Goto(t, "wlock")
  /\ UNCHANGED <<cacheW, mu, cacheVars, callVars, localVars, buildVars>>

\* Mutant: the writer does not wait for the readers.
WriterLockAmongReaders(t) ==
  /\ pc[t] = "wlock"
  /\ cacheW = NoThread
  /\ cacheW' = t
  /\ Goto(t, "reset")
  /\ UNCHANGED <<cacheR, mu, cacheVars, callVars, localVars, buildVars>>

WriterLock(t) ==
  /\ pc[t] = "wlock"
  /\ cacheW = NoThread /\ cacheR = {}
  /\ cacheW' = t
  /\ Goto(t, "reset")
  /\ UNCHANGED <<cacheR, mu, cacheVars, callVars, localVars, buildVars>>

\* Every state goes; what else the reset changes, and where the search goes on.
Discard(t, starts, budget, to) ==
  /\ pc[t] = "reset"
  /\ startInfo' = starts
  /\ heap' = [a \in Addr |-> Free]
  /\ memBudget' = budget
  /\ Goto(t, to)
  /\ UNCHANGED <<lockVars, next, callVars, localVars, buildVars>>

NoStarts == [kind \in StartKind |-> NULL]

\* Mutant: only s is restored.
ResumeWithoutStart(t) == IF s[t] = NULL THEN "quick" ELSE "restoreS"

\* s is NULL as long as AnalyzeSearch has not returned.
Resume(t) == IF s[t] = NULL THEN "quick"
             ELSE IF InText(t) THEN "restoreStart" ELSE "restoreS"

\* Mutants: the start slots, or the budget, are left as they were.
ResetKeepingStarts(t) == Discard(t, startInfo, StateBudget, Resume(t))

\* ResetCache proper.
ResetCache(t) == Discard(t, NoStarts, StateBudget, Resume(t))

\* StateSaver::Restore takes mutex_, and re-creates the saved state.
RestoreStart(t) ==
  /\ pc[t] = "restoreStart"
  /\ mu = NoThread
  /\ \E r \in Addr \cup {NULL} :
       /\ CachedState(saved[t].start, r)
       /\ next' = EdgesWith(r)
       /\ start' = [start EXCEPT ![t] = r]
       /\ IF r = NULL THEN Fail(t, "fatal")
          ELSE Goto(t, "restoreS") /\ UNCHANGED run
  /\ UNCHANGED <<lockVars, startInfo, callVars,
                 s, ns, p, resetp, retried, saved, buildVars>>

RestoreS(t) ==
  /\ pc[t] = "restoreS"
  /\ mu = NoThread
  /\ \E r \in Addr \cup {NULL} :
       /\ CachedState(saved[t].s, r)
       /\ next' = EdgesWith(r)
       /\ s' = [s EXCEPT ![t] = r]
       /\ IF r = NULL THEN Fail(t, "fatal")
          ELSE Goto(t, "runLock") /\ UNCHANGED run
  /\ UNCHANGED <<lockVars, startInfo, callVars,
                 start, ns, p, resetp, retried, saved, buildVars>>

\* ns is known: follow it, or stop.
TakeStep(t) ==
  LET after == Arrive(req[t], run[t], p[t], Denotes(ns[t])) IN
  /\ pc[t] = "step"
  /\ run' = [run EXCEPT ![t] = after]
  /\ s' = [s EXCEPT ![t] = IF ns[t] \in Special THEN @ ELSE ns[t]]
  /\ Goto(t, IF after.outcome = "running" THEN "loop" ELSE "done")
  /\ UNCHANGED <<lockVars, cacheVars, callVars,
                 start, ns, p, resetp, retried, saved, buildVars>>

-----------------------------------------------------------------------------
(***************************************************************************)
(* BuildAllStates floods the automaton from the start state, taking mutex_ *)
(* for every edge; PossibleMatchRange walks it from the start state, in    *)
(* one hold of mutex_.  Neither resets the cache when it is full: each     *)
(* just ends.  The order of the byte classes is abstracted.                *)
(***************************************************************************)

BuildLock(t) ==
  /\ pc[t] = "build"
  /\ Lock(t)
  /\ Goto(t, "buildHeld")
  /\ UNCHANGED <<cacheR, cacheW, cacheVars, callVars, localVars, buildVars>>

BuildHeld(t) ==
  /\ pc[t] = "buildHeld"
  /\ \E c \in cursor[t].left, r \in Pointer :
       LET rest == cursor[t].left \ {c}
           all  == IF r \in {NULL, DeadState} \cup
                          {seen[t][i] : i \in 1 .. Len(seen[t])}
                     THEN seen[t] ELSE Append(seen[t], r)
           more == r # NULL /\ (rest # {} \/ cursor[t].at < Len(all))
       IN
       /\ RunStateOnByte(seen[t][cursor[t].at], c, r)
       /\ seen' = [seen EXCEPT ![t] = all]
       /\ cursor' = [cursor EXCEPT ![t] =
                       IF rest # {} THEN [@ EXCEPT !.left = rest]
                       ELSE [at |-> @.at + 1, left |-> Byte]]
       /\ Goto(t, IF more THEN "build" ELSE "done")
  /\ Unlock(t)
  /\ UNCHANGED <<cacheR, cacheW, startInfo, callVars, localVars>>

RangeLock(t) ==
  /\ pc[t] = "range"
  /\ Lock(t)
  /\ Goto(t, "rangeHeld")
  /\ UNCHANGED <<cacheR, cacheW, cacheVars, callVars, localVars, buildVars>>

\* One more edge is computed, and perhaps followed, unless memory runs out.
\* The second walk begins at the start state again.
RangeStep(t) ==
  /\ pc[t] = "rangeHeld"
  /\ cursor[t].at <= WalkBound
  /\ cursor' = [cursor EXCEPT ![t].at = @ + 1]
  /\ \E c \in Byte, r \in Pointer :
       /\ RunStateOnByte(s[t], c, r)
       /\ r # NULL
       /\ \/ UNCHANGED s
          \/ r # DeadState /\ s' = [s EXCEPT ![t] = r]
          \/ s' = [s EXCEPT ![t] = start[t]]
  /\ UNCHANGED <<lockVars, startInfo, pc, callVars,
                 start, ns, p, resetp, retried, saved, run, seen>>

RangeFull(t) ==
  /\ pc[t] = "rangeHeld"
  /\ \E c \in Byte : RunStateOnByte(s[t], c, NULL)
  /\ Unlock(t)
  /\ Goto(t, "done")
  /\ UNCHANGED <<cacheR, cacheW, startInfo, callVars, localVars, buildVars>>

RangeEnd(t) ==
  /\ pc[t] = "rangeHeld"
  /\ Unlock(t)
  /\ Goto(t, "done")
  /\ UNCHANGED <<cacheR, cacheW, cacheVars, callVars, localVars, buildVars>>

\* Mutant: a search that has returned still counts as a reader.
ReturnReading(t) ==
  /\ pc[t] = "done"
  /\ cacheW' = IF Writing(t) THEN NoThread ELSE cacheW
  /\ seen' = [seen EXCEPT ![t] = << >>]
  /\ cursor' = [cursor EXCEPT ![t] = [at |-> 1, left |-> Byte]]
  /\ Goto(t, "idle")
  /\ UNCHANGED <<cacheR, mu, cacheVars, callVars, localVars>>

\* RWLocker's destructor, and the return to the caller.
Return(t) ==
  /\ pc[t] = "done"
  /\ cacheR' = cacheR \ {t}
  /\ cacheW' = IF Writing(t) THEN NoThread ELSE cacheW
  /\ seen' = [seen EXCEPT ![t] = << >>]
  /\ cursor' = [cursor EXCEPT ![t] = [at |-> 1, left |-> Byte]]
  /\ Goto(t, "idle")
  /\ UNCHANGED <<mu, cacheVars, callVars, localVars>>

Analyze(t) == QuickCheck(t) \/ StartLock(t) \/ StartFound(t) \/ StartFailed(t)
              \/ LoadStart(t)
Reset(t)   == DropRead(t) \/ WriterLock(t) \/ ResetCache(t)
              \/ RestoreStart(t) \/ RestoreS(t)
Loop(t)    == FetchNext(t) \/ RunLock(t) \/ RunHeld(t) \/ CacheFull(t)
              \/ TakeStep(t)
Explore(t) == BuildLock(t) \/ BuildHeld(t) \/ RangeLock(t) \/ RangeStep(t)
              \/ RangeFull(t) \/ RangeEnd(t)
Progress(t) == ReaderLock(t) \/ Analyze(t) \/ Reset(t) \/ Loop(t)
               \/ Explore(t) \/ Return(t)

Next == \E t \in Threads : Call(t) \/ Progress(t)

Spec == Init /\ [][Next]_vars

-----------------------------------------------------------------------------
(***************************************************************************)
(* Properties.                                                             *)
(***************************************************************************)

Outside == {"idle", "rlock", "wlock"}
MutexPCs == {"startHeld", "runHeld", "buildHeld", "rangeHeld"}
ResetPCs == {"drop", "wlock", "reset", "restoreStart", "restoreS"}
SearchPCs == {"loop", "runLock", "runHeld", "full", "step"} \cup ResetPCs
PCs == {"idle", "rlock", "quick", "startLock", "startHeld", "loadStart",
        "build", "buildHeld", "range", "rangeHeld", "done"} \cup SearchPCs

LockTypeOK ==
  /\ cacheR \subseteq Threads /\ cacheW \in Threads \cup {NoThread}
  /\ mu \in Threads \cup {NoThread}
  /\ pc \in [Threads -> PCs]

CacheTypeOK ==
  /\ memBudget \in -1 .. StateBudget
  /\ heap \in [Addr -> Content \cup {Free}]
  /\ next \in [Addr -> [Byte -> Pointer]]
  /\ startInfo \in [StartKind -> Pointer]

LocalTypeOK ==
  /\ op \in [Threads -> {"search", "build", "range"}]
  /\ req \in [Threads -> Requests]
  /\ start \in [Threads -> Pointer]
  /\ s \in [Threads -> Pointer] /\ ns \in [Threads -> Pointer]
  /\ p \in [Threads -> Nat] /\ resetp \in [Threads -> Nat \cup {NoPos}]
  /\ retried \in [Threads -> BOOLEAN]
  /\ saved \in [Threads -> [start : Target, s : Target]]
  /\ run \in [Threads -> Run]
  /\ seen \in [Threads -> Seq(Pointer)]
  /\ cursor \in [Threads -> [at : Nat, left : SUBSET Byte]]

\* Every variable holds a value of its type, although a discarded state's
\* fields could be anything.
TypeOK == LockTypeOK /\ CacheTypeOK /\ LocalTypeOK

\* The cache is reset only while no other thread is inside it, although
\* ResetCache never takes mutex_: cache_mutex_ alone must keep them out.
ResetExclusive ==
  \A t \in Threads : pc[t] = "reset" =>
    /\ mu = NoThread
    /\ \A u \in Threads \ {t} : pc[u] \in Outside

\* The State* locals that thread t reads next are live.
PointersValid(t) ==
  /\ pc[t] \in {"loop", "runLock", "runHeld", "full"} =>
       s[t] \in Live /\ (InText(t) => start[t] \in Live)
  /\ pc[t] = "step" => ns[t] \in Live \cup Special
  /\ pc[t] \in {"range", "rangeHeld"} => s[t] \in Live \cup {FullMatchState}
  /\ \A i \in 1 .. Len(seen[t]) :
       pc[t] # "done" => seen[t][i] \in Live \cup {FullMatchState}

\* A State* that a thread will dereference or compare next was not freed by
\* somebody's reset: its own resets are covered by the StateSavers, those of
\* others by cache_mutex_.
NoDanglingState == \A t \in Threads : PointersValid(t)

\* What lock-free readers rely on: every edge and every start slot leads
\* where a fresh computation would, and never to a discarded state.
CacheSound ==
  /\ \A a \in Live, c \in Byte :
       next[a][c] # NULL => Denotes(next[a][c]) = Delta[heap[a]][c]
  /\ \A kind \in StartKind :
       startInfo[kind] # NULL => Denotes(startInfo[kind]) = StartOf[kind]

\* "s == start" and BuildAllStates compare states by address, so one content
\* has one address.
OneStatePerContent ==
  \A a, b \in Live : heap[a] = heap[b] => a = b

\* None of the LOG(DFATAL) branches is reached: after a reset there is room
\* for start, s and the successor, whatever the other threads do.
NoFatal == \A t \in Threads : run[t].outcome # "fatal"

\* A reader that holds cache_mutex_ never sees an edge it may follow change
\* or a state disappear.
StableWhileRead ==
  [][\A a \in Addr :
       (cacheR # {} /\ heap[a] # Free) =>
         /\ heap'[a] = heap[a]
         /\ \A c \in Byte : next[a][c] # NULL => next'[a][c] = next[a][c]]_vars

\* "Unless we're processing an average of 10 bytes per state computation,
\* fail so that RE2 can fall back to the NFA" (dfa.cc:1410): between two resets
\* by one search lie that many steps for each state the first made room for.
BailsWhenSlow ==
  [][\A t \in Threads :
       (resetp[t] # NoPos /\ resetp'[t] \notin {NoPos, resetp[t]} /\ ~ManyMatch) =>
         resetp'[t] - resetp[t] >= BailFactor * Cardinality(Live)]_vars

-----------------------------------------------------------------------------
(***************************************************************************)
(* Sharing and discarding states is invisible: the searches are those of   *)
(* DFARun.  A search whose state is between two caches is in the content   *)
(* that its StateSaver holds.                                              *)
(***************************************************************************)

Entering(t) ==
  \/ pc[t] \in {"rlock", "quick", "startLock", "startHeld", "loadStart"}
  \/ pc[t] \in {"drop", "wlock", "reset"} /\ s[t] = NULL

PhaseOf(t) ==
  IF pc[t] = "idle" THEN "idle"
  ELSE IF op[t] # "search" THEN "other"
  ELSE IF Entering(t) THEN "called"
  ELSE IF run[t].outcome = "failed" \/ pc[t] \in {"runLock", "runHeld", "full", "step"}
                                       \cup ResetPCs
    THEN "step"
  ELSE "scan"

ContentOf(t) ==
  IF pc[t] = "idle" \/ op[t] # "search" \/ s[t] = NULL THEN DeadState
  ELSE IF pc[t] \in ResetPCs THEN saved[t].s
  ELSE heap[s[t]]

Abstract == INSTANCE DFARun WITH
  phase <- [t \in Threads |-> PhaseOf(t)],
  q     <- [t \in Threads |-> ContentOf(t)]

\* Whatever the interleaving of searches, additions and resets, each search
\* ends as it would alone on an unbounded cache, or gives up.
CacheTransparent == Abstract!RunSpec

\* The scheduler runs every thread, and a lock that stays free is granted.
FairSpec == Spec /\ \A t \in Threads : WF_vars(Progress(t))

\* Every call returns, unless some thread keeps calling for ever and so may
\* starve a writer: the searches themselves neither deadlock nor take turns
\* at discarding each other's states.
CallsReturn ==
  \/ \E u \in Threads : []<>(pc[u] = "idle") /\ []<>(pc[u] = "rlock")
  \/ \A t \in Threads : pc[t] # "idle" ~> pc[t] = "idle"
=============================================================================
