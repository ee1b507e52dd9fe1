--------------------------- MODULE DFACacheProofs ---------------------------
(***************************************************************************)
(* Proofs about DFACache: the locks first, then the cache they protect,    *)
(* and then that DFACache implements DFARun.                               *)
(***************************************************************************)
EXTENDS DFACache, FiniteSetTheorems, TLAPS

(***************************************************************************)
(* The inductive invariant of DFACache: what the two locks exclude, what   *)
(* each thread's pointers stand for at each of its steps, and how much of  *)
(* the memory budget a thread that has reset the cache can count on.       *)
(***************************************************************************)
Inside(t) == pc[t] \notin Outside

\* cache_mutex_ has readers or one writer, every thread inside holds it, the
\* one that resets holds it for writing, and mutex_ is held where it was taken.
LockInv ==
  /\ LockTypeOK
  /\ cacheW # NoThread => cacheR = {}
  /\ \A t \in Threads :
       /\ Inside(t) => t \in cacheR \/ cacheW = t
       /\ pc[t] \in MutexPCs <=> mu = t
       /\ pc[t] \in {"reset", "restoreStart", "restoreS"} => cacheW = t

\* What thread t's State* locals stand for.
InLoop(t) == pc[t] \in {"loop", "runLock", "runHeld", "full", "step"}
Successor(t) == Delta[heap[s[t]]][Symbol(req[t], p[t])]

LoopInv(t) ==
  /\ InLoop(t) =>
       /\ s[t] \in Live
       /\ p[t] <= Len(req[t].text) + 1
       /\ InText(t) => start[t] \in Live /\ heap[start[t]] = StartOf[req[t].kind]
  /\ pc[t] = "loop" => InText(t)
  /\ InLoop(t) /\ pc[t] # "loop" => p[t] >= 1
  /\ pc[t] = "step" => /\ ns[t] \in Live \cup Special
                       /\ Denotes(ns[t]) = Successor(t)

EntryInv(t) ==
  /\ pc[t] \in {"rlock", "quick", "startLock", "startHeld", "loadStart"} =>
       s[t] = NULL /\ p[t] = 0
  /\ pc[t] = "loadStart" => startInfo[req[t].kind] # NULL

ResetInv(t) ==
  /\ pc[t] = "drop" => s[t] = NULL \/ s[t] \in Live
  /\ pc[t] \in ResetPCs /\ s[t] = NULL => p[t] = 0
  /\ pc[t] \in ResetPCs /\ s[t] # NULL =>
       /\ saved[t].s \in Content
       /\ p[t] \in 1 .. Len(req[t].text) + 1
       /\ InText(t) => saved[t].start \in Content /\ saved[t].start = StartOf[req[t].kind]
  /\ pc[t] \in {"restoreStart", "restoreS"} => s[t] # NULL
  /\ pc[t] = "restoreStart" => InText(t)
  /\ pc[t] = "restoreS" /\ InText(t) =>
       start[t] \in Live /\ heap[start[t]] = StartOf[req[t].kind]

ExploreInv(t) ==
  /\ pc[t] \in {"build", "buildHeld"} => cursor[t].at \in 1 .. Len(seen[t])
  /\ pc[t] # "done" =>
       \A i \in 1 .. Len(seen[t]) : seen[t][i] \in Live \cup {FullMatchState}
  /\ pc[t] \in {"build", "buildHeld", "done"} \/ seen[t] = << >>
  /\ pc[t] \in {"range", "rangeHeld"} =>
       /\ s[t] \in Live \cup {FullMatchState}
       /\ start[t] \in Live

\* A thread that has reset the cache has it for itself, and what is left of
\* the budget covers the states it has yet to add: start, s and s's successor.
BudgetInv(t) ==
  /\ pc[t] = "rlock" => ~retried[t]
  /\ retried[t] /\ pc[t] \in {"quick", "startLock", "startHeld"} =>
       cacheW = t /\ memBudget = StateBudget
  /\ pc[t] = "restoreStart" => memBudget = StateBudget
  /\ pc[t] = "restoreS" => memBudget >= StateBudget - MaxCost
  /\ pc[t] \in {"runLock", "runHeld"} /\ retried[t] =>
       cacheW = t /\ memBudget >= StateBudget - 2 * MaxCost
  /\ pc[t] = "full" => ~retried[t]
  /\ run[t].outcome # "fatal"

ThreadInv(t) ==
  /\ LoopInv(t)
  /\ EntryInv(t)
  /\ ResetInv(t)
  /\ ExploreInv(t)
  /\ BudgetInv(t)

CacheInv == CacheTypeOK /\ CacheSound /\ OneStatePerContent

IInv ==
  /\ LockInv
  /\ CacheInv
  /\ LocalTypeOK
  /\ \A t \in Threads : ThreadInv(t)

-----------------------------------------------------------------------------
\* The two locks exclude what LockInv says, in every reachable
\* state, whatever the numbers of threads and of states and their contents.
LEMMA LockInductive ==
  /\ Init => LockInv
  /\ LockInv /\ [Next]_vars => LockInv'
<1> USE PointerAssumption DEF LockInv, LockTypeOK, Inside, Outside, MutexPCs,
      ResetPCs, SearchPCs, PCs
<1>1. Init => LockInv
  BY DEF Init
<1>2. LockInv /\ [Next]_vars => LockInv'
  <2> SUFFICES ASSUME LockInv, [Next]_vars PROVE LockInv'
    OBVIOUS
  <2>1. CASE UNCHANGED vars
    BY <2>1 DEF vars, lockVars
  <2> SUFFICES ASSUME NEW t \in Threads, Call(t) \/ Progress(t) PROVE LockInv'
    BY <2>1 DEF Next
  <2> USE DEF Goto, lockVars, Lock, Unlock, Writing, Fail
  <2>2. CASE Call(t)
    BY <2>2 DEF Call
  <2>3. CASE ReaderLock(t)
    BY <2>3 DEF ReaderLock
  <2>4. CASE Analyze(t)
    <3>1. CASE QuickCheck(t)
      BY <3>1 DEF QuickCheck
    <3>2. CASE StartLock(t)
      BY <3>2 DEF StartLock
    <3>3. CASE StartFound(t)
      BY <3>3 DEF StartFound
    <3>4. CASE StartFailed(t)
      BY <3>4 DEF StartFailed
    <3>5. CASE LoadStart(t)
      BY <3>5 DEF LoadStart
    <3> QED BY <2>4, <3>1, <3>2, <3>3, <3>4, <3>5 DEF Analyze
  <2>5. CASE Reset(t)
    <3>1. CASE DropRead(t)
      BY <3>1 DEF DropRead
    <3>2. CASE WriterLock(t)
      BY <3>2 DEF WriterLock
    <3>3. CASE ResetCache(t)
      BY <3>3 DEF ResetCache, Discard, Resume
    <3>4. CASE RestoreStart(t)
      BY <3>4 DEF RestoreStart
    <3>5. CASE RestoreS(t)
      BY <3>5 DEF RestoreS
    <3> QED BY <2>5, <3>1, <3>2, <3>3, <3>4, <3>5 DEF Reset
  <2>6. CASE Loop(t)
    <3>1. CASE FetchNext(t)
      BY <3>1 DEF FetchNext
    <3>2. CASE RunLock(t)
      BY <3>2 DEF RunLock
    <3>3. CASE RunHeld(t)
      BY <3>3 DEF RunHeld
    <3>4. CASE CacheFull(t)
      BY <3>4 DEF CacheFull
    <3>5. CASE TakeStep(t)
      BY <3>5 DEF TakeStep
    <3> QED BY <2>6, <3>1, <3>2, <3>3, <3>4, <3>5 DEF Loop
  <2>7. CASE Explore(t)
    <3>1. CASE BuildLock(t)
      BY <3>1 DEF BuildLock
    <3>2. CASE BuildHeld(t)
      BY <3>2 DEF BuildHeld
    <3>3. CASE RangeLock(t)
      BY <3>3 DEF RangeLock
    <3>4. CASE RangeStep(t)
      BY <3>4 DEF RangeStep
    <3>5. CASE RangeFull(t)
      BY <3>5 DEF RangeFull
    <3>6. CASE RangeEnd(t)
      BY <3>6 DEF RangeEnd
    <3> QED BY <2>7, <3>1, <3>2, <3>3, <3>4, <3>5, <3>6 DEF Explore
  <2>8. CASE Return(t)
    BY <2>8 DEF Return
  <2> QED
    BY <2>2, <2>3, <2>4, <2>5, <2>6, <2>7, <2>8 DEF Progress
<1> QED BY <1>1, <1>2

\* While a thread resets the cache, every other thread is outside it and
\* nobody is in the middle of an addition under mutex_.
THEOREM ResetIsExclusive == Spec => []ResetExclusive
<1>1. LockInv => ResetExclusive
  BY PointerAssumption DEF LockInv, LockTypeOK, ResetExclusive, Inside,
      MutexPCs, Outside
<1>2. Spec => []LockInv
  BY LockInductive, PTL DEF Spec
<1> QED BY <1>1, <1>2, PTL

-----------------------------------------------------------------------------
(***************************************************************************)
(* The cache.                                                              *)
(***************************************************************************)

\* The live states stay, and so do the start states and the edges.
Grows ==
  /\ \A a \in Live : heap'[a] = heap[a]
  /\ \A kind \in StartKind :
       startInfo[kind] # NULL => startInfo'[kind] = startInfo[kind]
  /\ \A a \in Live, c \in Byte : next[a][c] # NULL => next'[a][c] = next[a][c]

\* Every symbol of a request is a byte class.
LEMMA Symbols ==
  ASSUME NEW r \in Requests, NEW i \in 1 .. Len(r.text) + 1
  PROVE  Symbol(r, i) \in Byte
  BY RequestsAssumption DEF Request, Symbol

\* The automaton leads from a content to a content or a special pointer.
LEMMA Deltas ==
  ASSUME NEW k \in Content, NEW c \in Byte
  PROVE  Delta[k][c] \in Content \cup Special
  BY AutomatonAssumption DEF Target

\* What every edge leads to, the first half of CacheSound.
EdgesSound ==
  \A a \in Live, c \in Byte :
    next[a][c] # NULL => Denotes(next[a][c]) = Delta[heap[a]][c]

\* CachedState keeps the cache sound, and refuses only for lack of budget.
LEMMA CachedStateAdds ==
  ASSUME CacheInv, NEW k \in Content, NEW r, CachedState(k, r), next' = EdgesWith(r)
  PROVE  /\ memBudget' \in -1 .. StateBudget
         /\ heap' \in [Addr -> Content \cup {Free}]
         /\ next' \in [Addr -> [Byte -> Pointer]]
         /\ EdgesSound' /\ OneStatePerContent'
         /\ \A a \in Live : heap'[a] = heap[a] /\ next'[a] = next[a]
         /\ \/ r = NULL /\ memBudget < Cost[k]
            \/ r \in Addr /\ heap'[r] = k /\ memBudget' >= memBudget - MaxCost
<1> USE PointerAssumption, BudgetAssumption, SpecialAssumption
    DEF CacheInv, CacheTypeOK, Live
<1>1. CASE r \in Addr /\ heap[r] = k /\ UNCHANGED <<heap, memBudget>>
  <2>1. next' = next
    BY <1>1 DEF EdgesWith
  <2> QED BY <1>1, <2>1 DEF CacheSound, EdgesSound, OneStatePerContent, Denotes
<1>2. CASE /\ \A a \in Addr : heap[a] # k
           /\ memBudget < Cost[k]
           /\ r = NULL
           /\ memBudget' = -1
           /\ UNCHANGED heap
  <2>1. next' = next
    BY <1>2 DEF EdgesWith
  <2> QED BY <1>2, <2>1 DEF CacheSound, EdgesSound, OneStatePerContent, Denotes
<1>3. CASE /\ \A a \in Addr : heap[a] # k
           /\ memBudget >= Cost[k]
           /\ r \in Addr /\ heap[r] = Free
           /\ memBudget' = memBudget - Cost[k]
           /\ heap' = [heap EXCEPT ![r] = k]
  <2>1. next' = [next EXCEPT ![r] = NoEdges]
    BY <1>3 DEF EdgesWith
  <2>2. /\ \A a \in Addr : heap'[a] = IF a = r THEN k ELSE heap[a]
        /\ \A a \in Addr : next'[a] = IF a = r THEN NoEdges ELSE next[a]
        /\ \A c \in Byte : NoEdges[c] = NULL
    BY <1>3, <2>1 DEF NoEdges
  <2>3. /\ memBudget' \in -1 .. StateBudget
        /\ heap' \in [Addr -> Content \cup {Free}]
        /\ next' \in [Addr -> [Byte -> Pointer]]
    BY <1>3, <2>1 DEF NoEdges, Pointer
  <2>4. \A a \in Live : heap'[a] = heap[a] /\ next'[a] = next[a]
    BY <1>3, <2>2
  <2>5. OneStatePerContent'
    BY <1>3, <2>2 DEF OneStatePerContent
  <2>6. EdgesSound'
    <3> SUFFICES ASSUME NEW a \in Live', NEW c \in Byte, next'[a][c] # NULL
                 PROVE  Denotes(next[a][c])' = Delta[heap'[a]][c]
      BY DEF EdgesSound
    <3>1. a # r /\ a \in Live /\ next'[a][c] = next[a][c] /\ heap'[a] = heap[a]
      BY <2>2
    <3>2. Denotes(next[a][c]) = Delta[heap[a]][c]
      BY <3>1 DEF CacheSound
    <3>3. Delta[heap[a]][c] \in Content \cup Special
      BY <3>1, Deltas
    <3> QED BY <3>1, <3>2, <3>3, <2>2, <2>4 DEF Denotes
  <2> QED BY <1>3, <2>2, <2>3, <2>4, <2>5, <2>6
<1> QED BY <1>1, <1>2, <1>3 DEF CachedState

\* The same where no start slot changes.
LEMMA CachedStateSound ==
  ASSUME CacheInv, NEW k \in Content, NEW r, CachedState(k, r),
         next' = EdgesWith(r), UNCHANGED startInfo
  PROVE  /\ CacheInv'
         /\ Grows
         /\ \/ r = NULL /\ memBudget < Cost[k]
            \/ r \in Addr /\ heap'[r] = k /\ memBudget' >= memBudget - MaxCost
<1>1. /\ CacheTypeOK' /\ Grows
  BY CachedStateAdds DEF CacheInv, CacheTypeOK, Grows
<1>2. CacheSound'
  <2> SUFFICES ASSUME NEW kind \in StartKind, startInfo'[kind] # NULL
               PROVE  Denotes(startInfo[kind])' = StartOf[kind]
    BY CachedStateAdds DEF EdgesSound, CacheSound
  <2>1. Denotes(startInfo[kind]) = StartOf[kind]
    BY DEF CacheInv, CacheSound
  <2>2. StartOf[kind] \in Content \cup Special
    BY AutomatonAssumption DEF Target
  <2> QED BY <1>1, <2>1, <2>2, PointerAssumption DEF Denotes, Grows, Live
<1> QED BY <1>1, <1>2, CachedStateAdds DEF CacheInv

\* AnalyzeSearchHelper publishes a start state in its slot.
LEMMA StartAddedSound ==
  ASSUME CacheInv, NEW kind \in StartKind, NEW a \in Addr,
         StartOf[kind] \in Content, startInfo[kind] = NULL,
         CachedState(StartOf[kind], a), next' = EdgesWith(a),
         startInfo' = [startInfo EXCEPT ![kind] = a]
  PROVE  CacheInv' /\ Grows
<1>1. \A k \in StartKind : startInfo'[k] = IF k = kind THEN a ELSE startInfo[k]
  BY DEF CacheInv, CacheTypeOK
<1>2. a # NULL /\ heap'[a] = StartOf[kind]
  BY CachedStateAdds, PointerAssumption
<1>3. CacheTypeOK' /\ Grows
  BY <1>1, CachedStateAdds DEF CacheInv, CacheTypeOK, Grows, Pointer
<1>4. CacheSound'
  <2> SUFFICES ASSUME NEW k \in StartKind, startInfo'[k] # NULL
               PROVE  Denotes(startInfo[k])' = StartOf[k]
    BY CachedStateAdds DEF EdgesSound, CacheSound
  <2>1. CASE k = kind
    BY <1>1, <1>2, <2>1 DEF Denotes
  <2>2. CASE k # kind
    <3>1. Denotes(startInfo[k]) = StartOf[k] /\ startInfo'[k] = startInfo[k]
      BY <1>1, <2>2 DEF CacheInv, CacheSound
    <3>2. StartOf[k] \in Content \cup Special
      BY AutomatonAssumption DEF Target
    <3> QED BY <1>3, <3>1, <3>2, PointerAssumption DEF Denotes, Grows, Live
  <2> QED BY <2>1, <2>2
<1> QED BY <1>3, <1>4, CachedStateAdds DEF CacheInv

\* So does RunStateOnByte, and the pointer it returns is the successor.
LEMMA RunStateSound ==
  ASSUME CacheInv, NEW a \in Live \cup {FullMatchState}, NEW c \in Byte, NEW r,
         RunStateOnByte(a, c, r), UNCHANGED startInfo
  PROVE  /\ CacheInv'
         /\ Grows
         /\ \/ r = NULL /\ a \in Live /\ memBudget < MaxCost
            \/ /\ r \in Pointer \ {NULL}
               /\ r \in Live' \cup Special
               /\ a \in Live => Denotes(r)' = Delta[heap[a]][c]
               /\ a \notin Live => r = FullMatchState
<1> USE PointerAssumption, SpecialAssumption DEF CacheTypeOK, Live, Pointer
<1>1. CASE a = FullMatchState
  <2>1. a \notin Addr
    BY <1>1 DEF Special
  <2>2. r = FullMatchState /\ UNCHANGED <<heap, memBudget, next>>
    BY <2>1 DEF RunStateOnByte
  <2>3. CacheInv'
    BY <2>2 DEF CacheInv, CacheSound, OneStatePerContent, Denotes
  <2> QED BY <1>1, <2>1, <2>2, <2>3 DEF Grows, Special
<1>2. CASE a \in Live
  <2> DEFINE k == Delta[heap[a]][c]
  <2>0. /\ a \in Addr /\ heap[a] \in Content /\ a # FullMatchState
        /\ k \in Content \cup Special
        /\ next[a][c] \in Pointer
    BY <1>2, Deltas DEF CacheInv, Special
  <2>1. CASE next[a][c] # NULL /\ r = next[a][c] /\ UNCHANGED <<heap, memBudget, next>>
    <3>1. CacheInv'
      BY <2>1 DEF CacheInv, CacheSound, OneStatePerContent, Denotes
    <3>2. Denotes(r) = k
      BY <1>2, <2>0, <2>1 DEF CacheInv, CacheSound
    <3>3. r \in Addr => heap[r] # Free
      BY <2>0, <3>2 DEF Denotes
    <3> QED BY <1>2, <2>0, <2>1, <3>1, <3>2, <3>3 DEF Grows, Denotes
  <2>2. CASE /\ next[a][c] = NULL
             /\ k \in Special
             /\ r = k
             /\ next' = [next EXCEPT ![a][c] = r]
             /\ UNCHANGED <<heap, memBudget>>
    <3>1. \A b \in Addr, d \in Byte :
            next'[b][d] = IF b = a /\ d = c THEN k ELSE next[b][d]
      BY <2>0, <2>2 DEF CacheInv
    <3>2. \A x : Denotes(x)' = Denotes(x)
      BY <2>2 DEF Denotes
    <3>3. Denotes(k) = k
      BY <2>2 DEF Denotes, Special
    <3>4. CacheSound'
      BY <2>2, <3>1, <3>2, <3>3 DEF CacheInv, CacheSound
    <3>5. CacheTypeOK'
      BY <2>0, <2>2 DEF CacheInv
    <3> QED BY <1>2, <2>0, <2>2, <3>2, <3>3, <3>4, <3>5
            DEF CacheInv, OneStatePerContent, Grows
  <2>3. CASE /\ next[a][c] = NULL
             /\ k \in Content
             /\ CachedState(k, r)
             /\ next' = [EdgesWith(r) EXCEPT ![a][c] = r]
    <3> DEFINE grown == EdgesWith(r)
    <3>1. r \in Addr \cup {NULL}
      BY <2>3 DEF CachedState
    <3>2. /\ grown \in [Addr -> [Byte -> Pointer]]
          /\ \A b \in Live, d \in Byte : grown[b][d] = next[b][d]
          /\ \A b \in Addr, d \in Byte : grown[b][d] \in {next[b][d], NULL}
          /\ \A d \in Byte : r \in Addr /\ heap[r] = Free => grown[r][d] = NULL
      BY <3>1 DEF CacheInv, EdgesWith, NoEdges
    <3>3. /\ next' \in [Addr -> [Byte -> Pointer]]
          /\ \A b \in Addr, d \in Byte :
               next'[b][d] = IF b = a /\ d = c THEN r ELSE grown[b][d]
      BY <2>0, <2>3, <3>1, <3>2
    <3>4. /\ heap' \in [Addr -> Content \cup {Free}]
          /\ \A b \in Live : heap'[b] = heap[b]
          /\ \A b \in Live' : b \in Live \/ (b = r /\ heap[r] = Free)
          /\ r # NULL => heap'[r] = k
          /\ r = NULL => memBudget < Cost[k]
          /\ memBudget' \in -1 .. StateBudget
      <4> k \in Content /\ Cost[k] \in 1 .. MaxCost /\ MaxCost \in Nat
        BY <2>3, BudgetAssumption
      <4> HIDE DEF k
      <4>1. CASE r \in Addr /\ heap[r] = k /\ UNCHANGED <<heap, memBudget>>
        BY <4>1 DEF CacheInv
      <4>2. CASE r = NULL /\ memBudget < Cost[k] /\ memBudget' = -1 /\ UNCHANGED heap
        BY <4>2, BudgetAssumption DEF CacheInv
      <4>3. CASE /\ memBudget >= Cost[k]
                 /\ r \in Addr /\ heap[r] = Free
                 /\ memBudget' = memBudget - Cost[k]
                 /\ heap' = [heap EXCEPT ![r] = k]
        BY <4>3, BudgetAssumption DEF CacheInv
      <4> QED BY <2>3, <4>1, <4>2, <4>3 DEF CachedState
    <3>5. OneStatePerContent'
      BY <2>3 DEF CacheInv, CachedState, OneStatePerContent
    <3>6. \A x \in Pointer :
            Denotes(x) \in Content \cup Special => Denotes(x)' = Denotes(x)
      BY <3>4 DEF Denotes
    <3>7. CacheSound'
      <4>1. ASSUME NEW b \in Live', NEW d \in Byte, next'[b][d] # NULL
            PROVE  Denotes(next[b][d])' = Delta[heap'[b]][d]
        <5>1. CASE b = a /\ d = c
          BY <5>1, <4>1, <1>2, <3>1, <3>3, <3>4 DEF Denotes
        <5>2. CASE ~(b = a /\ d = c)
          <6>1. /\ b \in Live /\ heap'[b] = heap[b]
                /\ next'[b][d] = next[b][d] /\ next[b][d] # NULL
            BY <5>2, <4>1, <3>2, <3>3, <3>4
          <6>2. Denotes(next[b][d]) = Delta[heap[b]][d]
            BY <6>1 DEF CacheInv, CacheSound
          <6>3. Delta[heap[b]][d] \in Content \cup Special /\ next[b][d] \in Pointer
            BY <6>1, Deltas DEF CacheInv
          <6> QED BY <6>1, <6>2, <6>3, <3>6 DEF Denotes
        <5> QED BY <5>1, <5>2
      <4>2. ASSUME NEW kind \in StartKind, startInfo'[kind] # NULL
            PROVE  Denotes(startInfo[kind])' = StartOf[kind]
        <5>1. Denotes(startInfo[kind]) = StartOf[kind]
          BY <4>2 DEF CacheInv, CacheSound
        <5>2. StartOf[kind] \in Content \cup Special
          BY AutomatonAssumption DEF Target
        <5> QED BY <5>1, <5>2, <3>6 DEF CacheInv, Denotes
      <4> QED BY <4>1, <4>2 DEF CacheSound
    <3>8. Grows
      BY <2>3, <3>2, <3>3, <3>4 DEF Grows, CacheInv
    <3>9. CacheInv'
      BY <3>3, <3>4, <3>5, <3>7 DEF CacheInv
    <3>10. r = NULL => memBudget < MaxCost
      BY <2>3, <3>4, BudgetAssumption DEF CacheInv
    <3> QED BY <1>2, <2>0, <3>1, <3>4, <3>8, <3>9, <3>10 DEF Denotes
  <2> QED BY <1>2, <2>0, <2>1, <2>2, <2>3 DEF RunStateOnByte
<1> QED BY <1>1, <1>2

-----------------------------------------------------------------------------
(***************************************************************************)
(* The results of a search.                                                *)
(***************************************************************************)

Outcome == {"running", "match", "nomatch", "failed", "fatal"}

\* Replacing the outcome of a run leaves a run.
LEMMA RunOutcome ==
  ASSUME NEW r \in Run, NEW o \in Outcome
  PROVE [r EXCEPT !.outcome = o] \in Run /\ [r EXCEPT !.outcome = o].outcome = o
  BY DEF Run, Outcome

\* A thread that fails spoils no other thread's run.
LEMMA FailType ==
  ASSUME run \in [Threads -> Run], NEW t \in Threads, NEW how \in Outcome,
         run' = [run EXCEPT ![t].outcome = how]
  PROVE  /\ run' \in [Threads -> Run]
         /\ run'[t].outcome = how
         /\ \A u \in Threads \ {t} : run'[u] = run[u]
<1> DEFINE failed == [run[t] EXCEPT !.outcome = how]
<1>1. run' = [run EXCEPT ![t] = failed] /\ failed \in Run /\ failed.outcome = how
  BY RunOutcome
<1> HIDE DEF failed
<1> QED BY <1>1

\* The runs that At builds.
LEMMA AtType ==
  ASSUME NEW ep \in Int, NEW ids \in SUBSET MatchId, NEW o \in Outcome
  PROVE  At(ep, ids, o) \in Run /\ At(ep, ids, o).outcome = o
  BY DEF At, Run, Outcome

\* How a search ends that finds nothing more.
LEMMA EndedType ==
  ASSUME NEW ep PROVE Ended(ep) \in {"match", "nomatch"}
  BY DEF Ended

\* A new search is running.
LEMMA NewRunType == NewRun \in Run /\ NewRun.outcome = "running"
  BY AtType DEF NewRun, NoPos, Outcome

\* The start state, and every step, make a search's result of its type, and
\* neither fails a search.
LEMMA BeginType ==
  ASSUME NEW r \in Requests, NEW k \in Content \cup Special
  PROVE  Begin(r, k) \in Run /\ Begin(r, k).outcome \in {"running", "match", "nomatch"}
<1>1. Len(r.text) \in Nat BY RequestsAssumption DEF Request
<1>2. CASE k = DeadState
  <2>1. Begin(r, k) = At(NoPos, {}, "nomatch")
    BY <1>2, SpecialAssumption DEF Begin
  <2> QED BY <2>1, AtType DEF NoPos, Outcome
<1>3. CASE k = FullMatchState
  <2>1. Begin(r, k) = At(IF r.earliest THEN 0 ELSE Len(r.text), {}, "match")
    BY <1>3, SpecialAssumption DEF Begin
  <2> QED BY <1>1, <2>1, AtType DEF Outcome
<1>4. CASE k \in Content
  BY <1>4, NewRunType, SpecialAssumption DEF Begin, Special
<1> QED BY <1>2, <1>3, <1>4 DEF Special

\* The same for a step.
LEMMA ArriveType ==
  ASSUME NEW r \in Requests, NEW k \in Content \cup Special, NEW rr \in Run, NEW i \in Nat
  PROVE  /\ Arrive(r, rr, i, k) \in Run
         /\ Arrive(r, rr, i, k).outcome \in {"running", "match", "nomatch"}
<1>1. Len(r.text) \in Nat BY RequestsAssumption DEF Request
<1>0. rr.ep \in Int /\ rr.ids \in SUBSET MatchId BY DEF Run
<1>2. CASE k = DeadState
  <2>1. Arrive(r, rr, i, k) = At(rr.ep, rr.ids, Ended(rr.ep))
    BY <1>2, SpecialAssumption DEF Arrive
  <2> QED BY <1>0, <2>1, AtType, EndedType DEF Outcome
<1>3. CASE k = FullMatchState
  <2>1. Arrive(r, rr, i, k) = At(Len(r.text), rr.ids, "match")
    BY <1>3, SpecialAssumption DEF Arrive
  <2> QED BY <1>0, <1>1, <2>1, AtType DEF Outcome
<1>4. CASE k \in Content
  <2> DEFINE ep   == IF IsMatch[k] THEN i - 1 ELSE rr.ep
             ids  == IF IsMatch[k] /\ ManyMatch /\ ~r.earliest
                     THEN rr.ids \cup MatchIds[k] ELSE rr.ids
             last == i > Len(r.text) \/ (IsMatch[k] /\ r.earliest)
             out == IF last THEN Ended(ep) ELSE "running"
  <2>1. Arrive(r, rr, i, k) = At(ep, ids, out)
    BY <1>4, SpecialAssumption DEF Arrive, Special
  <2>2. ep \in Int /\ ids \in SUBSET MatchId
    BY <1>0, <1>4, AutomatonAssumption
  <2>3. out \in {"match", "nomatch", "running"}
    BY EndedType
  <2> HIDE DEF ep, ids, out
  <2> QED BY <2>1, <2>2, <2>3, AtType DEF Outcome
<1> QED BY <1>2, <1>3, <1>4 DEF Special

\* A search goes on only from an ordinary state, and only within the text.
LEMMA ArriveRuns ==
  ASSUME NEW r \in Requests, NEW k \in Content \cup Special, NEW rr \in Run, NEW i \in Nat,
         Arrive(r, rr, i, k).outcome = "running"
  PROVE  k \notin Special /\ i <= Len(r.text)
<1>1. Len(r.text) \in Nat
  BY RequestsAssumption DEF Request
<1>2. k # DeadState
  <2> SUFFICES ASSUME k = DeadState PROVE FALSE
    OBVIOUS
  <2>1. Arrive(r, rr, i, k) = At(rr.ep, rr.ids, Ended(rr.ep))
    BY SpecialAssumption DEF Arrive
  <2> QED BY <2>1, EndedType DEF At
<1>3. k # FullMatchState
  <2> SUFFICES ASSUME k = FullMatchState PROVE FALSE
    OBVIOUS
  <2>1. Arrive(r, rr, i, k) = At(Len(r.text), rr.ids, "match")
    BY SpecialAssumption DEF Arrive
  <2> QED BY <2>1 DEF At
<1>4. i <= Len(r.text)
  <2> DEFINE ep == IF IsMatch[k] THEN i - 1 ELSE rr.ep
  <2>1. PICK ids : Arrive(r, rr, i, k) =
          At(ep, ids, IF i > Len(r.text) \/ (IsMatch[k] /\ r.earliest)
                      THEN Ended(ep) ELSE "running")
    BY <1>2, <1>3 DEF Arrive
  <2> QED BY <1>1, <2>1, EndedType DEF At
<1> QED BY <1>2, <1>3, <1>4 DEF Special

-----------------------------------------------------------------------------
(***************************************************************************)
(* A step of one thread leaves the locals of the others alone, and gives   *)
(* its own values of their types.                                          *)
(***************************************************************************)

Frame(t) ==
  \A u \in Threads \ {t} :
    /\ pc'[u] = pc[u] /\ req'[u] = req[u]
    /\ start'[u] = start[u] /\ s'[u] = s[u] /\ ns'[u] = ns[u] /\ p'[u] = p[u]
    /\ retried'[u] = retried[u] /\ saved'[u] = saved[u] /\ run'[u] = run[u]
    /\ seen'[u] = seen[u] /\ cursor'[u] = cursor[u]

\* What BuildAllStates and PossibleMatchRange do to their position.
LEMMA CursorType ==
  ASSUME NEW at \in [at : Nat, left : SUBSET Byte], NEW rest \in SUBSET Byte
  PROVE  /\ [at EXCEPT !.at = @ + 1] \in [at : Nat, left : SUBSET Byte]
         /\ [at EXCEPT !.left = rest] \in [at : Nat, left : SUBSET Byte]
         /\ [at |-> at.at + 1, left |-> Byte] \in [at : Nat, left : SUBSET Byte]
  OBVIOUS

\* A step keeps the locals' types, and touches only those of its own thread.
LEMMA Local ==
  ASSUME IInv, NEW t \in Threads, Call(t) \/ Progress(t)
  PROVE  LocalTypeOK' /\ Frame(t)
<1> USE DEF Frame, LocalTypeOK, IInv, LockInv, LockTypeOK, Goto, callVars, localVars, buildVars
<1>1. CASE Call(t)
  BY <1>1, NewRunType, OpsAssumption DEF Call, Pointer, NoPos, NoneSaved, Target, Special
<1>2. CASE ReaderLock(t)
  BY <1>2 DEF ReaderLock
<1>3. CASE Analyze(t)
  <2>1. CASE QuickCheck(t)
    BY <2>1 DEF QuickCheck
  <2>2. CASE StartLock(t)
    BY <2>2 DEF StartLock
  <2>3. CASE StartFound(t)
    BY <2>3 DEF StartFound
  <2>4. CASE StartFailed(t)
    <3>1. CASE retried[t]
      <4>1. run' \in [Threads -> Run] /\ \A u \in Threads \ {t} : run'[u] = run[u]
        BY <2>4, <3>1, FailType DEF StartFailed, Fail, Outcome
      <4> QED BY <2>4, <3>1, <4>1 DEF StartFailed, Fail
    <3>2. CASE ~retried[t]
      BY <2>4, <3>2 DEF StartFailed
    <3> QED BY <3>1, <3>2
  <2>5. CASE LoadStart(t)
    <3> DEFINE a == startInfo[req[t].kind]
               result == Begin(req[t], Denotes(a))
    <3>1. req[t] \in Requests /\ req[t].kind \in StartKind
      BY RequestsAssumption DEF Request
    <3>2. a \in Pointer \ {NULL} /\ Denotes(a) \in Content \cup Special
      BY <2>5, <3>1, AutomatonAssumption
         DEF LoadStart, CacheInv, CacheTypeOK, CacheSound, ThreadInv, EntryInv, Target
    <3>3. result \in Run
      BY <3>1, <3>2, BeginType
    <3>4. <<a>> \in Seq(Pointer) /\ [at |-> 1, left |-> Byte] \in [at : Nat, left : SUBSET Byte]
      BY <3>2
    <3> HIDE DEF result
    <3>5. CASE /\ run' = [run EXCEPT ![t] = result]
               /\ s' = [s EXCEPT ![t] = IF a \in Special THEN NULL ELSE a]
               /\ UNCHANGED buildVars
      BY <2>5, <3>2, <3>3, <3>5 DEF LoadStart, Pointer
    <3>6. CASE /\ seen' = [seen EXCEPT ![t] = <<a>>]
               /\ cursor' = [cursor EXCEPT ![t] = [at |-> 1, left |-> Byte]]
               /\ UNCHANGED <<s, run>>
      <4> HIDE DEF a
      <4>1. pc' = [pc EXCEPT ![t] = IF a = DeadState THEN "done" ELSE "build"]
            \/ \A u \in Threads \ {t} : pc'[u] = pc[u]
        BY <2>5 DEF LoadStart
      <4> QED BY <2>5, <3>2, <3>4, <3>6, <4>1 DEF LoadStart, a
    <3>7. CASE /\ s' = [s EXCEPT ![t] = a]
               /\ cursor' = [cursor EXCEPT ![t] = [at |-> 1, left |-> Byte]]
               /\ UNCHANGED <<run, seen>>
      BY <2>5, <3>2, <3>4, <3>7 DEF LoadStart
    <3> QED BY <2>5, <3>5, <3>6, <3>7 DEF LoadStart, result
  <2> QED BY <1>3, <2>1, <2>2, <2>3, <2>4, <2>5 DEF Analyze
<1>4. CASE Reset(t)
  <2>1. CASE DropRead(t)
    BY <2>1 DEF DropRead
  <2>2. CASE WriterLock(t)
    BY <2>2 DEF WriterLock
  <2>3. CASE ResetCache(t)
    BY <2>3 DEF ResetCache, Discard
  <2>4. CASE RestoreStart(t)
    <3>1. PICK r \in Addr \cup {NULL} :
            /\ start' = [start EXCEPT ![t] = r]
            /\ IF r = NULL THEN Fail(t, "fatal") ELSE Goto(t, "restoreS") /\ UNCHANGED run
      BY <2>4 DEF RestoreStart
    <3>2. CASE r = NULL
      <4>1. run' \in [Threads -> Run] /\ \A u \in Threads \ {t} : run'[u] = run[u]
        BY <3>1, <3>2, FailType DEF Fail, Outcome
      <4> QED BY <2>4, <3>1, <3>2, <4>1 DEF RestoreStart, Fail, Pointer
    <3>3. CASE r # NULL
      BY <2>4, <3>1, <3>3 DEF RestoreStart, Pointer
    <3> QED BY <3>2, <3>3
  <2>5. CASE RestoreS(t)
    <3>1. PICK r \in Addr \cup {NULL} :
            /\ s' = [s EXCEPT ![t] = r]
            /\ IF r = NULL THEN Fail(t, "fatal") ELSE Goto(t, "runLock") /\ UNCHANGED run
      BY <2>5 DEF RestoreS
    <3>2. CASE r = NULL
      <4>1. run' \in [Threads -> Run] /\ \A u \in Threads \ {t} : run'[u] = run[u]
        BY <3>1, <3>2, FailType DEF Fail, Outcome
      <4> QED BY <2>5, <3>1, <3>2, <4>1 DEF RestoreS, Fail, Pointer
    <3>3. CASE r # NULL
      BY <2>5, <3>1, <3>3 DEF RestoreS, Pointer
    <3> QED BY <3>2, <3>3
  <2> QED BY <1>4, <2>1, <2>2, <2>3, <2>4, <2>5 DEF Reset
<1>5. CASE Loop(t)
  <2>1. CASE FetchNext(t)
    <3>1. PICK i \in (p[t] + 1) .. (Len(req[t].text) + 1) :
            LET a == next[s[t]][Symbol(req[t], i)] IN
            /\ p' = [p EXCEPT ![t] = i]
            /\ ns' = [ns EXCEPT ![t] = a]
            /\ Goto(t, IF a = NULL THEN "runLock" ELSE "step")
      BY <2>1 DEF FetchNext
    <3>2. req[t] \in Requests /\ Len(req[t].text) \in Nat
      BY RequestsAssumption DEF Request
    <3>3. i \in 1 .. Len(req[t].text) + 1
      BY <3>2
    <3>4. Symbol(req[t], i) \in Byte
      BY <3>2, <3>3, Symbols
    <3>5. s[t] \in Addr
      BY <2>1 DEF FetchNext, ThreadInv, LoopInv, InLoop, Live
    <3>6. next[s[t]][Symbol(req[t], i)] \in Pointer
      BY <3>4, <3>5 DEF CacheInv, CacheTypeOK
    <3> QED BY <2>1, <3>1, <3>3, <3>6 DEF FetchNext
  <2>2. CASE RunLock(t)
    BY <2>2 DEF RunLock
  <2>3. CASE RunHeld(t)
    BY <2>3 DEF RunHeld
  <2>4. CASE CacheFull(t)
    <3>1. CASE \E how \in {"fatal", "failed"} :
                 Fail(t, how) /\ UNCHANGED <<resetp, saved, retried>>
      <4>1. run' \in [Threads -> Run] /\ \A u \in Threads \ {t} : run'[u] = run[u]
        BY <3>1, FailType DEF Fail, Outcome
      <4> QED BY <2>4, <3>1, <4>1 DEF CacheFull, Fail
    <3>2. CASE ~retried[t] /\ ~Slow(t)
      <4> DEFINE first == IF InText(t) THEN heap[start[t]] ELSE DeadState
                 both == [s |-> heap[s[t]], start |-> first]
                 pos == IF InText(t) THEN p[t] ELSE resetp[t]
      <4>1. both \in [start : Target, s : Target]
        BY <2>4 DEF CacheFull, ThreadInv, LoopInv, InLoop, Live, CacheInv,
                    CacheTypeOK, Target, Special
      <4>2. pos \in Nat \cup {NoPos}
        OBVIOUS
      <4>3. /\ saved' = [saved EXCEPT ![t] = both]
            /\ resetp' = [resetp EXCEPT ![t] = pos]
            /\ retried' = [retried EXCEPT ![t] = TRUE]
            /\ pc' = [pc EXCEPT ![t] = IF Writing(t) THEN "reset" ELSE "drop"]
            /\ UNCHANGED run
        BY <2>4, <3>2 DEF CacheFull
      <4> HIDE DEF both, pos
      <4> QED BY <2>4, <4>1, <4>2, <4>3 DEF CacheFull
    <3> QED BY <2>4, <3>1, <3>2 DEF CacheFull
  <2>5. CASE TakeStep(t)
    <3> DEFINE after == Arrive(req[t], run[t], p[t], Denotes(ns[t]))
    <3>1. req[t] \in Requests /\ run[t] \in Run /\ p[t] \in Nat
      BY RequestsAssumption
    <3>2. Denotes(ns[t]) \in Content \cup Special /\ run[t].outcome # "fatal"
      BY <2>5, PointerAssumption
         DEF TakeStep, ThreadInv, LoopInv, BudgetInv, Denotes, Live, CacheInv,
             CacheTypeOK
    <3>3. after \in Run
      BY <3>1, <3>2, ArriveType
    <3>4. /\ run' = [run EXCEPT ![t] = after]
          /\ s' = [s EXCEPT ![t] = IF ns[t] \in Special THEN s[t] ELSE ns[t]]
          /\ pc' = [pc EXCEPT ![t] =
                      IF after.outcome = "running" THEN "loop" ELSE "done"]
      BY <2>5 DEF TakeStep
    <3> HIDE DEF after
    <3> QED BY <2>5, <3>3, <3>4 DEF TakeStep
  <2> QED BY <1>5, <2>1, <2>2, <2>3, <2>4, <2>5 DEF Loop
<1>6. CASE Explore(t)
  <2>1. CASE BuildLock(t)
    BY <2>1 DEF BuildLock
  <2>2. CASE BuildHeld(t)
    <3>1. PICK c \in cursor[t].left, r \in Pointer :
            LET rest == cursor[t].left \ {c}
                all  == IF r \in {NULL, DeadState} \cup
                               {seen[t][i] : i \in 1 .. Len(seen[t])}
                          THEN seen[t] ELSE Append(seen[t], r)
            IN
            /\ seen' = [seen EXCEPT ![t] = all]
            /\ cursor' = [cursor EXCEPT ![t] =
                            IF rest # {} THEN [@ EXCEPT !.left = rest]
                            ELSE [at |-> @.at + 1, left |-> Byte]]
            /\ \E to : Goto(t, to)
      BY <2>2 DEF BuildHeld
    <3> DEFINE rest == cursor[t].left \ {c}
               all  == IF r \in {NULL, DeadState} \cup
                              {seen[t][i] : i \in 1 .. Len(seen[t])}
                         THEN seen[t] ELSE Append(seen[t], r)
               moved == IF rest # {} THEN [cursor[t] EXCEPT !.left = rest]
                        ELSE [at |-> cursor[t].at + 1, left |-> Byte]
    <3>2. all \in Seq(Pointer)
      OBVIOUS
    <3>3. moved \in [at : Nat, left : SUBSET Byte]
      BY CursorType, SMTT(40)
    <3>4. seen' = [seen EXCEPT ![t] = all] /\ cursor' = [cursor EXCEPT ![t] = moved]
      BY <3>1
    <3> HIDE DEF all, moved
    <3> QED BY <2>2, <3>1, <3>2, <3>3, <3>4, SMTT(30) DEF BuildHeld
  <2>3. CASE RangeLock(t)
    BY <2>3 DEF RangeLock
  <2>4. CASE RangeStep(t)
    <3> DEFINE further == [cursor[t] EXCEPT !.at = @ + 1]
    <3>1. further \in [at : Nat, left : SUBSET Byte]
      BY CursorType, ZenonT(40)
    <3>2. cursor' = [cursor EXCEPT ![t] = further]
      BY <2>4 DEF RangeStep
    <3>3. PICK r \in Pointer : \/ UNCHANGED s
                              \/ s' = [s EXCEPT ![t] = r]
                              \/ s' = [s EXCEPT ![t] = start[t]]
      BY <2>4 DEF RangeStep
    <3>4. UNCHANGED <<pc, op, req, start, ns, p, resetp, retried, saved, run, seen>>
      BY <2>4 DEF RangeStep
    <3> HIDE DEF further
    <3>5. s' \in [Threads -> Pointer] /\ \A u \in Threads \ {t} : s'[u] = s[u]
      <4>1. CASE UNCHANGED s
        BY <4>1
      <4>2. CASE s' = [s EXCEPT ![t] = r]
        BY <4>2
      <4>3. CASE s' = [s EXCEPT ![t] = start[t]]
        BY <4>3
      <4> QED BY <3>3, <4>1, <4>2, <4>3
    <3>6. /\ cursor' \in [Threads -> [at : Nat, left : SUBSET Byte]]
          /\ \A u \in Threads \ {t} : cursor'[u] = cursor[u]
      BY <3>1, <3>2
    <3> QED BY <3>4, <3>5, <3>6
  <2>5. CASE RangeFull(t)
    BY <2>5 DEF RangeFull
  <2>6. CASE RangeEnd(t)
    BY <2>6 DEF RangeEnd
  <2> QED BY <1>6, <2>1, <2>2, <2>3, <2>4, <2>5, <2>6 DEF Explore
<1>7. CASE Return(t)
  BY <1>7 DEF Return, Pointer
<1> QED BY <1>1, <1>2, <1>3, <1>4, <1>5, <1>6, <1>7 DEF Progress

-----------------------------------------------------------------------------
(***************************************************************************)
(* A step keeps the cache sound, and discards states only in a reset.      *)
(***************************************************************************)

\* The steps that add to the cache: they run inside, and outside a reset.
Adds(t) == StartFound(t) \/ StartFailed(t) \/ RestoreStart(t) \/ RestoreS(t)
           \/ RunHeld(t) \/ BuildHeld(t) \/ RangeStep(t) \/ RangeFull(t)

\* Every step adds to the cache, resets it, or leaves it alone.
LEMMA Split ==
  ASSUME NEW t \in Threads, Call(t) \/ Progress(t)
  PROVE  Adds(t) \/ ResetCache(t) \/ UNCHANGED cacheVars
<1> USE DEF Adds
<1>1. CASE Call(t)
  BY <1>1 DEF Call
<1>2. CASE ReaderLock(t)
  BY <1>2 DEF ReaderLock
<1>3. CASE QuickCheck(t)
  BY <1>3 DEF QuickCheck
<1>4. CASE StartLock(t)
  BY <1>4 DEF StartLock
<1>5. CASE LoadStart(t)
  BY <1>5 DEF LoadStart
<1>6. CASE DropRead(t)
  BY <1>6 DEF DropRead
<1>7. CASE WriterLock(t)
  BY <1>7 DEF WriterLock
<1>8. CASE FetchNext(t)
  BY <1>8 DEF FetchNext
<1>9. CASE RunLock(t)
  BY <1>9 DEF RunLock
<1>10. CASE CacheFull(t)
  BY <1>10 DEF CacheFull
<1>11. CASE TakeStep(t)
  BY <1>11 DEF TakeStep
<1>12. CASE BuildLock(t)
  BY <1>12 DEF BuildLock
<1>13. CASE RangeLock(t)
  BY <1>13 DEF RangeLock
<1>14. CASE RangeEnd(t)
  BY <1>14 DEF RangeEnd
<1>15. CASE Return(t)
  BY <1>15 DEF Return
<1> QED
  BY <1>1, <1>2, <1>3, <1>4, <1>5, <1>6, <1>7, <1>8, <1>9, <1>10, <1>11, <1>12, <1>13, <1>14, <1>15
     DEF Progress, Analyze, Reset, Loop, Explore

\* A cache that is left alone stays sound.
LEMMA Unchanged ==
  ASSUME CacheInv, UNCHANGED cacheVars
  PROVE  CacheInv' /\ Grows
  BY DEF cacheVars, CacheInv, CacheTypeOK, CacheSound, OneStatePerContent, Live,
         Denotes, Grows

\* An emptied cache is sound.
LEMMA ResetSound ==
  ASSUME CacheInv, NEW t \in Threads, ResetCache(t)
  PROVE  CacheInv'
<1>1. \A a \in Addr : heap'[a] = Free
  BY DEF ResetCache, Discard
<1>2. \A kind \in StartKind : startInfo'[kind] = NULL
  BY DEF ResetCache, Discard, NoStarts
<1>3. Live' = {}
  BY <1>1 DEF Live
<1>4. CacheTypeOK'
  BY BudgetAssumption DEF CacheInv, CacheTypeOK, ResetCache, Discard, NoStarts, Pointer
<1> QED BY <1>2, <1>3, <1>4 DEF CacheInv, CacheSound, OneStatePerContent

\* What each step of thread t finds about its own arguments.
LEMMA Arguments ==
  ASSUME IInv, NEW t \in Threads
  PROVE  /\ req[t] \in Requests /\ req[t].kind \in StartKind
         /\ Len(req[t].text) \in Nat
         /\ p[t] \in 1 .. Len(req[t].text) + 1 => Symbol(req[t], p[t]) \in Byte
<1>1. req[t] \in Requests
  BY DEF IInv, LocalTypeOK
<1>2. req[t].kind \in StartKind /\ Len(req[t].text) \in Nat
  BY <1>1, RequestsAssumption DEF Request
<1> QED BY <1>1, <1>2, Symbols

\* An addition keeps the cache sound and what was in it, and is made inside.
LEMMA AddsSound ==
  ASSUME IInv, NEW t \in Threads, Adds(t)
  PROVE  CacheInv' /\ Grows /\ Inside(t)
<1> USE DEF IInv, Inside, Outside
<1>1. CASE StartFound(t)
  <2> DEFINE kind == req[t].kind
  <2>0. kind \in StartKind
    BY Arguments
  <2>1. CASE startInfo[kind] # NULL /\ UNCHANGED cacheVars
    BY <1>1, <2>1, Unchanged DEF StartFound
  <2>2. CASE /\ startInfo[kind] = NULL
             /\ StartOf[kind] \in Special
             /\ startInfo' = [startInfo EXCEPT ![kind] = StartOf[kind]]
             /\ UNCHANGED <<memBudget, heap, next>>
    <3>1. CacheTypeOK'
      BY <2>0, <2>2 DEF CacheInv, CacheTypeOK, Pointer
    <3>2. \A x : Denotes(x)' = Denotes(x)
      BY <2>2 DEF Denotes
    <3>3. Denotes(StartOf[kind]) = StartOf[kind]
      BY <2>2, PointerAssumption DEF Denotes
    <3>4. \A k \in StartKind :
            startInfo'[k] = IF k = kind THEN StartOf[kind] ELSE startInfo[k]
      BY <2>0, <2>2 DEF CacheInv, CacheTypeOK
    <3>5. CacheSound'
      BY <2>2, <3>2, <3>3, <3>4 DEF CacheInv, CacheSound, Live
    <3>6. Grows /\ OneStatePerContent'
      BY <2>0, <2>2, <3>4 DEF CacheInv, Grows, OneStatePerContent, Live
    <3> QED BY <1>1, <3>1, <3>5, <3>6 DEF CacheInv, StartFound
  <2>3. CASE /\ startInfo[kind] = NULL
             /\ StartOf[kind] \in Content
             /\ \E a \in Addr :
                  /\ CachedState(StartOf[kind], a)
                  /\ next' = EdgesWith(a)
                  /\ startInfo' = [startInfo EXCEPT ![kind] = a]
    <3>1. PICK a \in Addr : /\ CachedState(StartOf[kind], a)
                            /\ next' = EdgesWith(a)
                            /\ startInfo' = [startInfo EXCEPT ![kind] = a]
      BY <2>3
    <3> QED BY <1>1, <2>0, <2>3, <3>1, StartAddedSound DEF StartFound
  <2> QED BY <1>1, <2>1, <2>2, <2>3 DEF StartFound
<1>2. CASE StartFailed(t)
  <2>1. /\ StartOf[req[t].kind] \in Content
        /\ CachedState(StartOf[req[t].kind], NULL)
        /\ UNCHANGED <<next, startInfo>>
    BY <1>2 DEF StartFailed
  <2>2. next' = EdgesWith(NULL)
    BY <2>1, PointerAssumption DEF EdgesWith
  <2> QED BY <1>2, <2>1, <2>2, CachedStateSound DEF StartFailed
<1>3. CASE RestoreStart(t)
  <2>1. PICK r \in Addr \cup {NULL} :
          CachedState(saved[t].start, r) /\ next' = EdgesWith(r)
    BY <1>3 DEF RestoreStart
  <2>2. saved[t].start \in Content /\ UNCHANGED startInfo
    BY <1>3 DEF RestoreStart, ThreadInv, ResetInv, ResetPCs
  <2> QED BY <1>3, <2>1, <2>2, CachedStateSound DEF RestoreStart
<1>4. CASE RestoreS(t)
  <2>1. PICK r \in Addr \cup {NULL} :
          CachedState(saved[t].s, r) /\ next' = EdgesWith(r)
    BY <1>4 DEF RestoreS
  <2>2. saved[t].s \in Content /\ UNCHANGED startInfo
    BY <1>4 DEF RestoreS, ThreadInv, ResetInv, ResetPCs
  <2> QED BY <1>4, <2>1, <2>2, CachedStateSound DEF RestoreS
<1>5. CASE RunHeld(t)
  <2>1. PICK r \in Pointer : RunStateOnByte(s[t], Symbol(req[t], p[t]), r)
    BY <1>5 DEF RunHeld
  <2>2. /\ s[t] \in Live /\ p[t] \in 1 .. Len(req[t].text) + 1
        /\ UNCHANGED startInfo
    BY <1>5, Arguments DEF RunHeld, ThreadInv, LoopInv, InLoop, LocalTypeOK
  <2> QED BY <1>5, <2>1, <2>2, Arguments, RunStateSound DEF RunHeld
<1>6. CASE BuildHeld(t)
  <2>1. PICK c \in cursor[t].left, r \in Pointer :
          RunStateOnByte(seen[t][cursor[t].at], c, r)
    BY <1>6 DEF BuildHeld
  <2>2. /\ c \in Byte /\ seen[t][cursor[t].at] \in Live \cup {FullMatchState}
        /\ UNCHANGED startInfo
    BY <1>6 DEF BuildHeld, ThreadInv, ExploreInv, LocalTypeOK
  <2> QED BY <1>6, <2>1, <2>2, RunStateSound DEF BuildHeld
<1>7. CASE RangeStep(t)
  <2>1. PICK c \in Byte, r \in Pointer : RunStateOnByte(s[t], c, r)
    BY <1>7 DEF RangeStep
  <2>2. s[t] \in Live \cup {FullMatchState} /\ UNCHANGED startInfo
    BY <1>7 DEF RangeStep, ThreadInv, ExploreInv
  <2> QED BY <1>7, <2>1, <2>2, RunStateSound DEF RangeStep
<1>8. CASE RangeFull(t)
  <2>1. PICK c \in Byte : RunStateOnByte(s[t], c, NULL)
    BY <1>8 DEF RangeFull
  <2>2. s[t] \in Live \cup {FullMatchState} /\ UNCHANGED startInfo
    BY <1>8 DEF RangeFull, ThreadInv, ExploreInv
  <2> QED BY <1>8, <2>1, <2>2, RunStateSound, SMTT(30) DEF RangeFull
<1> QED BY <1>1, <1>2, <1>3, <1>4, <1>5, <1>6, <1>7, <1>8 DEF Adds

-----------------------------------------------------------------------------
(***************************************************************************)
(* A step of thread t does not disturb what another thread u relies on.    *)
(***************************************************************************)

\* Outside, a step touches neither the cache nor another thread's lock.
LEMMA Polite ==
  ASSUME IInv, NEW t \in Threads, Call(t) \/ Progress(t),
         NEW u \in Threads \ {t}, cacheW = u
  PROVE  UNCHANGED cacheVars /\ cacheW' = u
<1>1. ~Inside(t)
  BY PointerAssumption DEF IInv, LockInv
<1>2. UNCHANGED cacheVars
  BY <1>1, Split, AddsSound DEF ResetCache, Discard, Inside, Outside
<1>3. pc[t] \in {"idle", "rlock", "wlock"}
  BY <1>1 DEF Inside, Outside
<1>4. CASE Call(t)
  BY <1>4 DEF Call, lockVars
<1>5. CASE ReaderLock(t)
  BY <1>5, PointerAssumption DEF ReaderLock
<1>6. CASE WriterLock(t)
  BY <1>6, PointerAssumption DEF WriterLock
<1> QED
  BY <1>2, <1>3, <1>4, <1>5, <1>6
     DEF Progress, Analyze, Reset, Loop, Explore, QuickCheck, StartLock, StartFound,
         StartFailed, LoadStart, DropRead, ResetCache, Discard, RestoreStart, RestoreS,
         FetchNext, RunLock, RunHeld, CacheFull, TakeStep, BuildLock, BuildHeld,
         RangeLock, RangeStep, RangeFull, RangeEnd, Return

\* What another thread u relies on survives a step of t: t's additions because
\* nothing goes away, t's reset because u is outside.
LEMMA Others ==
  ASSUME IInv, NEW t \in Threads, Call(t) \/ Progress(t), NEW u \in Threads \ {t}
  PROVE  ThreadInv(u)'
<1> USE DEF IInv
<1>1. ThreadInv(u) /\ Frame(t)
  BY Local
<1>2. CASE ResetCache(t)
  <2>1. ~Inside(u)
    BY <1>2, PointerAssumption DEF LockInv, ResetCache, Discard
  <2> QED
    BY <1>1, <2>1 DEF Frame, ThreadInv, LoopInv, EntryInv, ResetInv, ExploreInv,
                      BudgetInv, InLoop, InText, Inside, Outside, ResetPCs
<1>3. CASE ~ResetCache(t)
  <2>1. Grows
    BY <1>3, Split, AddsSound, Unchanged
  <2>2. \A a \in Live : a \in Live' /\ heap'[a] = heap[a]
    BY <2>1, PointerAssumption DEF Grows, Live
  <2>3. \A x \in Live \cup Special : Denotes(x)' = Denotes(x)
    BY <2>2, PointerAssumption DEF Denotes, Live
  <2>4. LoopInv(u)'
    BY <1>1, <2>2, <2>3 DEF Frame, ThreadInv, LoopInv, InLoop, InText, Successor
  <2>5. EntryInv(u)'
    <3>1. req[u].kind \in StartKind
      BY Arguments
    <3> QED BY <1>1, <2>1, <3>1 DEF Frame, ThreadInv, EntryInv, Grows
  <2>6. ResetInv(u)'
    BY <1>1, <2>2 DEF Frame, ThreadInv, ResetInv, InText, ResetPCs
  <2>7. ExploreInv(u)'
    BY <1>1, <2>2 DEF Frame, ThreadInv, ExploreInv, Inside, Outside
  <2>8. BudgetInv(u)'
    <3>1. CASE cacheW = u
      BY <1>1, <3>1, Polite DEF Frame, ThreadInv, BudgetInv, cacheVars
    <3>2. CASE cacheW # u
      BY <1>1, <3>2 DEF Frame, ThreadInv, BudgetInv, LockInv
    <3> QED BY <3>1, <3>2
  <2> QED BY <2>4, <2>5, <2>6, <2>7, <2>8 DEF ThreadInv
<1> QED BY <1>2, <1>3

-----------------------------------------------------------------------------
(***************************************************************************)
(* A step of thread t re-establishes what its own next steps rely on.      *)
(***************************************************************************)

\* A step of t establishes what t relies on next.
LEMMA Self ==
  ASSUME IInv, NEW t \in Threads, Call(t) \/ Progress(t)
  PROVE  ThreadInv(t)'
<1> USE DEF ThreadInv, LoopInv, EntryInv, ResetInv, ExploreInv, BudgetInv, InLoop,
            InText, Inside, Outside, ResetPCs, Goto
<1>0. /\ LockInv /\ LockTypeOK /\ LocalTypeOK /\ ThreadInv(t)
      /\ LocalTypeOK' /\ CacheInv
  BY Local DEF IInv, LockInv
<1> USE DEF LockTypeOK, LocalTypeOK, lockVars, callVars, localVars, buildVars
<1>00. ASSUME UNCHANGED cacheVars
       PROVE  /\ UNCHANGED <<memBudget, heap, next, startInfo, Live>>
              /\ \A x : Denotes(x)' = Denotes(x)
  BY <1>00 DEF cacheVars, Live, Denotes
<1>1. CASE Call(t)
  BY <1>0, <1>00, <1>1, NewRunType DEF Call
<1>2. CASE ReaderLock(t)
  BY <1>0, <1>00, <1>2 DEF ReaderLock
<1>3. CASE Analyze(t)
  <2>1. CASE QuickCheck(t)
    BY <1>0, <1>00, <2>1 DEF QuickCheck, Lock, Unlock
  <2>2. CASE StartLock(t)
    BY <1>0, <1>00, <2>2 DEF StartLock, Lock, Unlock
  <2>3. CASE StartFound(t)
    <3>1. req[t].kind \in StartKind
      BY Arguments
    <3>2. startInfo'[req[t].kind] # NULL
      BY <1>0, <2>3, <3>1, PointerAssumption
         DEF StartFound, cacheVars, CacheInv, CacheTypeOK
    <3>3. /\ pc' = [pc EXCEPT ![t] = "loadStart"] /\ pc[t] = "startHeld"
          /\ UNCHANGED <<cacheR, cacheW, callVars, localVars, buildVars>>
      BY <2>3 DEF StartFound
    <3> QED BY <1>0, <3>2, <3>3
  <2>4. CASE StartFailed(t)
    <3>1. ~retried[t]
      <4>1. StartOf[req[t].kind] \in Content /\ memBudget < Cost[StartOf[req[t].kind]]
        BY <2>4, PointerAssumption DEF StartFailed, CachedState
      <4>2. memBudget < StateBudget
        BY <4>1, BudgetAssumption, <1>0 DEF CacheInv, CacheTypeOK
      <4> QED BY <1>0, <2>4, <4>2, BudgetAssumption DEF StartFailed
    <3>2. /\ pc' = [pc EXCEPT ![t] = IF Writing(t) THEN "reset" ELSE "drop"]
          /\ pc[t] = "startHeld"
          /\ UNCHANGED <<run, callVars, start, s, ns, p, saved, buildVars>>
      BY <2>4, <3>1 DEF StartFailed
    <3> QED BY <1>0, <3>2
  <2>5. CASE LoadStart(t)
    <3> DEFINE a == startInfo[req[t].kind]
    <3>1. /\ a \in Pointer \ {NULL} /\ Denotes(a) = StartOf[req[t].kind]
          /\ StartOf[req[t].kind] \in Content \cup Special
      BY <1>0, <2>5, Arguments, AutomatonAssumption
         DEF LoadStart, CacheInv, CacheTypeOK, CacheSound, Target
    <3>2. /\ a \in Live \cup Special
          /\ a \in Live => heap[a] = StartOf[req[t].kind]
      BY <3>1, PointerAssumption DEF Denotes, Live, Pointer
    <3>3. Begin(req[t], Denotes(a)).outcome # "fatal"
      BY <3>1, Arguments, BeginType
    <3>4. UNCHANGED <<cacheVars, lockVars, req, ns, p, retried, saved>>
      BY <2>5 DEF LoadStart
    <3> HIDE DEF a
    <3>5. start' = [start EXCEPT ![t] = a]
      BY <2>5 DEF LoadStart, a
    <3>6. CASE op[t] = "search"
      <4>1. /\ run' = [run EXCEPT ![t] = Begin(req[t], Denotes(a))]
            /\ s' = [s EXCEPT ![t] = IF a \in Special THEN NULL ELSE a]
            /\ pc' = [pc EXCEPT ![t] = IF a \in Special THEN "done" ELSE "loop"]
            /\ UNCHANGED buildVars /\ pc[t] = "loadStart"
        BY <2>5, <3>6 DEF LoadStart, a
      <4>2. run'[t].outcome # "fatal"
        BY <1>0, <3>3, <4>1
      <4>3. a \in Special \/ (a \in Live /\ a \notin Special)
        BY <3>2, PointerAssumption DEF Live
      <4> QED BY <1>0, <1>00, <3>2, <3>4, <3>5, <4>1, <4>2, <4>3, Arguments
    <3>7. CASE op[t] = "build"
      <4>1. /\ seen' = [seen EXCEPT ![t] = <<a>>]
            /\ cursor' = [cursor EXCEPT ![t] = [at |-> 1, left |-> Byte]]
            /\ pc' = [pc EXCEPT ![t] = IF a = DeadState THEN "done" ELSE "build"]
            /\ UNCHANGED <<s, run>> /\ pc[t] = "loadStart"
        BY <2>5, <3>7 DEF LoadStart, a
      <4>2. a = DeadState \/ a \in Live \cup {FullMatchState}
        BY <3>2 DEF Special
      <4> QED BY <1>0, <1>00, <3>4, <3>5, <4>1, <4>2
    <3>8. CASE op[t] = "range"
      <4>1. /\ s' = [s EXCEPT ![t] = a]
            /\ cursor' = [cursor EXCEPT ![t] = [at |-> 1, left |-> Byte]]
            /\ pc' = [pc EXCEPT ![t] = IF a \in Special THEN "done" ELSE "range"]
            /\ UNCHANGED <<run, seen>> /\ pc[t] = "loadStart"
        BY <2>5, <3>8 DEF LoadStart, a
      <4> QED BY <1>0, <1>00, <3>2, <3>4, <3>5, <4>1
    <3> QED BY <1>0, <3>6, <3>7, <3>8
  <2> QED BY <1>3, <2>1, <2>2, <2>3, <2>4, <2>5 DEF Analyze
<1>4. CASE Reset(t)
  <2>1. CASE DropRead(t)
    BY <1>0, <1>00, <2>1 DEF DropRead, Lock, Unlock
  <2>2. CASE WriterLock(t)
    BY <1>0, <1>00, <2>2 DEF WriterLock, Lock, Unlock
  <2>3. CASE ResetCache(t)
    <3>1. /\ pc[t] = "reset" /\ memBudget' = StateBudget
          /\ pc' = [pc EXCEPT ![t] = IF s[t] = NULL THEN "quick"
                      ELSE IF InText(t) THEN "restoreStart" ELSE "restoreS"]
          /\ UNCHANGED <<lockVars, callVars, localVars, buildVars>>
      BY <2>3 DEF ResetCache, Discard, Resume
    <3>2. cacheW = t
      BY <1>0, <3>1 DEF LockInv
    <3>3. StateBudget >= StateBudget - MaxCost /\ 0 <= Len(req[t].text)
      BY BudgetAssumption, Arguments
    <3> QED BY <1>0, <3>1, <3>2, <3>3
  <2>4. CASE RestoreStart(t)
    <3>1. PICK r \in Addr \cup {NULL} :
            /\ CachedState(saved[t].start, r) /\ next' = EdgesWith(r)
            /\ start' = [start EXCEPT ![t] = r]
            /\ IF r = NULL THEN Fail(t, "fatal")
               ELSE Goto(t, "restoreS") /\ UNCHANGED run
      BY <2>4 DEF RestoreStart
    <3>2. /\ pc[t] = "restoreStart" /\ InText(t) /\ s[t] # NULL
          /\ saved[t].start \in Content /\ saved[t].start = StartOf[req[t].kind]
          /\ memBudget = StateBudget
          /\ UNCHANGED <<lockVars, startInfo, callVars, s, ns, p, retried, saved, buildVars>>
      BY <1>0, <2>4 DEF RestoreStart
    <3>3. /\ r \in Addr /\ heap'[r] = saved[t].start
          /\ memBudget' >= StateBudget - MaxCost
      <4>1. Cost[saved[t].start] <= StateBudget
        BY <3>2, BudgetAssumption
      <4>2. ~(memBudget < Cost[saved[t].start])
        BY <3>2, <4>1, BudgetAssumption
      <4> QED BY <1>0, <3>1, <3>2, <4>2, CachedStateSound
    <3>4. r \in Live' /\ r # NULL
      BY <3>2, <3>3, PointerAssumption DEF Live
    <3> QED BY <1>0, <3>1, <3>2, <3>3, <3>4
  <2>5. CASE RestoreS(t)
    <3>1. PICK r \in Addr \cup {NULL} :
            /\ CachedState(saved[t].s, r) /\ next' = EdgesWith(r)
            /\ s' = [s EXCEPT ![t] = r]
            /\ IF r = NULL THEN Fail(t, "fatal")
               ELSE Goto(t, "runLock") /\ UNCHANGED run
      BY <2>5 DEF RestoreS
    <3>2. /\ pc[t] = "restoreS" /\ s[t] # NULL /\ saved[t].s \in Content
          /\ memBudget >= StateBudget - MaxCost /\ cacheW = t
          /\ UNCHANGED <<lockVars, startInfo, callVars, start, ns, p, retried, saved, buildVars>>
      BY <1>0, <2>5 DEF RestoreS, LockInv
    <3>3. memBudget \in Int /\ StateBudget \in Int /\ MaxCost \in Nat
          /\ Cost[saved[t].s] \in 1 .. MaxCost /\ 3 * MaxCost <= StateBudget
      BY <1>0, <3>2, BudgetAssumption DEF CacheInv, CacheTypeOK
    <3>4. ~(memBudget < Cost[saved[t].s])
      BY <3>2, <3>3
    <3>5. /\ r \in Addr /\ heap'[r] = saved[t].s /\ Grows
          /\ memBudget' >= memBudget - MaxCost
      BY <1>0, <3>1, <3>2, <3>4, CachedStateSound
    <3>6. memBudget' >= StateBudget - 2 * MaxCost
      <4>1. memBudget' \in Int
        BY <1>0, <3>1, <3>2, CachedStateAdds
      <4> QED BY <3>2, <3>3, <3>5, <4>1
    <3>7. r \in Live' /\ r # NULL
      BY <3>2, <3>5, PointerAssumption DEF Live
    <3>8. \A a \in Live : a \in Live' /\ heap'[a] = heap[a]
      BY <3>5, PointerAssumption DEF Grows, Live
    <3> QED BY <1>0, <3>1, <3>2, <3>6, <3>7, <3>8, Arguments
  <2> QED BY <1>4, <2>1, <2>2, <2>3, <2>4, <2>5 DEF Reset
<1>5. CASE Loop(t)
  <2>1. CASE FetchNext(t)
    <3>1. PICK i \in (p[t] + 1) .. (Len(req[t].text) + 1) :
            LET a == next[s[t]][Symbol(req[t], i)] IN
            /\ p' = [p EXCEPT ![t] = i]
            /\ ns' = [ns EXCEPT ![t] = a]
            /\ pc' = [pc EXCEPT ![t] = IF a = NULL THEN "runLock" ELSE "step"]
      BY <2>1 DEF FetchNext
    <3> DEFINE a == next[s[t]][Symbol(req[t], i)]
    <3>2. /\ pc[t] = "loop" /\ s[t] \in Live
          /\ start[t] \in Live /\ heap[start[t]] = StartOf[req[t].kind]
          /\ retried' = [retried EXCEPT ![t] = FALSE]
          /\ UNCHANGED <<lockVars, cacheVars, req, start, s, saved, run, buildVars>>
      BY <1>0, <2>1 DEF FetchNext
    <3>3. i \in 1 .. Len(req[t].text) + 1 /\ Symbol(req[t], i) \in Byte
      BY <1>0, Arguments, Symbols
    <3>4. a # NULL => /\ Denotes(a) = Delta[heap[s[t]]][Symbol(req[t], i)]
                      /\ Denotes(a) \in Content \cup Special
                      /\ a \in Pointer
      BY <1>0, <3>2, <3>3, Deltas, SMTT(40) DEF CacheInv, CacheTypeOK, CacheSound, Live
    <3>5. a # NULL => a \in Live \cup Special
      BY <3>4, PointerAssumption DEF Denotes, Live, Pointer
    <3>6. /\ p'[t] = i /\ ns'[t] = a /\ s'[t] = s[t] /\ req'[t] = req[t]
          /\ pc'[t] = IF a = NULL THEN "runLock" ELSE "step"
      BY <1>0, <3>1, <3>2
    <3>7. a # NULL => Denotes(ns[t])' = Successor(t)'
      BY <1>00, <3>2, <3>4, <3>6 DEF Successor
    <3> HIDE DEF a
    <3> QED BY <1>0, <1>00, <3>2, <3>3, <3>5, <3>6, <3>7, Arguments
  <2>2. CASE RunLock(t)
    BY <1>0, <1>00, <2>2 DEF RunLock, Lock, Unlock
  <2>3. CASE RunHeld(t)
    <3>1. PICK r \in Pointer :
            /\ RunStateOnByte(s[t], Symbol(req[t], p[t]), r)
            /\ ns' = [ns EXCEPT ![t] = r]
            /\ pc' = [pc EXCEPT ![t] = IF r = NULL THEN "full" ELSE "step"]
      BY <2>3 DEF RunHeld
    <3>2. /\ pc[t] = "runHeld" /\ s[t] \in Live
          /\ p[t] \in 1 .. Len(req[t].text) + 1
          /\ UNCHANGED <<cacheR, cacheW, startInfo, callVars,
                         start, s, p, retried, saved, run, buildVars>>
      BY <1>0, <2>3, Arguments DEF RunHeld
    <3> DEFINE k == Delta[heap[s[t]]][Symbol(req[t], p[t])]
    <3>3. /\ Grows
          /\ \/ r = NULL /\ memBudget < MaxCost
             \/ /\ r # NULL /\ r \in Live' \cup Special
                /\ Denotes(r)' = k
      BY <1>0, <3>1, <3>2, Arguments, RunStateSound
    <3>4. r = NULL => ~retried[t]
      BY <1>0, <3>2, <3>3, BudgetAssumption DEF CacheInv, CacheTypeOK
    <3>5. \A a \in Live : a \in Live' /\ heap'[a] = heap[a]
      BY <3>3, PointerAssumption DEF Grows, Live
    <3>6. /\ ns'[t] = r /\ pc'[t] = IF r = NULL THEN "full" ELSE "step"
          /\ UNCHANGED <<start[t], s[t], p[t], retried[t], saved[t], run[t], req[t],
                         seen[t], cursor[t]>>
      BY <1>0, <3>1, <3>2
    <3>7. Successor(t)' = k
      BY <3>2, <3>5, <3>6 DEF Successor
    <3>8. r # NULL => Denotes(ns[t])' = Successor(t)'
      BY <3>3, <3>6, <3>7 DEF Denotes
    <3>9. LoopInv(t)'
      BY <1>0, <3>2, <3>3, <3>5, <3>6, <3>8
    <3> QED BY <1>0, <3>2, <3>4, <3>6, <3>9
  <2>4. CASE CacheFull(t)
    <3>1. /\ pc[t] = "full" /\ ~retried[t] /\ s[t] \in Live
          /\ p[t] \in 1 .. Len(req[t].text) + 1
          /\ UNCHANGED <<lockVars, cacheVars, callVars, start, s, ns, p, buildVars>>
      BY <1>0, <2>4, Arguments DEF CacheFull
    <3>2. CASE Slow(t)
      <4>1. run' = [run EXCEPT ![t].outcome = "failed"] /\ pc' = [pc EXCEPT ![t] = "done"]
        BY <2>4, <3>1, <3>2 DEF CacheFull, Fail
      <4>2. run'[t].outcome = "failed"
        BY <1>0, <4>1, FailType DEF Outcome
      <4> QED BY <1>0, <3>1, <4>1, <4>2
    <3>3. CASE ~Slow(t)
      <4> DEFINE first == IF InText(t) THEN heap[start[t]] ELSE DeadState
                 both == [s |-> heap[s[t]], start |-> first]
      <4>1. /\ saved' = [saved EXCEPT ![t] = both]
            /\ retried' = [retried EXCEPT ![t] = TRUE]
            /\ pc' = [pc EXCEPT ![t] = IF Writing(t) THEN "reset" ELSE "drop"]
            /\ UNCHANGED run
        BY <2>4, <3>1, <3>3 DEF CacheFull
      <4>2. /\ both.s \in Content
            /\ InText(t) => both.start \in Content /\ both.start = StartOf[req[t].kind]
        BY <1>0, <3>1 DEF CacheInv, CacheTypeOK, Live
      <4> HIDE DEF both
      <4>3. saved'[t] = both /\ pc'[t] \in {"reset", "drop"}
        BY <1>0, <4>1
      <4>4. UNCHANGED <<s[t], p[t], req[t], run[t], seen[t], cursor[t]>>
        BY <3>1, <4>1
      <4>5. s[t] \in Live' /\ s[t] # NULL
        BY <1>00, <3>1, PointerAssumption DEF Live
      <4> QED BY <1>0, <3>1, <4>2, <4>3, <4>4, <4>5, SMTT(30)
    <3> QED BY <3>2, <3>3
  <2>5. CASE TakeStep(t)
    <3> DEFINE after == Arrive(req[t], run[t], p[t], Denotes(ns[t]))
    <3>1. /\ pc[t] = "step" /\ ns[t] \in Live \cup Special /\ s[t] \in Live
          /\ run[t].outcome # "fatal" /\ run[t] \in Run /\ p[t] \in Nat
          /\ InText(t) => start[t] \in Live /\ heap[start[t]] = StartOf[req[t].kind]
      BY <1>0, <2>5 DEF TakeStep
    <3>2. Denotes(ns[t]) \in Content \cup Special
      BY <1>0, <3>1, PointerAssumption DEF Denotes, Live, CacheInv, CacheTypeOK
    <3>3. after.outcome # "fatal"
      BY <3>1, <3>2, Arguments, ArriveType
    <3>4. after.outcome = "running" => ns[t] \notin Special /\ p[t] <= Len(req[t].text)
      BY <3>1, <3>2, Arguments, ArriveRuns, PointerAssumption DEF Denotes, Special
    <3>5. /\ run' = [run EXCEPT ![t] = after]
          /\ s' = [s EXCEPT ![t] = IF ns[t] \in Special THEN s[t] ELSE ns[t]]
          /\ pc' = [pc EXCEPT ![t] =
                      IF after.outcome = "running" THEN "loop" ELSE "done"]
          /\ UNCHANGED <<lockVars, cacheVars, callVars, start, ns, p, retried, saved,
                         buildVars>>
      BY <2>5 DEF TakeStep
    <3> HIDE DEF after
    <3>6. /\ run'[t] = after /\ seen'[t] = seen[t]
          /\ s'[t] = IF ns[t] \in Special THEN s[t] ELSE ns[t]
          /\ pc'[t] = IF after.outcome = "running" THEN "loop" ELSE "done"
      BY <1>0, <3>5
    <3> QED BY <1>0, <1>00, <3>1, <3>3, <3>4, <3>5, <3>6, Arguments
  <2> QED BY <1>5, <2>1, <2>2, <2>3, <2>4, <2>5 DEF Loop
<1>6. CASE Explore(t)
  <2>1. CASE BuildLock(t)
    BY <1>0, <1>00, <2>1 DEF BuildLock, Lock, Unlock
  <2>2. CASE BuildHeld(t)
    <3>1. PICK c \in cursor[t].left, r \in Pointer :
            LET rest == cursor[t].left \ {c}
                all  == IF r \in {NULL, DeadState} \cup
                               {seen[t][i] : i \in 1 .. Len(seen[t])}
                          THEN seen[t] ELSE Append(seen[t], r)
                more == r # NULL /\ (rest # {} \/ cursor[t].at < Len(all))
            IN
            /\ RunStateOnByte(seen[t][cursor[t].at], c, r)
            /\ seen' = [seen EXCEPT ![t] = all]
            /\ cursor' = [cursor EXCEPT ![t] =
                            IF rest # {} THEN [@ EXCEPT !.left = rest]
                            ELSE [at |-> @.at + 1, left |-> Byte]]
            /\ pc' = [pc EXCEPT ![t] = IF more THEN "build" ELSE "done"]
      BY <2>2 DEF BuildHeld
    <3> DEFINE rest == cursor[t].left \ {c}
               all  == IF r \in {NULL, DeadState} \cup
                              {seen[t][i] : i \in 1 .. Len(seen[t])}
                         THEN seen[t] ELSE Append(seen[t], r)
               moved == IF rest # {} THEN [cursor[t] EXCEPT !.left = rest]
                        ELSE [at |-> cursor[t].at + 1, left |-> Byte]
    <3>2. /\ pc[t] = "buildHeld" /\ cursor[t].at \in 1 .. Len(seen[t])
          /\ \A i \in 1 .. Len(seen[t]) : seen[t][i] \in Live \cup {FullMatchState}
          /\ seen[t] \in Seq(Pointer) /\ c \in Byte
          /\ cursor[t] \in [at : Nat, left : SUBSET Byte]
          /\ UNCHANGED <<cacheR, cacheW, startInfo, callVars, localVars>>
      BY <1>0, <2>2 DEF BuildHeld
    <3>3. Grows /\ (r = NULL \/ r \in Live' \cup Special)
      BY <1>0, <3>1, <3>2, RunStateSound
    <3>4. \A a \in Live : a \in Live'
      BY <3>3, PointerAssumption DEF Grows, Live
    <3>5. /\ \A i \in 1 .. Len(all) : all[i] \in Live' \cup {FullMatchState}
          /\ Len(all) >= Len(seen[t]) /\ Len(all) \in Nat
      <4>0. Len(seen[t]) \in Nat
        BY <3>2
      <4> HIDE DEF all
      <4>1. CASE all = seen[t]
        BY <3>2, <3>4, <4>0, <4>1
      <4>2. CASE all = Append(seen[t], r) /\ r \notin {NULL, DeadState}
        BY <3>2, <3>3, <3>4, <4>2 DEF Special
      <4> QED BY <4>1, <4>2 DEF all
    <3>6. /\ rest # {} => moved.at = cursor[t].at
          /\ rest = {} => moved.at = cursor[t].at + 1
      BY <3>2
    <3>7. /\ seen'[t] = all /\ cursor'[t] = moved
          /\ pc'[t] = IF r # NULL /\ (rest # {} \/ cursor[t].at < Len(all))
                         THEN "build" ELSE "done"
      BY <1>0, <3>1
    <3> HIDE DEF all, moved, rest
    <3>8. pc'[t] = "build" => cursor'[t].at \in 1 .. Len(seen'[t])
      BY <3>2, <3>5, <3>6, <3>7
    <3>9. ExploreInv(t)'
      BY <3>5, <3>7, <3>8
    <3> QED BY <1>0, <3>2, <3>7, <3>9
  <2>3. CASE RangeLock(t)
    BY <1>0, <1>00, <2>3 DEF RangeLock, Lock, Unlock
  <2>4. CASE RangeStep(t)
    <3>1. PICK c \in Byte, r \in Pointer :
            /\ RunStateOnByte(s[t], c, r) /\ r # NULL
            /\ \/ UNCHANGED s
               \/ r # DeadState /\ s' = [s EXCEPT ![t] = r]
               \/ s' = [s EXCEPT ![t] = start[t]]
      BY <2>4 DEF RangeStep
    <3>2. /\ pc[t] = "rangeHeld" /\ s[t] \in Live \cup {FullMatchState}
          /\ start[t] \in Live /\ seen[t] = << >>
          /\ UNCHANGED <<lockVars, startInfo, pc, req, start, ns, p, retried, saved, run, seen>>
      BY <1>0, <2>4 DEF RangeStep
    <3>3. Grows /\ r \in Live' \cup Special
      BY <1>0, <3>1, <3>2, RunStateSound
    <3>4. \A a \in Live : a \in Live'
      BY <3>3, PointerAssumption DEF Grows, Live
    <3>5. s'[t] \in {s[t], start[t]} \/ (s'[t] = r /\ r # DeadState)
      BY <1>0, <3>1
    <3>6. s'[t] \in Live' \cup {FullMatchState} /\ start[t] \in Live'
      BY <3>2, <3>3, <3>4, <3>5 DEF Special
    <3> QED BY <1>0, <3>2, <3>6
  <2>5. CASE RangeFull(t)
    BY <1>0, <1>00, <2>5 DEF RangeFull, Lock, Unlock
  <2>6. CASE RangeEnd(t)
    BY <1>0, <1>00, <2>6 DEF RangeEnd, Lock, Unlock
  <2> QED BY <1>6, <2>1, <2>2, <2>3, <2>4, <2>5, <2>6 DEF Explore
<1>7. CASE Return(t)
  BY <1>0, <1>00, <1>7 DEF Return
<1> QED BY <1>1, <1>2, <1>3, <1>4, <1>5, <1>6, <1>7 DEF Progress

-----------------------------------------------------------------------------
(***************************************************************************)
(* The invariant, and what it means for the searches.                      *)
(***************************************************************************)

\* The invariant holds before the first call.
LEMMA Initially == Init => IInv
<1> SUFFICES ASSUME Init PROVE IInv
  OBVIOUS
<1>1. LockInv
  BY LockInductive
<1>2. CacheInv
  BY BudgetAssumption DEF Init, CacheInv, CacheTypeOK, CacheSound,
     OneStatePerContent, Live, NoEdges, Pointer
<1>3. LocalTypeOK
  <2>1. (CHOOSE r \in Requests : TRUE) \in Requests
    BY RequestsAssumption
  <2>2. NoneSaved \in [start : Target, s : Target]
    BY DEF NoneSaved, Target, Special
  <2> QED BY <2>1, <2>2, NewRunType DEF Init, LocalTypeOK, Pointer, NoPos
<1>4. \A t \in Threads : ThreadInv(t)
  BY NewRunType DEF Init, ThreadInv, LoopInv, EntryInv, ResetInv, ExploreInv,
     BudgetInv, InLoop, ResetPCs
<1> QED BY <1>1, <1>2, <1>3, <1>4 DEF IInv

\* It survives a step that changes nothing.
LEMMA Stuttering == IInv /\ UNCHANGED vars => IInv'
<1> SUFFICES ASSUME IInv, UNCHANGED vars PROVE IInv'
  OBVIOUS
<1> USE DEF IInv, vars
<1>1. LockInv'
  BY LockInductive
<1>2. CacheInv'
  BY Unchanged
<1>3. LocalTypeOK'
  BY DEF LocalTypeOK, callVars, localVars, buildVars
<1>4. ASSUME NEW t \in Threads PROVE ThreadInv(t)'
  BY DEF ThreadInv, LoopInv, EntryInv, ResetInv, ExploreInv, BudgetInv, InLoop,
     InText, Successor, Denotes, Live, lockVars, cacheVars, callVars, localVars,
     buildVars
<1> QED BY <1>1, <1>2, <1>3, <1>4

\* It survives every step.
LEMMA Inductive == IInv /\ [Next]_vars => IInv'
<1> SUFFICES ASSUME IInv, [Next]_vars PROVE IInv'
  OBVIOUS
<1>1. CASE UNCHANGED vars
  BY <1>1, Stuttering
<1>2. ASSUME NEW t \in Threads, Call(t) \/ Progress(t) PROVE IInv'
  <2>1. LockInv'
    BY LockInductive DEF IInv
  <2>2. LocalTypeOK'
    BY <1>2, Local
  <2>3. CacheInv'
    BY <1>2, Split, AddsSound, ResetSound, Unchanged DEF IInv
  <2>4. ASSUME NEW u \in Threads PROVE ThreadInv(u)'
    BY <1>2, Self, Others
  <2> QED BY <2>1, <2>2, <2>3, <2>4 DEF IInv
<1> QED BY <1>1, <1>2 DEF Next

\* The invariant holds in every reachable state, for any number of threads,
\* any automaton, any requests and any budget of at least three states.
THEOREM Invariance == Spec => []IInv
  BY Initially, Inductive, PTL DEF Spec

\* Every variable keeps its type: the searches never lose track of where a
\* State* may point, and the budget stays between -1 and state_budget_.
THEOREM TypesKept == Spec => []TypeOK
<1>1. IInv => TypeOK
  BY DEF IInv, LockInv, CacheInv, TypeOK
<1> QED BY <1>1, Invariance, PTL

\* No thread dereferences or follows a State* that a reset has freed.
THEOREM NoStateDangles == Spec => []NoDanglingState
<1>1. IInv => NoDanglingState
  <2> SUFFICES ASSUME IInv, NEW t \in Threads
               PROVE  PointersValid(t)
    BY DEF NoDanglingState
  <2> QED
    BY DEF IInv, ThreadInv, LoopInv, ResetInv, ExploreInv, InLoop, PointersValid
<1> QED BY <1>1, Invariance, PTL

\* The cached edges and start slots lead where a fresh computation would.
THEOREM CacheIsSound == Spec => []CacheSound
<1>1. IInv => CacheSound
  BY DEF IInv, CacheInv
<1> QED BY <1>1, Invariance, PTL

\* A content has one address, so that "s == start" compares contents.
THEOREM ContentHasOneAddress == Spec => []OneStatePerContent
<1>1. IInv => OneStatePerContent
  BY DEF IInv, CacheInv
<1> QED BY <1>1, Invariance, PTL

\* A search never runs out of memory right after it has reset the cache: the
\* LOG(DFATAL) branches of AnalyzeSearch and InlinedSearchLoop are dead.
THEOREM NeverFatal == Spec => []NoFatal
<1>1. IInv => NoFatal
  BY DEF IInv, ThreadInv, BudgetInv, NoFatal
<1> QED BY <1>1, Invariance, PTL

\* While a thread holds cache_mutex_ for reading, no state it may be in goes
\* away and no edge it may follow changes: next_ can be read without mutex_.
THEOREM ReadersSeeStableEdges == Spec => StableWhileRead
<1> DEFINE Stable == \A a \in Addr :
             (cacheR # {} /\ heap[a] # Free) =>
               /\ heap'[a] = heap[a]
               /\ \A c \in Byte : next[a][c] # NULL => next'[a][c] = next[a][c]
<1>1. IInv /\ [Next]_vars => [Stable]_vars
  <2> SUFFICES ASSUME IInv, cacheR # {}, NEW t \in Threads, Call(t) \/ Progress(t)
               PROVE  Stable
    BY DEF Next
  <2>1. ~ResetCache(t)
    BY PointerAssumption DEF IInv, LockInv, LockTypeOK, ResetCache, Discard
  <2>2. Grows
    BY <2>1, Split, AddsSound, Unchanged DEF IInv
  <2> QED BY <2>2 DEF Grows, Live
<1> QED BY <1>1, Invariance, PTL DEF Spec, StableWhileRead

-----------------------------------------------------------------------------
(***************************************************************************)
(* DFACache implements DFARun: a step of a thread is one step of its       *)
(* search on the automaton, or none that a caller could see.  Two more     *)
(* facts come with the proof: how many states a cache may hold, and when a *)
(* search gives up.                                                        *)
(***************************************************************************)

(***************************************************************************)
(* What the refinement needs beyond IInv: which entry point a thread is in,*)
(* whether its search still runs, and that the state it ended in is still  *)
(* there when it returns.                                                  *)
(***************************************************************************)
InSearch(t) == InLoop(t) \/ (pc[t] \in ResetPCs /\ s[t] # NULL)

SearchInv(t) ==
  /\ InSearch(t) => op[t] = "search" /\ run[t].outcome = "running"
  /\ pc[t] \in {"build", "buildHeld"} => op[t] = "build"
  /\ pc[t] \in {"range", "rangeHeld"} => op[t] = "range"
  /\ pc[t] = "done" /\ op[t] = "search" =>
       run[t].outcome # "running" /\ s[t] \in Live \cup {NULL}
  /\ resetp[t] # NoPos => resetp[t] \in 0 .. p[t]

\* Every state has been paid for, so the budget bounds their number.
CacheBounded ==
  /\ IsFiniteSet(Live)
  /\ Cardinality(Live) <= StateBudget
  /\ memBudget >= 0 => memBudget + Cardinality(Live) <= StateBudget

RInv == IInv /\ CacheBounded /\ \A t \in Threads : SearchInv(t)

-----------------------------------------------------------------------------
\* A step belongs to one thread, and only a call chooses the entry point.
LEMMA Entries ==
  ASSUME LocalTypeOK, NEW t \in Threads, Call(t) \/ Progress(t)
  PROVE  /\ \A u \in Threads \ {t} : op'[u] = op[u] /\ resetp'[u] = resetp[u]
         /\ Call(t) \/ op' = op
         /\ Call(t) \/ CacheFull(t) \/ resetp' = resetp
<1> USE DEF LocalTypeOK, callVars, localVars
<1>1. CASE Call(t)
  BY <1>1 DEF Call
<1>2. CASE CacheFull(t)
  BY <1>2 DEF CacheFull, Fail
<1>3. CASE ~Call(t) /\ ~CacheFull(t)
  <2>1. UNCHANGED <<op, resetp>>
    BY <1>3 DEF Progress, Analyze, Reset, Loop, Explore, ReaderLock, QuickCheck,
      StartLock, StartFound, StartFailed, LoadStart, DropRead, WriterLock,
      ResetCache, Discard, RestoreStart, RestoreS, FetchNext, RunLock, RunHeld,
      TakeStep, BuildLock, BuildHeld, RangeLock, RangeStep, RangeFull, RangeEnd,
      Return
  <2> QED BY <1>3, <2>1
<1> QED BY <1>1, <1>2, <1>3

\* What is live stays so, except in a reset, when nobody else is inside.
LEMMA Stays ==
  ASSUME IInv, NEW t \in Threads, Call(t) \/ Progress(t), ~ResetCache(t)
  PROVE  \A a \in Live : a \in Live' /\ heap'[a] = heap[a]
  BY Split, AddsSound, Unchanged, PointerAssumption DEF IInv, Grows, Live

\* A search is unaware of another thread's step.
LEMMA OthersSearch ==
  ASSUME IInv, NEW t \in Threads, Call(t) \/ Progress(t),
         NEW u \in Threads \ {t}, SearchInv(u)
  PROVE  SearchInv(u)'
<1>1. Frame(t) /\ op'[u] = op[u] /\ resetp'[u] = resetp[u]
  BY Local, Entries DEF IInv
<1>2. pc[u] = "done" => ~ResetCache(t)
  BY PointerAssumption
     DEF IInv, LockInv, ResetCache, Discard, Inside, Outside
<1>3. pc[u] = "done" => \A a \in Live : a \in Live'
  BY <1>2, Stays
<1> QED BY <1>1, <1>3 DEF Frame, SearchInv, InSearch, InLoop, ResetPCs

\* A search whose start state is special ends at once.
LEMMA BeginEnds ==
  ASSUME NEW r, NEW k \in Special
  PROVE  Begin(r, k).outcome \in {"match", "nomatch"}
  BY SpecialAssumption DEF Begin, At, Special

\* Where a search must find room, it does not end for want of it.
LEMMA NotFatal ==
  ASSUME IInv, NEW t \in Threads, ThreadInv(t)', NEW r,
         IF r = NULL THEN Fail(t, "fatal") ELSE UNCHANGED run
  PROVE  r # NULL /\ UNCHANGED run
<1>1. run'[t].outcome # "fatal" /\ run \in [Threads -> Run]
  BY DEF IInv, LocalTypeOK, ThreadInv, BudgetInv
<1>2. r = NULL => run'[t].outcome = "fatal"
  BY <1>1, FailType DEF Fail, Outcome
<1> QED BY <1>1, <1>2

\* A search knows where its own step leaves it.
LEMMA SelfSearch ==
  ASSUME IInv, NEW t \in Threads, Call(t) \/ Progress(t), SearchInv(t)
  PROVE  SearchInv(t)'
<1> USE DEF SearchInv, InSearch, InLoop, ResetPCs, Goto
<1>0. LocalTypeOK /\ LockTypeOK /\ ThreadInv(t) /\ ThreadInv(t)' /\ CacheInv /\ LockInv
  BY Self DEF IInv, LockInv
<1> USE DEF LocalTypeOK, LockTypeOK, callVars, localVars
<1>1. CASE Call(t)
  BY <1>0, <1>1 DEF Call
<1>2. CASE ReaderLock(t)
  BY <1>0, <1>2 DEF ReaderLock
<1>3. CASE Analyze(t)
  <2>1. CASE QuickCheck(t)
    BY <1>0, <2>1 DEF QuickCheck
  <2>2. CASE StartLock(t)
    BY <1>0, <2>2 DEF StartLock
  <2>3. CASE StartFound(t)
    BY <1>0, <2>3 DEF StartFound
  <2>4. CASE StartFailed(t)
    <3>1. ~retried[t]
      <4>1. StartOf[req[t].kind] \in Content /\ memBudget < Cost[StartOf[req[t].kind]]
        BY <2>4, PointerAssumption DEF StartFailed, CachedState
      <4>2. memBudget < StateBudget
        BY <4>1, BudgetAssumption, <1>0 DEF CacheInv, CacheTypeOK
      <4> QED BY <1>0, <2>4, <4>2, BudgetAssumption DEF StartFailed, ThreadInv, BudgetInv
    <3>2. s[t] = NULL
      BY <1>0, <2>4 DEF StartFailed, ThreadInv, EntryInv
    <3> QED BY <1>0, <2>4, <3>1, <3>2 DEF StartFailed
  <2>5. CASE LoadStart(t)
    <3> DEFINE a == startInfo[req[t].kind]
    <3>1. /\ a \in Pointer \ {NULL} /\ Denotes(a) = StartOf[req[t].kind]
          /\ StartOf[req[t].kind] \in Content \cup Special
      BY <1>0, <2>5, Arguments, AutomatonAssumption
         DEF LoadStart, CacheInv, CacheTypeOK, CacheSound, Target, ThreadInv, EntryInv
    <3>2. a \in Special => Begin(req[t], Denotes(a)).outcome # "running"
      BY <3>1, PointerAssumption, BeginEnds DEF Denotes
    <3>3. a \notin Special => Begin(req[t], Denotes(a)) = NewRun
      <4>1. a \notin Special => a \in Addr /\ heap[a] \in Content \cup {Free}
        BY <1>0, <3>1 DEF Pointer, CacheInv, CacheTypeOK
      <4>2. a \notin Special => Denotes(a) \notin Special
        BY <3>1, <4>1, PointerAssumption, SpecialAssumption DEF Denotes
      <4> QED BY <4>2 DEF Begin, Special
    <3>4. UNCHANGED <<op, resetp, p>>
      BY <2>5 DEF LoadStart
    <3> HIDE DEF a
    <3>5. CASE op[t] = "search"
      <4>1. /\ run' = [run EXCEPT ![t] = Begin(req[t], Denotes(a))]
            /\ s' = [s EXCEPT ![t] = IF a \in Special THEN NULL ELSE a]
            /\ pc' = [pc EXCEPT ![t] = IF a \in Special THEN "done" ELSE "loop"]
        BY <2>5, <3>5 DEF LoadStart, a
      <4> QED BY <1>0, <3>2, <3>3, <3>4, <3>5, <4>1, NewRunType
    <3>6. CASE op[t] = "build"
      <4>1. /\ pc' = [pc EXCEPT ![t] = IF a = DeadState THEN "done" ELSE "build"]
            /\ UNCHANGED <<s, run>>
        BY <2>5, <3>6 DEF LoadStart, a
      <4> QED BY <1>0, <3>4, <3>6, <4>1
    <3>7. CASE op[t] = "range"
      <4>1. pc' = [pc EXCEPT ![t] = IF a \in Special THEN "done" ELSE "range"]
        BY <2>5, <3>7 DEF LoadStart, a
      <4> QED BY <1>0, <3>4, <3>7, <4>1
    <3> QED BY <1>0, <3>5, <3>6, <3>7
  <2> QED BY <1>3, <2>1, <2>2, <2>3, <2>4, <2>5 DEF Analyze
<1>4. CASE Reset(t)
  <2>1. CASE DropRead(t)
    BY <1>0, <2>1 DEF DropRead
  <2>2. CASE WriterLock(t)
    BY <1>0, <2>2 DEF WriterLock
  <2>3. CASE ResetCache(t)
    BY <1>0, <2>3 DEF ResetCache, Discard, Resume
  <2>4. CASE RestoreStart(t)
    BY <1>0, <2>4, NotFatal, ZenonT(40) DEF RestoreStart, ThreadInv, ResetInv
  <2>5. CASE RestoreS(t)
    BY <1>0, <2>5, NotFatal, ZenonT(40) DEF RestoreS, ThreadInv, ResetInv
  <2> QED BY <1>4, <2>1, <2>2, <2>3, <2>4, <2>5 DEF Reset
<1>5. CASE Loop(t)
  <2>1. CASE FetchNext(t)
    <3>1. p'[t] \in Nat /\ p'[t] >= p[t] /\ p[t] \in Nat
      BY <1>0, <2>1, Arguments DEF FetchNext
    <3>2. /\ pc[t] = "loop" /\ pc'[t] \in {"runLock", "step"}
          /\ UNCHANGED <<op, resetp, run>>
      BY <1>0, <2>1 DEF FetchNext
    <3> QED BY <1>0, <3>1, <3>2, SMTT(30)
  <2>2. CASE RunLock(t)
    BY <1>0, <2>2 DEF RunLock
  <2>3. CASE RunHeld(t)
    BY <1>0, <2>3 DEF RunHeld
  <2>4. CASE CacheFull(t)
    <3>1. /\ pc[t] = "full" /\ ~retried[t] /\ s[t] \in Live /\ s'[t] = s[t]
          /\ op' = op /\ p' = p /\ heap' = heap
      BY <1>0, <2>4 DEF CacheFull, cacheVars, ThreadInv, LoopInv, BudgetInv
    <3>2. CASE Slow(t)
      <4>1. /\ run' = [run EXCEPT ![t].outcome = "failed"]
            /\ pc' = [pc EXCEPT ![t] = "done"] /\ resetp' = resetp
        BY <2>4, <3>1, <3>2 DEF CacheFull, Fail
      <4>2. run'[t].outcome = "failed"
        BY <1>0, <4>1, FailType DEF Outcome
      <4> QED BY <1>0, <3>1, <4>1, <4>2 DEF Live
    <3>3. CASE ~Slow(t)
      <4>1. /\ run' = run /\ pc'[t] \in {"reset", "drop"}
            /\ resetp'[t] \in {p[t], resetp[t]}
        BY <1>0, <2>4, <3>1, <3>3 DEF CacheFull
      <4> QED BY <1>0, <3>1, <4>1
    <3> QED BY <3>2, <3>3
  <2>5. CASE TakeStep(t)
    <3> DEFINE after == Arrive(req[t], run[t], p[t], Denotes(ns[t]))
    <3>1. /\ run' = [run EXCEPT ![t] = after]
          /\ s' = [s EXCEPT ![t] = IF ns[t] \in Special THEN @ ELSE ns[t]]
          /\ pc' = [pc EXCEPT ![t] =
                      IF after.outcome = "running" THEN "loop" ELSE "done"]
          /\ UNCHANGED <<op, resetp, p, heap>>
      BY <2>5 DEF TakeStep, cacheVars
    <3>2. pc[t] = "step" /\ s[t] \in Live /\ ns[t] \in Live \cup Special
      BY <1>0, <2>5 DEF TakeStep, ThreadInv, LoopInv
    <3> HIDE DEF after
    <3>3. /\ run'[t] = after /\ s'[t] \in Live'
          /\ pc'[t] = IF after.outcome = "running" THEN "loop" ELSE "done"
      BY <1>0, <3>1, <3>2 DEF Live
    <3> QED BY <1>0, <3>1, <3>2, <3>3
  <2> QED BY <1>5, <2>1, <2>2, <2>3, <2>4, <2>5 DEF Loop
<1>6. CASE Explore(t)
  <2>1. CASE BuildLock(t)
    BY <1>0, <2>1 DEF BuildLock
  <2>2. CASE BuildHeld(t)
    <3>1. pc[t] = "buildHeld" /\ pc'[t] \in {"build", "done"}
      BY <1>0, <2>2 DEF BuildHeld
    <3>2. UNCHANGED <<op, resetp, p>>
      BY <2>2 DEF BuildHeld
    <3> QED BY <1>0, <3>1, <3>2
  <2>3. CASE RangeLock(t)
    BY <1>0, <2>3 DEF RangeLock
  <2>4. CASE RangeStep(t)
    <3>1. pc[t] = "rangeHeld" /\ UNCHANGED <<pc, op, resetp, p>>
      BY <2>4 DEF RangeStep
    <3> QED BY <1>0, <3>1
  <2>5. CASE RangeFull(t)
    BY <1>0, <2>5 DEF RangeFull
  <2>6. CASE RangeEnd(t)
    BY <1>0, <2>6 DEF RangeEnd
  <2> QED BY <1>6, <2>1, <2>2, <2>3, <2>4, <2>5, <2>6 DEF Explore
<1>7. CASE Return(t)
  BY <1>0, <1>7 DEF Return
<1> QED BY <1>1, <1>2, <1>3, <1>4, <1>5, <1>6, <1>7 DEF Progress

-----------------------------------------------------------------------------
(***************************************************************************)
(* The budget bounds the cache.                                            *)
(***************************************************************************)

\* A new state is paid for; a state that cannot be is not added.
LEMMA StatePaid ==
  ASSUME CacheTypeOK, CacheBounded, NEW k \in Content, NEW r, CachedState(k, r)
  PROVE  CacheBounded'
<1> USE DEF CacheTypeOK, CacheBounded
<1>1. /\ Cardinality(Live) \in Nat /\ memBudget \in Int /\ StateBudget \in Nat
      /\ Cost[k] \in Nat /\ Cost[k] >= 1
  BY FS_CardinalityType, BudgetAssumption
<1>2. CASE UNCHANGED <<heap, memBudget>>
  BY <1>2 DEF Live
<1>3. CASE memBudget' = -1 /\ UNCHANGED heap
  BY <1>1, <1>3 DEF Live
<1>4. CASE /\ memBudget >= Cost[k] /\ r \in Addr /\ heap[r] = Free
           /\ memBudget' = memBudget - Cost[k] /\ heap' = [heap EXCEPT ![r] = k]
  <2>1. Live' = Live \cup {r} /\ r \notin Live
    BY <1>4, PointerAssumption DEF Live
  <2>2. IsFiniteSet(Live') /\ Cardinality(Live') = Cardinality(Live) + 1
    BY <2>1, FS_AddElement
  <2> QED BY <1>1, <1>4, <2>2
<1> QED BY <1>2, <1>3, <1>4 DEF CachedState

\* So for the successor of a state.
LEMMA SuccessorPaid ==
  ASSUME CacheTypeOK, CacheBounded, NEW a \in Live \cup {FullMatchState},
         NEW c \in Byte, NEW r, RunStateOnByte(a, c, r)
  PROVE  CacheBounded'
<1>1. CASE UNCHANGED <<heap, memBudget>>
  BY <1>1 DEF CacheBounded, Live
<1>2. CASE Delta[heap[a]][c] \in Content /\ CachedState(Delta[heap[a]][c], r)
  BY <1>2, StatePaid
<1> QED BY <1>1, <1>2 DEF RunStateOnByte

\* Whatever is added, the budget bounds the cache; a reset returns it all.
LEMMA BoundKept ==
  ASSUME IInv, CacheBounded, NEW t \in Threads, Call(t) \/ Progress(t)
  PROVE  CacheBounded'
<1>0. CacheTypeOK
  BY DEF IInv, CacheInv
<1>1. CASE UNCHANGED cacheVars
  BY <1>1 DEF cacheVars, CacheBounded, Live
<1>2. CASE ResetCache(t)
  <2>1. Live' = {} /\ memBudget' = StateBudget
    BY <1>2 DEF ResetCache, Discard, Live
  <2>2. IsFiniteSet(Live') /\ Cardinality(Live') = 0
    BY <2>1, FS_EmptySet
  <2> QED BY <2>1, <2>2, BudgetAssumption DEF CacheBounded
<1>3. CASE Adds(t)
  <2>1. CASE StartFound(t)
    <3>1. CASE UNCHANGED <<heap, memBudget>>
      BY <3>1 DEF CacheBounded, Live
    <3>2. CASE \E a \in Addr : CachedState(StartOf[req[t].kind], a)
               /\ StartOf[req[t].kind] \in Content
      BY <1>0, <3>2, StatePaid
    <3> QED BY <2>1, <3>1, <3>2 DEF StartFound, cacheVars
  <2>2. CASE StartFailed(t)
    BY <1>0, <2>2, StatePaid DEF StartFailed
  <2>3. CASE RestoreStart(t)
    <3>1. saved[t].start \in Content
      BY <2>3 DEF RestoreStart, IInv, ThreadInv, ResetInv, ResetPCs
    <3> QED BY <1>0, <2>3, <3>1, StatePaid DEF RestoreStart
  <2>4. CASE RestoreS(t)
    <3>1. saved[t].s \in Content
      BY <2>4 DEF RestoreS, IInv, ThreadInv, ResetInv, ResetPCs
    <3> QED BY <1>0, <2>4, <3>1, StatePaid DEF RestoreS
  <2>5. CASE RunHeld(t)
    <3>1. s[t] \in Live /\ Symbol(req[t], p[t]) \in Byte
      BY <2>5, Arguments
         DEF RunHeld, IInv, ThreadInv, LoopInv, InLoop, LocalTypeOK
    <3> QED BY <1>0, <2>5, <3>1, SuccessorPaid DEF RunHeld
  <2>6. CASE BuildHeld(t)
    <3>1. PICK c \in cursor[t].left, r \in Pointer :
            RunStateOnByte(seen[t][cursor[t].at], c, r)
      BY <2>6 DEF BuildHeld
    <3>2. c \in Byte /\ seen[t][cursor[t].at] \in Live \cup {FullMatchState}
      BY <2>6 DEF BuildHeld, IInv, ThreadInv, ExploreInv, LocalTypeOK
    <3> QED BY <1>0, <3>1, <3>2, SuccessorPaid
  <2>7. CASE RangeStep(t)
    BY <1>0, <2>7, SuccessorPaid DEF RangeStep, IInv, ThreadInv, ExploreInv
  <2>8. CASE RangeFull(t)
    BY <1>0, <2>8, SuccessorPaid DEF RangeFull, IInv, ThreadInv, ExploreInv
  <2> QED BY <1>3, <2>1, <2>2, <2>3, <2>4, <2>5, <2>6, <2>7, <2>8 DEF Adds
<1> QED BY <1>1, <1>2, <1>3, Split

-----------------------------------------------------------------------------
\* The stronger invariant holds before the first call.
LEMMA RInitially == Init => RInv
<1> SUFFICES ASSUME Init PROVE RInv
  OBVIOUS
<1>1. IInv
  BY Initially
<1>2. Live = {} /\ memBudget = StateBudget
  BY DEF Init, Live
<1>3. CacheBounded
  BY <1>2, FS_EmptySet, BudgetAssumption DEF CacheBounded
<1>4. \A t \in Threads : SearchInv(t)
  BY DEF Init, SearchInv, InSearch, InLoop, ResetPCs
<1> QED BY <1>1, <1>3, <1>4 DEF RInv

\* It survives every step.
LEMMA RInductive == RInv /\ [Next]_vars => RInv'
<1> SUFFICES ASSUME RInv, [Next]_vars PROVE RInv'
  OBVIOUS
<1>1. IInv'
  BY Inductive DEF RInv
<1>2. CASE UNCHANGED vars
  <2>1. CacheBounded'
    BY <1>2 DEF RInv, CacheBounded, Live, vars, cacheVars
  <2>2. \A t \in Threads : SearchInv(t)'
    BY <1>2 DEF RInv, SearchInv, InSearch, InLoop, Live, vars, cacheVars, callVars, localVars
  <2> QED BY <1>1, <2>1, <2>2 DEF RInv
<1>3. ASSUME NEW t \in Threads, Call(t) \/ Progress(t) PROVE RInv'
  BY <1>1, <1>3, BoundKept, SelfSearch, OthersSearch DEF RInv
<1> QED BY <1>2, <1>3 DEF Next

LEMMA RInvariance == Spec => []RInv
  BY RInitially, RInductive, PTL DEF Spec

\* The memory that a DFA takes is bounded: what CachedState takes from
\* mem_budget_ and a reset puts back (dfa.cc:751-755, 1167-1175) never lets the
\* cache have more states than it was given room for, whatever the texts and
\* however many threads search them.
THEOREM MemoryIsBounded == Spec => []CacheBounded
<1>1. RInv => CacheBounded
  BY DEF RInv
<1> QED BY <1>1, RInvariance, PTL

\* A size_t holds no more than the number it was made from.
LEMMA RemainderFits ==
  ASSUME NEW n \in Nat, NEW m \in Nat \ {0}
  PROVE  n % m \in Nat /\ n % m <= n
  BY SMTT(30)

\* A search that resets the cache a second time has, since the first, taken ten
\* steps (BailFactor) for each state that there was room for (dfa.cc:1410),
\* unless it scans backwards: there the distance is that of a falling pointer.
THEOREM SlowSearchesGiveUp == ~Reversed => (Spec => BailsWhenSlow)
<1> SUFFICES ASSUME ~Reversed PROVE Spec => BailsWhenSlow
  OBVIOUS
<1> DEFINE Bails == \A t \in Threads :
       (resetp[t] # NoPos /\ resetp'[t] \notin {NoPos, resetp[t]} /\ ~ManyMatch) =>
         resetp'[t] - resetp[t] >= BailFactor * Cardinality(Live)
<1>1. ASSUME RInv, NEW t \in Threads, Call(t) \/ Progress(t) PROVE Bails
  <2> SUFFICES ASSUME NEW u \in Threads, resetp[u] # NoPos,
                      resetp'[u] \notin {NoPos, resetp[u]}, ~ManyMatch
               PROVE  resetp'[u] - resetp[u] >= BailFactor * Cardinality(Live)
    OBVIOUS
  <2>0. LocalTypeOK /\ SearchInv(u)
    BY <1>1 DEF RInv, IInv
  <2>1. ~Call(t)
    BY <2>0, Entries, <1>1 DEF Call, LocalTypeOK
  <2>2. u = t /\ CacheFull(t)
    BY <2>0, <2>1, Entries, <1>1
  <2>3. resetp'[u] = p[u] /\ InText(u) /\ ~Slow(u)
    BY <2>0, <2>2 DEF CacheFull, LocalTypeOK
  <2>4. ~(SinceReset(u) < BailFactor * Cardinality(Live))
    BY <2>3 DEF Slow
  <2>5. p[u] \in Nat /\ resetp[u] \in Nat /\ resetp[u] <= p[u]
    BY <2>0 DEF LocalTypeOK, SearchInv, NoPos
  <2>6. /\ SinceReset(u) \in Nat
        /\ SinceReset(u) <= p[u] - resetp[u]
    BY <2>5, RemainderFits, BudgetAssumption DEF SinceReset
  <2>7. BailFactor * Cardinality(Live) \in Nat
    BY <1>1, FS_CardinalityType, BudgetAssumption DEF RInv, CacheBounded
  <2> QED BY <2>3, <2>4, <2>5, <2>6, <2>7
<1>2. RInv /\ [Next]_vars => [Bails]_vars
  BY <1>1 DEF Next
<1> QED BY <1>2, RInvariance, PTL DEF Spec, BailsWhenSlow

-----------------------------------------------------------------------------
(***************************************************************************)
(* The refinement: DFARun's phase and content of each thread, and how the  *)
(* steps of DFACache move them.                                            *)
(***************************************************************************)
Phases   == [u \in Threads |-> PhaseOf(u)]
Contents == [u \in Threads |-> ContentOf(u)]

\* A step of one thread moves neither the phase nor the content of another.
LEMMA OthersAbstract ==
  ASSUME RInv, NEW t \in Threads, Call(t) \/ Progress(t), NEW u \in Threads \ {t}
  PROVE  PhaseOf(u)' = PhaseOf(u) /\ ContentOf(u)' = ContentOf(u)
<1>0. IInv /\ SearchInv(u) /\ ThreadInv(u)
  BY DEF RInv, IInv
<1>1. Frame(t) /\ op'[u] = op[u]
  BY <1>0, Local, Entries DEF IInv
<1>2. PhaseOf(u)' = PhaseOf(u)
  BY <1>1 DEF Frame, PhaseOf, Entering
<1>3. CASE ResetCache(t)
  <2>1. pc[u] \in Outside
    BY <1>0, <1>3, PointerAssumption DEF IInv, LockInv, ResetCache, Discard, Inside
  <2>2. CASE pc[u] = "rlock"
    <3>1. s[u] = NULL
      BY <1>0, <2>2 DEF ThreadInv, EntryInv
    <3> QED BY <1>1, <1>2, <3>1, <2>2 DEF Frame, ContentOf
  <2>3. CASE pc[u] \in {"idle", "wlock"}
    BY <1>1, <1>2, <2>3 DEF Frame, ContentOf, ResetPCs
  <2> QED BY <1>2, <2>1, <2>2, <2>3 DEF Outside
<1>4. CASE ~ResetCache(t)
  <2>1. \A a \in Live : heap'[a] = heap[a]
    BY <1>0, <1>4, Stays
  <2>2. CASE pc[u] = "idle" \/ op[u] # "search" \/ s[u] = NULL \/ pc[u] \in ResetPCs
    BY <1>1, <1>2, <2>2 DEF Frame, ContentOf
  <2>3. CASE pc[u] # "idle" /\ op[u] = "search" /\ s[u] # NULL /\ pc[u] \notin ResetPCs
    <3>1. s[u] \in Live
      BY <1>0, <2>3 DEF IInv, LockInv, LockTypeOK, PCs, SearchPCs, SearchInv, InSearch,
                        ThreadInv, LoopInv, EntryInv, InLoop, ResetPCs
    <3> QED BY <1>1, <1>2, <2>1, <2>3, <3>1 DEF Frame, ContentOf
  <2> QED BY <1>2, <2>2, <2>3
<1> QED BY <1>2, <1>3, <1>4

\* So a step moves the two functions at one thread, to these values.
LEMMA Moves ==
  ASSUME RInv, NEW t \in Threads, Call(t) \/ Progress(t),
         NEW ph, NEW k, PhaseOf(t)' = ph, ContentOf(t)' = k
  PROVE  /\ Phases' = [Phases EXCEPT ![t] = ph]
         /\ Contents' = [Contents EXCEPT ![t] = k]
<1>1. \A u \in Threads : PhaseOf(u)' = IF u = t THEN ph ELSE PhaseOf(u)
  BY OthersAbstract
<1>2. \A u \in Threads : ContentOf(u)' = IF u = t THEN k ELSE ContentOf(u)
  BY OthersAbstract
<1> QED BY <1>1, <1>2 DEF Phases, Contents

\* A step that moves nothing at its thread is a stutter.
LEMMA Invisible ==
  ASSUME RInv, NEW t \in Threads, Call(t) \/ Progress(t),
         PhaseOf(t)' = PhaseOf(t), ContentOf(t)' = ContentOf(t),
         UNCHANGED <<req, p, run>>
  PROVE  UNCHANGED <<Phases, req, Contents, p, run>>
<1>1. /\ Phases' = [Phases EXCEPT ![t] = PhaseOf(t)]
      /\ Contents' = [Contents EXCEPT ![t] = ContentOf(t)]
  BY Moves
<1> QED BY <1>1 DEF Phases, Contents

\* The automaton is the same in both.
LEMMA SameAutomaton ==
  /\ Abstract!NewRun = NewRun
  /\ \A r, k : Abstract!Begin(r, k) = Begin(r, k)
  /\ \A r, i : Abstract!Symbol(r, i) = Symbol(r, i)
  /\ \A r, o, i, k : Abstract!Arrive(r, o, i, k) = Arrive(r, o, i, k)
  /\ \A r, i, k : Abstract!Finds(r, i, k) = Finds(r, i, k)
<1> USE DEF At, Abstract!At, NoPos, Abstract!NoPos
<1>1. Abstract!NewRun = NewRun
  BY DEF NewRun, Abstract!NewRun
<1>2. \A r, k : Abstract!Begin(r, k) = Begin(r, k)
  BY <1>1 DEF Begin, Abstract!Begin
<1>3. \A r, i : Abstract!Symbol(r, i) = Symbol(r, i)
  BY DEF Symbol, Abstract!Symbol
<1>4. \A r, o, i, k : Abstract!Arrive(r, o, i, k) = Arrive(r, o, i, k)
  BY DEF Arrive, Abstract!Arrive, Ended, Abstract!Ended
<1>5. \A r, i, k : Abstract!Finds(r, i, k) = Finds(r, i, k)
  BY DEF Finds, Abstract!Finds, NewRun, Abstract!NewRun, Symbol, Abstract!Symbol,
         Arrive, Abstract!Arrive, Ended, Abstract!Ended
<1> QED BY <1>1, <1>2, <1>3, <1>4, <1>5

\* The first states correspond.
LEMMA StartsAbstract == Init => Abstract!RunInit
<1> SUFFICES ASSUME Init PROVE Abstract!RunInit
  OBVIOUS
<1>1. \A u \in Threads : PhaseOf(u) = "idle" /\ ContentOf(u) = DeadState
  BY DEF Init, PhaseOf, ContentOf
<1> QED BY <1>1, SameAutomaton DEF Init, Abstract!RunInit

\* A call of an entry point is a call of DFARun.
LEMMA CallAbstract ==
  ASSUME RInv, NEW t \in Threads, Call(t)
  PROVE  Abstract!Call(t) \/ Abstract!CallOther(t)
<1>0. LocalTypeOK /\ LockTypeOK
  BY DEF RInv, IInv, LockInv
<1>1. PhaseOf(t) = "idle" /\ ContentOf(t) = DeadState
  BY DEF Call, PhaseOf, ContentOf
<1>2. /\ pc' = [pc EXCEPT ![t] = "rlock"] /\ s' = [s EXCEPT ![t] = NULL]
      /\ p' = [p EXCEPT ![t] = 0] /\ run' = [run EXCEPT ![t] = NewRun]
      /\ \E r \in Requests : req' = [req EXCEPT ![t] = r]
  BY DEF Call, Goto
<1>3. ContentOf(t)' = DeadState
  BY <1>0, <1>2 DEF LocalTypeOK, ContentOf
<1>4. PhaseOf(t)' = IF op'[t] = "search" THEN "called" ELSE "other"
  BY <1>0, <1>2 DEF LockTypeOK, PhaseOf, Entering
<1>5. /\ Phases' = [Phases EXCEPT ![t] = PhaseOf(t)']
      /\ Contents' = [Contents EXCEPT ![t] = DeadState]
  BY <1>3, Moves
<1>6. Phases[t] = "idle" /\ Contents' = Contents
  BY <1>1, <1>5 DEF Phases, Contents
<1>7. CASE op'[t] = "search"
  BY <1>2, <1>4, <1>5, <1>6, <1>7, SameAutomaton DEF Abstract!Call, Phases, Contents
<1>8. CASE op'[t] # "search"
  BY <1>2, <1>4, <1>5, <1>6, <1>8, SameAutomaton DEF Abstract!CallOther, Phases, Contents
<1> QED BY <1>7, <1>8

\* Loading the start state is DFARun's first step, if the call is a search.
LEMMA StartAbstract ==
  ASSUME RInv, NEW t \in Threads, LoadStart(t)
  PROVE  Abstract!Start(t) \/ UNCHANGED <<Phases, req, Contents, p, run>>
<1> DEFINE a == startInfo[req[t].kind]
           k == StartOf[req[t].kind]
<1>0. /\ LocalTypeOK /\ LockTypeOK /\ CacheInv /\ IInv /\ pc[t] = "loadStart"
      /\ Progress(t)
      /\ Call(t) \/ Progress(t)
  BY DEF RInv, IInv, LockInv, LoadStart, Progress, Analyze
<1>1. s[t] = NULL
  BY <1>0 DEF IInv, ThreadInv, EntryInv
<1>2. /\ a \in Pointer \ {NULL} /\ Denotes(a) = k /\ k \in Content \cup Special
  BY <1>0, Arguments, AutomatonAssumption
     DEF CacheInv, CacheTypeOK, CacheSound, Target, IInv, ThreadInv, EntryInv
<1>3. /\ a \in Special => k = a /\ k \notin Content
      /\ a \notin Special => a \in Addr /\ heap[a] = k /\ k \in Content
  <2>1. a \in Special => Denotes(a) = a
    BY PointerAssumption DEF Denotes
  <2>2. a \notin Special => a \in Addr /\ heap[a] \in Content \cup {Free}
    BY <1>0, <1>2 DEF Pointer, CacheInv, CacheTypeOK
  <2>3. a \notin Special => Denotes(a) = heap[a]
    BY <2>2 DEF Denotes
  <2> QED BY <1>2, <2>1, <2>2, <2>3, PointerAssumption, SpecialAssumption
<1>4. UNCHANGED <<req, op, p, heap>>
  BY DEF LoadStart, callVars, cacheVars
<1>5. CASE op[t] = "search"
  <2> HIDE DEF a
  <2>1. /\ run' = [run EXCEPT ![t] = Begin(req[t], k)]
        /\ s' = [s EXCEPT ![t] = IF a \in Special THEN NULL ELSE a]
        /\ pc' = [pc EXCEPT ![t] = IF a \in Special THEN "done" ELSE "loop"]
    BY <1>2, <1>5 DEF LoadStart, Goto, a
  <2>2. PhaseOf(t) = "called"
    BY <1>0, <1>5 DEF PhaseOf, Entering
  <2>3. run'[t].outcome # "failed"
    BY <1>0, <1>2, <2>1, Arguments, BeginType DEF LocalTypeOK
  <2>4. PhaseOf(t)' = "scan"
    BY <1>0, <1>4, <1>5, <2>1, <2>3 DEF PhaseOf, Entering, LockTypeOK, ResetPCs
  <2>5. ContentOf(t)' = IF k \in Content THEN k ELSE DeadState
    <3>1. CASE a \in Special
      BY <1>0, <1>3, <1>4, <1>5, <2>1, <3>1 DEF ContentOf, LocalTypeOK
    <3>2. CASE a \notin Special
      <4>1. s'[t] = a /\ pc'[t] = "loop" /\ a # NULL
        BY <1>0, <1>3, <2>1, <3>2, PointerAssumption DEF LocalTypeOK, LockTypeOK
      <4> QED BY <1>3, <1>4, <1>5, <3>2, <4>1 DEF ContentOf, ResetPCs
    <3> QED BY <3>1, <3>2
  <2>6. /\ Phases' = [Phases EXCEPT ![t] = "scan"]
        /\ Contents' = [Contents EXCEPT ![t] = IF k \in Content THEN k ELSE DeadState]
    BY <1>0, <2>4, <2>5, Moves
  <2> QED BY <1>4, <2>1, <2>2, <2>6, SameAutomaton DEF Abstract!Start, Phases, Contents
<1>6. CASE op[t] # "search"
  <2>1. /\ pc'[t] \in {"done", "build", "range"} /\ run' = run
    BY <1>0, <1>6 DEF LoadStart, Goto, LockTypeOK
  <2>2. PhaseOf(t)' = PhaseOf(t) /\ ContentOf(t)' = ContentOf(t)
    BY <1>0, <1>4, <1>6, <2>1 DEF PhaseOf, ContentOf
  <2> QED BY <1>0, <1>4, <2>1, <2>2, Invisible
<1> QED BY <1>5, <1>6

\* Reading the next byte is DFARun's scan: the bytes that acceleration leaves
\* out begin no match.
LEMMA ScanAbstract ==
  ASSUME RInv, NEW t \in Threads, FetchNext(t)
  PROVE  Abstract!Scan(t)
<1>0. /\ LocalTypeOK /\ LockTypeOK /\ CacheInv /\ IInv /\ pc[t] = "loop"
      /\ Call(t) \/ Progress(t)
  BY DEF RInv, IInv, LockInv, FetchNext, Progress, Loop
<1>1. /\ s[t] \in Live /\ start[t] \in Live /\ heap[start[t]] = StartOf[req[t].kind]
      /\ op[t] = "search" /\ run[t].outcome = "running" /\ s[t] # NULL
  BY <1>0, PointerAssumption
     DEF RInv, IInv, ThreadInv, LoopInv, InLoop, SearchInv, InSearch, Live
<1>2. PICK i \in (p[t] + 1) .. (Len(req[t].text) + 1) :
        /\ ReadsAt(t, i) /\ p' = [p EXCEPT ![t] = i]
        /\ pc'[t] \in {"runLock", "step"}
  BY <1>0 DEF FetchNext, Goto, LockTypeOK
<1>3. UNCHANGED <<req, op, s, run, heap>>
  BY DEF FetchNext, callVars, cacheVars
<1>4. PhaseOf(t) = "scan" /\ ContentOf(t) = heap[s[t]]
  BY <1>0, <1>1 DEF PhaseOf, ContentOf, Entering, ResetPCs
<1>5. PhaseOf(t)' = "step" /\ ContentOf(t)' = heap[s[t]]
  BY <1>1, <1>2, <1>3 DEF PhaseOf, ContentOf, Entering, ResetPCs
<1>6. /\ Phases' = [Phases EXCEPT ![t] = "step"]
      /\ Contents' = [Contents EXCEPT ![t] = heap[s[t]]]
  BY <1>0, <1>5, Moves
<1>7. i = p[t] + 1 \/ Finds(req[t], i, heap[s[t]]) = Finds(req[t], p[t] + 1, heap[s[t]])
  <2>1. CASE CanAccel[req[t].kind] /\ s[t] = start[t]
    <3>1. /\ req[t] \in Requests /\ p[t] \in 0 .. Len(req[t].text)
      BY <1>0, <1>1, <1>2, Arguments DEF LocalTypeOK
    <3>2. SkipsTo(req[t], p[t], i)
      BY <1>2, <2>1 DEF ReadsAt
    <3> QED BY <1>1, <1>2, <2>1, <3>1, <3>2, AccelAssumption
  <2>2. CASE ~(CanAccel[req[t].kind] /\ s[t] = start[t])
    BY <1>2, <2>2 DEF ReadsAt
  <2> QED BY <2>1, <2>2
<1> QED BY <1>1, <1>2, <1>3, <1>4, <1>6, <1>7, SameAutomaton DEF Abstract!Scan, Phases, Contents

\* Following a known edge is DFARun's step.
LEMMA StepAbstract ==
  ASSUME RInv, NEW t \in Threads, TakeStep(t)
  PROVE  Abstract!Step(t)
<1> DEFINE k == Denotes(ns[t])
           after == Arrive(req[t], run[t], p[t], k)
<1>0. /\ LocalTypeOK /\ LockTypeOK /\ CacheInv /\ IInv /\ pc[t] = "step"
      /\ Call(t) \/ Progress(t)
  BY DEF RInv, IInv, LockInv, TakeStep, Progress, Loop
<1>1. /\ s[t] \in Live /\ s[t] # NULL /\ ns[t] \in Live \cup Special
      /\ k = Delta[heap[s[t]]][Symbol(req[t], p[t])]
      /\ op[t] = "search" /\ run[t].outcome = "running"
  BY <1>0, PointerAssumption
     DEF RInv, IInv, ThreadInv, LoopInv, InLoop, SearchInv, InSearch, Live, Successor
<1>2. /\ ns[t] \in Special => k = ns[t] /\ k \notin Content
      /\ ns[t] \notin Special => ns[t] \in Live /\ k = heap[ns[t]] /\ k \in Content
      /\ k \in Content \cup Special
  BY <1>0, <1>1, PointerAssumption, SpecialAssumption
     DEF Denotes, Live, CacheInv, CacheTypeOK
<1>3. after.outcome \in {"running", "match", "nomatch"}
  BY <1>0, <1>2, Arguments, ArriveType DEF LocalTypeOK
<1>4. /\ run' = [run EXCEPT ![t] = after]
      /\ s' = [s EXCEPT ![t] = IF ns[t] \in Special THEN s[t] ELSE ns[t]]
      /\ pc' = [pc EXCEPT ![t] = IF after.outcome = "running" THEN "loop" ELSE "done"]
      /\ UNCHANGED <<req, op, p, heap>>
  BY DEF TakeStep, Goto, callVars, cacheVars
<1> HIDE DEF after
<1>5. /\ run'[t] = after /\ pc'[t] \in {"loop", "done"}
      /\ s'[t] = IF ns[t] \in Special THEN s[t] ELSE ns[t]
  BY <1>0, <1>4 DEF LocalTypeOK, LockTypeOK
<1>6. PhaseOf(t) = "step" /\ ContentOf(t) = heap[s[t]]
  BY <1>0, <1>1 DEF PhaseOf, ContentOf, Entering, ResetPCs
<1>7. PhaseOf(t)' = "scan"
  BY <1>1, <1>3, <1>4, <1>5 DEF PhaseOf, Entering, ResetPCs
<1>8. ContentOf(t)' = IF k \in Content THEN k ELSE heap[s[t]]
  <2>1. s'[t] # NULL
    BY <1>1, <1>2, <1>5, PointerAssumption DEF Live
  <2> QED BY <1>1, <1>2, <1>4, <1>5, <2>1 DEF ContentOf, ResetPCs
<1>9. /\ Phases' = [Phases EXCEPT ![t] = "scan"]
      /\ Contents' = [Contents EXCEPT ![t] = IF k \in Content THEN k ELSE heap[s[t]]]
  BY <1>0, <1>7, <1>8, Moves
<1>10. Phases[t] = "step" /\ Contents[t] = heap[s[t]]
  BY <1>6 DEF Phases, Contents
<1>11. Delta[Contents[t]][Abstract!Symbol(req[t], p[t])] = k
  BY <1>1, <1>10, SameAutomaton
<1>12. run' = [run EXCEPT ![t] = Abstract!Arrive(req[t], @, p[t], k)]
  BY <1>4, SameAutomaton DEF after
<1>13. Contents' = [Contents EXCEPT ![t] = IF k \in Content THEN k ELSE @]
  BY <1>9, <1>10
<1> HIDE DEF k
<1> QED
  BY <1>1, <1>4, <1>9, <1>10, <1>11, <1>12, <1>13 DEF Abstract!Step, Phases, Contents

\* A search that finds the cache full gives up, or remembers where it is.
LEMMA FullAbstract ==
  ASSUME RInv, NEW t \in Threads, CacheFull(t)
  PROVE  Abstract!GiveUp(t) \/ UNCHANGED <<Phases, req, Contents, p, run>>
<1>0. /\ LocalTypeOK /\ LockTypeOK /\ IInv /\ pc[t] = "full"
      /\ Call(t) \/ Progress(t)
  BY DEF RInv, IInv, LockInv, CacheFull, Progress, Loop
<1>1. /\ s[t] \in Live /\ s[t] # NULL /\ ~retried[t]
      /\ op[t] = "search" /\ run[t].outcome = "running"
  BY <1>0, PointerAssumption
     DEF RInv, IInv, ThreadInv, LoopInv, InLoop, BudgetInv, SearchInv, InSearch, Live
<1>2. UNCHANGED <<req, op, s, p, heap>>
  BY DEF CacheFull, callVars, cacheVars
<1>3. PhaseOf(t) = "step" /\ ContentOf(t) = heap[s[t]]
  BY <1>0, <1>1 DEF PhaseOf, ContentOf, Entering, ResetPCs
<1>4. CASE Slow(t)
  <2>1. /\ run' = [run EXCEPT ![t].outcome = "failed"] /\ ~ManyMatch
        /\ pc' = [pc EXCEPT ![t] = "done"]
    BY <1>1, <1>4 DEF CacheFull, Fail, Slow, Goto
  <2>2. run'[t].outcome = "failed" /\ pc'[t] = "done"
    BY <1>0, <2>1, FailType DEF Outcome, LocalTypeOK, LockTypeOK
  <2>3. PhaseOf(t)' = "step" /\ ContentOf(t)' = heap[s[t]]
    BY <1>1, <1>2, <2>2 DEF PhaseOf, ContentOf, Entering, ResetPCs
  <2>4. /\ Phases' = [Phases EXCEPT ![t] = "step"]
        /\ Contents' = [Contents EXCEPT ![t] = heap[s[t]]]
    BY <1>0, <2>3, Moves
  <2>5. Phases' = Phases /\ Contents' = Contents
    BY <1>3, <2>4 DEF Phases, Contents
  <2> QED BY <1>1, <1>2, <1>3, <2>1, <2>5 DEF Abstract!GiveUp, Phases, Contents
<1>5. CASE ~Slow(t)
  <2>1. /\ saved' = [saved EXCEPT ![t] =
              [s |-> heap[s[t]],
               start |-> IF InText(t) THEN heap[start[t]] ELSE DeadState]]
        /\ pc'[t] \in {"reset", "drop"} /\ run' = run
    BY <1>0, <1>1, <1>5 DEF CacheFull, Goto, LockTypeOK
  <2>2. saved'[t].s = heap[s[t]]
    BY <1>0, <2>1 DEF LocalTypeOK
  <2>3. PhaseOf(t)' = "step" /\ ContentOf(t)' = heap[s[t]]
    BY <1>1, <1>2, <2>1, <2>2 DEF PhaseOf, ContentOf, Entering, ResetPCs
  <2> QED BY <1>0, <1>2, <1>3, <2>1, <2>3, Invisible
<1> QED BY <1>4, <1>5

\* A return is a return: the out parameters are those of DFARun.
LEMMA ReturnAbstract ==
  ASSUME RInv, NEW t \in Threads, Return(t)
  PROVE  Abstract!Return(t) \/ Abstract!ReturnOther(t)
<1>0. /\ LocalTypeOK /\ LockTypeOK /\ IInv /\ pc[t] = "done"
      /\ Call(t) \/ Progress(t)
  BY DEF RInv, IInv, LockInv, Return, Progress
<1>1. pc'[t] = "idle" /\ UNCHANGED <<req, op, s, p, run>>
  BY <1>0 DEF Return, Goto, callVars, localVars, LockTypeOK
<1>2. PhaseOf(t)' = "idle" /\ ContentOf(t)' = DeadState
  BY <1>1 DEF PhaseOf, ContentOf
<1>3. /\ Phases' = [Phases EXCEPT ![t] = "idle"]
      /\ Contents' = [Contents EXCEPT ![t] = DeadState]
  BY <1>0, <1>2, Moves
<1>4. CASE op[t] = "search"
  <2>1. run[t].outcome # "running"
    BY <1>0, <1>4 DEF RInv, SearchInv
  <2>2. PhaseOf(t) \in {"scan", "step"}
    BY <1>0, <1>4 DEF PhaseOf, Entering
  <2> QED BY <1>1, <1>3, <2>1, <2>2 DEF Abstract!Return, Phases, Contents
<1>5. CASE op[t] # "search"
  <2>1. PhaseOf(t) = "other" /\ ContentOf(t) = DeadState
    BY <1>0, <1>5 DEF PhaseOf, ContentOf
  <2>2. Contents' = Contents
    BY <1>3, <2>1 DEF Contents
  <2> QED BY <1>1, <1>3, <2>1, <2>2 DEF Abstract!ReturnOther, Phases, Contents
<1> QED BY <1>4, <1>5

\* What a search does until it has a start state cannot be seen.
LEMMA EnteringInvisible ==
  ASSUME RInv, NEW t \in Threads,
         \/ ReaderLock(t) \/ QuickCheck(t) \/ StartLock(t) \/ StartFound(t)
         \/ StartFailed(t)
  PROVE  UNCHANGED <<Phases, req, Contents, p, run>>
<1>0. /\ LocalTypeOK /\ LockTypeOK /\ IInv
      /\ Call(t) \/ Progress(t)
      /\ pc[t] \in {"rlock", "quick", "startLock", "startHeld"}
  BY DEF RInv, IInv, LockInv, Progress, Analyze, ReaderLock, QuickCheck, StartLock,
         StartFound, StartFailed
<1>1. s[t] = NULL
  BY <1>0 DEF IInv, ThreadInv, EntryInv
<1>2. StartFailed(t) => ~retried[t]
  <2> SUFFICES ASSUME StartFailed(t) PROVE ~retried[t]
    OBVIOUS
  <2>1. StartOf[req[t].kind] \in Content /\ memBudget < Cost[StartOf[req[t].kind]]
    BY PointerAssumption DEF StartFailed, CachedState
  <2>2. memBudget < StateBudget
    BY <1>0, <2>1, BudgetAssumption DEF IInv, CacheInv, CacheTypeOK
  <2> QED BY <1>0, <2>2, BudgetAssumption DEF IInv, ThreadInv, BudgetInv, StartFailed
<1>3. /\ UNCHANGED <<req, op, s, p, run>>
      /\ pc'[t] \in {"quick", "startLock", "startHeld", "loadStart", "reset", "drop"}
  BY <1>0, <1>2 DEF ReaderLock, QuickCheck, StartLock, StartFound, StartFailed, Goto,
                    callVars, localVars, LockTypeOK
<1>4. PhaseOf(t)' = PhaseOf(t) /\ ContentOf(t)' = ContentOf(t)
  BY <1>0, <1>1, <1>3 DEF PhaseOf, ContentOf, Entering
<1> QED BY <1>0, <1>3, <1>4, Invisible

\* Nor can a reset: the search takes up the content that it had saved.
LEMMA ResetInvisible ==
  ASSUME RInv, NEW t \in Threads, Reset(t)
  PROVE  UNCHANGED <<Phases, req, Contents, p, run>>
<1>0. /\ LocalTypeOK /\ LockTypeOK /\ CacheInv /\ IInv /\ SearchInv(t) /\ ThreadInv(t)
      /\ ThreadInv(t)'
      /\ Call(t) \/ Progress(t)
  BY Inductive DEF RInv, IInv, LockInv, Progress, Next
<1>1. CASE DropRead(t) \/ WriterLock(t) \/ ResetCache(t)
  <2>1. /\ UNCHANGED <<req, op, s, p, run, saved>>
        /\ pc[t] \in {"drop", "wlock", "reset"}
    BY <1>1 DEF DropRead, WriterLock, ResetCache, Discard, callVars, localVars
  <2>2. /\ s[t] = NULL => pc'[t] \in {"wlock", "reset", "quick"}
        /\ s[t] # NULL => pc'[t] \in ResetPCs
    BY <1>0, <1>1 DEF DropRead, WriterLock, ResetCache, Discard, Resume, Goto,
                      LockTypeOK, ResetPCs
  <2>3. PhaseOf(t)' = PhaseOf(t) /\ ContentOf(t)' = ContentOf(t)
    BY <2>1, <2>2 DEF PhaseOf, ContentOf, Entering, ResetPCs
  <2> QED BY <1>0, <2>1, <2>3, Invisible
<1>2. CASE RestoreStart(t)
  <2>1. /\ UNCHANGED <<req, op, s, p, saved, run>>
        /\ pc[t] = "restoreStart" /\ pc'[t] = "restoreS"
    BY <1>0, <1>2, NotFatal DEF RestoreStart, callVars, Goto, LockTypeOK
  <2>2. PhaseOf(t)' = PhaseOf(t) /\ ContentOf(t)' = ContentOf(t)
    BY <2>1 DEF PhaseOf, ContentOf, Entering, ResetPCs
  <2> QED BY <1>0, <2>1, <2>2, Invisible
<1>3. CASE RestoreS(t)
  <2>1. PICK r \in Addr \cup {NULL} :
          /\ CachedState(saved[t].s, r) /\ next' = EdgesWith(r)
          /\ s' = [s EXCEPT ![t] = r]
          /\ IF r = NULL THEN Fail(t, "fatal")
             ELSE Goto(t, "runLock") /\ UNCHANGED run
    BY <1>3 DEF RestoreS
  <2>2. r # NULL /\ UNCHANGED run
    BY <1>0, <2>1, NotFatal
  <2>3. /\ UNCHANGED <<req, op, p>> /\ pc[t] = "restoreS"
        /\ pc'[t] = "runLock" /\ s'[t] = r
    BY <1>0, <1>3, <2>1, <2>2 DEF RestoreS, callVars, Goto, LockTypeOK, LocalTypeOK
  <2>4. /\ s[t] # NULL /\ saved[t].s \in Content /\ op[t] = "search"
        /\ run[t].outcome = "running"
    BY <1>0, <2>3 DEF ThreadInv, ResetInv, SearchInv, InSearch, ResetPCs
  <2>5. heap'[r] = saved[t].s
    BY <1>0, <1>3, <2>1, <2>2, <2>4, CachedStateSound DEF RestoreS
  <2>6. PhaseOf(t)' = PhaseOf(t) /\ ContentOf(t)' = ContentOf(t)
    BY <2>2, <2>3, <2>4, <2>5 DEF PhaseOf, ContentOf, Entering, ResetPCs
  <2> QED BY <1>0, <2>2, <2>3, <2>6, Invisible
<1> QED BY <1>1, <1>2, <1>3 DEF Reset

\* Nor can the computation of a missing edge.
LEMMA RunInvisible ==
  ASSUME RInv, NEW t \in Threads, RunLock(t) \/ RunHeld(t)
  PROVE  UNCHANGED <<Phases, req, Contents, p, run>>
<1>0. /\ LocalTypeOK /\ LockTypeOK /\ IInv /\ SearchInv(t)
      /\ Call(t) \/ Progress(t)
      /\ ~ResetCache(t) /\ pc[t] \in {"runLock", "runHeld"}
  BY DEF RInv, IInv, LockInv, Progress, Loop, RunLock, RunHeld, ResetCache, Discard
<1>1. /\ UNCHANGED <<req, op, s, p, run>>
      /\ pc'[t] \in {"runHeld", "full", "step"}
  BY <1>0 DEF RunLock, RunHeld, Goto, LockTypeOK, callVars, localVars
<1>2. s[t] \in Live /\ heap'[s[t]] = heap[s[t]]
  BY <1>0, Stays DEF IInv, ThreadInv, LoopInv, InLoop
<1>3. PhaseOf(t)' = PhaseOf(t) /\ ContentOf(t)' = ContentOf(t)
  BY <1>0, <1>1, <1>2 DEF PhaseOf, ContentOf, Entering, ResetPCs
<1> QED BY <1>0, <1>1, <1>3, Invisible

\* Nor anything that the other entry points do.
LEMMA ExploreInvisible ==
  ASSUME RInv, NEW t \in Threads, Explore(t)
  PROVE  UNCHANGED <<Phases, req, Contents, p, run>>
<1>0. /\ LocalTypeOK /\ LockTypeOK /\ SearchInv(t)
      /\ Call(t) \/ Progress(t)
      /\ pc[t] \in {"build", "buildHeld", "range", "rangeHeld"}
  BY DEF RInv, IInv, LockInv, Progress, Explore, BuildLock, BuildHeld, RangeLock,
         RangeStep, RangeFull, RangeEnd
<1>1. op[t] # "search"
  BY <1>0 DEF SearchInv
<1>2. UNCHANGED <<req, op, p, run>>
  BY DEF Explore, BuildLock, BuildHeld, RangeLock, RangeStep, RangeFull, RangeEnd,
         callVars, localVars
<1>3. pc'[t] # "idle"
  BY <1>0 DEF Explore, BuildLock, BuildHeld, RangeLock, RangeStep, RangeFull, RangeEnd,
              Goto, LockTypeOK
<1>4. PhaseOf(t)' = PhaseOf(t) /\ ContentOf(t)' = ContentOf(t)
  BY <1>0, <1>1, <1>2, <1>3 DEF PhaseOf, ContentOf
<1> QED BY <1>0, <1>2, <1>4, Invisible

\* So every step of DFACache is one of DFARun, or a stutter.
LEMMA StepsAbstract == RInv /\ [Next]_vars => [Abstract!RunNext]_(Abstract!runVars)
<1> SUFFICES ASSUME RInv, [Next]_vars
             PROVE  [Abstract!RunNext]_(Abstract!runVars)
  OBVIOUS
<1>1. ASSUME UNCHANGED <<Phases, req, Contents, p, run>>
      PROVE  UNCHANGED Abstract!runVars
  BY <1>1 DEF Phases, Contents, Abstract!runVars
<1>2. CASE UNCHANGED vars
  BY <1>1, <1>2 DEF vars, callVars, localVars, cacheVars, Phases, Contents, PhaseOf,
                    ContentOf, Entering
<1>3. ASSUME NEW t \in Threads, Call(t) \/ Progress(t)
      PROVE  Abstract!RunNext \/ UNCHANGED <<Phases, req, Contents, p, run>>
  <2>1. CASE Call(t)
    BY <2>1, CallAbstract DEF Abstract!RunNext
  <2>2. CASE ReaderLock(t) \/ (Analyze(t) /\ ~LoadStart(t))
    BY <2>2, EnteringInvisible DEF Analyze
  <2>3. CASE LoadStart(t)
    BY <2>3, StartAbstract DEF Abstract!RunNext
  <2>4. CASE Reset(t)
    BY <2>4, ResetInvisible
  <2>5. CASE FetchNext(t)
    BY <2>5, ScanAbstract DEF Abstract!RunNext
  <2>6. CASE RunLock(t) \/ RunHeld(t)
    BY <2>6, RunInvisible
  <2>7. CASE CacheFull(t)
    BY <2>7, FullAbstract DEF Abstract!RunNext
  <2>8. CASE TakeStep(t)
    BY <2>8, StepAbstract DEF Abstract!RunNext
  <2>9. CASE Explore(t)
    BY <2>9, ExploreInvisible
  <2>10. CASE Return(t)
    BY <2>10, ReturnAbstract DEF Abstract!RunNext
  <2> QED
    BY <1>3, <2>1, <2>2, <2>3, <2>4, <2>5, <2>6, <2>7, <2>8, <2>9, <2>10
       DEF Progress, Analyze, Loop
<1> QED BY <1>1, <1>2, <1>3 DEF Next

\* Every behaviour of any number of threads on a shared, bounded cache that is
\* emptied under them is one of searches that run alone on the whole automaton,
\* except that a search may give up.
THEOREM CacheRefinesRun == Spec => CacheTransparent
  BY StartsAbstract, StepsAbstract, RInvariance, PTL
     DEF Spec, CacheTransparent, Abstract!RunSpec
=============================================================================
