------------------------------- MODULE DFARun -------------------------------
(***************************************************************************)
(* What DFA::Search promises: each call runs the automaton over its own    *)
(* text ("start with a state s, then for each byte c in the input execute  *)
(* s = s->next[c]", dfa.cc:12-15), as if it were alone and no state were   *)
(* ever discarded.  A search may give up, so that the caller falls back to *)
(* the NFA, except in a many-match DFA, whose caller has no other engine.  *)
(***************************************************************************)
EXTENDS DFAAutomaton

CONSTANTS Threads, Requests

VARIABLES
  phase,  \* "idle", "called", then "scan" and "step" alternate;
          \* "other" during a call that is no search
  req,    \* the call's arguments
  q,      \* the content the automaton is in
  p,      \* steps consumed so far, the one being taken included
  run     \* the out parameters

runVars == <<phase, req, q, p, run>>

RunInit ==
  /\ phase = [t \in Threads |-> "idle"]
  /\ req = [t \in Threads |-> CHOOSE r \in Requests : TRUE]
  /\ q = [t \in Threads |-> DeadState]
  /\ p = [t \in Threads |-> 0]
  /\ run = [t \in Threads |-> NewRun]

Call(t) ==
  /\ phase[t] = "idle"
  /\ \E r \in Requests : req' = [req EXCEPT ![t] = r]
  /\ phase' = [phase EXCEPT ![t] = "called"]
  /\ p' = [p EXCEPT ![t] = 0]
  /\ run' = [run EXCEPT ![t] = NewRun]
  /\ UNCHANGED q

\* The other entry points work on the same automaton and promise nothing here.
CallOther(t) ==
  /\ phase[t] = "idle"
  /\ \E r \in Requests : req' = [req EXCEPT ![t] = r]
  /\ phase' = [phase EXCEPT ![t] = "other"]
  /\ p' = [p EXCEPT ![t] = 0]
  /\ run' = [run EXCEPT ![t] = NewRun]
  /\ UNCHANGED q

ReturnOther(t) ==
  /\ phase[t] = "other"
  /\ phase' = [phase EXCEPT ![t] = "idle"]
  /\ UNCHANGED <<req, q, p, run>>

Start(t) ==
  LET k == StartOf[req[t].kind] IN
  /\ phase[t] = "called"
  /\ run' = [run EXCEPT ![t] = Begin(req[t], k)]
  /\ q' = [q EXCEPT ![t] = IF k \in Content THEN k ELSE DeadState]
  /\ phase' = [phase EXCEPT ![t] = "scan"]
  /\ UNCHANGED <<req, p>>

\* Steps that make no difference to what the rest of the text is found to
\* match may be left out.
Scan(t) ==
  /\ phase[t] = "scan"
  /\ run[t].outcome = "running"
  /\ \E i \in (p[t] + 1) .. (Len(req[t].text) + 1) :
       /\ i = p[t] + 1 \/ Finds(req[t], i, q[t]) = Finds(req[t], p[t] + 1, q[t])
       /\ p' = [p EXCEPT ![t] = i]
  /\ phase' = [phase EXCEPT ![t] = "step"]
  /\ UNCHANGED <<req, q, run>>

Step(t) ==
  LET k == Delta[q[t]][Symbol(req[t], p[t])] IN
  /\ phase[t] = "step"
  /\ run[t].outcome = "running"
  /\ run' = [run EXCEPT ![t] = Arrive(req[t], @, p[t], k)]
  /\ q' = [q EXCEPT ![t] = IF k \in Content THEN k ELSE @]
  /\ phase' = [phase EXCEPT ![t] = "scan"]
  /\ UNCHANGED <<req, p>>

GiveUp(t) ==
  /\ phase[t] = "step"
  /\ run[t].outcome = "running"
  /\ ~ManyMatch
  /\ run' = [run EXCEPT ![t].outcome = "failed"]
  /\ UNCHANGED <<phase, req, q, p>>

Return(t) ==
  /\ phase[t] \in {"scan", "step"}
  /\ run[t].outcome # "running"
  /\ phase' = [phase EXCEPT ![t] = "idle"]
  /\ q' = [q EXCEPT ![t] = DeadState]
  /\ UNCHANGED <<req, p, run>>

RunNext ==
  \E t \in Threads :
    \/ Call(t) \/ Start(t) \/ Scan(t) \/ Step(t) \/ GiveUp(t) \/ Return(t)
    \/ CallOther(t) \/ ReturnOther(t)

RunSpec == RunInit /\ [][RunNext]_runVars
=============================================================================
