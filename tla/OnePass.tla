------------------------------ MODULE OnePass -------------------------------
(***************************************************************************)
(* The one-pass matcher of re2/re2/onepass.cc.  A program is one-pass if,  *)
(* whatever the next byte, at most one of its threads survives it;         *)
(* IsOnePass finds out and builds one node for every list that a byte      *)
(* range leads to, and SearchOnePass then follows one thread.              *)
(***************************************************************************)
EXTENDS Searches

CONSTANT NodeBudget   \* the nodes a quarter of the DFA's memory has room for

MaxCap == 10          \* kMaxCap: capture registers a condition has bits for

\* The engine cannot search on its own for where a match begins: its Calls
\* are anchored or for full matches, with no more captures than MaxCap.

VARIABLES
  prog,          \* the program
  pc,
  nodes, byid,   \* the nodes, and the list each of them stands for
  it,            \* the node being filled in
  workq,         \* the instructions its flood has come to
  stack,         \* the alternatives its flood has still to follow
  id, cond,      \* the instruction at hand and the conditions on the way to it
  matched,       \* has the flood, or the search, come to a match?
  call,          \* the search
  p, state,      \* the position in the text, and the node there
  cap, matchcap  \* the registers now, and at the best match so far

vars == <<prog, pc, nodes, byid, it, workq, stack, id, cond, matched,
          call, p, state, cap, matchcap>>
flood == <<workq, stack, id, cond>>
search == <<call, p, state, cap, matchcap>>

None == -1
NoCall == [none |-> TRUE]

Init ==
  /\ prog \in Progs
  /\ pc = "new"
  /\ nodes = << >> /\ byid = << >> /\ it = 1
  /\ workq = {} /\ stack = << >>
  /\ id = None /\ cond = [empty |-> {}, caps |-> {}] /\ matched = FALSE
  /\ call = NoCall /\ p = 0 /\ state = 1
  /\ cap = << >> /\ matchcap = << >>

-----------------------------------------------------------------------------
(***************************************************************************)
(* Conditions and actions.  Conditions are empty-width flags that must     *)
(* hold and capture registers to set.  An action has conditions, the node  *)
(* after the byte, and whether a match here is preferred to it; it is      *)
(* impossible if it asks for \b and \B at once.                            *)
(***************************************************************************)
Uncond == [empty |-> {}, caps |-> {}]
Never == {"WordBoundary", "NonWordBoundary"}
Class == {prog.bytemap[b] : b \in Byte}

Action(c, next, wins) ==
  [empty |-> c.empty, caps |-> c.caps, next |-> next, wins |-> wins]
Impossible(x) == Never \subseteq x.empty

ZeroNode ==
  [match |-> Uncond, action |-> [b \in Class |-> Action(Uncond, 1, FALSE)]]
EmptyNode ==
  LET never == [empty |-> Never, caps |-> {}]
  IN  [match |-> never, action |-> [b \in Class |-> Action(never, 1, FALSE)]]

-----------------------------------------------------------------------------
(***************************************************************************)
(* IsOnePass.                                                              *)
(***************************************************************************)
MaxNodes == 2 + InstCount(prog, "byte")

\* Mutant: no room for the first instruction.
StackSizeNoStart ==
  InstCount(prog, "cap") + InstCount(prog, "empty") + InstCount(prog, "nop")

\* The size of the stack of the flood.
StackSize ==
  InstCount(prog, "cap") + InstCount(prog, "empty") + InstCount(prog, "nop") + 1

Refuse ==
  /\ pc = "new"
  /\ prog.start = 0 \/ MaxNodes > NodeBudget
  /\ pc' = "refused"
  /\ UNCHANGED <<prog, nodes, byid, it, flood, matched, search>>

Analyse ==
  /\ pc = "new"
  /\ prog.start # 0 /\ MaxNodes <= NodeBudget
  /\ byid' = <<prog.start>>
  /\ nodes' = <<ZeroNode>>
  /\ pc' = "node"
  /\ UNCHANGED <<prog, it, flood, matched, search>>

BeginNode ==
  /\ pc = "node" /\ it <= Len(byid)
  /\ nodes' = [nodes EXCEPT ![it] = EmptyNode]
  /\ workq' = {} /\ matched' = FALSE
  /\ stack' = <<[id |-> byid[it], cond |-> Uncond]>>
  /\ pc' = "flood"
  /\ UNCHANGED <<prog, byid, it, id, cond, search>>

Built ==
  /\ pc = "node" /\ it > Len(byid)
  /\ pc' = "ready"
  /\ UNCHANGED <<prog, nodes, byid, it, flood, matched, search>>

Pop ==
  /\ pc = "flood" /\ id = None
  /\ IF stack = << >>
       THEN it' = it + 1 /\ pc' = "node" /\ UNCHANGED <<stack, id, cond>>
       ELSE /\ id' = Head(stack).id /\ cond' = Head(stack).cond
            /\ stack' = Tail(stack)
            /\ UNCHANGED <<it, pc>>
  /\ UNCHANGED <<prog, nodes, byid, workq, matched, search>>

ip == prog.inst[id]

Flooding(op) ==
  /\ pc = "flood" /\ id # None /\ ip.op = op
  /\ UNCHANGED <<prog, it, search>>

\* Two ways to one instruction: the program is not one-pass.
Fail ==
  /\ pc' = "refused"
  /\ UNCHANGED <<workq, stack, id, cond>>

\* AddQ: may the flood come to all of ids?  Instruction 0 is never queued.
CanAdd(ids) == (ids \ {0}) \cap workq = {}
AddQ(ids) == workq' = workq \cup (ids \ {0})

\* Go on with the rest of the list.
GoOn ==
  IF ip.last THEN id' = None /\ UNCHANGED <<workq, pc, stack, cond>>
  ELSE IF CanAdd({id + 1})
    THEN AddQ({id + 1}) /\ id' = id + 1 /\ UNCHANGED <<pc, stack, cond>>
  ELSE Fail

FloodAltMatch ==
  /\ Flooding("altmatch")
  /\ GoOn
  /\ UNCHANGED <<nodes, byid, matched>>

\* What a byte range takes: its bytes, and their upper case if it is folded.
Bytes ==
  (ip.lo .. ip.hi) \cup
  {b - CaseShift : b \in {x \in ip.lo .. ip.hi : ip.fold /\ x \in FirstLower .. LastLower}}

\* The action of a byte range, and a node for where it leads.  Another
\* action for one of its bytes refutes the program.
FloodByteRange ==
  LET known    == \E n \in DOMAIN byid : byid[n] = ip.out
      all      == IF known THEN byid ELSE Append(byid, ip.out)
      new      == Action(cond, CHOOSE n \in DOMAIN all : all[n] = ip.out, matched)
      classes  == {prog.bytemap[b] : b \in Bytes}
      acts     == nodes[it].action
      conflict == \E b \in classes : ~Impossible(acts[b]) /\ acts[b] # new
      filled   == [nodes EXCEPT ![it].action =
                     [b \in Class |-> IF b \in classes THEN new ELSE acts[b]]] IN
  /\ Flooding("byte")
  /\ IF conflict \/ (~known /\ Len(byid) >= MaxNodes)
       THEN Fail /\ UNCHANGED <<nodes, byid>>
       ELSE /\ byid' = all
            /\ nodes' = IF known THEN filled ELSE Append(filled, ZeroNode)
            /\ GoOn
  /\ UNCHANGED matched

\* A step that needs no byte.  What is left of the list waits on the stack.
Jump(c) ==
  LET rest == IF ip.last THEN {} ELSE {id + 1} IN
  /\ IF /\ CanAdd(rest \cup {ip.out})
        /\ ip.out # 0 => ip.out \notin rest
       THEN /\ AddQ(rest \cup {ip.out})
            /\ stack' = IF ip.last THEN stack
                        ELSE <<[id |-> id + 1, cond |-> cond]>> \o stack
            /\ id' = ip.out /\ cond' = c
            /\ UNCHANGED pc
       ELSE Fail
  /\ UNCHANGED <<nodes, byid, matched>>

FloodNop == Flooding("nop") /\ Jump(cond)

FloodCapture ==
  /\ Flooding("cap")
  /\ Jump(IF ip.cap < MaxCap THEN [cond EXCEPT !.caps = @ \cup {ip.cap}] ELSE cond)

FloodEmptyWidth ==
  /\ Flooding("empty")
  /\ Jump([cond EXCEPT !.empty = @ \cup ip.empty])

\* A second match refutes the program; the actions after the first are
\* worse than to match.
FloodMatch ==
  /\ Flooding("match")
  /\ IF matched THEN Fail /\ UNCHANGED <<nodes, matched>>
     ELSE /\ matched' = TRUE
          /\ nodes' = [nodes EXCEPT ![it].match = cond]
          /\ GoOn
  /\ UNCHANGED byid

FloodFail ==
  /\ Flooding("fail")
  /\ id' = None
  /\ UNCHANGED <<pc, nodes, byid, workq, stack, cond, matched>>

-----------------------------------------------------------------------------
(***************************************************************************)
(* SearchOnePass.                                                          *)
(***************************************************************************)
NCap == IF call.nmatch = 0 THEN 2 ELSE 2 * call.nmatch

\* A program that must end with the text makes every match a full one.
Kind == IF prog.anchorEnd THEN "full" ELSE call.kind

Search ==
  /\ pc = "ready"
  /\ call' \in Calls
  /\ matched' = FALSE
  /\ IF AnchorsFit(prog, call')
       THEN LET regs == [n \in 0 .. NCap' - 1 |-> IF n = 0 THEN call'.b ELSE NoPos]
            IN  /\ p' = call'.b /\ state' = 1 /\ pc' = "search"
                /\ cap' = regs /\ matchcap' = regs
       ELSE pc' = "done" /\ UNCHANGED <<p, state, cap, matchcap>>
  /\ UNCHANGED <<prog, nodes, byid, it, flood>>

Satisfied(c) == c.empty \subseteq EmptyFlags(call.text, p)

\* The registers that the conditions c name are set to this position.
ApplyCaptures(c, regs) ==
  [n \in DOMAIN regs |-> IF n >= 2 /\ n \in c.caps THEN p ELSE regs[n]]

ApplyIf(c, regs) == IF call.nmatch > 1 THEN ApplyCaptures(c, regs) ELSE regs

MatchHere == [ApplyIf(nodes[state].match, cap) EXCEPT ![1] = p]

\* Is the match here worth recording, if act follows?  Not if the next byte
\* certainly brings a match that is no worse.
WorthIt(act, can) ==
  /\ Kind # "full"
  /\ act.wins \/ ~(can /\ nodes[act.next].match.empty = {})

StepByte ==
  LET act   == nodes[state].action[prog.bytemap[call.text[p + 1]]]
      can   == Satisfied(act)
      match == WorthIt(act, can) /\ Satisfied(nodes[state].match) IN
  /\ pc = "search" /\ p < call.e
  /\ IF match THEN matchcap' = MatchHere /\ matched' = TRUE
              ELSE UNCHANGED <<matchcap, matched>>
  /\ IF ~can \/ (match /\ Kind = "first" /\ act.wins)
       THEN pc' = "done" /\ UNCHANGED <<p, state, cap>>
       ELSE /\ state' = act.next
            /\ cap' = ApplyIf(act, cap)
            /\ p' = p + 1
            /\ UNCHANGED pc
  /\ UNCHANGED <<prog, nodes, byid, it, flood, call>>

AtEnd ==
  /\ pc = "search" /\ p = call.e
  /\ IF Satisfied(nodes[state].match) THEN matchcap' = MatchHere /\ matched' = TRUE
     ELSE UNCHANGED <<matchcap, matched>>
  /\ pc' = "done"
  /\ UNCHANGED <<prog, nodes, byid, it, flood, call, p, state, cap>>

Done == pc \in {"done", "refused"} /\ UNCHANGED vars

FloodAny == \/ FloodAltMatch \/ FloodByteRange \/ FloodNop \/ FloodCapture
            \/ FloodEmptyWidth \/ FloodMatch \/ FloodFail

Next == \/ Refuse \/ Analyse \/ BeginNode \/ Built \/ Pop \/ FloodAny
        \/ Search \/ StepByte \/ AtEnd \/ Done

Spec == Init /\ [][Next]_vars

-----------------------------------------------------------------------------
(***************************************************************************)
(* Properties.                                                             *)
(***************************************************************************)
\* The flood of one node never overruns the stack that was sized from the
\* instruction counts (onepass.cc:404-407).
StackFits == Len(stack) <= StackSize

=============================================================================
