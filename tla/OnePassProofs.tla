--------------------------- MODULE OnePassProofs ----------------------------
(***************************************************************************)
(* The one-pass matcher for every program: the stack of the flood never    *)
(* needs more than was allocated, the limit on nodes is never hit, and the *)
(* search only goes to nodes that were built.                              *)
(*                                                                         *)
(* What waits on the stack waits behind a capture, an empty-width or a     *)
(* nop, each entry behind one of its own, as no instruction is queued      *)
(* twice; only the list a node begins with waits behind nothing.  A node   *)
(* but the first stands for the successor of a byte range, and no two      *)
(* nodes for the same.                                                     *)
(***************************************************************************)
EXTENDS OnePass, FiniteSetTheorems, TLAPS

Id == DOMAIN prog.inst
Having(op) == {n \in Id : prog.inst[n].op = op}
Conds == [empty : SUBSET EmptyOp, caps : SUBSET Nat]
Actions == [empty : SUBSET EmptyOp, caps : SUBSET Nat, next : Nat, wins : BOOLEAN]
Nodes == [match : Conds, action : [Class -> Actions]]

OTypes ==
  /\ prog \in Progs
  /\ byid \in Seq(Id) /\ nodes \in Seq(Nodes) /\ Len(nodes) = Len(byid)
  /\ it \in Nat \ {0}
  /\ stack \in Seq([id : Id, cond : Conds])
  /\ id \in Id \cup {None} /\ cond \in Conds /\ matched \in BOOLEAN

\* Where the machine is.
Where ==
  /\ pc \in {"new", "node", "flood", "ready", "search", "done", "refused"}
  /\ pc = "new" => byid = << >>
  /\ pc \in {"node", "flood", "ready", "search"} => byid # << >>
  /\ pc = "flood" => it <= Len(byid)
  /\ pc \in {"new", "node"} => id = None /\ stack = << >>

\* The nodes stand for different lists, and lead to each other.
Distinct(q) == \A j, k \in DOMAIN q : q[j] = q[k] => j = k
NodesOK ==
  /\ Distinct(byid)
  /\ \A k \in DOMAIN byid : k > 1 => \E n \in Having("byte") : prog.inst[n].out = byid[k]
  /\ \A k \in DOMAIN nodes : \A b \in Class :
       nodes[k].action[b].next \in DOMAIN byid

\* What waits on the stack waits behind an instruction of its own.
StackOK ==
  \/ Len(stack) = 1 /\ id = None /\ workq = {}
  \/ /\ \A k \in DOMAIN stack :
          /\ stack[k].id \in workq
          /\ stack[k].id - 1 \in Having("cap") \cup Having("empty") \cup Having("nop")
     /\ \A j, k \in DOMAIN stack : stack[j].id = stack[k].id => j = k

\* The search is at a node, and in the text.
SearchOK ==
  pc = "search" =>
    /\ call \in Calls /\ state \in DOMAIN nodes /\ p \in call.b .. call.e

OInv == OTypes /\ Where /\ NodesOK /\ StackOK /\ SearchOK

-----------------------------------------------------------------------------
LEMMA ProgramLeads ==
  ASSUME prog \in Progs
  PROVE  /\ Id \subseteq Nat /\ 0 \in Id /\ None \notin Id /\ prog.start \in Id
         /\ IsFiniteSet(Id)
         /\ \A n \in Id :
              /\ prog.inst[n].op \in {"byte", "cap", "empty", "nop"} => prog.inst[n].out \in Id
              /\ ~prog.inst[n].last => n + 1 \in Id
              /\ prog.inst[n].empty \subseteq EmptyOp /\ prog.inst[n].cap \in Nat
              /\ prog.inst[n].op \in OpCode \ {"alt"}
  <1> DEFINE m == Cardinality(Id)
  <1>1. WellFormed(prog)
    BY ProgsAssumption
  <1>2. IsFiniteSet(Id) /\ m \in Nat /\ m > 0 /\ Id = 0 .. m - 1 /\ prog.heads \in Seq(Id)
    BY <1>1, FS_CardinalityType DEF WellFormed, Id
  <1>3. Heads(prog) \subseteq Id
    BY <1>2 DEF Heads
  <1>4. prog.start \in Id /\ Id \subseteq Nat /\ 0 \in Id /\ None \notin Id
    BY <1>1, <1>2, <1>3 DEF WellFormed, None
  <1> HIDE DEF m
  <1>5. ASSUME NEW n \in Id
        PROVE  /\ prog.inst[n].op \in {"byte", "cap", "empty", "nop"} => prog.inst[n].out \in Id
               /\ ~prog.inst[n].last => n + 1 \in Id
               /\ prog.inst[n].empty \subseteq EmptyOp /\ prog.inst[n].cap \in Nat
               /\ prog.inst[n].op \in OpCode \ {"alt"}
    <2>1. InstOK(prog, n)
      BY <1>1 DEF WellFormed, Id
    <2> QED
      BY <2>1, <1>3 DEF InstOK, Id
  <1> QED
    BY <1>2, <1>4, <1>5

\* The parts of a node that is being filled in.
LEMMA NodeIs ==
  ASSUME OInv
  PROVE  /\ DOMAIN nodes = DOMAIN byid /\ DOMAIN byid = 1 .. Len(byid) /\ Len(byid) \in Nat
         /\ pc = "flood" => it \in DOMAIN nodes
         /\ \A k \in DOMAIN nodes :
              /\ nodes[k].match \in Conds /\ nodes[k].action \in [Class -> Actions]
              /\ nodes[k] = [match |-> nodes[k].match, action |-> nodes[k].action]
  <1>1. byid \in Seq(Id) /\ nodes \in Seq(Nodes) /\ Len(nodes) = Len(byid) /\ it \in Nat \ {0}
    BY DEF OInv, OTypes
  <1>2. \A k \in DOMAIN nodes : nodes[k] \in Nodes
    BY <1>1
  <1>3. pc = "flood" => it <= Len(byid)
    BY DEF OInv, Where
  <1> QED
    BY <1>1, <1>2, <1>3 DEF Nodes

LEMMA InitHolds == Init => OInv
  <1> SUFFICES ASSUME Init PROVE OInv
    OBVIOUS
  <1>1. OTypes
    <2>1. \A S : << >> \in Seq(S)
      OBVIOUS
    <2>2. cond \in Conds
      BY DEF Init, Conds
    <2>3. /\ byid \in Seq(Id) /\ nodes \in Seq(Nodes) /\ Len(nodes) = Len(byid)
          /\ stack \in Seq([id : Id, cond : Conds])
      BY <2>1 DEF Init
    <2>4. matched \in BOOLEAN
      BY DEF Init
    <2> QED
      BY <2>2, <2>3, <2>4 DEF Init, OTypes
  <1>2. Where /\ NodesOK /\ StackOK /\ SearchOK
    BY DEF Init, Where, NodesOK, StackOK, SearchOK, Distinct, None
  <1> QED
    BY <1>1, <1>2 DEF OInv

-----------------------------------------------------------------------------
(***************************************************************************)
(* The flood.                                                              *)
(***************************************************************************)
LEMMA TurnKeeps == OInv /\ (Refuse \/ Built \/ Pop \/ FloodFail \/ UNCHANGED vars) => OInv'
  <1> SUFFICES ASSUME OInv, Refuse \/ Built \/ Pop \/ FloodFail \/ UNCHANGED vars PROVE OInv'
    OBVIOUS
  <1>1. UNCHANGED <<prog, nodes, byid, workq, matched, call, p, state>>
    BY DEF Refuse, Built, Pop, FloodFail, Flooding, flood, search, vars
  <1>2. Class' = Class
    BY <1>1 DEF Class
  <1>3. /\ it' \in Nat \ {0} /\ stack' \in Seq([id : Id, cond : Conds])
        /\ id' \in Id \cup {None} /\ cond' \in Conds /\ StackOK'
    <2>1. CASE Pop /\ stack # << >>
      <3>1. /\ id' = Head(stack).id /\ cond' = Head(stack).cond /\ stack' = Tail(stack)
            /\ it' = it
        BY <2>1 DEF Pop
      <3>2. stack \in Seq([id : Id, cond : Conds]) /\ it \in Nat \ {0}
        BY DEF OInv, OTypes
      <3>3. Head(stack) \in [id : Id, cond : Conds] /\ Tail(stack) \in Seq([id : Id, cond : Conds])
            /\ Len(Tail(stack)) = Len(stack) - 1
            /\ \A k \in DOMAIN Tail(stack) : k + 1 \in DOMAIN stack /\ Tail(stack)[k] = stack[k + 1]
        <4> DEFINE S == [id : Id, cond : Conds]
        <4>1. stack \in Seq(S) /\ stack # << >>
          BY <2>1, <3>2
        <4> HIDE DEF S
        <4>2. Head(stack) \in S /\ Tail(stack) \in Seq(S) /\ Len(Tail(stack)) = Len(stack) - 1
              /\ \A k \in DOMAIN Tail(stack) :
                   k + 1 \in DOMAIN stack /\ Tail(stack)[k] = stack[k + 1]
          BY <4>1
        <4> QED
          BY <4>2 DEF S
      <3>4. DOMAIN Tail(stack) \subseteq Nat
        BY <3>3
      <3>5. StackOK'
        <4>1. CASE Len(stack) = 1
          <5>1. stack' = << >>
            BY <3>1, <3>2, <3>3, <4>1
          <5> QED
            BY <5>1 DEF StackOK
        <4>2. CASE Len(stack) # 1
          BY <3>1, <3>3, <3>4, <4>2, <1>1 DEF OInv, StackOK, Having, Id
        <4> QED
          BY <4>1, <4>2
      <3> QED
        BY <3>1, <3>2, <3>3, <3>5
    <2>2. CASE Pop /\ stack = << >>
      BY <1>1, <2>2 DEF Pop, OInv, OTypes, StackOK, Having, Id
    <2>3. CASE Refuse \/ Built \/ UNCHANGED vars
      BY <1>1, <2>3 DEF Refuse, Built, vars, flood, OInv, OTypes, StackOK, Having, Id
    <2>4. CASE FloodFail
      <3>1. UNCHANGED <<stack, cond, it>> /\ id' = None /\ id # None
        BY <2>4 DEF FloodFail, Flooding
      <3> QED
        BY <1>1, <3>1 DEF OInv, OTypes, StackOK, Having, Id
    <2> QED
      BY <2>1, <2>2, <2>3, <2>4
  <1>4. OTypes'
    BY <1>1, <1>2, <1>3 DEF OInv, OTypes, Nodes, Id
  <1>5. Where'
    BY <1>1, <1>3 DEF OInv, OTypes, Where, Refuse, Built, Pop, FloodFail, Flooding, flood, vars
  <1>6. NodesOK' /\ SearchOK'
    <2>1. pc' = "search" => pc = "search"
      BY DEF Refuse, Built, Pop, FloodFail, Flooding, vars
    <2> QED
      BY <1>1, <1>2, <2>1 DEF OInv, NodesOK, SearchOK, Having, Id
  <1> QED
    BY <1>3, <1>4, <1>5, <1>6 DEF OInv

LEMMA AnalyseKeeps == OInv /\ Analyse => OInv'
  <1> SUFFICES ASSUME OInv, Analyse PROVE OInv'
    OBVIOUS
  <1>1. /\ pc = "new" /\ pc' = "node" /\ byid' = <<prog.start>> /\ nodes' = <<ZeroNode>>
        /\ UNCHANGED <<prog, it, workq, stack, id, cond, matched, search>>
    BY DEF Analyse, flood
  <1>2. prog.start \in Id /\ Class' = Class /\ id = None /\ stack = << >> /\ prog \in Progs
    BY <1>1, ProgramLeads DEF OInv, OTypes, Class, Where
  <1>3. ZeroNode \in Nodes /\ \A b \in Class : ZeroNode.action[b].next = 1
    BY DEF ZeroNode, Nodes, Conds, Actions, Action, Uncond
  <1>4. OTypes'
    <2>1. Nodes' = Nodes /\ Id' = Id
      BY <1>1, <1>2 DEF Nodes, Id
    <2>2. byid' \in Seq(Id) /\ nodes' \in Seq(Nodes) /\ Len(nodes') = Len(byid')
      BY <1>1, <1>2, <1>3
    <2> QED
      BY <1>1, <2>1, <2>2 DEF OInv, OTypes
  <1>5. Where'
    BY <1>1, <1>2 DEF Where
  <1>6. NodesOK' /\ StackOK' /\ SearchOK'
    BY <1>1, <1>2, <1>3 DEF NodesOK, StackOK, SearchOK, Distinct
  <1> QED
    BY <1>4, <1>5, <1>6 DEF OInv

LEMMA BeginNodeKeeps == OInv /\ BeginNode => OInv'
  <1> SUFFICES ASSUME OInv, BeginNode PROVE OInv'
    OBVIOUS
  <1>1. /\ pc = "node" /\ it <= Len(byid) /\ pc' = "flood"
        /\ nodes' = [nodes EXCEPT ![it] = EmptyNode]
        /\ workq' = {} /\ matched' = FALSE
        /\ stack' = <<[id |-> byid[it], cond |-> Uncond]>>
        /\ UNCHANGED <<prog, byid, it, id, cond, search>>
    BY DEF BeginNode
  <1>2. Class' = Class /\ id = None
    BY <1>1 DEF Class, OInv, Where
  <1>3. EmptyNode \in Nodes /\ \A b \in Class : EmptyNode.action[b].next = 1
    BY DEF EmptyNode, Nodes, Conds, Actions, Action, Never, EmptyOp
  <1>4. /\ byid \in Seq(Id) /\ it \in DOMAIN byid /\ 1 \in DOMAIN byid /\ byid[it] \in Id
        /\ nodes \in Seq(Nodes) /\ Len(nodes) = Len(byid)
    BY <1>1 DEF OInv, OTypes
  <1>5. nodes' \in Seq(Nodes) /\ Len(nodes') = Len(nodes) /\ DOMAIN nodes' = DOMAIN nodes
        /\ \A k \in DOMAIN nodes : nodes'[k] = IF k = it THEN EmptyNode ELSE nodes[k]
    BY <1>1, <1>3, <1>4
  <1>6. stack' \in Seq([id : Id, cond : Conds]) /\ Len(stack') = 1
    <2>1. Uncond \in Conds
      BY DEF Uncond, Conds
    <2> QED
      BY <1>1, <1>4, <2>1
  <1>7. OTypes'
    BY <1>1, <1>2, <1>5, <1>6 DEF OInv, OTypes, Nodes, Id
  <1>8. Where'
    BY <1>1 DEF OInv, Where
  <1>9. NodesOK'
    BY <1>1, <1>2, <1>3, <1>4, <1>5 DEF OInv, NodesOK, Having, Id
  <1>10. StackOK' /\ SearchOK'
    BY <1>1, <1>2, <1>6 DEF StackOK, SearchOK
  <1> QED
    BY <1>7, <1>8, <1>9, <1>10 DEF OInv

\* A flood that goes on without leaving anything on the stack, or fails.
LEMMA QueueGrows ==
  ASSUME OInv, pc = "flood", id # None, stack' = stack, prog' = prog, workq \subseteq workq'
  PROVE  StackOK'
  BY DEF OInv, StackOK, Having, Id

LEMMA GoOnKeeps ==
  ASSUME OInv, pc = "flood", id # None, UNCHANGED <<prog, it, search>>, Fail \/ GoOn
  PROVE  /\ byid' # << >> /\ Len(byid') >= Len(byid) => Where'
         /\ StackOK' /\ SearchOK'
         /\ stack' = stack /\ cond' = cond /\ id' \in Id \cup {None}
  <1>1. prog \in Progs /\ id \in Id
    BY DEF OInv, OTypes
  <1>2. stack' = stack /\ cond' = cond /\ id' \in Id \cup {None}
    BY <1>1, ProgramLeads DEF Fail, GoOn, ip
  <1>3. pc' \in {"flood", "refused"} /\ workq \subseteq workq'
    BY DEF Fail, GoOn, AddQ
  <1>4. StackOK' /\ SearchOK'
    BY <1>2, <1>3, QueueGrows DEF SearchOK
  <1>5. ASSUME byid' # << >>, Len(byid') >= Len(byid) PROVE Where'
    BY <1>3, <1>5 DEF Where, OInv, OTypes
  <1> QED
    BY <1>2, <1>4, <1>5

LEMMA FloodAltMatchKeeps == OInv /\ FloodAltMatch => OInv'
  <1> SUFFICES ASSUME OInv, FloodAltMatch PROVE OInv'
    OBVIOUS
  <1>1. /\ pc = "flood" /\ id # None /\ GoOn
        /\ UNCHANGED <<prog, it, search, nodes, byid, matched>>
    BY DEF FloodAltMatch, Flooding
  <1>2. byid # << >> /\ byid \in Seq(Id)
    BY <1>1 DEF OInv, Where, OTypes
  <1>3. Where' /\ StackOK' /\ SearchOK' /\ stack' = stack /\ cond' = cond /\ id' \in Id \cup {None}
    BY <1>1, <1>2, GoOnKeeps
  <1>4. OTypes' /\ NodesOK'
    BY <1>1, <1>3 DEF OInv, OTypes, NodesOK, Nodes, Id, Class, Having
  <1> QED
    BY <1>3, <1>4 DEF OInv

LEMMA FloodMatchKeeps == OInv /\ FloodMatch => OInv'
  <1> SUFFICES ASSUME OInv, FloodMatch PROVE OInv'
    OBVIOUS
  <1>1. /\ pc = "flood" /\ id # None /\ (Fail \/ GoOn)
        /\ UNCHANGED <<prog, it, search, byid>>
        /\ nodes' = nodes \/ nodes' = [nodes EXCEPT ![it].match = cond]
        /\ matched' \in BOOLEAN
    BY DEF FloodMatch, Flooding, OInv, OTypes
  <1>2. byid # << >> /\ byid \in Seq(Id) /\ nodes \in Seq(Nodes) /\ it \in DOMAIN nodes
    BY <1>1, NodeIs DEF OInv, Where, OTypes
  <1>3. Where' /\ StackOK' /\ SearchOK' /\ stack' = stack /\ cond' = cond /\ id' \in Id \cup {None}
    BY <1>1, <1>2, GoOnKeeps
  <1>4. /\ nodes' \in Seq(Nodes) /\ Len(nodes') = Len(nodes) /\ DOMAIN nodes' = DOMAIN nodes
        /\ \A k \in DOMAIN nodes : nodes'[k].action = nodes[k].action
    <2>1. CASE nodes' = nodes
      BY <1>2, <2>1
    <2>2. CASE nodes' = [nodes EXCEPT ![it].match = cond]
      <3>1. [nodes[it] EXCEPT !.match = cond] \in Nodes
            /\ [nodes[it] EXCEPT !.match = cond].action = nodes[it].action
        BY <1>2, NodeIs DEF OInv, OTypes, Nodes
      <3> DEFINE new == [nodes[it] EXCEPT !.match = cond]
      <3>2. nodes' = [nodes EXCEPT ![it] = new]
        BY <2>2
      <3> HIDE DEF new
      <3> QED
        BY <1>2, <3>1, <3>2 DEF new
    <2> QED
      BY <1>1, <2>1, <2>2
  <1>5. OTypes' /\ NodesOK'
    BY <1>1, <1>3, <1>4 DEF OInv, OTypes, NodesOK, Nodes, Id, Class, Having
  <1> QED
    BY <1>3, <1>5 DEF OInv

\* The node of a byte range's successor is there already, or is new.
LEMMA NodesGrow ==
  ASSUME OInv, id \in Having("byte"),
         byid' = IF \E n \in DOMAIN byid : byid[n] = ip.out THEN byid ELSE Append(byid, ip.out)
  PROVE  /\ byid' \in Seq(Id) /\ byid' # << >> /\ Len(byid') >= Len(byid)
         /\ DOMAIN byid \subseteq DOMAIN byid' /\ Distinct(byid')
         /\ \A k \in DOMAIN byid' : k > 1 /\ k \notin DOMAIN byid =>
              \E n \in Having("byte") : prog.inst[n].out = byid'[k]
         /\ \A k \in DOMAIN byid : byid'[k] = byid[k]
         /\ \E n \in DOMAIN byid' : byid'[n] = ip.out
  <1>1. byid \in Seq(Id) /\ ip.out \in Id /\ ip = prog.inst[id] /\ Distinct(byid)
    BY ProgramLeads DEF OInv, OTypes, NodesOK, Having, ip, Id
  <1> DEFINE out == ip.out
  <1> HIDE DEF out
  <1>2. CASE \E n \in DOMAIN byid : byid[n] = out
    BY <1>1, <1>2 DEF out
  <1>3. CASE ~\E n \in DOMAIN byid : byid[n] = out
    <2>1. byid' = Append(byid, out)
      BY <1>3 DEF out
    <2>2. /\ byid' \in Seq(Id) /\ Len(byid') = Len(byid) + 1 /\ Len(byid) \in Nat
          /\ DOMAIN byid' = 1 .. Len(byid) + 1 /\ DOMAIN byid = 1 .. Len(byid)
          /\ byid'[Len(byid) + 1] = out /\ \A k \in DOMAIN byid : byid'[k] = byid[k]
      BY <1>1, <2>1 DEF out
    <2>3. Distinct(byid')
      BY <1>1, <1>3, <2>2 DEF Distinct
    <2>4. byid' # << >>
      BY <2>2
    <2> QED
      BY <1>1, <2>2, <2>3, <2>4 DEF out
  <1> QED
    BY <1>2, <1>3

LEMMA FloodByteRangeKeeps == OInv /\ FloodByteRange => OInv'
  <1> SUFFICES ASSUME OInv, FloodByteRange PROVE OInv'
    OBVIOUS
  <1> DEFINE known   == \E n \in DOMAIN byid : byid[n] = ip.out
             all     == IF known THEN byid ELSE Append(byid, ip.out)
             new     == Action(cond, CHOOSE n \in DOMAIN all : all[n] = ip.out, matched)
             classes == {prog.bytemap[b] : b \in Bytes}
             acts    == [b \in Class |-> IF b \in classes THEN new ELSE nodes[it].action[b]]
             filled  == [nodes EXCEPT ![it].action = acts]
  <1>1. /\ pc = "flood" /\ id # None /\ ip.op = "byte"
        /\ UNCHANGED <<prog, it, search, matched>>
    BY DEF FloodByteRange, Flooding
  <1>2. byid # << >> /\ byid \in Seq(Id) /\ nodes \in Seq(Nodes) /\ it \in DOMAIN nodes
        /\ DOMAIN nodes = DOMAIN byid
    BY <1>1, NodeIs DEF OInv, Where, OTypes
  <1>3. \/ Fail /\ UNCHANGED <<nodes, byid>>
        \/ /\ GoOn /\ byid' = all
           /\ nodes' = IF known THEN filled ELSE Append(filled, ZeroNode)
    BY DEF FloodByteRange
  <1>4. CASE Fail /\ UNCHANGED <<nodes, byid>>
    <2>1. Where' /\ StackOK' /\ SearchOK' /\ stack' = stack /\ cond' = cond /\ id' \in Id \cup {None}
      BY <1>1, <1>2, <1>4, GoOnKeeps
    <2>2. OTypes' /\ NodesOK'
      BY <1>1, <1>4, <2>1 DEF OInv, OTypes, NodesOK, Nodes, Id, Class, Having
    <2> QED
      BY <2>1, <2>2 DEF OInv
  <1>5. CASE /\ GoOn /\ byid' = all
             /\ nodes' = IF known THEN filled ELSE Append(filled, ZeroNode)
    <2>1. id \in Having("byte")
      BY <1>1 DEF OInv, OTypes, Having, ip
    <2>2. /\ byid' \in Seq(Id) /\ byid' # << >> /\ Len(byid') >= Len(byid)
          /\ DOMAIN byid \subseteq DOMAIN byid' /\ Distinct(byid')
          /\ \A k \in DOMAIN byid' : k > 1 /\ k \notin DOMAIN byid =>
               \E n \in Having("byte") : prog.inst[n].out = byid'[k]
          /\ \A k \in DOMAIN byid : byid'[k] = byid[k]
          /\ \E n \in DOMAIN byid' : byid'[n] = ip.out
      BY <1>5, <2>1, NodesGrow
    <2>3. Where' /\ StackOK' /\ SearchOK' /\ stack' = stack /\ cond' = cond /\ id' \in Id \cup {None}
      BY <1>1, <1>5, <2>2, GoOnKeeps
    <2>4. new \in Actions /\ new.next \in DOMAIN byid'
      <3>1. PICK m : m = (CHOOSE n \in DOMAIN all : all[n] = ip.out)
        OBVIOUS
      <3>2. m \in DOMAIN byid' /\ m \in Nat
        BY <1>5, <2>2, <3>1
      <3>3. cond \in Conds /\ matched \in BOOLEAN
        BY DEF OInv, OTypes
      <3>4. new = Action(cond, m, matched)
        BY <3>1
      <3> HIDE DEF new
      <3> QED
        BY <3>2, <3>3, <3>4 DEF Action, Actions, Conds
    <2> HIDE DEF new, classes
    <2>5. /\ acts \in [Class -> Actions]
          /\ \A b \in Class : acts[b].next \in DOMAIN byid'
      BY <1>2, <2>2, <2>4, NodeIs DEF OInv, NodesOK
    <2> HIDE DEF acts
    <2>6. /\ filled \in Seq(Nodes) /\ Len(filled) = Len(nodes) /\ DOMAIN filled = DOMAIN nodes
          /\ \A k \in DOMAIN nodes : \A b \in Class : filled[k].action[b].next \in DOMAIN byid'
      <3> DEFINE node == [nodes[it] EXCEPT !.action = acts]
      <3>1. node \in Nodes /\ node.action = acts
        BY <1>2, <2>5, NodeIs DEF Nodes
      <3>2. filled = [nodes EXCEPT ![it] = node]
        OBVIOUS
      <3> HIDE DEF node
      <3>3. /\ filled \in Seq(Nodes) /\ Len(filled) = Len(nodes) /\ DOMAIN filled = DOMAIN nodes
            /\ \A k \in DOMAIN nodes : filled[k] = IF k = it THEN node ELSE nodes[k]
        BY <1>2, <3>1, <3>2
      <3> HIDE DEF filled
      <3> QED
        BY <1>2, <2>2, <2>5, <3>1, <3>3 DEF OInv, NodesOK
    <2> HIDE DEF filled
    <2>7. ZeroNode \in Nodes /\ \A b \in Class : ZeroNode.action[b].next = 1
      BY DEF ZeroNode, Nodes, Conds, Actions, Action, Uncond
    <2>8. /\ nodes' \in Seq(Nodes) /\ Len(nodes') = Len(byid')
          /\ \A k \in DOMAIN nodes' : \A b \in Class : nodes'[k].action[b].next \in DOMAIN byid'
      <3>1. Len(nodes) = Len(byid) /\ 1 \in DOMAIN byid'
        BY <1>2, <2>2 DEF OInv, OTypes
      <3>2. CASE known
        BY <1>5, <2>6, <3>1, <3>2
      <3>3. CASE ~known
        <4>1. nodes' = Append(filled, ZeroNode) /\ Len(byid') = Len(byid) + 1
          BY <1>2, <1>5, <3>3
        <4>2. PICK zero : zero = ZeroNode
          OBVIOUS
        <4>3. /\ nodes' \in Seq(Nodes) /\ Len(nodes') = Len(filled) + 1
              /\ DOMAIN nodes' = DOMAIN filled \cup {Len(filled) + 1}
              /\ \A k \in DOMAIN nodes' : nodes'[k] = IF k \in DOMAIN filled THEN filled[k] ELSE zero
          BY <2>6, <2>7, <4>1, <4>2
        <4> QED
          BY <2>6, <2>7, <3>1, <4>1, <4>2, <4>3
      <3> QED
        BY <3>2, <3>3
    <2>9. OTypes'
      BY <1>1, <2>2, <2>3, <2>8 DEF OInv, OTypes, Nodes, Id, Class
    <2>10. NodesOK'
      BY <1>1, <2>2, <2>8 DEF OInv, NodesOK, Having, Id, Class
    <2> QED
      BY <2>3, <2>9, <2>10 DEF OInv
  <1> QED
    BY <1>3, <1>4, <1>5

\* What is left of a list goes on the stack: it was not queued before.
LEMMA JumpKeeps ==
  ASSUME OInv, NEW k, k \in Conds, Jump(k), pc = "flood",
         id \in Having("cap") \cup Having("empty") \cup Having("nop"),
         UNCHANGED <<prog, it, search>>
  PROVE  OInv'
  <1> DEFINE rest == IF ip.last THEN {} ELSE {id + 1}
             top  == [id |-> id + 1, cond |-> cond]
  <1>1. /\ UNCHANGED <<nodes, byid, matched>>
        /\ \/ pc' = "refused" /\ UNCHANGED <<workq, stack, id, cond>>
           \/ /\ ((rest \cup {ip.out}) \ {0}) \cap workq = {}
              /\ workq' = workq \cup ((rest \cup {ip.out}) \ {0})
              /\ stack' = IF ip.last THEN stack ELSE <<top>> \o stack
              /\ id' = ip.out /\ cond' = k /\ pc' = pc
    BY DEF Jump, Fail, CanAdd, AddQ
  <1>2. /\ prog \in Progs /\ id \in Id /\ ip = prog.inst[id] /\ ip.out \in Id
        /\ ~ip.last => id + 1 \in Id
        /\ Id \subseteq Nat /\ None \notin Id
        /\ stack \in Seq([id : Id, cond : Conds]) /\ cond \in Conds
    BY ProgramLeads DEF OInv, OTypes, Having, ip
  <1>3. Where' /\ SearchOK'
    BY <1>1 DEF OInv, OTypes, Where, SearchOK
  <1>4. CASE UNCHANGED <<workq, stack, id, cond>>
    BY <1>1, <1>3, <1>4 DEF OInv, OTypes, NodesOK, StackOK, Nodes, Id, Class, Having
  <1>5. CASE /\ ((rest \cup {ip.out}) \ {0}) \cap workq = {}
             /\ workq' = workq \cup ((rest \cup {ip.out}) \ {0})
             /\ stack' = IF ip.last THEN stack ELSE <<top>> \o stack
             /\ id' = ip.out /\ cond' = k /\ pc' = pc
    <2>1. /\ \A j \in DOMAIN stack :
               /\ stack[j].id \in workq
               /\ stack[j].id - 1 \in Having("cap") \cup Having("empty") \cup Having("nop")
          /\ \A j, n \in DOMAIN stack : stack[j].id = stack[n].id => j = n
      BY <1>2 DEF OInv, StackOK
    <2>2. CASE ip.last
      BY <1>1, <1>2, <1>3, <1>5, <2>1, <2>2 DEF OInv, OTypes, NodesOK, StackOK, Nodes, Id, Class, Having
    <2>3. CASE ~ip.last
      <3>1. top \in [id : Id, cond : Conds] /\ top.id = id + 1
        BY <1>2, <2>3
      <3>2. id + 1 \in workq' /\ id + 1 \notin workq /\ workq \subseteq workq'
        BY <1>2, <1>5, <2>3
      <3> DEFINE S == [id : Id, cond : Conds]
      <3> HIDE DEF top, S
      <3>3. /\ stack' \in Seq(S) /\ Len(stack') = Len(stack) + 1 /\ Len(stack) \in Nat
            /\ DOMAIN stack' = 1 .. Len(stack) + 1 /\ DOMAIN stack = 1 .. Len(stack)
            /\ stack'[1] = top
            /\ \A j \in DOMAIN stack : stack'[j + 1] = stack[j]
        BY <1>2, <1>5, <2>3, <3>1 DEF S
      <3>4. \A j \in DOMAIN stack' : j = 1 \/ (j - 1 \in DOMAIN stack /\ stack'[j] = stack[j - 1])
        BY <3>3
      <3>5. StackOK'
        <4>1. \A j \in DOMAIN stack' :
                /\ stack'[j].id \in workq'
                /\ stack'[j].id - 1 \in Having("cap") \cup Having("empty") \cup Having("nop")
          <5> SUFFICES ASSUME NEW j \in DOMAIN stack'
                       PROVE  /\ stack'[j].id \in workq'
                              /\ stack'[j].id - 1 \in
                                   Having("cap") \cup Having("empty") \cup Having("nop")
            OBVIOUS
          <5>1. CASE j = 1
            <6>1. stack'[j].id = id + 1 /\ id \in Nat
              BY <1>2, <3>1, <3>3, <5>1
            <6>2. stack'[j].id - 1 = id
              BY <6>1
            <6> QED
              BY <3>2, <6>1, <6>2
          <5>2. CASE j # 1
            BY <2>1, <3>2, <3>4, <5>2
          <5> QED
            BY <5>1, <5>2
        <4>2. \A j, n \in DOMAIN stack' : stack'[j].id = stack'[n].id => j = n
          BY <2>1, <3>1, <3>2, <3>3, <3>4
        <4> QED
          BY <4>1, <4>2 DEF StackOK, Having, Id
      <3>6. OTypes'
        BY <1>1, <1>2, <1>5, <3>3 DEF OInv, OTypes, Nodes, Id, Class, S
      <3>7. NodesOK'
        BY <1>1 DEF OInv, NodesOK, Nodes, Id, Class, Having
      <3> QED
        BY <1>3, <3>5, <3>6, <3>7 DEF OInv
    <2> QED
      BY <2>2, <2>3
  <1> QED
    BY <1>1, <1>4, <1>5

LEMMA FloodLeavingKeeps == OInv /\ (FloodNop \/ FloodCapture \/ FloodEmptyWidth) => OInv'
  <1> SUFFICES ASSUME OInv, FloodNop \/ FloodCapture \/ FloodEmptyWidth PROVE OInv'
    OBVIOUS
  <1>1. pc = "flood" /\ id # None /\ UNCHANGED <<prog, it, search>>
    BY DEF FloodNop, FloodCapture, FloodEmptyWidth, Flooding
  <1>2. id \in Id /\ cond \in Conds /\ prog \in Progs /\ ip = prog.inst[id]
    BY <1>1 DEF OInv, OTypes, ip
  <1>3. ip.cap \in Nat /\ ip.empty \subseteq EmptyOp
    BY <1>2, ProgramLeads
  <1>4. id \in Having("cap") \cup Having("empty") \cup Having("nop")
    BY <1>2 DEF FloodNop, FloodCapture, FloodEmptyWidth, Flooding, Having
  <1>5. CASE FloodNop
    BY <1>1, <1>2, <1>4, <1>5, JumpKeeps DEF FloodNop
  <1>6. CASE FloodCapture
    <2> DEFINE k == IF ip.cap < MaxCap THEN [cond EXCEPT !.caps = @ \cup {ip.cap}] ELSE cond
    <2>1. k \in Conds
      BY <1>2, <1>3 DEF Conds
    <2> HIDE DEF k
    <2>2. Jump(k)
      BY <1>6 DEF FloodCapture, k
    <2> QED
      BY <1>1, <1>4, <2>1, <2>2, JumpKeeps
  <1>7. CASE FloodEmptyWidth
    <2> DEFINE k == [cond EXCEPT !.empty = @ \cup ip.empty]
    <2>1. k \in Conds
      BY <1>2, <1>3 DEF Conds
    <2> HIDE DEF k
    <2>2. Jump(k)
      BY <1>7 DEF FloodEmptyWidth, k
    <2> QED
      BY <1>1, <1>4, <2>1, <2>2, JumpKeeps
  <1> QED
    BY <1>5, <1>6, <1>7

-----------------------------------------------------------------------------
(***************************************************************************)
(* The search, which reads the nodes.                                      *)
(***************************************************************************)
LEMMA SearchKeeps == OInv /\ (Search \/ StepByte \/ AtEnd) => OInv'
  <1> SUFFICES ASSUME OInv, Search \/ StepByte \/ AtEnd PROVE OInv'
    OBVIOUS
  <1>1. UNCHANGED <<prog, nodes, byid, it, workq, stack, id, cond>>
    BY DEF Search, StepByte, AtEnd, flood
  <1>2. Class' = Class
    BY <1>1 DEF Class
  <1>3. pc \in {"ready", "search"} /\ pc' \in {"ready", "search", "done"} /\ matched' \in BOOLEAN
    BY DEF Search, StepByte, AtEnd, OInv, OTypes
  <1>4. OTypes' /\ Where' /\ NodesOK' /\ StackOK'
    BY <1>1, <1>2, <1>3 DEF OInv, OTypes, Where, NodesOK, StackOK, Nodes, Id, Having
  <1>5. SearchOK'
    <2>1. SUFFICES ASSUME pc' = "search" PROVE SearchOK'
      BY DEF SearchOK
    <2>2. CASE Search
      <3>1. call' \in Calls /\ p' = call'.b /\ state' = 1
        BY <2>1, <2>2 DEF Search
      <3>2. call'.b \in call'.b .. call'.e
        BY <3>1, CallsAssumption
      <3>3. byid # << >> /\ byid \in Seq(Id)
        BY <1>3 DEF OInv, Where, OTypes
      <3> QED
        BY <1>1, <3>1, <3>2, <3>3, NodeIs DEF SearchOK
    <2>3. CASE StepByte
      <3> DEFINE b == prog.bytemap[call.text[p + 1]]
      <3>1. /\ pc = "search" /\ p < call.e /\ p' = p + 1 /\ call' = call
            /\ state' = nodes[state].action[b].next
        BY <2>1, <2>3 DEF StepByte
      <3>2. call \in Calls /\ state \in DOMAIN nodes /\ p \in call.b .. call.e
        BY <3>1 DEF OInv, SearchOK
      <3>3. call.text \in Seq(Byte) /\ call.b \in Nat /\ call.e \in Nat /\ call.e <= Len(call.text)
        BY <3>2, CallsAssumption
      <3>4. call.text[p + 1] \in Byte
        BY <3>1, <3>2, <3>3
      <3>5. b \in Class
        BY <3>4 DEF Class
      <3> HIDE DEF b
      <3>6. state' \in DOMAIN nodes
        BY <3>1, <3>2, <3>5, NodeIs DEF OInv, NodesOK
      <3>7. p' \in call.b .. call.e
        BY <3>1, <3>2, <3>3
      <3> QED
        BY <1>1, <3>1, <3>2, <3>6, <3>7 DEF SearchOK
    <2>4. CASE AtEnd
      BY <2>1, <2>4 DEF AtEnd
    <2> QED
      BY <2>2, <2>3, <2>4
  <1> QED
    BY <1>4, <1>5 DEF OInv

LEMMA OnePassInvariance == Spec => []OInv
  <1>1. OInv /\ [Next]_vars => OInv'
    <2> SUFFICES ASSUME OInv, [Next]_vars PROVE OInv'
      OBVIOUS
    <2>1. CASE FloodAny
      BY <2>1, FloodAltMatchKeeps, FloodByteRangeKeeps, FloodLeavingKeeps, FloodMatchKeeps,
         TurnKeeps DEF FloodAny
    <2> QED
      BY <2>1, TurnKeeps, AnalyseKeeps, BeginNodeKeeps, SearchKeeps DEF Next, Done
  <1> QED
    BY <1>1, InitHolds, PTL DEF Spec

-----------------------------------------------------------------------------
(***************************************************************************)
(* The theorems.                                                           *)
(***************************************************************************)
LEMMA Counts ==
  ASSUME OInv, NEW op
  PROVE  /\ IsFiniteSet(Having(op)) /\ Cardinality(Having(op)) \in Nat
         /\ InstCount(prog, op) = Cardinality(Having(op))
  <1>1. Having(op) \subseteq Id /\ IsFiniteSet(Id)
    BY ProgramLeads DEF OInv, OTypes, Having
  <1> QED
    BY <1>1, FS_Subset, FS_CardinalityType DEF InstCount, Having, Id

LEMMA UnionCounts ==
  ASSUME NEW S, NEW R, IsFiniteSet(S), IsFiniteSet(R)
  PROVE  /\ IsFiniteSet(S \cup R) /\ Cardinality(S \cup R) \in Nat
         /\ Cardinality(S \cup R) <= Cardinality(S) + Cardinality(R)
  <1>1. IsFiniteSet(S \cup R)
        /\ Cardinality(S \cup R) = Cardinality(S) + Cardinality(R) - Cardinality(S \cap R)
    BY FS_Union
  <1>2. IsFiniteSet(S \cap R)
    BY FS_Intersection
  <1>3. /\ Cardinality(S \cup R) \in Nat /\ Cardinality(S) \in Nat
        /\ Cardinality(R) \in Nat /\ Cardinality(S \cap R) \in Nat
    BY <1>1, <1>2, FS_CardinalityType
  <1> QED
    BY <1>1, <1>3

\* No more entries than there are instructions they wait behind.
LEMMA InjectiveLen ==
  ASSUME NEW n \in Nat, NEW S, IsFiniteSet(S), NEW f \in [1 .. n -> S],
         \A j, k \in 1 .. n : f[j] = f[k] => j = k
  PROVE  n <= Cardinality(S)
  <1>1. f \in Injection(1 .. n, S)
    BY DEF Injection, IsInjective
  <1>2. Cardinality(1 .. n) = n
    BY FS_Interval
  <1> QED
    BY <1>1, <1>2, FS_Injection

\* The stack of the flood, allocated from the instruction counts, is never
\* overrun (onepass.cc:404-407, 534-535).
THEOREM FloodStackSuffices == Spec => []StackFits
  <1>1. OInv => StackFits
    <2> SUFFICES ASSUME OInv PROVE StackFits
      OBVIOUS
    <2> DEFINE S == (Having("cap") \cup Having("empty")) \cup Having("nop")
               total == InstCount(prog, "cap") + InstCount(prog, "empty") + InstCount(prog, "nop")
    <2>1. IsFiniteSet(S) /\ Cardinality(S) <= total /\ total \in Nat
      <3>1. /\ IsFiniteSet(Having("cap") \cup Having("empty"))
            /\ Cardinality(Having("cap") \cup Having("empty")) \in Nat
            /\ Cardinality(Having("cap") \cup Having("empty"))
                 <= Cardinality(Having("cap")) + Cardinality(Having("empty"))
        BY Counts, UnionCounts
      <3> QED
        BY <3>1, Counts, UnionCounts
    <2>2. stack \in Seq([id : Id, cond : Conds]) /\ Id \subseteq Nat
      BY ProgramLeads DEF OInv, OTypes
    <2>3. CASE Len(stack) = 1
      BY <2>1, <2>3 DEF StackFits, StackSize
    <2>4. CASE Len(stack) # 1
      <3> DEFINE f == [k \in 1 .. Len(stack) |-> stack[k].id - 1]
      <3>1. DOMAIN stack = 1 .. Len(stack) /\ Len(stack) \in Nat
            /\ \A k \in DOMAIN stack : stack[k].id \in Nat
        <4> DEFINE R == [id : Id, cond : Conds]
        <4>1. stack \in Seq(R) /\ \A x \in R : x.id \in Nat
          BY <2>2
        <4> HIDE DEF R
        <4> QED
          BY <4>1
      <3>2. f \in [1 .. Len(stack) -> S] /\ \A j, k \in 1 .. Len(stack) : f[j] = f[k] => j = k
        BY <2>4, <3>1 DEF OInv, StackOK
      <3> HIDE DEF f, S
      <3>3. Len(stack) <= Cardinality(S) /\ Cardinality(S) \in Nat
        BY <2>1, <3>1, <3>2, InjectiveLen, FS_CardinalityType
      <3> QED
        BY <2>1, <3>1, <3>3 DEF StackFits, StackSize
    <2> QED
      BY <2>3, <2>4
  <1> QED
    BY <1>1, OnePassInvariance, PTL

\* IsOnePass never has as many nodes as the limit it sets itself, so no program
\* is refused for that (onepass.cc:396, 463-469).
NodesFit == Len(nodes) = Len(byid) /\ Len(byid) < MaxNodes
THEOREM NodeLimitNotHit == Spec => []NodesFit
  <1>1. OInv => NodesFit
    <2> SUFFICES ASSUME OInv PROVE NodesFit
      OBVIOUS
    <2>1. byid \in Seq(Id) /\ Len(nodes) = Len(byid)
      BY DEF OInv, OTypes
    <2>2. IsFiniteSet(Having("byte")) /\ InstCount(prog, "byte") = Cardinality(Having("byte"))
          /\ Cardinality(Having("byte")) \in Nat
      BY Counts
    <2>3. CASE Len(byid) <= 1
      BY <2>1, <2>2, <2>3 DEF NodesFit, MaxNodes
    <2>4. CASE Len(byid) > 1
      <3> DEFINE n == Len(byid) - 1
                 f == [k \in 1 .. n |-> CHOOSE x \in Having("byte") : prog.inst[x].out = byid[k + 1]]
      <3>1. n \in Nat /\ DOMAIN byid = 1 .. n + 1
        BY <2>1, <2>4
      <3>2. \A k \in 1 .. n : k + 1 \in DOMAIN byid /\ k + 1 > 1
        BY <3>1
      <3>3. \A k \in 1 .. n : f[k] \in Having("byte") /\ prog.inst[f[k]].out = byid[k + 1]
        BY <3>2 DEF OInv, NodesOK
      <3>4. f \in [1 .. n -> Having("byte")]
        BY <3>3
      <3>5. \A j, k \in 1 .. n : f[j] = f[k] => j = k
        BY <3>2, <3>3 DEF OInv, NodesOK, Distinct
      <3> HIDE DEF f
      <3>6. n <= Cardinality(Having("byte"))
        BY <2>2, <3>1, <3>4, <3>5, InjectiveLen
      <3> QED
        BY <2>1, <2>2, <3>1, <3>6 DEF NodesFit, MaxNodes
    <2> QED
      BY <2>1, <2>3, <2>4
  <1> QED
    BY <1>1, OnePassInvariance, PTL

\* SearchOnePass is always at a node that was built, whichever actions it has
\* followed, and within its text (onepass.cc:243-307 computes the address of a
\* node from the index in an action, unchecked).
AtNode == pc = "search" => state \in DOMAIN nodes /\ p \in call.b .. call.e
THEOREM SearchStaysBuilt == Spec => []AtNode
  <1>1. OInv => AtNode
    BY DEF OInv, SearchOK, AtNode
  <1> QED
    BY <1>1, OnePassInvariance, PTL
=============================================================================
