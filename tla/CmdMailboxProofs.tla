-------------------------- MODULE CmdMailboxProofs --------------------------
(***************************************************************************)
(* Node conservation in CmdMailbox for every set of callers, every pool    *)
(* size and every bound. CmdQueueProofs builds on it. Liveness stays with  *)
(* TLC.                                                                    *)
(***************************************************************************)
EXTENDS CmdMailbox, FiniteSetTheorems, TLAPS

USE DEF vars, callerVars, mgrVars, queueVars, poolVars, workVars, linkVars,
        wireVars, counters, Goto, MgrGoto, Fault

-----------------------------------------------------------------------------
(* The inductive invariant *)

\* The steps of a call during which it holds a node
HoldLabels == {"seq", "queue", "wait", "quarantine", "finish", "decode",
               "recycle", "drop"}

NodeTypes ==
    /\ pc \in [Callers -> CallLabels]
    /\ own \in [Callers -> Nodes \cup {NoNode}]
    /\ free \subseteq Nodes /\ pool \in BOOLEAN /\ inUse \in Nat

\* A caller holds a node exactly between taking and recycling it.
HoldsWhileInCall ==
    \A t \in Callers : own[t] # NoNode <=> pc[t] \in HoldLabels

\* No pool, no free nodes
NoPoolNoFree == ~pool => free = {}

NodeInv == NodeTypes /\ HoldsWhileInCall /\ NoPoolNoFree /\ NodesConserved

-----------------------------------------------------------------------------
(* Lemmas *)

\* Any set of callers that hold nodes is finite.
LEMMA HoldingFinite == IsFiniteSet(Holding)
<1>1. IsFiniteSet(Callers)
  BY UsersAssumption, FS_AddElement DEF Callers
<1> QED  BY <1>1, FS_Subset DEF Holding

\* A step that moves no node and keeps every caller on its side of the hold
\* keeps the invariant.
LEMMA NothingMoves ==
    ASSUME NodeInv, UNCHANGED <<own, free, inUse, pool>>,
           pc' \in [Callers -> CallLabels],
           \A t \in Callers : pc'[t] \in HoldLabels <=> pc[t] \in HoldLabels
    PROVE  NodeInv'
<1>1. NodeTypes' /\ HoldsWhileInCall' /\ NoPoolNoFree'
  BY DEF NodeInv, NodeTypes, HoldsWhileInCall, NoPoolNoFree
<1>2. Holding' = Holding  BY DEF Holding
<1>3. NodesConserved'  BY <1>2 DEF NodeInv, NodesConserved
<1> QED  BY <1>1, <1>3 DEF NodeInv

\* get_free_cmd_node, or its refusal, keeps the invariant.
LEMMA PrepareKeeps ==
    ASSUME NodeInv, NEW t \in Callers, NEW c, Prepare(t, c)
    PROVE  NodeInv'
<1>0. pool' = pool  BY DEF Prepare
<1>1. CASE free # {} /\ inUse' = inUse + 1
               /\ \E n \in free : free' = free \ {n}
                                  /\ own' = [own EXCEPT ![t] = n]
               /\ \E l \in {"seq", "drop"} : pc' = [pc EXCEPT ![t] = l]
  <2> PICK n \in free : free' = free \ {n} /\ own' = [own EXCEPT ![t] = n]
    BY <1>1
  <2> PICK l \in {"seq", "drop"} : pc' = [pc EXCEPT ![t] = l]  BY <1>1
  <2>1. n \in Nodes /\ n # NoNode
    BY NodesAssumption DEF NodeInv, NodeTypes
  <2>2. own[t] = NoNode
    BY DEF NodeInv, HoldsWhileInCall, HoldLabels, Prepare
  <2>3. pool  BY DEF NodeInv, NoPoolNoFree, NodeTypes
  <2>4. NodeTypes'
    BY <1>0, <1>1, <2>1 DEF NodeInv, NodeTypes, CallLabels
  <2>5. HoldsWhileInCall'
    BY <2>1 DEF NodeInv, NodeTypes, HoldsWhileInCall, HoldLabels
  <2>6. NoPoolNoFree'  BY <1>0, <2>3 DEF NoPoolNoFree
  <2>7. Holding' = Holding \cup {t} /\ t \notin Holding
    BY <2>1, <2>2 DEF NodeInv, NodeTypes, Holding
  <2>8. inUse' = Cardinality(Holding')
    BY <1>1, <2>7, HoldingFinite, FS_AddElement DEF NodeInv, NodesConserved
  <2>9. \A u \in Holding : own[u] # n
    BY <2>3 DEF NodeInv, NodesConserved
  <2>10. \A u, v \in Holding' : own'[u] = own'[v] => u = v
    BY <2>7, <2>9 DEF NodeInv, NodeTypes, NodesConserved, Holding
  <2>11. {own'[u] : u \in Holding'} = {own[u] : u \in Holding} \cup {n}
    BY <2>7 DEF NodeInv, NodeTypes, Holding
  <2>12. free' = Nodes \ {own'[u] : u \in Holding'}
    BY <2>3, <2>11 DEF NodeInv, NodesConserved
  <2>13. NodesConserved'
    BY <1>0, <2>3, <2>8, <2>10, <2>12 DEF NodesConserved
  <2> QED  BY <2>4, <2>5, <2>6, <2>13 DEF NodeInv
<1>2. CASE UNCHANGED <<pc, free, inUse, own>>
  BY <1>0, <1>2, NothingMoves DEF NodeInv, NodeTypes
<1> QED  BY <1>1, <1>2 DEF Prepare

\* recycle_cmd_node keeps the invariant.
LEMMA RecycleKeeps ==
    ASSUME NodeInv, NEW t \in Callers, Recycle(t)
    PROVE  NodeInv'
<1> DEFINE n == own[t]
<1>0. /\ pool' = pool /\ inUse' = inUse - 1 /\ free' = free \cup {n}
      /\ own' = [own EXCEPT ![t] = NoNode]
      /\ \E l \in {"kick", "idle"} : pc' = [pc EXCEPT ![t] = l]
  BY DEF Recycle
<1>1. t \in Holding /\ n \in Nodes
  BY DEF NodeInv, NodeTypes, HoldsWhileInCall, HoldLabels, Recycle, Holding
<1>2. pool  BY <1>1 DEF NodeInv, NodesConserved, NodeTypes
<1>3. Holding' = Holding \ {t}
  BY <1>0 DEF NodeInv, NodeTypes, Holding
<1>4. inUse' = Cardinality(Holding') /\ inUse' \in Nat
  <2>1. Cardinality(Holding \ {t}) = Cardinality(Holding) - 1
    BY <1>1, HoldingFinite, FS_RemoveElement
  <2>2. IsFiniteSet(Holding \ {t})
    BY HoldingFinite, FS_RemoveElement
  <2>3. Cardinality(Holding \ {t}) \in Nat  BY <2>2, FS_CardinalityType
  <2> QED  BY <1>0, <1>3, <2>1, <2>3 DEF NodeInv, NodesConserved
<1>5. NodeTypes'
  BY <1>0, <1>1, <1>4 DEF NodeInv, NodeTypes, CallLabels
<1>6. HoldsWhileInCall'
  BY <1>0 DEF NodeInv, NodeTypes, HoldsWhileInCall, HoldLabels
<1>7. NoPoolNoFree'  BY <1>0, <1>2 DEF NoPoolNoFree
<1>8. \A u \in Holding' : own'[u] = own[u]
  BY <1>0, <1>3 DEF NodeInv, NodeTypes, Holding
<1>9. \A u, v \in Holding' : own'[u] = own'[v] => u = v
  BY <1>3, <1>8 DEF NodeInv, NodesConserved
<1>10. free' = Nodes \ {own'[u] : u \in Holding'}
  <2>1. {own'[u] : u \in Holding'} = {own[u] : u \in Holding \ {t}}
    BY <1>3, <1>8
  <2>2. \A u \in Holding \ {t} : own[u] # n
    BY <1>1 DEF NodeInv, NodesConserved
  <2>3. free = Nodes \ {own[u] : u \in Holding}
    BY <1>2 DEF NodeInv, NodesConserved
  <2> QED  BY <1>0, <1>1, <2>1, <2>2, <2>3
<1>11. NodesConserved'
  BY <1>0, <1>2, <1>4, <1>9, <1>10 DEF NodesConserved
<1> QED  BY <1>5, <1>6, <1>7, <1>11 DEF NodeInv

\* Setup, and the end of teardown, replace the pool only when no caller
\* holds one of its nodes.
LEMMA PoolKeeps ==
    ASSUME NodeInv, MgrSetup \/ MgrDrain
    PROVE  NodeInv'
<1>0. UNCHANGED <<pc, own>>  BY DEF MgrSetup, MgrDrain
<1>1. Holding' = Holding  BY <1>0 DEF Holding
<1>2. inUse = 0 \/ ~pool => Holding = {}
  BY HoldingFinite, FS_EmptySet DEF NodeInv, NodesConserved
<1>3. CASE UNCHANGED <<free, inUse, pool>>
  BY <1>0, <1>3, NothingMoves DEF NodeInv, NodeTypes
<1>4. CASE /\ inUse = 0 \/ ~pool
           /\ \/ pool' = TRUE /\ free' = Nodes /\ inUse' = 0
              \/ pool' = FALSE /\ free' = {} /\ inUse' = 0
  <2>1. Holding' = {}  BY <1>1, <1>2, <1>4
  <2>2. Cardinality(Holding') = 0  BY <2>1, FS_EmptySet
  <2>3. NodesConserved'  BY <1>4, <2>1, <2>2 DEF NodesConserved
  <2>4. pool' \in BOOLEAN /\ free' \subseteq Nodes /\ inUse' \in Nat
    <3>1. pool' \in BOOLEAN  BY <1>4, Zenon
    <3>2. free' \subseteq Nodes  BY <1>4, Zenon
    <3>3. inUse' = 0  BY <1>4, Zenon
    <3> QED  BY <3>1, <3>2, <3>3
  <2>5. NodeTypes'  BY <1>0, <2>4 DEF NodeInv, NodeTypes
  <2>6. HoldsWhileInCall'  BY <1>0 DEF NodeInv, HoldsWhileInCall
  <2>7. NoPoolNoFree'  BY <1>4 DEF NoPoolNoFree
  <2> QED  BY <2>3, <2>5, <2>6, <2>7 DEF NodeInv
<1>5. CASE MgrSetup  BY <1>3, <1>4, <1>5 DEF MgrSetup, NodeInv, NodeTypes
<1>6. CASE MgrDrain  BY <1>3, <1>4, <1>6 DEF MgrDrain, Drained
<1> QED  BY <1>5, <1>6

-----------------------------------------------------------------------------
(* The theorem *)

\* A call moves no node between its first and its last step.
LEMMA InCallKeeps ==
    ASSUME NodeInv, NEW t \in Callers,
           AssignSeq(t) \/ QueueNode(t) \/ Timeout(t) \/ Quarantine(t) \/
           Finish(t) \/ Decode(t) \/ Kick(t) \/ KickQueue(t)
    PROVE  NodeInv'
<1> DEFINE Moves(l) == pc' = [pc EXCEPT ![t] = l]
<1> SUFFICES /\ UNCHANGED <<own, free, inUse, pool>>
             /\ \E l \in CallLabels : /\ Moves(l)
                                      /\ l \in HoldLabels
                                             <=> pc[t] \in HoldLabels
  <2>1. \A l \in CallLabels : Moves(l) => pc' \in [Callers -> CallLabels]
    BY DEF NodeInv, NodeTypes
  <2>2. \A l \in CallLabels :
          Moves(l) /\ (l \in HoldLabels <=> pc[t] \in HoldLabels) =>
            \A u \in Callers : pc'[u] \in HoldLabels
                                   <=> pc[u] \in HoldLabels
    BY DEF NodeInv, NodeTypes
  <2> QED  BY <2>1, <2>2, NothingMoves
<1>1. CASE AssignSeq(t)
  BY <1>1 DEF AssignSeq, CallLabels, HoldLabels
<1>2. CASE QueueNode(t)
  BY <1>2 DEF QueueNode, CallLabels, HoldLabels
<1>3. CASE Timeout(t)
  BY <1>3 DEF Timeout, CallLabels, HoldLabels
<1>4. CASE Quarantine(t)
  BY <1>4 DEF Quarantine, CallLabels, HoldLabels
<1>5. CASE Finish(t)
  BY <1>5 DEF Finish, CallLabels, HoldLabels
<1>6. CASE Decode(t)
  BY <1>6 DEF Decode, CallLabels, HoldLabels
<1>7. CASE Kick(t) \/ KickQueue(t)
  BY <1>7 DEF Kick, KickQueue, CallLabels, HoldLabels
<1> QED  BY <1>1, <1>2, <1>3, <1>4, <1>5, <1>6, <1>7

\* The other contexts touch neither callers nor nodes.
LEMMA OthersKeep ==
    ASSUME NodeInv, UNCHANGED <<pc, own, free, inUse, pool>>
    PROVE  NodeInv'
BY NothingMoves DEF NodeInv, NodeTypes

\* NodeInv holds initially.
LEMMA NodeInvInit == Init => NodeInv
<1> SUFFICES ASSUME Init PROVE NodeInv  OBVIOUS
<1>1. NodeTypes  BY DEF Init, NodeTypes, CallLabels
<1>2. HoldsWhileInCall  BY DEF Init, HoldsWhileInCall, HoldLabels
<1>3. Holding = {}  BY DEF Init, Holding
<1>4. NodesConserved  BY <1>3, FS_EmptySet DEF Init, NodesConserved
<1> QED  BY <1>1, <1>2, <1>4 DEF NodeInv, NoPoolNoFree, Init

\* Every step keeps NodeInv.
LEMMA NodeInvNext == NodeInv /\ [Next]_vars => NodeInv'
<1> SUFFICES ASSUME NodeInv, [Next]_vars PROVE NodeInv'  OBVIOUS
<1>1. ASSUME NEW t \in Users, UserCall(t) PROVE NodeInv'
  BY <1>1, PrepareKeeps DEF UserCall, Callers
<1>2. CASE MgrCall
  <2>1. "mgr" \in Callers  BY DEF Callers
  <2> QED  BY <1>2, <2>1, PrepareKeeps DEF MgrCall
<1>3. ASSUME NEW t \in Callers, CallStep(t) PROVE NodeInv'
  BY <1>3, InCallKeeps, RecycleKeeps DEF CallStep
<1>4. CASE MgrSetup \/ MgrDrain  BY <1>4, PoolKeeps
<1>5. CASE CmdWork  BY <1>5, OthersKeep DEF CmdWork
<1>6. CASE SpiSend \/ SpiLose \/ FwAnswer \/ FwMute \/ FwRestart
  BY <1>6, OthersKeep DEF SpiSend, SpiLose, FwAnswer, FwMute, FwRestart
<1>7. CASE RxTake \/ RxGate \/ RxResponse
  BY <1>7, OthersKeep DEF RxTake, RxGate, RxResponse
<1>8. CASE MgrBoot \/ MgrQuiesce \/ MgrRxIdle \/ MgrAbort \/ MgrClear
           \/ MgrDestroy \/ MgrNull
  BY <1>8, OthersKeep DEF MgrBoot, MgrQuiesce, MgrRxIdle, MgrAbort,
     MgrClear, MgrDestroy, MgrNull
<1>9. CASE MgrRecon \/ MgrInitDone \/ MgrCommit \/ MgrPublish \/ MgrFail
           \/ ExitBegin \/ MgrExit \/ MgrFence
  BY <1>9, OthersKeep DEF MgrRecon, MgrInitDone, MgrCommit, MgrPublish,
     MgrFail, ExitBegin, MgrExit, MgrFence
<1>10. CASE UNCHANGED vars  BY <1>10, OthersKeep
<1> QED  BY <1>1, <1>2, <1>3, <1>4, <1>5, <1>6, <1>7, <1>8, <1>9, <1>10
         DEF Next, Manager, Transport

\* Over timeouts, aborts, refused setups and kept pools no command node is
\* lost, shared or freed under its caller (get_free_cmd_node,
\* recycle_cmd_node, esp_commands_setup, esp_commands_teardown).
THEOREM NodesSafe == Spec => []NodesConserved
<1>1. NodeInv => NodesConserved  BY DEF NodeInv
<1> QED  BY <1>1, NodeInvInit, NodeInvNext, PTL DEF Spec

=============================================================================
