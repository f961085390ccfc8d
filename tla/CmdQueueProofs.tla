--------------------------- MODULE CmdQueueProofs ---------------------------
(***************************************************************************)
(* Proofs about the pending queue and the current command of CmdMailbox,   *)
(* on top of CmdMailboxProofs: who owns each node and what its fields say, *)
(* the gates of esp_cmd_work, the quarantine after an ambiguous timeout,   *)
(* that the mailbox implements CmdService, and which responses can still   *)
(* reach which commands.                                                   *)
(***************************************************************************)
EXTENDS CmdMailboxProofs, QueueLemmas

USE DEF vars, callerVars, mgrVars, queueVars, poolVars, workVars, linkVars,
        wireVars, counters, Goto, MgrGoto, Fault

-----------------------------------------------------------------------------
(* The inductive invariant *)

\* The steps of a call between numbering its command and giving it back
Asked == {"queue", "wait", "quarantine", "finish", "decode", "recycle"}

\* The steps during which its node may be with the firmware
Waiting == {"wait", "quarantine", "finish"}

MailTypes ==
    /\ pend \in Seq(Nodes) /\ cur \in Nodes \cup {NoNode}
    /\ nd \in [Nodes -> Node]
    /\ want \in [Callers -> Codes \cup {"none"}]

\* No node is queued twice.
PendOnce == IsInjective(pend)

\* A node nobody holds is as reset_cmd_node left it.
IdleBlank ==
    \A n \in Nodes : (\A t \in Callers : own[t] # n) => nd[n] = Blank

\* The queue and cur_cmd name nodes that somebody holds.
QueuedHeld ==
    /\ \A n \in Range(pend) : \E t \in Callers : own[t] = n
    /\ cur # NoNode => \E t \in Callers : own[t] = cur

\* What the fields of a node say at each step of its caller ...
NodePhase(l, w, r) ==
    /\ w \in Codes
    /\ l \in Asked => r.code = w /\ r.seq # 0
    /\ l = "seq" => r = Blank
    /\ l = "queue" => ~r.done
    /\ l \in {"queue", "drop"} => ~r.sent
    /\ l \in {"decode", "recycle"} => r.done
    /\ ~r.done => r.resp = 0
    /\ r.resp # 0 => r.result = "0"

\* ... and where the node is then
NodePlace(l, n, r) ==
    /\ n \in Range(pend) => l = "wait" /\ ~r.done /\ ~r.sent /\ n # cur
    /\ n = cur => l \in Waiting /\ r.sent
    /\ l = "wait" => r.done \/ n \in Range(pend) \/ n = cur
    /\ l \in Waiting /\ r.sent => n = cur

CallOK(t) == pc[t] \in HoldLabels => /\ NodePhase(pc[t], want[t], nd[own[t]])
                                     /\ NodePlace(pc[t], own[t], nd[own[t]])

MailInv == /\ MailTypes /\ PendOnce /\ IdleBlank /\ QueuedHeld
           /\ \A t \in Callers : CallOK(t)

\* The rest of TypeOK: flags and control ...
ControlTypes ==
    /\ flags \subseteq Flags /\ wq \in {"live", "dying", "null"}
    /\ path \in BOOLEAN /\ ready \in BOOLEAN /\ workQ \in BOOLEAN
    /\ stale \in BOOLEAN
    /\ mpc \in MgrLabels /\ mret \in {"recon", "fail", "gone"}

\* ... messages ...
WireTypes ==
    /\ txq \in Seq(Message) /\ fwq \in Seq(Message)
    /\ rxq \in Seq(Message) /\ hand \in Seq(Message)
    /\ passed \in BOOLEAN /\ boot \in BOOLEAN
    /\ passed => hand # <<>>

\* ... results and counters
CountTypes ==
    /\ out \in [Callers -> {"0", "timedout", "shutdown", "io", "busy",
                            "nomem", "refused"}]
    /\ nextSeq \in 0..(SeqSpace - 1)
    /\ calls \in 0..MaxCalls /\ drawn \in Nat
    /\ boots \in 0..MaxBoots /\ faults \in 0..MaxFaults

OtherTypes == ControlTypes /\ WireTypes /\ CountTypes

\* When the mailbox is closed, and when its work queue is there
MailboxOpen ==
    /\ "CMD_INIT_DONE" \in flags => wq = "live"
    /\ mpc \in {"abort2", "destroy", "null", "drain", "recon", "setup",
                "fail", "gone"}
           => "CMD_INIT_DONE" \notin flags
    /\ "ALLOW_DEINIT" \in flags =>
           /\ "UNLOADING" \in flags
           /\ mpc \in {"deinit", "deinitwait"}

\* While a session is being rebuilt only commands of the rebuilding hold
\* nodes: those of the old session were given back before its setup.
RebuildQuiet ==
    /\ mpc \in {"setup", "init", "initwait", "commit"}
           => "RECONSTRUCT" \in flags
    /\ mpc \in {"init", "initwait", "commit"} => \A t \in Callers :
           own[t] # NoNode => want[t] \in Rebuilding

-----------------------------------------------------------------------------
(* Lemmas *)

\* A caller in a call holds a node of its own.
LEMMA HeldNode ==
    ASSUME NodeInv, NEW t \in Callers, pc[t] \in HoldLabels
    PROVE  /\ own[t] \in Nodes /\ own[t] # NoNode
           /\ \A u \in Callers : own[u] = own[t] => u = t
<1>1. own[t] # NoNode /\ own[t] \in Nodes
  BY DEF NodeInv, NodeTypes, HoldsWhileInCall
<1>2. t \in Holding  BY <1>1 DEF Holding
<1>3. \A u \in Callers : own[u] = own[t] => u \in Holding
  BY <1>1 DEF Holding
<1> QED  BY <1>1, <1>2, <1>3 DEF NodeInv, NodesConserved

\* The two properties the invariant is for: whoever is queued or current has
\* its caller waiting, and a submitted command is the current one.
LEMMA MailInvUse == NodeInv /\ MailInv => QueuesOwned /\ SubmittedIsCurrent
<1> SUFFICES ASSUME NodeInv, MailInv PROVE QueuesOwned /\ SubmittedIsCurrent
  OBVIOUS
<1>1. \A t \in Callers : own[t] # NoNode => pc[t] \in HoldLabels
  BY DEF NodeInv, HoldsWhileInCall
<1>2. \A t \in Callers : pc[t] \in HoldLabels =>
          NodePlace(pc[t], own[t], nd[own[t]])
  BY DEF MailInv, CallOK
<1>3. Range(pend) \subseteq Nodes  BY RangeOfSeq DEF MailInv, MailTypes
<1>4. cur # NoNode => \E t \in Callers : own[t] = cur /\ pc[t] \in Waiting
  BY <1>1, <1>2 DEF MailInv, QueuedHeld, NodePlace
<1>5. \A n \in Range(pend) : \E t \in Callers :
          own[t] = n /\ pc[t] = "wait" /\ ~nd[n].done /\ n # cur
  <2> SUFFICES ASSUME NEW n \in Range(pend)
               PROVE  \E t \in Callers : own[t] = n /\ pc[t] = "wait"
                                         /\ ~nd[n].done /\ n # cur
    OBVIOUS
  <2>1. PICK t \in Callers : own[t] = n  BY DEF MailInv, QueuedHeld
  <2>2. own[t] # NoNode  BY <1>3, <2>1, NodesAssumption
  <2> QED  BY <1>1, <1>2, <2>1, <2>2 DEF NodePlace
<1>6. \A t \in Callers : pc[t] = "wait" =>
          nd[own[t]].done \/ own[t] \in Range(pend) \cup {cur}
  BY <1>2 DEF NodePlace, HoldLabels
<1>7. SubmittedIsCurrent
  BY <1>2 DEF SubmittedIsCurrent, NodePlace, HoldLabels, Waiting
<1> QED  BY <1>4, <1>5, <1>6, <1>7 DEF QueuesOwned, Waiting

\* A step that concerns the node of one caller t, who keeps it, need only be
\* examined there.
LEMMA OneCallKeeps ==
    ASSUME NodeInv, MailInv, NEW t \in Callers, pc[t] \in HoldLabels,
           NEW l \in HoldLabels, pc' = [pc EXCEPT ![t] = l],
           UNCHANGED <<own, want>>,
           NEW r \in Node, nd' = [nd EXCEPT ![own[t]] = r],
           pend' \in Seq(Nodes), IsInjective(pend'),
           Range(pend') \ {own[t]} = Range(pend) \ {own[t]},
           cur' = cur \/ {cur, cur'} = {own[t], NoNode},
           NodePhase(l, want[t], r), NodePlace(l, own[t], r)'
    PROVE  MailInv'
<1> DEFINE n == own[t]
<1>0. n \in Nodes /\ n # NoNode /\ \A u \in Callers : own[u] = n => u = t
  BY HeldNode
<1>1. /\ pc \in [Callers -> CallLabels]
      /\ \A u \in Callers : u # t => pc'[u] = pc[u]
      /\ pc'[t] = l
  BY DEF NodeInv, NodeTypes
<1>2. /\ nd' \in [Nodes -> Node] /\ nd'[n] = r
      /\ \A m \in Nodes : m # n => nd'[m] = nd[m]
  BY <1>0 DEF MailInv, MailTypes
<1>3. cur' \in Nodes \cup {NoNode} /\ \A m \in Nodes : m # n =>
          (cur' = m <=> cur = m)
  BY <1>0, NodesAssumption DEF MailInv, MailTypes
<1>4. MailTypes' /\ PendOnce'
  BY <1>2, <1>3 DEF MailInv, MailTypes, PendOnce
<1>5. IdleBlank'  BY <1>2 DEF MailInv, IdleBlank
<1>6. QueuedHeld'
  BY <1>3 DEF MailInv, QueuedHeld
<1>7. CallOK(t)'  BY <1>0, <1>1, <1>2 DEF CallOK, NodePlace, NodePhase
<1>8. ASSUME NEW u \in Callers, u # t PROVE CallOK(u)'
  <2> SUFFICES ASSUME pc[u] \in HoldLabels
               PROVE  /\ NodePhase(pc[u], want[u], nd[own[u]])
                      /\ NodePlace(pc[u], own[u], nd[own[u]])'
    BY <1>1, <1>2, <1>0, <1>8, HeldNode DEF CallOK
  <2>1. own[u] \in Nodes /\ own[u] # n  BY <1>0, <1>8, HeldNode
  <2>2. /\ own[u] \in Range(pend') <=> own[u] \in Range(pend)
        /\ own[u] = cur' <=> own[u] = cur
        /\ nd'[own[u]] = nd[own[u]] /\ pc'[u] = pc[u]
    BY <1>1, <1>2, <1>3, <1>8, <2>1
  <2> QED  BY <2>2 DEF MailInv, CallOK, NodePlace
<1> QED  BY <1>4, <1>5, <1>6, <1>7, <1>8 DEF MailInv

\* What is known of a caller in a call
LEMMA InCall ==
    ASSUME NodeInv, MailInv, NEW t \in Callers, pc[t] \in HoldLabels
    PROVE  /\ own[t] \in Nodes /\ own[t] # NoNode /\ nd[own[t]] \in Node
           /\ nd = [nd EXCEPT ![own[t]] = nd[own[t]]]
           /\ NodePhase(pc[t], want[t], nd[own[t]])
           /\ NodePlace(pc[t], own[t], nd[own[t]])
           /\ pend \in Seq(Nodes) /\ IsInjective(pend)
           /\ pc \in [Callers -> CallLabels]
BY HeldNode DEF MailInv, CallOK, MailTypes, PendOnce, NodeInv, NodeTypes

\* Completing a node changes nothing else of it.
LEMMA CompletedNode ==
    ASSUME MailInv, NEW n \in Nodes,
           NEW res \in {"0", "timedout", "shutdown", "io"}
    PROVE  \E r \in Node :
             /\ r = Completed(n, res) /\ r.done /\ r.result = res
             /\ r.code = nd[n].code /\ r.seq = nd[n].seq
             /\ r.sent = nd[n].sent /\ r.resp = nd[n].resp
<1>1. nd[n] \in Node  BY DEF MailInv, MailTypes
<1>2. Completed(n, res) \in Node  BY <1>1 DEF Node, Completed
<1>3. Completed(n, res).done /\ Completed(n, res).result = res
  BY <1>1 DEF Node, Completed
<1>4. /\ Completed(n, res).code = nd[n].code
      /\ Completed(n, res).seq = nd[n].seq
      /\ Completed(n, res).sent = nd[n].sent
      /\ Completed(n, res).resp = nd[n].resp
  BY <1>1 DEF Node, Completed
<1> QED  BY <1>2, <1>3, <1>4

-----------------------------------------------------------------------------
(* The steps of a call *)

\* A freshly numbered command is in nobody's queue.
LEMMA AssignSeqKeeps ==
    ASSUME NodeInv, MailInv, OtherTypes, NEW t \in Callers, AssignSeq(t)
    PROVE  MailInv'
<1>1. /\ pc[t] = "seq" /\ pc' = [pc EXCEPT ![t] = "queue"]
      /\ nd' = [nd EXCEPT ![own[t]] =
                    [Blank EXCEPT !.code = want[t], !.seq = nextSeq',
                                  !.id = drawn']]
      /\ UNCHANGED <<own, want, pend, cur>>
  BY DEF AssignSeq
<1>2. /\ NodePhase("seq", want[t], nd[own[t]])
      /\ NodePlace("seq", own[t], nd[own[t]])
  BY <1>1 DEF MailInv, CallOK, HoldLabels
<1>3. PICK c \in Codes, s \in 1..(SeqSpace - 1), i \in Nat :
          want[t] = c /\ nextSeq' = s /\ drawn' = i
  <2>1. want[t] \in Codes  BY <1>2 DEF NodePhase
  <2>2. nextSeq' \in 1..(SeqSpace - 1) /\ drawn' \in Nat
    BY SeqSpaceAssumption DEF AssignSeq, OtherTypes, CountTypes, NextSeq
  <2> QED  BY <2>1, <2>2
<1> DEFINE r == [Blank EXCEPT !.code = c, !.seq = s, !.id = i]
<1>4. /\ r \in Node /\ r.code = c /\ r.seq # 0
      /\ ~r.done /\ ~r.sent /\ r.resp = 0
  <2>1. r.code = c /\ r.seq # 0  BY SeqSpaceAssumption DEF Blank
  <2>2. ~r.done /\ ~r.sent /\ r.resp = 0  BY DEF Blank
  <2>3. c \in Codes \cup {"none"} /\ s \in 0..(SeqSpace - 1)
    BY SeqSpaceAssumption
  <2>4. r \in Node  BY <2>3 DEF Blank, Node
  <2> QED  BY <2>1, <2>2, <2>4
<1>5. nd' = [nd EXCEPT ![own[t]] = r]  BY <1>1, <1>3
<1> HIDE DEF r
<1>6. NodePhase("queue", want[t], r)  BY <1>3, <1>4 DEF NodePhase
<1>7. NodePlace("queue", own[t], r)'
  BY <1>1, <1>2 DEF NodePlace, Waiting
<1> QED  BY <1>1, <1>4, <1>5, <1>6, <1>7, OneCallKeeps
         DEF HoldLabels, MailInv, MailTypes, PendOnce

\* queue_cmd_node puts the node in the queue once, or completes it.
LEMMA QueueNodeKeeps ==
    ASSUME NodeInv, MailInv, NEW t \in Callers, QueueNode(t)
    PROVE  MailInv'
<1> DEFINE n == own[t]
<1>1. pc[t] = "queue" /\ UNCHANGED <<own, want, cur>>  BY DEF QueueNode
<1>2. /\ n \in Nodes /\ n # NoNode /\ nd[n] \in Node
      /\ nd = [nd EXCEPT ![n] = nd[n]]
      /\ NodePhase("queue", want[t], nd[n]) /\ NodePlace("queue", n, nd[n])
      /\ pend \in Seq(Nodes) /\ IsInjective(pend)
  BY <1>1, InCall DEF HoldLabels
<1>3. n \notin Range(pend) /\ n # cur  BY <1>2 DEF NodePlace, Waiting
<1>4. CASE Admitted(want[t])
  <2>1. /\ pend' \in Seq(Nodes) /\ IsInjective(pend')
        /\ Range(pend') = Range(pend) \cup {n}
    <3>1. pend' = <<n>> \o pend \/ pend' = Append(pend, n)
      BY <1>4 DEF QueueNode
    <3>2. CASE pend' = <<n>> \o pend  BY <1>2, <1>3, <3>2, PrependFacts
    <3>3. CASE pend' = Append(pend, n)  BY <1>2, <1>3, <3>3, AppendFacts
    <3> QED  BY <3>1, <3>2, <3>3
  <2>2. pc' = [pc EXCEPT ![t] = "wait"] /\ nd' = nd  BY <1>4 DEF QueueNode
  <2> PICK r \in Node : r = nd[n]  BY <1>2
  <2>3. NodePhase("wait", want[t], r)  BY <1>2 DEF NodePhase, Asked
  <2>4. NodePlace("wait", n, r)'
    BY <1>1, <1>2, <1>3, <2>1 DEF NodePlace, NodePhase, Waiting
  <2> QED  BY <1>1, <1>2, <2>1, <2>2, <2>3, <2>4, OneCallKeeps
           DEF HoldLabels
<1>5. CASE ~Admitted(want[t])
  <2>1. PICK l \in {"wait", "drop"} : pc' = [pc EXCEPT ![t] = l]
    BY <1>5 DEF QueueNode
  <2>2. pend' = pend /\ nd' = [nd EXCEPT ![n] = Completed(n, "shutdown")]
    BY <1>5 DEF QueueNode
  <2>3. PICK r \in Node :
            /\ r = Completed(n, "shutdown") /\ r.done
            /\ r.code = nd[n].code /\ r.seq = nd[n].seq
            /\ r.sent = nd[n].sent /\ r.resp = nd[n].resp
    BY <1>2, CompletedNode
  <2>4. NodePhase(l, want[t], r)  BY <1>2, <2>1, <2>3 DEF NodePhase, Asked
  <2>5. NodePlace(l, n, r)'
    BY <1>1, <1>2, <1>3, <2>1, <2>2, <2>3 DEF NodePlace, NodePhase, Waiting
  <2>6. nd' = [nd EXCEPT ![n] = r]  BY <2>2, <2>3
  <2> QED  BY ZenonT(60), <1>1, <1>2, <2>1, <2>2, <2>4, <2>5, <2>6, OneCallKeeps
           DEF HoldLabels
<1> QED  BY <1>4, <1>5

\* A timeout takes its node out of the queue and completes it, or leaves it
\* to the caller's last look.
LEMMA TimeoutKeeps ==
    ASSUME NodeInv, MailInv, NEW t \in Callers, Timeout(t)
    PROVE  MailInv'
<1> DEFINE n == own[t]
<1>1. /\ pc[t] = "wait" /\ ~nd[n].done /\ UNCHANGED <<own, want, cur>>
      /\ pend' = RemoveFirst(pend, n)
  BY DEF Timeout
<1>2. /\ n \in Nodes /\ n # NoNode /\ nd[n] \in Node
      /\ nd = [nd EXCEPT ![n] = nd[n]]
      /\ NodePhase("wait", want[t], nd[n]) /\ NodePlace("wait", n, nd[n])
      /\ pend \in Seq(Nodes) /\ IsInjective(pend)
  BY <1>1, InCall DEF HoldLabels
<1>3. PICK l \in {"quarantine", "finish"} : pc' = [pc EXCEPT ![t] = l]
  BY DEF Timeout
<1>4. /\ pend' \in Seq(Nodes) /\ IsInjective(pend')
      /\ Range(pend') = Range(pend) \ {n}
  BY <1>1, <1>2, RemoveFirstFacts
<1>5. PICK r \in Node :
          /\ nd' = [nd EXCEPT ![n] = r]
          /\ r.code = nd[n].code /\ r.seq = nd[n].seq
          /\ r.sent = nd[n].sent /\ r.resp = nd[n].resp
  <2>1. CASE Contains(pend, n)
    BY <1>2, <2>1, CompletedNode DEF Timeout
  <2>2. CASE ~Contains(pend, n)
    BY <1>2, <2>2 DEF Timeout
  <2> QED  BY <2>1, <2>2
<1>6. nd[n].resp = 0  BY <1>1, <1>2 DEF NodePhase
<1>7. NodePhase(l, want[t], r)
  BY <1>2, <1>3, <1>5, <1>6 DEF NodePhase, Asked
<1>8. NodePlace(l, n, r)'
  BY <1>1, <1>2, <1>3, <1>4, <1>5 DEF NodePlace, Waiting
<1>9. Range(pend') \ {n} = Range(pend) \ {n}  BY <1>4
<1> QED  BY <1>1, <1>3, <1>4, <1>5, <1>7, <1>8, <1>9, OneCallKeeps
         DEF HoldLabels

\* wait_and_decode_cmd_resp clears cur_cmd if it is its own node, and leaves
\* nothing of it in the queue.
LEMMA FinishKeeps ==
    ASSUME NodeInv, MailInv, NEW t \in Callers, Finish(t)
    PROVE  MailInv'
<1> DEFINE n == own[t]
<1>1. /\ pc[t] \in {"wait", "finish"} /\ pc' = [pc EXCEPT ![t] = "decode"]
      /\ cur' = IF cur = n THEN NoNode ELSE cur
      /\ UNCHANGED <<own, want>>
  BY DEF Finish
<1>2. /\ n \in Nodes /\ n # NoNode /\ nd[n] \in Node
      /\ nd = [nd EXCEPT ![n] = nd[n]]
      /\ NodePhase(pc[t], want[t], nd[n]) /\ NodePlace(pc[t], n, nd[n])
      /\ pend \in Seq(Nodes) /\ IsInjective(pend)
  BY <1>1, InCall DEF HoldLabels
<1>3. /\ pend' \in Seq(Nodes) /\ IsInjective(pend')
      /\ Range(pend') = Range(pend) \ {n}
  <2>1. CASE Won(t)
    BY <1>2, <2>1 DEF Finish, Won, NodePlace
  <2>2. CASE ~Won(t)
    BY <1>2, <2>2, RemoveFirstFacts DEF Finish
  <2> QED  BY <2>1, <2>2
<1>4. PICK r \in Node :
          /\ nd' = [nd EXCEPT ![n] = r] /\ r.done
          /\ r.code = nd[n].code /\ r.seq = nd[n].seq
          /\ r.resp # 0 => r.result = "0"
  <2>1. CASE Won(t)
    BY <1>2, <2>1 DEF Finish, Won, NodePhase
  <2>2. CASE ~Won(t)
    <3>1. nd[n].resp = 0  BY <1>2, <2>2 DEF Won, NodePhase
    <3> QED  BY <1>2, <2>2, <3>1, CompletedNode DEF Finish
  <2> QED  BY <2>1, <2>2
<1>5. NodePhase("decode", want[t], r)
  BY <1>1, <1>2, <1>4 DEF NodePhase, Asked
<1>6. NodePlace("decode", n, r)'
  BY <1>1, <1>2, <1>3 DEF NodePlace, Waiting
<1> QED  BY <1>1, <1>2, <1>3, <1>4, <1>5, <1>6, OneCallKeeps
         DEF HoldLabels

\* Quarantining the firmware and decoding a response leave the queue alone.
LEMMA DecodeKeeps ==
    ASSUME NodeInv, MailInv, NEW t \in Callers, Quarantine(t) \/ Decode(t)
    PROVE  MailInv'
<1> DEFINE n == own[t]
<1>1. /\ UNCHANGED <<own, want, cur, pend, nd>>
      /\ \/ pc[t] = "quarantine" /\ pc' = [pc EXCEPT ![t] = "finish"]
         \/ pc[t] = "decode" /\ pc' = [pc EXCEPT ![t] = "recycle"]
  BY DEF Quarantine, Decode
<1>2. /\ n \in Nodes /\ n # NoNode /\ nd[n] \in Node
      /\ nd = [nd EXCEPT ![n] = nd[n]]
      /\ NodePhase(pc[t], want[t], nd[n]) /\ NodePlace(pc[t], n, nd[n])
      /\ pend \in Seq(Nodes) /\ IsInjective(pend)
  BY <1>1, InCall DEF HoldLabels
<1>3. PICK l \in {"finish", "recycle"} :
          /\ pc' = [pc EXCEPT ![t] = l]
          /\ l = "finish" => pc[t] = "quarantine"
          /\ l = "recycle" => pc[t] = "decode"
  BY <1>1
<1> PICK r \in Node : r = nd[n]  BY <1>2
<1>4. NodePhase(l, want[t], r)  BY <1>2, <1>3 DEF NodePhase, Asked
<1>5. NodePlace(l, n, r)'
  BY <1>1, <1>2, <1>3 DEF NodePlace, Waiting
<1> QED  BY ZenonT(60), <1>1, <1>2, <1>3, <1>4, <1>5, OneCallKeeps DEF HoldLabels

\* recycle_cmd_node gives the node back blank, in no queue.
LEMMA RecycleLeaves ==
    ASSUME NodeInv, MailInv, NEW t \in Callers, Recycle(t)
    PROVE  MailInv'
<1> DEFINE n == own[t]
<1>1. /\ pc[t] \in {"recycle", "drop"} /\ cur' = cur
      /\ nd' = [nd EXCEPT ![n] = Blank] /\ pend' = RemoveFirst(pend, n)
      /\ own' = [own EXCEPT ![t] = NoNode]
      /\ want' = [want EXCEPT ![t] = "none"]
      /\ \E l \in {"kick", "idle"} : pc' = [pc EXCEPT ![t] = l]
  BY DEF Recycle
<1>2. /\ n \in Nodes /\ n # NoNode
      /\ NodePlace(pc[t], n, nd[n])
      /\ pend \in Seq(Nodes) /\ IsInjective(pend)
      /\ \A u \in Callers : own[u] = n => u = t
  BY <1>1, InCall, HeldNode DEF HoldLabels
<1>3. n \notin Range(pend) /\ n # cur
  BY <1>1, <1>2 DEF NodePlace, Waiting
<1>4. /\ pend' \in Seq(Nodes) /\ IsInjective(pend')
      /\ Range(pend') = Range(pend)
  <2>1. Range(pend) \ {n} = Range(pend)  BY <1>3
  <2> QED  BY <1>1, <1>2, <2>1, RemoveFirstFacts
<1>5. Blank \in Node  BY SeqSpaceAssumption DEF Blank, Node
<1>6. MailTypes' /\ PendOnce'
  BY <1>1, <1>4, <1>5 DEF MailInv, MailTypes, PendOnce
<1>7. \A u \in Callers : u # t =>
          own'[u] = own[u] /\ pc'[u] = pc[u] /\ want'[u] = want[u]
  BY <1>1 DEF NodeInv, NodeTypes, MailInv, MailTypes
<1>8. IdleBlank'
  BY <1>1, <1>2, <1>7 DEF MailInv, MailTypes, IdleBlank
<1>9. QueuedHeld'
  BY <1>1, <1>3, <1>4, <1>7 DEF MailInv, QueuedHeld
<1>10. CallOK(t)'
  BY <1>1 DEF NodeInv, NodeTypes, CallOK, HoldLabels
<1>11. ASSUME NEW u \in Callers, u # t PROVE CallOK(u)'
  <2> SUFFICES ASSUME pc[u] \in HoldLabels
               PROVE  /\ NodePhase(pc[u], want[u], nd'[own[u]])
                      /\ NodePlace(pc[u], own[u], nd[own[u]])'
    BY <1>7, <1>11 DEF CallOK
  <2>1. own[u] \in Nodes /\ own[u] # n  BY <1>2, <1>11, HeldNode
  <2>2. nd'[own[u]] = nd[own[u]]  BY <1>1, <2>1 DEF MailInv, MailTypes
  <2> QED  BY <1>1, <1>4, <1>7, <1>11, <2>2 DEF MailInv, CallOK, NodePlace
<1> QED  BY <1>6, <1>8, <1>9, <1>10, <1>11 DEF MailInv

\* get_free_cmd_node hands out a node that is blank and in no queue.
LEMMA PrepareTakes ==
    ASSUME NodeInv, MailInv, NEW t \in Callers, NEW c \in Codes,
           Prepare(t, c)
    PROVE  MailInv'
<1>0. pc[t] = "idle" /\ UNCHANGED <<pend, cur, nd>>  BY DEF Prepare
<1>1. CASE /\ \E n \in free : own' = [own EXCEPT ![t] = n]
           /\ want' = [want EXCEPT ![t] = c]
           /\ \E l \in {"seq", "drop"} : pc' = [pc EXCEPT ![t] = l]
  <2>1. PICK n \in free : own' = [own EXCEPT ![t] = n]  BY <1>1
  <2>2. PICK l \in {"seq", "drop"} : pc' = [pc EXCEPT ![t] = l]  BY <1>1
  <2>3. n \in Nodes /\ pool
    BY DEF NodeInv, NodeTypes, NoPoolNoFree
  <2>4. \A u \in Callers : own[u] # n
    BY <2>3, NodesAssumption DEF NodeInv, NodesConserved, Holding
  <2>5. n \notin Range(pend) /\ n # cur
    BY <2>3, <2>4, NodesAssumption DEF MailInv, QueuedHeld
  <2>6. nd[n] = Blank  BY <2>3, <2>4 DEF MailInv, IdleBlank
  <2>7. own[t] = NoNode
    BY <1>0 DEF NodeInv, HoldsWhileInCall, HoldLabels
  <2>8. /\ own'[t] = n /\ pc'[t] = l /\ want'[t] = c
        /\ \A u \in Callers : u # t =>
             own'[u] = own[u] /\ pc'[u] = pc[u] /\ want'[u] = want[u]
        /\ want' \in [Callers -> Codes \cup {"none"}]
    BY <1>1, <2>1, <2>2 DEF NodeInv, NodeTypes, MailInv, MailTypes
  <2>9. MailTypes' /\ PendOnce'
    BY <1>0, <2>8 DEF MailInv, MailTypes, PendOnce
  <2>10. IdleBlank'
    BY <1>0, <2>7, <2>8, NodesAssumption DEF MailInv, IdleBlank
  <2>11. QueuedHeld'
    <3>1. Range(pend) \subseteq Nodes
      BY RangeOfSeq DEF MailInv, MailTypes
    <3> QED  BY <1>0, <2>7, <2>8, <3>1, NodesAssumption
             DEF MailInv, QueuedHeld
  <2>12. CallOK(t)'
    <3>1. NodePhase(l, c, nd[n])
      BY <2>6 DEF NodePhase, Blank, Asked
    <3>2. NodePlace(l, n, nd[n])'
      BY <1>0, <2>5 DEF NodePlace, Waiting
    <3> QED  BY <1>0, <2>8, <3>1, <3>2 DEF CallOK, NodePlace
  <2>13. ASSUME NEW u \in Callers, u # t PROVE CallOK(u)'
    BY <1>0, <2>8, <2>13 DEF MailInv, CallOK, NodePlace
  <2> QED  BY <2>9, <2>10, <2>11, <2>12, <2>13 DEF MailInv
<1>2. CASE UNCHANGED <<pc, own, want>>
  BY <1>0, <1>2 DEF MailInv, MailTypes, PendOnce, IdleBlank, QueuedHeld,
     CallOK, NodePlace
<1> QED  BY <1>1, <1>2 DEF Prepare

\* A step outside calls, queue and nodes
LEMMA MailUntouched ==
    ASSUME NodeInv, MailInv, UNCHANGED <<own, want, nd, pend, cur>>,
           \A t \in Callers : \/ pc'[t] = pc[t]
                              \/ pc'[t] \notin HoldLabels
    PROVE  MailInv'
BY DEF MailInv, MailTypes, PendOnce, IdleBlank, QueuedHeld, CallOK, NodePlace

-----------------------------------------------------------------------------
(* cmd_work, the transport and the manager *)

\* A node that leaves the queue or is current belongs to a waiting caller.
LEMMA OwnerOf ==
    ASSUME NodeInv, MailInv, NEW n \in Nodes, n \in Range(pend) \/ n = cur
    PROVE  \E t \in Callers : own[t] = n /\ pc[t] \in Waiting
<1>1. PICK t \in Callers : own[t] = n
  BY NodesAssumption DEF MailInv, QueuedHeld
<1>2. pc[t] \in HoldLabels
  BY <1>1, NodesAssumption DEF NodeInv, HoldsWhileInCall
<1> QED  BY <1>1, <1>2, InCall DEF NodePlace, Waiting

\* esp_cmd_work completes the first queued node or makes it current.
LEMMA CmdWorkKeeps ==
    ASSUME NodeInv, MailInv, CmdWork
    PROVE  MailInv'
<1>1. UNCHANGED <<pc, own, want>>  BY DEF CmdWork
<1>2. CASE ~CanSubmit  BY <1>1, <1>2, MailUntouched DEF CmdWork
<1>3. CASE CanSubmit
  <2> DEFINE n == Head(pend)
  <2>1. /\ pend \in Seq(Nodes) /\ pend # <<>> /\ IsInjective(pend)
        /\ cur = NoNode
    BY <1>3 DEF CanSubmit, MailInv, MailTypes, PendOnce
  <2>2. /\ n \in Nodes /\ n \in Range(pend) /\ pend' = Tail(pend)
        /\ pend' \in Seq(Nodes) /\ IsInjective(pend')
        /\ Range(pend') = Range(pend) \ {n}
    BY ZenonT(60), <1>3, <2>1, TailFacts DEF CmdWork
  <2>3. PICK t \in Callers : own[t] = n /\ pc[t] \in Waiting
    BY <2>2, OwnerOf
  <2>4. /\ nd[n] \in Node /\ pc = [pc EXCEPT ![t] = pc[t]]
        /\ NodePhase(pc[t], want[t], nd[n]) /\ NodePlace(pc[t], n, nd[n])
    BY <2>3, InCall DEF HoldLabels, Waiting
  <2>5. pc[t] = "wait" /\ ~nd[n].done /\ ~nd[n].sent /\ nd[n].resp = 0
    BY <2>2, <2>4 DEF NodePlace, NodePhase
  <2>6. PICK r \in Node :
          /\ nd' = [nd EXCEPT ![n] = r]
          /\ r.code = nd[n].code /\ r.seq = nd[n].seq /\ r.resp = 0
          /\ \/ cur' = NoNode /\ r.done /\ ~r.sent
             \/ cur' = n /\ r.sent
    <3>1. CASE ~Admitted(nd[n].code)
      BY <1>3, <2>1, <2>2, <2>5, <3>1, CompletedNode DEF CmdWork
    <3>2. CASE Admitted(nd[n].code) /\ path /\ ready
      <4>1. nd' = [nd EXCEPT ![n].sent = TRUE] /\ cur' = n
        BY <1>3, <3>2 DEF CmdWork
      <4>2. PICK r \in Node : r = [nd[n] EXCEPT !.sent = TRUE]
        BY <2>4 DEF Node
      <4>3. /\ r.code = nd[n].code /\ r.seq = nd[n].seq /\ r.resp = 0
            /\ r.sent
        BY <2>4, <2>5, <4>2 DEF Node
      <4> QED  BY <4>1, <4>2, <4>3
    <3>3. CASE Admitted(nd[n].code) /\ ~(path /\ ready)
      <4>1. nd' = [nd EXCEPT ![n] = [Completed(n, "io")
                                     EXCEPT !.sent = TRUE]] /\ cur' = n
        BY <1>3, <3>3 DEF CmdWork
      <4>2. PICK s \in Node :
              /\ s = Completed(n, "io") /\ s.done
              /\ s.code = nd[n].code /\ s.seq = nd[n].seq /\ s.resp = 0
        BY <2>2, <2>5, CompletedNode
      <4>3. PICK r \in Node : r = [s EXCEPT !.sent = TRUE]
        BY <4>2 DEF Node
      <4>4. /\ r.code = nd[n].code /\ r.seq = nd[n].seq /\ r.resp = 0
            /\ r.sent
        BY <4>2, <4>3 DEF Node
      <4> QED  BY <4>1, <4>2, <4>3, <4>4
    <3> QED  BY <3>1, <3>2, <3>3
  <2>7. NodePhase("wait", want[t], r)
    BY <2>4, <2>5, <2>6 DEF NodePhase, Asked
  <2>8. NodePlace("wait", own[t], r)'
    <3> HIDE DEF n
    <3> QED  BY <1>1, <2>1, <2>2, <2>3, <2>4, <2>5, <2>6, NodesAssumption
             DEF NodePlace, Waiting
  <2>9. cur' = cur \/ {cur, cur'} = {n, NoNode}  BY <2>1, <2>6
  <2> HIDE DEF n
  <2> QED  BY <1>1, <2>2, <2>3, <2>4, <2>5, <2>6, <2>7, <2>8, <2>9,
              OneCallKeeps DEF HoldLabels
<1> QED  BY <1>2, <1>3

\* A response or a failed transfer completes the current node in place.
LEMMA CurrentCompletes ==
    ASSUME NodeInv, MailInv, cur # NoNode,
           UNCHANGED <<pc, own, want, pend, cur>>,
           NEW r \in Node, nd' = [nd EXCEPT ![cur] = r], r.done,
           r.code = nd[cur].code, r.seq = nd[cur].seq,
           r.sent = nd[cur].sent, r.resp # 0 => r.result = "0"
    PROVE  MailInv'
<1>1. cur \in Nodes  BY DEF MailInv, MailTypes
<1>2. PICK t \in Callers : own[t] = cur /\ pc[t] \in Waiting
  BY <1>1, OwnerOf
<1>3. /\ pc = [pc EXCEPT ![t] = pc[t]] /\ pc[t] \in HoldLabels
      /\ NodePhase(pc[t], want[t], nd[cur]) /\ NodePlace(pc[t], cur, nd[cur])
      /\ pend \in Seq(Nodes) /\ IsInjective(pend)
  BY <1>2, InCall DEF HoldLabels, Waiting
<1> PICK l \in HoldLabels : l = pc[t]  BY <1>3
<1>4. NodePhase(l, want[t], r)
  BY <1>2, <1>3 DEF NodePhase, Asked, Waiting
<1>5. NodePlace(l, own[t], r)'
  BY <1>2, <1>3 DEF NodePlace
<1> QED  BY <1>2, <1>3, <1>4, <1>5, OneCallKeeps

\* esp_cmd_transport_failed
LEMMA TransportFailedKeeps ==
    ASSUME NodeInv, MailInv, UNCHANGED <<pc, own, want, pend, cur>>,
           NEW S, TransportFailed(S)
    PROVE  MailInv'
<1>1. CASE UNCHANGED nd  BY <1>1, MailUntouched
<1>2. CASE cur # NoNode /\ ~nd[cur].done
           /\ nd' = [nd EXCEPT ![cur] = Completed(cur, "io")]
  <2>1. cur \in Nodes  BY <1>2 DEF MailInv, MailTypes
  <2>2. PICK r \in Node :
          /\ r = Completed(cur, "io") /\ r.done
          /\ r.code = nd[cur].code /\ r.seq = nd[cur].seq
          /\ r.sent = nd[cur].sent /\ r.resp = nd[cur].resp
    BY <2>1, CompletedNode
  <2>3. nd[cur].resp = 0
    <3>1. PICK t \in Callers : own[t] = cur /\ pc[t] \in Waiting
      BY <2>1, OwnerOf
    <3> QED  BY <1>2, <3>1, InCall DEF NodePhase, HoldLabels, Waiting
  <2>4. nd' = [nd EXCEPT ![cur] = r]  BY <1>2, <2>2
  <2> QED  BY <1>2, <2>2, <2>3, <2>4, CurrentCompletes
<1> QED  BY <1>1, <1>2 DEF TransportFailed

\* process_cmd_resp
LEMMA RxResponseKeeps ==
    ASSUME NodeInv, MailInv, OtherTypes, RxResponse
    PROVE  MailInv'
<1>0. UNCHANGED <<pc, own, want, pend, cur>>  BY DEF RxResponse
<1>1. CASE ~Accepts(Head(hand))
  BY <1>0, <1>1, MailUntouched DEF RxResponse
<1>2. CASE Accepts(Head(hand))
  <2>1. cur \in Nodes /\ cur # NoNode
    BY <1>2 DEF Accepts, Matches, MailInv, MailTypes
  <2>2. PICK s \in Node :
          /\ s = Completed(cur, "0") /\ s.done /\ s.result = "0"
          /\ s.code = nd[cur].code /\ s.seq = nd[cur].seq
          /\ s.sent = nd[cur].sent
    BY <2>1, CompletedNode
  <2>3. PICK i \in Nat : i = Head(hand).id
    <3>1. hand \in Seq(Message) /\ hand # <<>>
      BY DEF OtherTypes, WireTypes, RxResponse
    <3>2. Head(hand) \in Message  BY <3>1, HeadTailProperties
    <3> QED  BY <3>2 DEF Message
  <2>4. PICK r \in Node : r = [s EXCEPT !.resp = i]  BY <2>2, <2>3 DEF Node
  <2>5. /\ r.done /\ r.result = "0" /\ r.code = nd[cur].code
        /\ r.seq = nd[cur].seq /\ r.sent = nd[cur].sent
    BY <2>2, <2>4 DEF Node
  <2>6. nd' = [nd EXCEPT ![cur] = r]
    BY <1>2, <2>2, <2>3, <2>4 DEF RxResponse
  <2> QED  BY <1>0, <2>1, <2>4, <2>5, <2>6, CurrentCompletes
<1> QED  BY <1>1, <1>2

\* esp_cmd_abort_waiters completes whatever is queued or current.
LEMMA AbortKeeps ==
    ASSUME NodeInv, MailInv, MgrAbort
    PROVE  MailInv'
<1>0. UNCHANGED <<pc, own, want, cur>>  BY DEF MgrAbort
<1>1. CASE UNCHANGED <<nd, pend>>  BY <1>0, <1>1, MailUntouched
<1>2. CASE /\ nd' = [n \in Nodes |-> IF n \in Aborted
                                     THEN Completed(n, "shutdown")
                                     ELSE nd[n]]
           /\ pend' = <<>>
  <2>1. \A n \in Nodes : nd[n] \in Node /\ Completed(n, "shutdown") \in Node
    BY CompletedNode DEF MailInv, MailTypes
  <2>2. MailTypes' /\ PendOnce'
    <3>1. <<>> \in Seq(Nodes)  BY EmptySeq
    <3>2. IsInjective(<<>>)  BY DEF IsInjective
    <3>3. nd' \in [Nodes -> Node]  BY <1>2, <2>1
    <3> QED  BY <1>0, <1>2, <3>1, <3>2, <3>3
             DEF MailInv, MailTypes, PendOnce
  <2>3. Range(pend') = {}  BY <1>2 DEF Range
  <2>4. \A n \in Aborted \cap Nodes : \E t \in Callers : own[t] = n
    BY OwnerOf DEF Aborted
  <2>5. IdleBlank'  BY <1>0, <1>2, <2>4 DEF MailInv, IdleBlank
  <2>6. QueuedHeld'  BY <1>0, <2>3 DEF MailInv, QueuedHeld
  <2>7. ASSUME NEW t \in Callers, pc[t] \in HoldLabels
        PROVE  /\ NodePhase(pc[t], want[t], nd'[own[t]])
               /\ NodePlace(pc[t], own[t], nd[own[t]])'
    <3> DEFINE n == own[t]
    <3>1. /\ n \in Nodes /\ n # NoNode /\ nd[n] \in Node
          /\ NodePhase(pc[t], want[t], nd[n])
          /\ NodePlace(pc[t], n, nd[n])
      BY <2>7, InCall
    <3>2. CASE n \in Aborted
      <4>1. PICK r \in Node :
              /\ r = Completed(n, "shutdown") /\ r.done
              /\ r.code = nd[n].code /\ r.seq = nd[n].seq
              /\ r.sent = nd[n].sent /\ r.resp = nd[n].resp
        BY <3>1, CompletedNode
      <4>2. nd'[n] = r  BY <1>2, <3>1, <3>2, <4>1
      <4>3. ~nd[n].done /\ pc[t] \in Waiting
        BY <3>1, <3>2 DEF Aborted, NodePlace, Waiting
      <4>4. NodePhase(pc[t], want[t], r)
        BY <3>1, <4>1, <4>3 DEF NodePhase, Waiting
      <4>5. NodePlace(pc[t], n, nd[n])'
        BY <1>0, <2>3, <3>1, <4>1, <4>2, <4>3 DEF NodePlace, Waiting
      <4> QED  BY <4>2, <4>4, <4>5
    <3>3. CASE n \notin Aborted
      <4>1. nd'[n] = nd[n]  BY <1>2, <3>1, <3>3
      <4>2. n \notin Range(pend)  BY <3>3 DEF Aborted
      <4>3. NodePlace(pc[t], n, nd[n])'
        BY <1>0, <2>3, <3>1, <4>1, <4>2 DEF NodePlace
      <4> QED  BY <3>1, <4>1, <4>3
    <3> QED  BY <3>2, <3>3
  <2>8. \A t \in Callers : CallOK(t)'  BY <1>0, <2>7 DEF CallOK
  <2> QED  BY <2>2, <2>5, <2>6, <2>8 DEF MailInv
<1> QED  BY <1>1, <1>2 DEF MgrAbort

\* esp_commands_setup starts from an empty mailbox: nobody holds a node.
LEMMA SetupKeeps ==
    ASSUME NodeInv, MailInv, MgrSetup
    PROVE  MailInv'
<1>0. UNCHANGED <<pc, own, want>>  BY DEF MgrSetup
<1>1. CASE UNCHANGED <<nd, pend, cur>>  BY <1>0, <1>1, MailUntouched
<1>2. CASE /\ ~(pool /\ inUse # 0)
           /\ pend' = <<>> /\ cur' = NoNode /\ nd' = [n \in Nodes |-> Blank]
  <2>1. Holding = {}
    BY <1>2, HoldingFinite, FS_EmptySet
       DEF NodeInv, NodeTypes, NodesConserved
  <2>2. \A t \in Callers : pc[t] \notin HoldLabels
    BY <2>1 DEF Holding, NodeInv, HoldsWhileInCall
  <2>3. Blank \in Node  BY SeqSpaceAssumption DEF Blank, Node
  <2>4. <<>> \in Seq(Nodes) /\ Range(<<>>) = {} /\ IsInjective(<<>>)
    BY EmptySeq DEF Range, IsInjective
  <2>5. MailTypes' /\ PendOnce'
    BY <1>0, <1>2, <2>3, <2>4 DEF MailInv, MailTypes, PendOnce
  <2>6. IdleBlank' /\ QueuedHeld'
    BY <1>2, <2>4 DEF IdleBlank, QueuedHeld
  <2>7. \A t \in Callers : CallOK(t)'  BY <1>0, <2>2 DEF CallOK
  <2> QED  BY <2>5, <2>6, <2>7 DEF MailInv
<1> QED  BY <1>1, <1>2 DEF MgrSetup

-----------------------------------------------------------------------------
(* Types *)

\* A node in the queue makes a well-formed message: its sequence number is
\* not 0.
LEMMA QueuedMessage ==
    ASSUME NodeInv, MailInv, pend # <<>>
    PROVE  [code |-> nd[Head(pend)].code, seq |-> nd[Head(pend)].seq,
            id |-> nd[Head(pend)].id] \in Message
<1> DEFINE n == Head(pend)
<1>1. n \in Nodes /\ n \in Range(pend)  BY TailFacts DEF MailInv, MailTypes
<1>2. PICK t \in Callers : own[t] = n /\ pc[t] \in Waiting  BY <1>1, OwnerOf
<1>3. nd[n] \in Node /\ nd[n].code \in Codes /\ nd[n].seq # 0
  BY <1>2, InCall DEF NodePhase, HoldLabels, Waiting, Asked
<1> HIDE DEF n
<1>4. nd[n].seq \in 1..(SeqSpace - 1) /\ nd[n].id \in Nat
  BY <1>3, SeqSpaceAssumption DEF Node
<1> QED  BY <1>3, <1>4 DEF Message, n

\* Flags, pointers and the manager's control keep their types.
LEMMA ControlTypesNext ==
    ASSUME OtherTypes, [Next]_vars
    PROVE  ControlTypes'
<1> USE DEF OtherTypes, ControlTypes
<1>1. ASSUME NEW t \in Users, UserCall(t) PROVE ControlTypes'
  BY <1>1 DEF UserCall, Prepare
<1>2. ASSUME NEW t \in Callers, CallStep(t) PROVE ControlTypes'
  <2>1. CASE AssignSeq(t) \/ Timeout(t) \/ Finish(t) \/ Recycle(t) \/ Kick(t)
    BY <2>1 DEF AssignSeq, Timeout, Finish, Recycle, Kick
  <2>2. CASE QueueNode(t) \/ KickQueue(t)
    <3>1. workQ' \in BOOLEAN  BY <2>2 DEF QueueNode, KickQueue
    <3> QED  BY <2>2, <3>1 DEF QueueNode, KickQueue
  <2>3. CASE Quarantine(t) \/ Decode(t)
    <3>1. QuarantineNow \/ UNCHANGED <<flags, ready, stale>>
      BY <2>3 DEF Quarantine, Decode
    <3>2. UNCHANGED <<wq, workQ, mpc, mret, path>>
      BY <2>3 DEF Quarantine, Decode
    <3> QED  BY ZenonT(60), <3>1, <3>2 DEF QuarantineNow, Flags
  <2> QED  BY <1>2, <2>1, <2>2, <2>3 DEF CallStep
<1>3. CASE CmdWork  BY <1>3 DEF CmdWork
<1>4. CASE Transport
  <2>1. QuarantineNow \/ UNCHANGED <<flags, ready, stale>>
    BY <1>4 DEF Transport, SpiSend, SpiLose, FwAnswer, FwMute, FwRestart,
       RxTake, RxGate, RxResponse
  <2>2. UNCHANGED <<wq, workQ, mpc, mret, path>>
    BY <1>4 DEF Transport, SpiSend, SpiLose, FwAnswer, FwMute, FwRestart,
       RxTake, RxGate, RxResponse
  <2> QED  BY ZenonT(60), <2>1, <2>2 DEF QuarantineNow, Flags
<1>5. CASE MgrCall  BY <1>5 DEF MgrCall, Prepare, MgrLabels
<1>6. CASE MgrBoot \/ MgrQuiesce \/ MgrRxIdle \/ MgrAbort
  BY ZenonT(60), <1>6 DEF MgrBoot, MgrQuiesce, MgrRxIdle, MgrAbort, MgrLabels, Flags
<1>7. CASE MgrClear \/ MgrDestroy \/ MgrNull \/ MgrDrain
  BY ZenonT(60), <1>7 DEF MgrClear, MgrDestroy, MgrNull, MgrDrain, MgrLabels
<1>8. CASE MgrRecon \/ MgrSetup \/ MgrInitDone
  BY ZenonT(60), <1>8 DEF MgrRecon, MgrSetup, MgrInitDone, MgrLabels, Flags
<1>9. CASE MgrCommit \/ MgrPublish \/ MgrFail
  BY ZenonT(60), <1>9 DEF MgrCommit, MgrPublish, MgrFail, MgrLabels, Flags
<1>10. CASE ExitBegin \/ MgrExit \/ MgrFence
  <2>1. CASE ExitBegin  BY <2>1 DEF ExitBegin, Flags
  <2>2. CASE MgrExit  BY <2>2 DEF MgrExit, MgrLabels, Flags
  <2>3. CASE MgrFence  BY <2>3 DEF MgrFence, MgrLabels, Flags
  <2> QED  BY <1>10, <2>1, <2>2, <2>3
<1>11. CASE UNCHANGED vars  BY <1>11
<1> QED  BY <1>1, <1>2, <1>3, <1>4, <1>5, <1>6, <1>7, <1>8, <1>9, <1>10,
            <1>11 DEF Next, Manager

\* Messages stay messages on their way to the firmware and back.
LEMMA WireTypesNext ==
    ASSUME NodeInv, MailInv, OtherTypes, [Next]_vars
    PROVE  WireTypes'
<1> USE DEF OtherTypes, WireTypes
<1>1. CASE UNCHANGED wireVars  BY <1>1
<1>2. CASE CmdWork
  <2>1. txq' \in Seq(Message)
    <3>1. CASE UNCHANGED txq  BY <3>1
    <3>2. CASE txq' # txq
      <4>1. pend # <<>> /\ txq' = Append(txq, [code |-> nd[Head(pend)].code,
                                               seq |-> nd[Head(pend)].seq,
                                               id |-> nd[Head(pend)].id])
        BY <1>2, <3>2 DEF CmdWork, CanSubmit
      <4> QED  BY <4>1, QueuedMessage, AppendProperties
    <3> QED  BY <3>1, <3>2
  <2> QED  BY <1>2, <2>1 DEF CmdWork
<1>3. CASE SpiSend \/ SpiLose
  <2>1. Head(txq) \in Message /\ Tail(txq) \in Seq(Message)
    BY <1>3, HeadTailProperties DEF SpiSend, SpiLose
  <2>2. Append(fwq, Head(txq)) \in Seq(Message)  BY <2>1, AppendProperties
  <2>3. /\ txq' = Tail(txq) /\ fwq' \in {fwq, Append(fwq, Head(txq))}
        /\ UNCHANGED <<rxq, hand, passed, boot>>
    BY <1>3 DEF SpiSend, SpiLose
  <2> QED  BY <2>1, <2>2, <2>3
<1>4. CASE FwAnswer \/ FwMute
  <2>1. Head(fwq) \in Message /\ Tail(fwq) \in Seq(Message)
    BY <1>4, HeadTailProperties DEF FwAnswer, FwMute
  <2>2. Append(rxq, Head(fwq)) \in Seq(Message)  BY <2>1, AppendProperties
  <2>3. /\ fwq' = Tail(fwq) /\ rxq' \in {rxq, Append(rxq, Head(fwq))}
        /\ UNCHANGED <<txq, hand, passed, boot>>
    BY <1>4 DEF FwAnswer, FwMute
  <2> QED  BY <2>1, <2>2, <2>3
<1>5. CASE FwRestart \/ MgrBoot \/ MgrQuiesce
  <2>1. <<>> \in Seq(Message)  BY EmptySeq
  <2>2. CASE FwRestart  BY <2>1, <2>2 DEF FwRestart
  <2>3. CASE MgrBoot  BY <2>3 DEF MgrBoot
  <2>4. CASE MgrQuiesce  BY <2>1, <2>4 DEF MgrQuiesce
  <2> QED  BY <1>5, <2>2, <2>3, <2>4
<1>6. CASE RxTake
  <2>1. Head(rxq) \in Message /\ Tail(rxq) \in Seq(Message)
    BY <1>6, HeadTailProperties DEF RxTake
  <2>2. <<Head(rxq)>> \in Seq(Message) /\ <<Head(rxq)>> # <<>>  BY <2>1
  <2> QED  BY <1>6, <2>1, <2>2 DEF RxTake
<1>7. CASE RxGate
  <2>1. passed' \in BOOLEAN /\ (passed' => hand' = hand) /\ hand # <<>>
        /\ (hand' = hand \/ hand' = <<>>)
    BY <1>7 DEF RxGate
  <2> QED  BY <1>7, <2>1, EmptySeq DEF RxGate
<1>8. CASE RxResponse  BY <1>8, EmptySeq DEF RxResponse
<1>9. CASE \E t \in Users : UserCall(t)  BY <1>1, <1>9 DEF UserCall, Prepare
<1>10. CASE \E t \in Callers : CallStep(t)
  BY <1>1, <1>10 DEF CallStep, AssignSeq, QueueNode, Timeout, Quarantine,
     Finish, Decode, Recycle, Kick, KickQueue
<1>11. CASE MgrRxIdle \/ MgrAbort \/ MgrClear \/ MgrDestroy \/ MgrNull
            \/ MgrDrain \/ MgrRecon \/ MgrSetup \/ MgrCall
  BY <1>1, <1>11 DEF MgrRxIdle, MgrAbort, MgrClear, MgrDestroy, MgrNull,
     MgrDrain, MgrRecon, MgrSetup, MgrCall, Prepare
<1>12. CASE MgrInitDone \/ MgrCommit \/ MgrPublish \/ MgrFail \/ ExitBegin
            \/ MgrExit \/ MgrFence
  BY <1>1, <1>12 DEF MgrInitDone, MgrCommit, MgrPublish, MgrFail, ExitBegin,
     MgrExit, MgrFence
<1>13. CASE UNCHANGED vars  BY <1>1, <1>13
<1> QED  BY <1>2, <1>3, <1>4, <1>5, <1>6, <1>7, <1>8, <1>9, <1>10, <1>11,
            <1>12, <1>13 DEF Next, Manager, Transport

\* Results are results and counters stay within their bounds.
LEMMA CountTypesNext ==
    ASSUME NodeInv, MailInv, OtherTypes, [Next]_vars
    PROVE  CountTypes'
<1> USE CallBounds, SeqSpaceAssumption DEF OtherTypes, CountTypes
<1> DEFINE R == {"0", "timedout", "shutdown", "io", "busy", "nomem",
                 "refused"}
<1>1. CASE UNCHANGED <<out, nextSeq, calls, drawn, boots>>
           /\ faults' \in {faults, faults + 1} /\ faults' \in 0..MaxFaults
  BY <1>1
<1>2. ASSUME NEW t \in Callers, NEW c, Prepare(t, c)
      PROVE  /\ out' \in [Callers -> R] /\ faults' \in 0..MaxFaults
             /\ UNCHANGED <<nextSeq, drawn, boots>>
  BY <1>2 DEF Prepare
<1>3. ASSUME NEW t \in Users, UserCall(t) PROVE CountTypes'
  BY <1>2, <1>3 DEF UserCall, Callers
<1>4. CASE MgrCall
  <2>1. "mgr" \in Callers  BY DEF Callers
  <2> QED  BY <1>2, <1>4, <2>1 DEF MgrCall
<1>5. ASSUME NEW t \in Callers, CallStep(t) PROVE CountTypes'
  <2>1. CASE AssignSeq(t)  BY <2>1 DEF AssignSeq, NextSeq
  <2>2. CASE QueueNode(t)  BY <2>2 DEF QueueNode
  <2>3. CASE Finish(t)
    <3>1. nd[own[t]].result \in {"0", "timedout", "shutdown", "io"}
      BY <2>3, InCall DEF Finish, HoldLabels, Node
    <3> QED  BY <2>3, <3>1 DEF Finish
  <2>4. CASE Decode(t)  BY <2>4 DEF Decode
  <2>5. CASE Recycle(t)  BY <2>5 DEF Recycle
  <2>6. CASE Timeout(t) \/ Quarantine(t) \/ Kick(t) \/ KickQueue(t)
    BY <2>6 DEF Timeout, Quarantine, Kick, KickQueue
  <2> QED  BY <1>5, <2>1, <2>2, <2>3, <2>4, <2>5, <2>6 DEF CallStep
<1>6. CASE CmdWork  BY <1>6 DEF CmdWork
<1>7. CASE SpiSend \/ SpiLose \/ FwAnswer \/ FwMute
  BY SMTT(60), <1>7 DEF SpiSend, SpiLose, FwAnswer, FwMute
<1>8. CASE FwRestart  BY <1>8 DEF FwRestart
<1>9. CASE RxTake \/ RxGate \/ RxResponse
  BY <1>9 DEF RxTake, RxGate, RxResponse
<1>10. CASE MgrBoot \/ MgrQuiesce \/ MgrRxIdle \/ MgrAbort \/ MgrClear
            \/ MgrDestroy \/ MgrNull \/ MgrDrain \/ MgrRecon
  BY <1>10 DEF MgrBoot, MgrQuiesce, MgrRxIdle, MgrAbort, MgrClear,
     MgrDestroy, MgrNull, MgrDrain, MgrRecon
<1>11. CASE MgrSetup  BY <1>11 DEF MgrSetup
<1>12. CASE MgrInitDone \/ MgrCommit \/ MgrPublish \/ MgrFail \/ ExitBegin
            \/ MgrExit \/ MgrFence
  BY <1>12 DEF MgrInitDone, MgrCommit, MgrPublish, MgrFail, ExitBegin,
     MgrExit, MgrFence
<1>13. CASE UNCHANGED vars  BY <1>13
<1> QED  BY <1>3, <1>4, <1>5, <1>6, <1>7, <1>8, <1>9, <1>10, <1>11, <1>12,
            <1>13 DEF Next, Manager, Transport

-----------------------------------------------------------------------------
(* The theorems *)

\* NodeInv, the queue's invariant and the types, together inductive
QueueInv == NodeInv /\ MailInv /\ OtherTypes

\* QueueInv holds initially.
LEMMA QueueInvInit == Init => QueueInv
<1> SUFFICES ASSUME Init PROVE QueueInv  OBVIOUS
<1>1. NodeInv  BY NodeInvInit
<1>2. Blank \in Node  BY SeqSpaceAssumption DEF Blank, Node
<1>3. <<>> \in Seq(Nodes) /\ Range(<<>>) = {} /\ IsInjective(<<>>)
  BY EmptySeq DEF Range, IsInjective
<1>4. MailTypes /\ PendOnce
  BY <1>2, <1>3 DEF Init, MailTypes, PendOnce
<1>5. IdleBlank /\ QueuedHeld
  BY <1>3 DEF Init, IdleBlank, QueuedHeld
<1>6. \A t \in Callers : CallOK(t)  BY DEF Init, CallOK, HoldLabels
<1>7. ControlTypes  BY DEF Init, ControlTypes, Flags, MgrLabels
<1>8. WireTypes  BY EmptySeq DEF Init, WireTypes
<1>9. CountTypes
  BY SeqSpaceAssumption, CallBounds DEF Init, CountTypes
<1> QED  BY <1>1, <1>4, <1>5, <1>6, <1>7, <1>8, <1>9
         DEF QueueInv, MailInv, OtherTypes

\* Every step keeps the queue's invariant.
LEMMA MailInvNext ==
    ASSUME NodeInv, MailInv, OtherTypes, [Next]_vars
    PROVE  MailInv'
<1>1. ASSUME NEW t \in Users, UserCall(t) PROVE MailInv'
  BY <1>1, PrepareTakes DEF UserCall, Callers, Codes
<1>2. CASE MgrCall
  <2>1. "mgr" \in Callers  BY DEF Callers
  <2> QED  BY <1>2, <2>1, PrepareTakes DEF MgrCall, Codes
<1>3. ASSUME NEW t \in Callers, CallStep(t) PROVE MailInv'
  <2>1. CASE Kick(t) \/ KickQueue(t)
    BY <2>1, MailUntouched
       DEF Kick, KickQueue, HoldLabels, NodeInv, NodeTypes
  <2> QED  BY <1>3, <2>1, AssignSeqKeeps, QueueNodeKeeps, TimeoutKeeps,
              DecodeKeeps, FinishKeeps, RecycleLeaves DEF CallStep
<1>4. CASE CmdWork  BY <1>4, CmdWorkKeeps
<1>5. CASE SpiLose \/ MgrQuiesce
  BY <1>5, TransportFailedKeeps DEF SpiLose, MgrQuiesce
<1>6. CASE RxResponse  BY <1>6, RxResponseKeeps
<1>7. CASE MgrAbort  BY <1>7, AbortKeeps
<1>8. CASE MgrSetup  BY <1>8, SetupKeeps
<1>9. CASE SpiSend \/ FwAnswer \/ FwMute \/ FwRestart \/ RxTake \/ RxGate
  BY <1>9, MailUntouched
     DEF SpiSend, FwAnswer, FwMute, FwRestart, RxTake, RxGate
<1>10. CASE MgrBoot \/ MgrRxIdle \/ MgrClear \/ MgrDestroy \/ MgrNull
            \/ MgrDrain \/ MgrRecon
  BY <1>10, MailUntouched DEF MgrBoot, MgrRxIdle, MgrClear, MgrDestroy,
     MgrNull, MgrDrain, MgrRecon
<1>11. CASE MgrInitDone \/ MgrCommit \/ MgrPublish \/ MgrFail \/ ExitBegin
            \/ MgrExit \/ MgrFence
  BY <1>11, MailUntouched DEF MgrInitDone, MgrCommit, MgrPublish, MgrFail,
     ExitBegin, MgrExit, MgrFence
<1>12. CASE UNCHANGED vars  BY <1>12, MailUntouched
<1> QED  BY <1>1, <1>2, <1>3, <1>4, <1>5, <1>6, <1>7, <1>8, <1>9, <1>10,
            <1>11, <1>12 DEF Next, Manager, Transport

\* QueueInv is inductive.
LEMMA QueueInvNext == QueueInv /\ [Next]_vars => QueueInv'
BY NodeInvNext, MailInvNext, ControlTypesNext, WireTypesNext, CountTypesNext
   DEF QueueInv, OtherTypes

\* QueueInv holds in every reachable state.
LEMMA QueueInvAlways == Spec => []QueueInv
BY QueueInvInit, QueueInvNext, PTL DEF Spec

\* Every variable of the mailbox keeps its type, and no command goes out
\* with the sequence number 0 (prepare_command_request_for_if).
THEOREM MailboxTypes == Spec => []TypeOK
<1>1. QueueInv => TypeOK
  BY DEF QueueInv, NodeInv, NodeTypes, MailInv, MailTypes, OtherTypes,
     ControlTypes, WireTypes, CountTypes, TypeOK
<1> QED  BY <1>1, QueueInvAlways, PTL

\* cmd_pending_queue and cur_cmd never name a node whose caller has left or
\* given up, no node is in both, and a waiting caller's node is completed or
\* in one of them: esp_cmd_abort_waiters reaches every waiter, and a timed
\* out caller leaves nothing behind.
THEOREM QueuesSafe == Spec => []QueuesOwned
<1>1. QueueInv => QueuesOwned  BY MailInvUse DEF QueueInv
<1> QED  BY <1>1, QueueInvAlways, PTL

\* The CMD_STATE_MISMATCH branch of wait_and_decode_cmd_resp is dead code: a
\* submitted command is cur_cmd until its own caller clears it.
THEOREM NoStateMismatch == Spec => []SubmittedIsCurrent
<1>1. QueueInv => SubmittedIsCurrent  BY MailInvUse DEF QueueInv
<1> QED  BY <1>1, QueueInvAlways, PTL

-----------------------------------------------------------------------------
(* The gates: who may issue a command, and when cmd_work may submit one *)

\* Only the manager's own steps, and the quarantine, move the flags.
LEMMA FlagsMove ==
    ASSUME [Next]_vars
    PROVE  \/ UNCHANGED <<flags, mpc>>
           \/ flags' = flags \cup {"RESET_EXPECTED"} /\ mpc' = mpc
           \/ Manager \/ ExitBegin
<1>1. ASSUME NEW t \in Users, UserCall(t) PROVE UNCHANGED <<flags, mpc>>
  BY <1>1 DEF UserCall, Prepare
<1>2. ASSUME NEW t \in Callers, CallStep(t)
      PROVE  /\ mpc' = mpc
             /\ flags' = flags \/ flags' = flags \cup {"RESET_EXPECTED"}
  BY <1>2 DEF CallStep, AssignSeq, QueueNode, Timeout, Quarantine, Finish,
     Decode, Recycle, Kick, KickQueue, QuarantineNow
<1>3. CASE CmdWork  BY <1>3 DEF CmdWork
<1>4. CASE Transport
  BY <1>4 DEF Transport, SpiSend, SpiLose, FwAnswer, FwMute, FwRestart,
     RxTake, RxGate, RxResponse, QuarantineNow
<1> QED  BY <1>1, <1>2, <1>3, <1>4 DEF Next

\* MailboxOpen is inductive.
LEMMA MailboxOpenNext ==
    ASSUME MailboxOpen, OtherTypes, [Next]_vars
    PROVE  MailboxOpen'
<1> USE DEF MailboxOpen
<1>1. CASE ~(Manager \/ ExitBegin)
  <2>1. /\ mpc' = mpc
        /\ flags' = flags \/ flags' = flags \cup {"RESET_EXPECTED"}
    BY <1>1, FlagsMove
  <2>2. wq' = wq
    BY ZenonT(60), <1>1 DEF Next, UserCall, Prepare, CallStep, AssignSeq, QueueNode,
       Timeout, Quarantine, Finish, Decode, Recycle, Kick, KickQueue,
       CmdWork, Transport, SpiSend, SpiLose, FwAnswer, FwMute, FwRestart,
       RxTake, RxGate, RxResponse
  <2> QED  BY <2>1, <2>2
<1>2. CASE MgrBoot \/ MgrQuiesce \/ MgrRxIdle \/ MgrAbort
  BY <1>2 DEF MgrBoot, MgrQuiesce, MgrRxIdle, MgrAbort
<1>3. CASE MgrClear \/ MgrDestroy \/ MgrNull \/ MgrDrain
  <2>1. mret \in {"recon", "fail", "gone"}
    BY DEF OtherTypes, ControlTypes
  <2> QED  BY <1>3, <2>1 DEF MgrClear, MgrDestroy, MgrNull, MgrDrain
<1>4. CASE MgrRecon \/ MgrSetup \/ MgrCall \/ MgrInitDone
  BY <1>4 DEF MgrRecon, MgrSetup, MgrCall, Prepare, MgrInitDone
<1>5. CASE MgrCommit \/ MgrPublish \/ MgrFail
  BY <1>5 DEF MgrCommit, MgrPublish, MgrFail
<1>6. CASE ExitBegin \/ MgrExit \/ MgrFence
  BY <1>6 DEF ExitBegin, MgrExit, MgrFence
<1> QED  BY <1>1, <1>2, <1>3, <1>4, <1>5, <1>6 DEF Manager

\* A command taken while a session is being rebuilt is one of its own.
LEMMA RebuildAdmits ==
    ASSUME "RECONSTRUCT" \in flags, NEW c, Admitted(c)
    PROVE  c \in Rebuilding
<1>1. CASE "UNLOADING" \in flags  BY <1>1 DEF Admitted, Rebuilding
<1>2. CASE "UNLOADING" \notin flags  BY <1>2 DEF Admitted
<1> QED  BY <1>1, <1>2

\* The manager reaches a setup through MgrRecon, and the calls of the
\* rebuilding through a setup that found no node in use.
LEMMA RebuildQuietNext ==
    ASSUME RebuildQuiet, QueueInv, [Next]_vars
    PROVE  RebuildQuiet'
<1>0. mret \in {"recon", "fail", "gone"}
  BY DEF QueueInv, OtherTypes, ControlTypes
<1>1. ASSUME mpc' \in {"setup", "init", "initwait", "commit"}
      PROVE  "RECONSTRUCT" \in flags'
  <2>1. CASE Manager
    BY <1>0, <1>1, <2>1 DEF RebuildQuiet, Manager, MgrBoot, MgrQuiesce,
       MgrRxIdle, MgrAbort, MgrClear, MgrDestroy, MgrNull, MgrDrain,
       MgrRecon, MgrSetup, MgrCall, Prepare, MgrInitDone, MgrCommit,
       MgrPublish, MgrFail, MgrExit, MgrFence
  <2>2. CASE ExitBegin  BY <1>1, <2>2 DEF RebuildQuiet, ExitBegin
  <2> QED  BY <1>1, <2>1, <2>2, FlagsMove DEF RebuildQuiet
<1>2. ASSUME mpc' \in {"init", "initwait", "commit"},
             mpc \notin {"init", "initwait", "commit"}
      PROVE  \A t \in Callers : own'[t] # NoNode => want'[t] \in Rebuilding
  <2>1. MgrSetup
    <3>1. Manager  BY <1>2, FlagsMove DEF ExitBegin
    <3> QED  BY <1>0, <1>2, <3>1 DEF Manager, MgrBoot, MgrQuiesce, MgrRxIdle,
                MgrAbort, MgrClear, MgrDestroy, MgrNull, MgrDrain, MgrRecon,
                MgrCall, MgrInitDone, MgrCommit, MgrPublish, MgrFail,
                MgrExit, MgrFence
  <2>2. Holding = {}
    BY <1>2, <2>1, HoldingFinite, FS_EmptySet
       DEF MgrSetup, QueueInv, NodeInv, NodeTypes, NodesConserved
  <2>3. UNCHANGED <<own, want>>  BY <2>1 DEF MgrSetup
  <2> QED  BY <2>2, <2>3 DEF Holding
<1>3. ASSUME mpc \in {"init", "initwait", "commit"},
             NEW u \in Callers, own'[u] # NoNode
      PROVE  want'[u] \in Rebuilding
  <2>0. "RECONSTRUCT" \in flags /\ (own[u] # NoNode => want[u] \in Rebuilding)
    BY <1>3 DEF RebuildQuiet
  <2>1. CASE UNCHANGED <<own, want>>  BY <1>3, <2>0, <2>1
  <2>2. ASSUME NEW t \in Callers, NEW c, Prepare(t, c)
        PROVE  want'[u] \in Rebuilding
    <3>1. CASE UNCHANGED <<own, want>>  BY <2>1, <3>1
    <3>2. CASE /\ Admitted(c) /\ want' = [want EXCEPT ![t] = c]
               /\ \E n \in free : own' = [own EXCEPT ![t] = n]
      <4>1. c \in Rebuilding  BY <2>0, <3>2, RebuildAdmits
      <4> QED  BY <1>3, <2>0, <3>2, <4>1 DEF QueueInv, NodeInv, NodeTypes,
                  MailInv, MailTypes
    <3> QED  BY <2>2, <3>1, <3>2 DEF Prepare
  <2>3. ASSUME NEW t \in Callers, Recycle(t) PROVE want'[u] \in Rebuilding
    BY <1>3, <2>0, <2>3 DEF Recycle, QueueInv, NodeInv, NodeTypes, MailInv,
       MailTypes
  <2>4. ASSUME NEW t \in Callers, CallStep(t), ~Recycle(t)
        PROVE  UNCHANGED <<own, want>>
    BY <2>4 DEF CallStep, AssignSeq, QueueNode, Timeout, Quarantine, Finish,
       Decode, Kick, KickQueue
  <2>5. CASE Transport \/ CmdWork
    BY <2>1, <2>5 DEF CmdWork, Transport, SpiSend, SpiLose, FwAnswer, FwMute,
       FwRestart, RxTake, RxGate, RxResponse
  <2>6. "mgr" \in Callers /\ Users \subseteq Callers  BY DEF Callers
  <2>7. CASE Manager \/ ExitBegin
    <3>1. CASE MgrCall  BY <2>2, <2>6, <3>1 DEF MgrCall
    <3>2. CASE ~MgrCall
      BY <2>1, <2>7, <3>2 DEF Manager, ExitBegin, MgrBoot, MgrQuiesce,
         MgrRxIdle, MgrAbort, MgrClear, MgrDestroy, MgrNull, MgrDrain,
         MgrRecon, MgrSetup, MgrInitDone, MgrCommit, MgrPublish, MgrFail,
         MgrExit, MgrFence
    <3> QED  BY <3>1, <3>2
  <2>8. CASE \E t \in Users : UserCall(t)
    BY <2>2, <2>6, <2>8 DEF UserCall
  <2> QED  BY <2>1, <2>3, <2>4, <2>5, <2>7, <2>8 DEF Next
<1> QED  BY <1>1, <1>2, <1>3 DEF RebuildQuiet

\* The gates' invariants, initially and always
LEMMA GatesAlways == Spec => [](QueueInv /\ MailboxOpen /\ RebuildQuiet)
<1>1. Init => MailboxOpen /\ RebuildQuiet
  BY DEF Init, MailboxOpen, RebuildQuiet
<1>2. QueueInv /\ MailboxOpen /\ RebuildQuiet /\ [Next]_vars
          => MailboxOpen' /\ RebuildQuiet'
  BY MailboxOpenNext, RebuildQuietNext DEF QueueInv
<1> QED  BY <1>1, <1>2, QueueInvInit, QueueInvNext, PTL DEF Spec

-----------------------------------------------------------------------------
(* No command is stranded *)

\* The gate of cmd_work is opened only by a setup, whose queue is empty, and
\* by esp_exit for its own command.
LEMMA GateOpens ==
    ASSUME QueueInv, MailboxOpen, RebuildQuiet, [Next]_vars, WorkGate'
    PROVE  \/ WorkGate
           \/ pend' = <<>>
           \/ mpc' \in {"deinit", "deinitwait"}
<1> USE DEF WorkGate, FlagsAllowTx
<1>0. mret \in {"recon", "fail", "gone"}
  BY DEF QueueInv, OtherTypes, ControlTypes
<1>1. CASE UNCHANGED <<flags, mpc>>  BY <1>1
<1>2. CASE flags' = flags \cup {"RESET_EXPECTED"} /\ mpc' = mpc  BY <1>2
<1>3. CASE MgrBoot \/ MgrQuiesce \/ MgrRxIdle \/ MgrAbort \/ MgrClear
           \/ MgrDestroy \/ MgrNull \/ MgrDrain
  BY <1>3 DEF MgrBoot, MgrQuiesce, MgrRxIdle, MgrAbort, MgrClear,
     MgrDestroy, MgrNull, MgrDrain
<1>4. CASE MgrRecon \/ MgrFail
  BY <1>4 DEF MgrRecon, MgrFail, MailboxOpen
<1>5. CASE MgrSetup
  BY <1>5 DEF MgrSetup
<1>6. CASE MgrCall \/ MgrInitDone \/ MgrCommit
  BY <1>6 DEF MgrCall, Prepare, MgrInitDone, MgrCommit, RebuildQuiet
<1>7. CASE MgrPublish \/ ExitBegin
  BY <1>7 DEF MgrPublish, ExitBegin
<1>8. CASE MgrExit \/ MgrFence
  BY <1>8 DEF MgrExit, MgrFence
<1> QED  BY <1>1, <1>2, <1>3, <1>4, <1>5, <1>6, <1>7, <1>8, FlagsMove
         DEF Manager

\* While the gate is open the work queue is there to be kicked.
LEMMA GateLive == MailboxOpen /\ WorkGate => wq = "live"
BY DEF MailboxOpen, WorkGate

\* A caller of cmd_wq who is on its way stays so, or has kicked it.
LEMMA NoneStrandedNext ==
    ASSUME QueueInv, MailboxOpen, RebuildQuiet, NoneStranded, [Next]_vars
    PROVE  NoneStranded'
<1> DEFINE D == {"deinit", "deinitwait"}
<1> SUFFICES ASSUME WorkGate', pend' # <<>>, cur' = NoNode, mpc' \notin D
             PROVE  workQ' \/ \E t \in Callers : Leaving(t)'
  BY DEF NoneStranded
<1>0. /\ WorkGate /\ wq = "live" /\ "CMD_INIT_DONE" \in flags
      /\ pc \in [Callers -> CallLabels]
  <2>1. WorkGate  BY GateOpens
  <2> QED  BY <2>1, GateLive DEF WorkGate, QueueInv, NodeInv, NodeTypes
<1>1. mpc \in D => FALSE
  <2>1. mpc \in D /\ mpc' \notin D => MgrFence
    BY FlagsMove DEF Manager, ExitBegin, MgrBoot, MgrQuiesce, MgrRxIdle,
       MgrAbort, MgrClear, MgrDestroy, MgrNull, MgrDrain, MgrRecon, MgrSetup,
       MgrCall, MgrInitDone, MgrCommit, MgrPublish, MgrFail, MgrExit
  <2>2. MgrFence => ~WorkGate'
    BY DEF MgrFence, WorkGate, FlagsAllowTx
  <2> QED  BY <2>1, <2>2
<1>2. pend # <<>> /\ cur = NoNode => workQ \/ \E t \in Callers : Leaving(t)
  BY <1>0, <1>1 DEF NoneStranded
<1>3. CASE /\ UNCHANGED <<pend, cur, own, pc>> /\ (workQ => workQ')
           /\ \A t \in Callers : pc[t] = "wait" /\ nd[own[t]].done
                                     => nd'[own[t]].done
  <2>1. \A t \in Callers : Leaving(t) => Leaving(t)'
    BY <1>3 DEF Leaving
  <2> QED  BY <1>2, <1>3, <2>1
<1>4. ASSUME NEW t \in Callers, NEW c, Prepare(t, c)
      PROVE  workQ' \/ \E u \in Callers : Leaving(u)'
  <2>1. /\ UNCHANGED <<pend, cur, workQ, nd>> /\ pc[t] = "idle"
        /\ \A u \in Callers : u # t => pc'[u] = pc[u] /\ own'[u] = own[u]
    BY <1>4 DEF Prepare, QueueInv, NodeInv, NodeTypes
  <2>2. \A u \in Callers : Leaving(u) => Leaving(u)'
    BY <2>1 DEF Leaving
  <2> QED  BY <1>2, <2>1, <2>2
<1>5. ASSUME NEW t \in Callers, CallStep(t)
      PROVE  workQ' \/ \E u \in Callers : Leaving(u)'
  <2>1. CASE AssignSeq(t)
    <3>1. /\ UNCHANGED <<pend, cur, workQ, own>> /\ pc[t] = "seq"
          /\ pc' = [pc EXCEPT ![t] = "queue"]
          /\ \A n \in Nodes : n # own[t] => nd'[n] = nd[n]
      BY <2>1 DEF AssignSeq, QueueInv, MailInv, MailTypes
    <3>2. \A u \in Callers : pc[u] = "wait" =>
              own[u] \in Nodes /\ own[u] # own[t]
      BY <1>0, <3>1, HeldNode DEF QueueInv, HoldLabels
    <3>3. \A u \in Callers : Leaving(u) => Leaving(u)'
      BY <1>0, <3>1, <3>2 DEF Leaving
    <3> QED  BY <1>2, <3>1, <3>3
  <2>2. CASE QueueNode(t)
    <3>1. CASE workQ'  BY <3>1
    <3>2. CASE ~workQ'
      <4>1. /\ UNCHANGED <<pend, cur, workQ, own>> /\ pc[t] = "queue"
            /\ \A u \in Callers : u # t => pc'[u] = pc[u]
            /\ \A n \in Nodes : n # own[t] => nd'[n] = nd[n]
        BY <1>0, <2>2, <3>2 DEF QueueNode, QueueInv, MailInv, MailTypes
      <4>2. \A u \in Callers : pc[u] = "wait" =>
                own[u] \in Nodes /\ own[u] # own[t]
        BY <1>0, <4>1, HeldNode DEF QueueInv, HoldLabels
      <4>3. \A u \in Callers : Leaving(u) => Leaving(u)'
        BY <1>0, <4>1, <4>2 DEF Leaving
      <4> QED  BY <1>2, <4>1, <4>3
    <3> QED  BY <3>1, <3>2
  <2>3. CASE Timeout(t) \/ Quarantine(t) \/ Finish(t) \/ Decode(t)
    <3>1. pc'[t] \in {"quarantine", "finish", "decode", "recycle"}
      BY <1>0, <2>3 DEF Timeout, Quarantine, Finish, Decode
    <3> QED  BY <3>1 DEF Leaving
  <2>4. CASE Recycle(t) /\ pc[t] = "recycle"
    <3>1. pc'[t] = "kick"  BY <1>0, <2>4 DEF Recycle
    <3> QED  BY <3>1 DEF Leaving
  <2>5. CASE Recycle(t) /\ pc[t] = "drop"
    <3>1. /\ UNCHANGED <<cur, workQ>> /\ pend' = RemoveFirst(pend, own[t])
          /\ pc' = [pc EXCEPT ![t] = "idle"]
          /\ \A u \in Callers : u # t => own'[u] = own[u]
          /\ \A n \in Nodes : n # own[t] => nd'[n] = nd[n]
      BY <2>5 DEF Recycle, QueueInv, MailInv, MailTypes, NodeInv, NodeTypes
    <3>2. \A u \in Callers : pc[u] = "wait" =>
              own[u] \in Nodes /\ own[u] # own[t]
      BY <1>0, <2>5, HeldNode DEF QueueInv, HoldLabels
    <3>3. \A u \in Callers : Leaving(u) => Leaving(u)'
      BY <1>0, <2>5, <3>1, <3>2 DEF Leaving
    <3>4. pend # <<>>
      <4>1. SUFFICES ASSUME pend = <<>> PROVE FALSE  OBVIOUS
      <4>2. RemoveFirst(pend, own[t]) = <<>>  BY <4>1 DEF RemoveFirst
      <4> QED  BY <3>1, <4>2
    <3> QED  BY <1>2, <3>1, <3>3, <3>4
  <2>6. CASE Kick(t)
    <3>1. pc'[t] = "kickq"  BY <1>0, <2>6 DEF Kick, MayKick
    <3> QED  BY <3>1 DEF Leaving
  <2>7. CASE KickQueue(t)  BY <1>0, <2>7 DEF KickQueue
  <2> QED  BY <1>5, <2>1, <2>2, <2>3, <2>4, <2>5, <2>6, <2>7
           DEF CallStep, Recycle
<1>6. CASE CmdWork
  <2>1. CanSubmit  BY <1>0, <1>6 DEF CmdWork, CanSubmit
  <2>2. pend \in Seq(Nodes) /\ pend # <<>>
    BY <2>1 DEF CanSubmit, QueueInv, MailInv, MailTypes
  <2>3. Head(pend) \in Nodes /\ Head(pend) \in Range(pend)
    BY <2>2, TailFacts
  <2>4. nd' = [nd EXCEPT ![Head(pend)] = Completed(Head(pend), "shutdown")]
    BY <1>6, <2>1, <2>3, NodesAssumption DEF CmdWork
  <2>5. nd'[Head(pend)].done
    BY <2>3, <2>4, CompletedNode DEF QueueInv, MailInv, MailTypes
  <2>6. PICK t \in Callers : own[t] = Head(pend) /\ pc[t] \in Waiting
    BY <2>3, OwnerOf DEF QueueInv
  <2>7. UNCHANGED <<pc, own>>  BY <1>6 DEF CmdWork
  <2> QED  BY <2>5, <2>6, <2>7 DEF Leaving, Waiting
<1>7. CASE SpiLose \/ MgrQuiesce
  <2>1. UNCHANGED <<pend, cur, own, pc, workQ>>
    BY <1>7 DEF SpiLose, MgrQuiesce
  <2>2. nd' = nd \/ nd' = [nd EXCEPT ![cur] = Completed(cur, "io")]
    BY <1>7 DEF SpiLose, MgrQuiesce, TransportFailed
  <2>3. cur = NoNode  BY <2>1
  <2>4. nd' = nd  BY <1>7, <2>3 DEF SpiLose, MgrQuiesce, TransportFailed
  <2> QED  BY <1>3, <2>1, <2>4
<1>8. CASE RxResponse
  BY <1>3, <1>8 DEF RxResponse, Accepts, Matches
<1>9. CASE MgrAbort \/ MgrSetup
  <2>1. UNCHANGED <<nd, pend, cur, workQ, pc, own>>
    BY <1>9 DEF MgrAbort, MgrSetup
  <2> QED  BY <1>3, <2>1
<1>10. CASE MgrDestroy
  BY <1>0, <1>10 DEF MgrDestroy, MailboxOpen
<1>11. CASE SpiSend \/ FwAnswer \/ FwMute \/ FwRestart \/ RxTake \/ RxGate
  <2>1. UNCHANGED <<pend, cur, own, pc, workQ, nd>>
    BY <1>11 DEF SpiSend, FwAnswer, FwMute, FwRestart, RxTake, RxGate
  <2> QED  BY <1>3, <2>1
<1>12. CASE MgrBoot \/ MgrRxIdle \/ MgrClear \/ MgrNull \/ MgrDrain
            \/ MgrRecon
  BY <1>3, <1>12 DEF MgrBoot, MgrRxIdle, MgrClear, MgrNull, MgrDrain,
     MgrRecon
<1>13. CASE MgrInitDone \/ MgrCommit \/ MgrPublish \/ MgrFail \/ ExitBegin
            \/ MgrExit \/ MgrFence
  BY <1>3, <1>13 DEF MgrInitDone, MgrCommit, MgrPublish, MgrFail, ExitBegin,
     MgrExit, MgrFence
<1>14. CASE UNCHANGED vars  BY <1>3, <1>14
<1>15. "mgr" \in Callers /\ Users \subseteq Callers  BY DEF Callers
<1>16. CASE MgrCall  BY <1>4, <1>15, <1>16 DEF MgrCall
<1>17. CASE \E t \in Users : UserCall(t)
  BY <1>4, <1>15, <1>17 DEF UserCall
<1> QED  BY <1>5, <1>6, <1>7, <1>8, <1>9, <1>10, <1>11, <1>12, <1>13, <1>14,
            <1>16, <1>17 DEF Next, Manager, Transport

\* A queued command is never left behind by the unlocked tests and kicks of
\* cmd_wq at the end of wait_and_decode_cmd_resp: while the mailbox is open
\* somebody is on the way to start it, or esp_exit to abort it.
THEOREM NeverStranded == Spec => []NoneStranded
<1>1. Init => NoneStranded  BY DEF Init, NoneStranded
<1>2. (QueueInv /\ MailboxOpen /\ RebuildQuiet) /\ NoneStranded
          /\ [Next]_vars => NoneStranded'
  BY NoneStrandedNext
<1> QED  BY <1>1, <1>2, GatesAlways, PTL DEF Spec

-----------------------------------------------------------------------------
(* Ambiguous commands *)

\* A user whose command timed out after it was submitted
Unanswered(t) == /\ pc[t] = "recycle" /\ out[t] = "timedout"
                 /\ nd[own[t]].sent /\ want[t] \in Ambiguous \ Rebuilding

\* Somebody answers for the firmware's incarnation.
AnsweredFor == {"RESET_EXPECTED", "RECONSTRUCT", "UNLOADING", "REMOVING"}
                   \cap flags # {}

\* Nobody but the caller itself makes a command unanswered.
LEMMA UnansweredMove ==
    ASSUME QueueInv, [Next]_vars, NEW u \in Users, Unanswered(u)'
    PROVE  Unanswered(u) \/ Decode(u)
<1> USE DEF Unanswered
<1>0. u \in Callers /\ pc \in [Callers -> CallLabels]
  BY DEF Callers, QueueInv, NodeInv, NodeTypes
<1>1. CASE pc'[u] = pc[u] /\ UNCHANGED <<own, want, out>>
  <2>1. /\ own[u] \in Nodes /\ own[u] \notin Range(pend) /\ own[u] # cur
        /\ \A t \in Callers : own[t] = own[u] => t = u
    BY <1>0, <1>1, InCall, HeldNode
       DEF QueueInv, NodePlace, HoldLabels, Waiting
  <2>2. nd'[own[u]] = nd[own[u]]
    <3>1. CASE UNCHANGED nd  BY <3>1
    <3>2. ASSUME NEW t \in Callers, t # u,
                 \A n \in Nodes : n # own[t] => nd'[n] = nd[n]
          PROVE  nd'[own[u]] = nd[own[u]]
      BY <2>1, <3>2
    <3>3. ASSUME NEW t \in Callers, CallStep(t)
          PROVE  nd'[own[u]] = nd[own[u]]
      <4>1. pc'[t] # pc[t] /\ t # u
        BY <1>0, <1>1, <3>3 DEF CallStep, AssignSeq, QueueNode, Timeout,
           Quarantine, Finish, Decode, Recycle, Kick, KickQueue
      <4>2. \A n \in Nodes : n # own[t] => nd'[n] = nd[n]
        BY <3>3 DEF CallStep, AssignSeq, QueueNode, Timeout, Quarantine,
           Finish, Decode, Recycle, Kick, KickQueue, QueueInv, MailInv,
           MailTypes
      <4> QED  BY <3>2, <4>1, <4>2
    <3>4. CASE CmdWork
      <4>1. CASE ~CanSubmit  BY <3>4, <4>1 DEF CmdWork
      <4>2. CASE CanSubmit
        <5>1. Head(pend) \in Range(pend)
          BY <4>2, TailFacts DEF CanSubmit, QueueInv, MailInv, MailTypes
        <5>2. \A n \in Nodes : n # Head(pend) => nd'[n] = nd[n]
          BY <3>4, <4>2 DEF CmdWork, QueueInv, MailInv, MailTypes
        <5> QED  BY <2>1, <5>1, <5>2
      <4> QED  BY <4>1, <4>2
    <3>5. CASE SpiLose \/ MgrQuiesce \/ RxResponse
      <4>1. \A n \in Nodes : n # cur => nd'[n] = nd[n]
        BY <3>5 DEF SpiLose, MgrQuiesce, RxResponse, TransportFailed,
           QueueInv, MailInv, MailTypes
      <4> QED  BY <2>1, <4>1
    <3>6. CASE MgrAbort
      <4>1. \A n \in Nodes : n \notin Aborted => nd'[n] = nd[n]
        BY <3>6 DEF MgrAbort
      <4> QED  BY <2>1, <4>1 DEF Aborted
    <3>7. CASE MgrSetup
      <4>1. CASE UNCHANGED nd  BY <4>1
      <4>2. CASE ~(pool /\ inUse # 0)
        <5>1. Holding = {}
          BY <4>2, HoldingFinite, FS_EmptySet
             DEF QueueInv, NodeInv, NodeTypes, NodesConserved
        <5> QED  BY <1>0, <2>1, <5>1, NodesAssumption DEF Holding
      <4> QED  BY <3>7, <4>1, <4>2 DEF MgrSetup
    <3>8. CASE (\E t \in Users : UserCall(t)) \/ MgrCall
      BY <3>8 DEF UserCall, MgrCall, Prepare
    <3>9. CASE SpiSend \/ FwAnswer \/ FwMute \/ FwRestart \/ RxTake \/ RxGate
      BY <3>9 DEF SpiSend, FwAnswer, FwMute, FwRestart, RxTake, RxGate
    <3>10. CASE MgrBoot \/ MgrRxIdle \/ MgrClear \/ MgrDestroy \/ MgrNull
                \/ MgrDrain \/ MgrRecon
      BY <3>10 DEF MgrBoot, MgrRxIdle, MgrClear, MgrDestroy, MgrNull,
         MgrDrain, MgrRecon
    <3>11. CASE MgrInitDone \/ MgrCommit \/ MgrPublish \/ MgrFail
                \/ ExitBegin \/ MgrExit \/ MgrFence
      BY <3>11 DEF MgrInitDone, MgrCommit, MgrPublish, MgrFail, ExitBegin,
         MgrExit, MgrFence
    <3> QED  BY <3>1, <3>3, <3>4, <3>5, <3>6, <3>7, <3>8, <3>9, <3>10, <3>11
             DEF Next, Manager, Transport
  <2> QED  BY <1>1, <2>2
<1>2. ASSUME NEW t \in Callers, NEW c, Prepare(t, c)
      PROVE  Unanswered(u)
  <2>1. t # u /\ nd' = nd /\ pc'[u] = pc[u]
        /\ own'[u] = own[u] /\ want'[u] = want[u] /\ out'[u] = out[u]
    BY <1>0, <1>2, UsersAssumption DEF Prepare, QueueInv, NodeInv, NodeTypes,
       MailInv, MailTypes, OtherTypes, CountTypes
  <2> QED  BY <2>1
<1>3. ASSUME NEW t \in Callers, CallStep(t)
      PROVE  Unanswered(u) \/ Decode(u)
  <2>1. CASE t = u
    BY <1>0, <1>3, <2>1 DEF CallStep, AssignSeq, QueueNode, Timeout,
       Quarantine, Finish, Recycle, Kick, KickQueue
  <2>2. CASE t # u
    <3>1. /\ pc'[u] = pc[u] /\ own'[u] = own[u] /\ want'[u] = want[u]
          /\ out'[u] = out[u]
      BY <1>0, <1>3, <2>2 DEF CallStep, AssignSeq, QueueNode, Timeout,
         Quarantine, Finish, Decode, Recycle, Kick, KickQueue, QueueInv,
         NodeInv, NodeTypes, MailInv, MailTypes, OtherTypes, CountTypes
    <3>2. own[u] \in Nodes /\ own[u] # own[t]
      BY <1>0, <2>2, <3>1, HeldNode DEF QueueInv, HoldLabels
    <3>3. \A n \in Nodes : n # own[t] => nd'[n] = nd[n]
      BY <1>3 DEF CallStep, AssignSeq, QueueNode, Timeout, Quarantine,
         Finish, Decode, Recycle, Kick, KickQueue, QueueInv, MailInv,
         MailTypes
    <3> QED  BY <3>1, <3>2, <3>3
  <2> QED  BY <2>1, <2>2
<1>4. "mgr" \in Callers /\ Users \subseteq Callers  BY DEF Callers
<1>5. CASE (\E t \in Users : UserCall(t)) \/ MgrCall
  BY <1>2, <1>4, <1>5 DEF UserCall, MgrCall
<1>6. CASE CmdWork \/ Transport
  BY <1>1, <1>6 DEF CmdWork, Transport, SpiSend, SpiLose, FwAnswer, FwMute,
     FwRestart, RxTake, RxGate, RxResponse
<1>7. CASE (Manager \/ ExitBegin) /\ ~MgrCall
  BY <1>1, <1>7 DEF Manager, ExitBegin, MgrBoot, MgrQuiesce,
     MgrRxIdle, MgrAbort, MgrClear, MgrDestroy, MgrNull, MgrDrain,
     MgrRecon, MgrSetup, MgrInitDone, MgrCommit, MgrPublish, MgrFail,
     MgrExit, MgrFence
<1>8. CASE UNCHANGED vars  BY <1>1, <1>8
<1> QED  BY <1>3, <1>5, <1>6, <1>7, <1>8 DEF Next

\* The incarnation that left a command unanswered is answered for until it
\* has been replaced, when every user has given its node back.
LEMMA AmbiguousNext ==
    ASSUME QueueInv, MailboxOpen, RebuildQuiet, AmbiguousQuarantined,
           [Next]_vars
    PROVE  AmbiguousQuarantined'
<1> SUFFICES ASSUME NEW u \in Users, Unanswered(u)'
             PROVE  AnsweredFor'
  BY DEF AmbiguousQuarantined, Unanswered, AnsweredFor
<1>0. u \in Callers  BY DEF Callers
<1>1. CASE Decode(u)
  <2>1. pc[u] = "decode" /\ UNCHANGED <<nd, own, want>> /\ pc[u] \in HoldLabels
    BY <1>1 DEF Decode, HoldLabels
  <2>2. nd[own[u]].code = want[u]
    BY <1>0, <2>1, InCall DEF QueueInv, NodePhase, Asked
  <2>3. nd[own[u]].sent /\ nd[own[u]].code \in Ambiguous
    BY <2>1, <2>2 DEF Unanswered
  <2>4. out[u] = "timedout"
    BY <1>0, <1>1 DEF Decode, Unanswered, QueueInv, OtherTypes, CountTypes
  <2>5. CASE MustQuarantine(own[u])
    BY <1>1, <2>4, <2>5 DEF Decode, QuarantineNow, AnsweredFor
  <2>6. CASE ~MustQuarantine(own[u])
    <3>1. AnsweredFor  BY <2>3, <2>6 DEF MustQuarantine, AnsweredFor
    <3> QED  BY <1>1, <2>6, <3>1 DEF Decode, AnsweredFor
  <2> QED  BY <2>5, <2>6
<1>2. CASE Unanswered(u)
  <2>1. AnsweredFor
    BY <1>2 DEF AmbiguousQuarantined, Unanswered, AnsweredFor
  <2>2. ~MgrCommit
    <3>1. own[u] # NoNode
      BY <1>0, <1>2, HeldNode DEF Unanswered, QueueInv, HoldLabels
    <3>2. mpc # "commit"
      BY <1>0, <1>2, <3>1 DEF Unanswered, RebuildQuiet
    <3> QED  BY <3>2 DEF MgrCommit
  <2>3. CASE MgrFail  BY <2>1, <2>3 DEF MgrFail, AnsweredFor
  <2>4. CASE MgrRecon \/ MgrSetup \/ MgrClear \/ MgrInitDone \/ MgrPublish
    BY <2>1, <2>4 DEF MgrRecon, MgrSetup, MgrClear, MgrInitDone, MgrPublish,
       AnsweredFor
  <2>5. CASE MgrBoot \/ MgrQuiesce \/ MgrRxIdle \/ MgrAbort \/ MgrDestroy
             \/ MgrNull \/ MgrDrain \/ MgrCall
    BY <2>1, <2>5 DEF MgrBoot, MgrQuiesce, MgrRxIdle, MgrAbort, MgrDestroy,
       MgrNull, MgrDrain, MgrCall, Prepare, AnsweredFor
  <2>6. CASE ExitBegin \/ MgrExit \/ MgrFence
    BY <2>1, <2>6 DEF ExitBegin, MgrExit, MgrFence, AnsweredFor
  <2> QED  BY <2>1, <2>2, <2>3, <2>4, <2>5, <2>6, FlagsMove
           DEF Manager, AnsweredFor
<1> QED  BY <1>1, <1>2, UnansweredMove

\* A command that changes the firmware and whose answer never came
\* (esp_cmd_timeout_is_commit_ambiguous) does not return a plain timeout to a
\* session that goes on, whatever teardown and reconstruction do meanwhile.
THEOREM AmbiguousSafe == Spec => []AmbiguousQuarantined
<1>1. Init => AmbiguousQuarantined
  BY DEF Init, AmbiguousQuarantined, Callers
<1>2. (QueueInv /\ MailboxOpen /\ RebuildQuiet) /\ AmbiguousQuarantined
          /\ [Next]_vars => AmbiguousQuarantined'
  BY AmbiguousNext
<1> QED  BY <1>1, <1>2, GatesAlways, PTL DEF Spec

-----------------------------------------------------------------------------
(* The mailbox implements CmdService *)

\* What callers see of the mailbox
View == [t \in Callers |-> Progress(t)]

ServiceStep == [Service!Next]_View

\* Only the progress of one caller moves, and it moves as CmdService allows.
Moves(t, x, y) ==
    \/ y = x
    \/ x = "idle" /\ y = "open"
    \/ x = "open" /\ y = "sent" /\ \A u \in Callers : Progress(u) # "sent"
    \/ x = "sent" /\ y = "answered"
    \/ x \in {"open", "sent"} /\ y = "failed"
    \/ x \in {"answered", "failed", "open"} /\ y = "idle"

\* Such a move is a step of CmdService, or none.
LEMMA OneMoves ==
    ASSUME NEW t \in Callers, NEW x, NEW y,
           Progress(t) = x, Progress(t)' = y, Moves(t, x, y),
           \A u \in Callers : u # t => Progress(u)' = Progress(u)
    PROVE  ServiceStep
<1>1. View' = [View EXCEPT ![t] = y] /\ View[t] = x  BY DEF View
<1>2. CASE y = x  BY <1>1, <1>2 DEF ServiceStep, View
<1>3. CASE x = "idle" /\ y = "open"
  <2>1. Service!Begin(t)  BY <1>1, <1>3 DEF Service!Begin, View
  <2> QED  BY <2>1 DEF ServiceStep, Service!Next
<1>4. CASE x = "open" /\ y = "sent" /\ \A u \in Callers : Progress(u) # "sent"
  <2>1. Service!Submit(t)  BY <1>1, <1>4 DEF Service!Submit, View
  <2> QED  BY <2>1 DEF ServiceStep, Service!Next
<1>5. CASE x = "sent" /\ y = "answered"
  <2>1. Service!Answer(t)  BY <1>1, <1>5 DEF Service!Answer, View
  <2> QED  BY <2>1 DEF ServiceStep, Service!Next
<1>6. CASE x \in {"open", "sent"} /\ y = "failed"
  <2>1. View' = [u \in Callers |-> IF u \in {t} THEN "failed" ELSE View[u]]
    BY <1>6 DEF View
  <2>2. Service!Fail({t})  BY <1>1, <1>6, <2>1 DEF Service!Fail, View
  <2> QED  BY <2>2 DEF ServiceStep, Service!Next
<1>7. CASE x \in {"answered", "failed", "open"} /\ y = "idle"
  <2>1. Service!Return(t)
    BY <1>1, <1>7 DEF Service!Return, Service!Outcomes, View
  <2> QED  BY <2>1 DEF ServiceStep, Service!Next
<1> QED  BY <1>2, <1>3, <1>4, <1>5, <1>6, <1>7 DEF Moves

\* A caller whose node and control stay as they are sees nothing.
LEMMA SameProgress ==
    ASSUME NEW u \in Callers, own'[u] = own[u],
           own[u] # NoNode => /\ pc'[u] = pc[u] /\ out'[u] = out[u]
                              /\ nd'[own[u]] = nd[own[u]]
    PROVE  Progress(u)' = Progress(u)
BY DEF Progress

\* prepare_command_request_for_if begins a call, or nothing.
LEMMA PrepareImplements ==
    ASSUME QueueInv, NEW t \in Callers, NEW c, Prepare(t, c)
    PROVE  ServiceStep
<1>0. pc[t] = "idle" /\ nd' = nd  BY DEF Prepare
<1>1. own[t] = NoNode
  BY <1>0 DEF QueueInv, NodeInv, HoldsWhileInCall, HoldLabels
<1>2. ASSUME NEW u \in Callers, u # t PROVE Progress(u)' = Progress(u)
  <2>1. own'[u] = own[u] /\ pc'[u] = pc[u] /\ out'[u] = out[u]
    BY <1>2 DEF Prepare, QueueInv, NodeInv, NodeTypes, OtherTypes,
       CountTypes
  <2> QED  BY <1>0, <2>1, SameProgress
<1>3. Progress(t) = "idle"  BY <1>1 DEF Progress
<1>4. CASE UNCHANGED own
  <2>1. Progress(t)' = "idle"  BY <1>1, <1>4 DEF Progress
  <2> QED  BY <1>2, <1>3, <2>1, OneMoves DEF Moves
<1>5. CASE /\ \E n \in free : own' = [own EXCEPT ![t] = n]
           /\ \E l \in {"seq", "drop"} : pc' = [pc EXCEPT ![t] = l]
  <2>1. PICK n \in free : own' = [own EXCEPT ![t] = n]  BY <1>5
  <2>2. n \in Nodes /\ pool
    BY DEF QueueInv, NodeInv, NodeTypes, NoPoolNoFree
  <2>3. \A u \in Callers : own[u] # n
    BY <2>2, NodesAssumption DEF QueueInv, NodeInv, NodesConserved, Holding
  <2>4. nd[n] = Blank  BY <2>2, <2>3 DEF QueueInv, MailInv, IdleBlank
  <2>5. own'[t] = n /\ n # NoNode /\ pc'[t] \in {"seq", "drop"}
    BY <1>5, <2>1, <2>2, NodesAssumption DEF QueueInv, NodeInv, NodeTypes
  <2>6. ~nd[n].done /\ ~nd[n].sent  BY <2>4 DEF Blank
  <2>7. Progress(t)' = "open"  BY <1>0, <2>5, <2>6 DEF Progress
  <2> QED  BY <1>2, <1>3, <2>7, OneMoves DEF Moves
<1> QED  BY <1>4, <1>5 DEF Prepare

\* A step of a call decides its own outcome and nobody else's.
LEMMA CallStepImplements ==
    ASSUME QueueInv, NEW t \in Callers, CallStep(t)
    PROVE  ServiceStep
<1> DEFINE n == own[t]
<1>0. pc \in [Callers -> CallLabels]
  BY DEF QueueInv, NodeInv, NodeTypes
<1>1. ASSUME NEW u \in Callers, u # t PROVE Progress(u)' = Progress(u)
  <2>1. pc'[u] = pc[u] /\ own'[u] = own[u] /\ out'[u] = out[u]
    BY <1>0, <1>1 DEF CallStep, AssignSeq, QueueNode, Timeout, Quarantine,
       Finish, Decode, Recycle, Kick, KickQueue, QueueInv, NodeInv,
       NodeTypes, OtherTypes, CountTypes
  <2>2. own[u] # NoNode => nd'[own[u]] = nd[own[u]]
    <3>1. \A m \in Nodes : m # n => nd'[m] = nd[m]
      BY DEF CallStep, AssignSeq, QueueNode, Timeout, Quarantine, Finish,
         Decode, Recycle, Kick, KickQueue, QueueInv, MailInv, MailTypes
    <3>2. own[u] # NoNode => own[u] \in Nodes /\ own[u] # n
      BY <1>1, HeldNode DEF QueueInv, NodeInv, HoldsWhileInCall
    <3> QED  BY <3>1, <3>2
  <2> QED  BY <2>1, <2>2, SameProgress
<1>2. CASE Kick(t) \/ KickQueue(t)
  <2>1. own'[t] = own[t] /\ pc[t] \notin HoldLabels
    BY <1>2 DEF Kick, KickQueue, HoldLabels
  <2>2. own[t] = NoNode
    BY <2>1 DEF QueueInv, NodeInv, HoldsWhileInCall
  <2>3. Progress(t)' = Progress(t)  BY <2>1, <2>2 DEF Progress
  <2> QED  BY <1>1, <2>3, OneMoves DEF Moves
<1>3. ASSUME pc[t] \in HoldLabels
      PROVE  /\ n \in Nodes /\ n # NoNode /\ nd[n] \in Node
             /\ NodePhase(pc[t], want[t], nd[n])
             /\ NodePlace(pc[t], n, nd[n]) /\ nd \in [Nodes -> Node]
             /\ out \in [Callers -> {"0", "timedout", "shutdown", "io",
                                     "busy", "nomem", "refused"}]
  BY <1>3, InCall DEF QueueInv, MailInv, MailTypes, OtherTypes, CountTypes
<1>4. CASE AssignSeq(t)
  <2>1. pc[t] = "seq" /\ pc'[t] = "queue" /\ own'[t] = n
    BY <1>0, <1>4 DEF AssignSeq
  <2>2. nd[n] = Blank /\ n \in Nodes /\ n # NoNode
        /\ nd \in [Nodes -> Node]
    BY <1>3, <2>1 DEF HoldLabels, NodePhase
  <2>3. ~nd[n].done /\ ~nd[n].sent  BY <2>2 DEF Blank
  <2>4. ~nd'[n].done /\ ~nd'[n].sent  BY <1>4, <2>2 DEF AssignSeq, Blank
  <2>5. Progress(t) = "open"  BY <2>1, <2>2, <2>3 DEF Progress
  <2>6. Progress(t)' = "open"  BY <2>1, <2>2, <2>4 DEF Progress
  <2> QED  BY <1>1, <2>5, <2>6, OneMoves DEF Moves
<1>5. CASE QueueNode(t)
  <2>1. pc[t] = "queue" /\ pc'[t] \in {"wait", "drop"} /\ own'[t] = n
    BY <1>0, <1>5 DEF QueueNode
  <2>2. /\ n \in Nodes /\ n # NoNode /\ nd \in [Nodes -> Node]
        /\ ~nd[n].done /\ ~nd[n].sent /\ nd[n].resp = 0
    BY <1>3, <2>1 DEF HoldLabels, NodePhase
  <2>3. Progress(t) = "open"  BY <2>1, <2>2 DEF Progress
  <2>4. CASE nd' = nd
    <3>1. Progress(t)' = "open"  BY <2>1, <2>2, <2>4 DEF Progress
    <3> QED  BY <1>1, <2>3, <3>1, OneMoves DEF Moves
  <2>5. CASE nd' = [nd EXCEPT ![n] = Completed(n, "shutdown")]
    <3>1. nd'[n].done /\ nd'[n].resp = 0
      BY <2>2, <2>5, CompletedNode DEF QueueInv
    <3>2. Progress(t)' = "failed"  BY <2>1, <2>2, <3>1 DEF Progress
    <3> QED  BY <1>1, <2>3, <3>2, OneMoves DEF Moves
  <2> QED  BY <1>5, <2>4, <2>5 DEF QueueNode
<1>6. CASE Timeout(t)
  <2>1. pc[t] = "wait" /\ pc'[t] \in {"quarantine", "finish"} /\ own'[t] = n
        /\ ~nd[n].done
    BY <1>0, <1>6 DEF Timeout
  <2>2. /\ n \in Nodes /\ n # NoNode /\ nd \in [Nodes -> Node]
        /\ nd[n].resp = 0
    BY <1>3, <2>1 DEF HoldLabels, NodePhase
  <2>3. PICK x \in {"open", "sent"} : Progress(t) = x
    BY <2>1, <2>2 DEF Progress
  <2>4. CASE nd' = nd
    <3>1. Progress(t)' = Progress(t)  BY <2>1, <2>2, <2>4 DEF Progress
    <3> QED  BY <1>1, <3>1, OneMoves DEF Moves
  <2>5. CASE nd' = [nd EXCEPT ![n] = Completed(n, "timedout")]
    <3>1. nd'[n].done /\ nd'[n].resp = 0
      BY <2>2, <2>5, CompletedNode DEF QueueInv
    <3>2. Progress(t)' = "failed"  BY <2>1, <2>2, <3>1 DEF Progress
    <3> QED  BY <1>1, <2>3, <3>2, OneMoves DEF Moves
  <2> QED  BY <1>6, <2>4, <2>5 DEF Timeout
<1>7. CASE Quarantine(t)
  <2>1. pc[t] = "quarantine" /\ pc'[t] = "finish" /\ own'[t] = n /\ nd' = nd
    BY <1>0, <1>7 DEF Quarantine
  <2>2. Progress(t)' = Progress(t)  BY <2>1 DEF Progress
  <2> QED  BY <1>1, <2>2, OneMoves DEF Moves
<1>8. CASE Finish(t)
  <2>1. pc[t] \in {"wait", "finish"} /\ pc'[t] = "decode" /\ own'[t] = n
    BY <1>0, <1>8 DEF Finish
  <2>2. /\ n \in Nodes /\ n # NoNode
        /\ nd[n].resp # 0 => nd[n].result = "0"
        /\ ~nd[n].done => nd[n].resp = 0
        /\ out \in [Callers -> {"0", "timedout", "shutdown", "io",
                                "busy", "nomem", "refused"}]
    BY <1>3, <2>1 DEF HoldLabels, NodePhase
  <2>3. CASE Won(t)
    <3>1. nd[n].done /\ nd' = nd /\ out'[t] = nd[n].result
      BY <1>8, <2>2, <2>3 DEF Finish, Won
    <3>2. Progress(t)' = Progress(t)  BY <2>1, <2>2, <3>1 DEF Progress
    <3> QED  BY <1>1, <3>2, OneMoves DEF Moves
  <2>4. CASE ~Won(t)
    <3>1. ~nd[n].done /\ out'[t] = "timedout"
      BY <1>8, <2>2, <2>4 DEF Finish, Won
    <3>2. PICK x \in {"open", "sent"} : Progress(t) = x
      BY <2>1, <2>2, <3>1 DEF Progress
    <3>3. Progress(t)' = "failed"  BY <2>1, <2>2, <3>1 DEF Progress
    <3> QED  BY <1>1, <3>2, <3>3, OneMoves DEF Moves
  <2> QED  BY <2>3, <2>4
<1>9. CASE Decode(t)
  <2>1. pc[t] = "decode" /\ pc'[t] = "recycle" /\ own'[t] = n /\ nd' = nd
        /\ (out'[t] = "timedout" <=> out[t] = "timedout")
    BY <1>0, <1>3, <1>9 DEF Decode, HoldLabels
  <2>2. Progress(t)' = Progress(t)  BY <2>1 DEF Progress
  <2> QED  BY <1>1, <2>2, OneMoves DEF Moves
<1>10. CASE Recycle(t)
  <2>1. pc[t] \in {"recycle", "drop"} /\ own'[t] = NoNode
    BY <1>10 DEF Recycle, QueueInv, NodeInv, NodeTypes
  <2>2. n # NoNode /\ (pc[t] = "recycle" => nd[n].done)
        /\ (pc[t] = "drop" => ~nd[n].sent)
    BY <1>3, <2>1 DEF HoldLabels, NodePhase
  <2>3. PICK x \in {"answered", "failed", "open"} : Progress(t) = x
    BY <2>1, <2>2 DEF Progress
  <2>4. Progress(t)' = "idle"  BY <2>1 DEF Progress
  <2> QED  BY <1>1, <2>3, <2>4, OneMoves DEF Moves
<1> QED  BY <1>2, <1>4, <1>5, <1>6, <1>7, <1>8, <1>9, <1>10 DEF CallStep

\* A step that touches one node at most is seen by its owner alone.
LEMMA OneNodeSeen ==
    ASSUME QueueInv, UNCHANGED <<pc, own, out>>, NEW t \in Callers,
           pc[t] \in HoldLabels,
           \A m \in Nodes : m # own[t] => nd'[m] = nd[m]
    PROVE  \A u \in Callers : u # t => Progress(u)' = Progress(u)
<1> SUFFICES ASSUME NEW u \in Callers, u # t
             PROVE  Progress(u)' = Progress(u)
  OBVIOUS
<1>1. own[u] # NoNode => own[u] \in Nodes /\ own[u] # own[t]
  BY HeldNode DEF QueueInv, NodeInv, HoldsWhileInCall
<1> QED  BY <1>1, SameProgress

\* A command that is with the firmware is the current one.
LEMMA SentIsCurrent ==
    ASSUME QueueInv, NEW u \in Callers, Progress(u) = "sent"
    PROVE  cur = own[u] /\ own[u] # NoNode
<1>1. own[u] # NoNode /\ ~nd[own[u]].done /\ nd[own[u]].sent
  BY DEF Progress
<1>2. pc[u] \in HoldLabels
  BY <1>1 DEF QueueInv, NodeInv, HoldsWhileInCall
<1>3. /\ NodePhase(pc[u], want[u], nd[own[u]])
      /\ NodePlace(pc[u], own[u], nd[own[u]])
  BY <1>2, InCall DEF QueueInv
<1>4. pc[u] # "seq"  BY <1>1, <1>3 DEF NodePhase, Blank
<1>5. pc[u] \in Waiting
  BY <1>1, <1>2, <1>3, <1>4 DEF NodePhase, HoldLabels, Waiting
<1> QED  BY <1>1, <1>3, <1>5 DEF NodePlace

\* esp_cmd_work submits one command, when none is with the firmware, or
\* fails it.
LEMMA CmdWorkImplements ==
    ASSUME QueueInv, CmdWork
    PROVE  ServiceStep
<1>0. UNCHANGED <<pc, own, out>>  BY DEF CmdWork
<1>1. CASE ~CanSubmit
  <2>1. nd' = nd  BY <1>1 DEF CmdWork
  <2>2. View' = View  BY <1>0, <2>1 DEF View, Progress
  <2> QED  BY <2>2 DEF ServiceStep, View
<1>2. CASE CanSubmit
  <2> DEFINE n == Head(pend)
  <2>1. /\ n \in Nodes /\ n \in Range(pend) /\ cur = NoNode
        /\ nd \in [Nodes -> Node]
    BY <1>2, TailFacts DEF CanSubmit, QueueInv, MailInv, MailTypes
  <2>2. PICK t \in Callers : own[t] = n /\ pc[t] \in Waiting
    BY <2>1, OwnerOf DEF QueueInv
  <2>3. /\ pc[t] = "wait" /\ ~nd[n].done /\ ~nd[n].sent /\ nd[n].resp = 0
        /\ n # NoNode /\ nd[n] \in Node
    BY <2>1, <2>2, InCall
       DEF QueueInv, NodePlace, NodePhase, HoldLabels, Waiting
  <2>4. \A m \in Nodes : m # n => nd'[m] = nd[m]
    BY <1>2, <2>1 DEF CmdWork
  <2>5. \A u \in Callers : u # t => Progress(u)' = Progress(u)
    BY <1>0, <2>2, <2>3, <2>4, OneNodeSeen DEF HoldLabels
  <2>6. Progress(t) = "open"  BY <2>2, <2>3 DEF Progress
  <2>7. CASE Admitted(nd[n].code) /\ path /\ ready
    <3>1. nd' = [nd EXCEPT ![n].sent = TRUE]  BY <1>2, <2>7 DEF CmdWork
    <3>2. nd'[n].sent /\ ~nd'[n].done  BY <2>1, <2>3, <3>1 DEF Node
    <3> HIDE DEF n
    <3>3. Progress(t)' = "sent"
      BY <1>0, <2>2, <2>3, <3>2 DEF Progress
    <3>4. \A u \in Callers : Progress(u) # "sent"
      BY <2>1, SentIsCurrent
    <3> QED  BY <2>5, <2>6, <3>3, <3>4, OneMoves DEF Moves
  <2>8. CASE ~(Admitted(nd[n].code) /\ path /\ ready)
    <3>1. nd'[n].done /\ nd'[n].resp = 0
      <4>1. PICK s \in Node, res \in {"shutdown", "io"} :
              /\ s = Completed(n, res) /\ s.done /\ s.resp = 0
              /\ nd' = [nd EXCEPT ![n] = s] \/
                 nd' = [nd EXCEPT ![n] = [s EXCEPT !.sent = TRUE]]
        <5>1. CASE ~Admitted(nd[n].code)
          <6>1. nd' = [nd EXCEPT ![n] = Completed(n, "shutdown")]
            BY <1>2, <5>1 DEF CmdWork
          <6> QED  BY ZenonT(60), <2>1, <2>3, <6>1, CompletedNode DEF QueueInv
        <5>2. CASE Admitted(nd[n].code)
          <6>1. nd' = [nd EXCEPT ![n] = [Completed(n, "io")
                                         EXCEPT !.sent = TRUE]]
            BY <1>2, <2>8, <5>2 DEF CmdWork
          <6> QED  BY ZenonT(60), <2>1, <2>3, <6>1, CompletedNode DEF QueueInv
        <5> QED  BY <5>1, <5>2
      <4> QED  BY <2>1, <4>1 DEF Node
    <3> HIDE DEF n
    <3>2. Progress(t)' = "failed"
      BY <1>0, <2>2, <2>3, <3>1 DEF Progress
    <3> QED  BY <2>5, <2>6, <3>2, OneMoves DEF Moves
  <2> QED  BY <2>7, <2>8
<1> QED  BY <1>1, <1>2

\* Completing the current command answers it, or fails it.
LEMMA CurrentImplements ==
    ASSUME QueueInv, UNCHANGED <<pc, own, out>>, cur # NoNode,
           ~nd[cur].done, NEW r, nd' = [nd EXCEPT ![cur] = r], r.done
    PROVE  ServiceStep
<1>1. cur \in Nodes /\ nd \in [Nodes -> Node]
  BY DEF QueueInv, MailInv, MailTypes
<1>2. PICK t \in Callers : own[t] = cur /\ pc[t] \in Waiting
  BY <1>1, OwnerOf DEF QueueInv
<1>3. nd[cur].sent
  BY <1>2, InCall DEF QueueInv, NodePlace, HoldLabels, Waiting
<1>4. nd'[cur] = r /\ \A m \in Nodes : m # cur => nd'[m] = nd[m]  BY <1>1
<1>5. \A u \in Callers : u # t => Progress(u)' = Progress(u)
  BY <1>2, <1>4, OneNodeSeen DEF HoldLabels, Waiting
<1>6. Progress(t) = "sent"  BY <1>2, <1>3 DEF Progress, Waiting
<1>7. PICK y \in {"answered", "failed"} : Progress(t)' = y
  BY <1>2, <1>4 DEF Progress, Waiting
<1> QED  BY <1>5, <1>6, <1>7, OneMoves DEF Moves

\* What nobody sees is no step of CmdService.
LEMMA Unseen ==
    ASSUME UNCHANGED <<pc, own, out, nd>>
    PROVE  ServiceStep
<1>1. View' = View  BY DEF View, Progress
<1> QED  BY <1>1 DEF ServiceStep, View

\* A response, and a failed or flushed transfer
LEMMA TransferImplements ==
    ASSUME QueueInv, UNCHANGED <<pc, own, out>>,
           (\E S : TransportFailed(S)) \/ RxResponse
    PROVE  ServiceStep
<1>1. CASE UNCHANGED nd  BY <1>1, Unseen
<1>2. CASE cur # NoNode /\ ~nd[cur].done
           /\ nd' = [nd EXCEPT ![cur] = Completed(cur, "io")]
  <2>1. cur \in Nodes  BY <1>2 DEF QueueInv, MailInv, MailTypes
  <2>2. PICK r \in Node : r = Completed(cur, "io") /\ r.done
    BY <2>1, CompletedNode DEF QueueInv
  <2> QED  BY <1>2, <2>2, CurrentImplements
<1>3. CASE cur # NoNode /\ ~nd[cur].done
           /\ nd' = [nd EXCEPT ![cur] = [Completed(cur, "0")
                                         EXCEPT !.resp = Head(hand).id]]
  <2>1. cur \in Nodes  BY <1>3 DEF QueueInv, MailInv, MailTypes
  <2>2. PICK s \in Node : s = Completed(cur, "0") /\ s.done
    BY <2>1, CompletedNode DEF QueueInv
  <2>3. PICK r : r = [s EXCEPT !.resp = Head(hand).id]  OBVIOUS
  <2>4. r.done  BY <2>2, <2>3 DEF Node
  <2> QED  BY <1>3, <2>2, <2>3, <2>4, CurrentImplements
<1> QED  BY <1>1, <1>2, <1>3
         DEF TransportFailed, RxResponse, Accepts, Matches

\* esp_cmd_abort_waiters fails every call that is queued or submitted.
LEMMA AbortImplements ==
    ASSUME QueueInv, MgrAbort
    PROVE  ServiceStep
<1>0. UNCHANGED <<pc, own, out>>  BY DEF MgrAbort
<1>1. CASE UNCHANGED nd  BY <1>0, <1>1, Unseen
<1>2. CASE nd' = [n \in Nodes |-> IF n \in Aborted
                                  THEN Completed(n, "shutdown") ELSE nd[n]]
  <2> DEFINE S == {t \in Callers : own[t] \in Aborted \cap Nodes}
  <2>1. ASSUME NEW t \in S
        PROVE  Progress(t) \in {"open", "sent"} /\ Progress(t)' = "failed"
    <3> DEFINE n == own[t]
    <3>1. t \in Callers /\ n \in Nodes /\ n # NoNode /\ n \in Aborted
      BY NodesAssumption
    <3>2. pc[t] \in HoldLabels
      BY <3>1 DEF QueueInv, NodeInv, HoldsWhileInCall
    <3>3. NodePhase(pc[t], want[t], nd[n]) /\ NodePlace(pc[t], n, nd[n])
      BY <3>1, <3>2, InCall DEF QueueInv
    <3>4. ~nd[n].done /\ pc[t] \in Waiting
      BY <3>1, <3>3 DEF Aborted, NodePlace, Waiting
    <3>5. nd[n].resp = 0  BY <3>3, <3>4 DEF NodePhase
    <3>6. nd'[n].done /\ nd'[n].resp = 0
      BY <1>2, <3>1, <3>5, CompletedNode DEF QueueInv
    <3>7. Progress(t) \in {"open", "sent"}
      BY <3>1, <3>4 DEF Progress, Waiting
    <3>8. Progress(t)' = "failed"
      BY <1>0, <3>1, <3>4, <3>6 DEF Progress, Waiting
    <3> QED  BY <3>7, <3>8
  <2>2. ASSUME NEW t \in Callers, t \notin S
        PROVE  Progress(t)' = Progress(t)
    <3>1. own[t] # NoNode => own[t] \in Nodes /\ own[t] \notin Aborted
      BY <2>2 DEF QueueInv, NodeInv, NodeTypes
    <3>2. own[t] # NoNode => nd'[own[t]] = nd[own[t]]  BY <1>2, <3>1
    <3> QED  BY <1>0, <3>2, SameProgress
  <2> HIDE DEF S
  <2>3. S \subseteq Callers  BY DEF S
  <2>4. View' = [t \in Callers |-> IF t \in S THEN "failed" ELSE View[t]]
    BY <2>1, <2>2 DEF View
  <2>5. \A t \in S : View[t] \in {"open", "sent"}
    BY <2>1, <2>3 DEF View
  <2>6. Service!Fail(S)  BY <2>4, <2>5 DEF Service!Fail, View
  <2> QED  BY <2>3, <2>6 DEF ServiceStep, Service!Next
<1> QED  BY <1>1, <1>2 DEF MgrAbort

\* A setup happens when nobody is in a call.
LEMMA SetupImplements ==
    ASSUME QueueInv, MgrSetup
    PROVE  ServiceStep
<1>0. UNCHANGED <<pc, own, out>>  BY DEF MgrSetup
<1>1. CASE UNCHANGED nd  BY <1>0, <1>1, Unseen
<1>2. CASE ~(pool /\ inUse # 0)
  <2>1. Holding = {}
    BY <1>2, HoldingFinite, FS_EmptySet
       DEF QueueInv, NodeInv, NodeTypes, NodesConserved
  <2>2. \A t \in Callers : own[t] = NoNode  BY <2>1 DEF Holding
  <2>3. View' = View  BY <1>0, <2>2 DEF View, Progress
  <2> QED  BY <2>3 DEF ServiceStep, View
<1> QED  BY <1>1, <1>2 DEF MgrSetup

\* Every step of the mailbox is a step of CmdService, or none.
LEMMA StepImplements ==
    ASSUME QueueInv, [Next]_vars
    PROVE  ServiceStep
<1>1. "mgr" \in Callers /\ Users \subseteq Callers  BY DEF Callers
<1>2. CASE (\E t \in Users : UserCall(t)) \/ MgrCall
  BY <1>1, <1>2, PrepareImplements DEF UserCall, MgrCall
<1>3. CASE \E t \in Callers : CallStep(t)  BY <1>3, CallStepImplements
<1>4. CASE CmdWork  BY <1>4, CmdWorkImplements
<1>5. CASE SpiLose \/ MgrQuiesce \/ RxResponse
  BY <1>5, TransferImplements DEF SpiLose, MgrQuiesce, RxResponse
<1>6. CASE MgrAbort  BY <1>6, AbortImplements
<1>7. CASE MgrSetup  BY <1>7, SetupImplements
<1>8. CASE SpiSend \/ FwAnswer \/ FwMute \/ FwRestart \/ RxTake \/ RxGate
  <2>1. UNCHANGED <<pc, own, out, nd>>
    BY <1>8 DEF SpiSend, FwAnswer, FwMute, FwRestart, RxTake, RxGate
  <2> QED  BY <2>1, Unseen
<1>9. CASE MgrBoot \/ MgrRxIdle \/ MgrClear \/ MgrDestroy \/ MgrNull
           \/ MgrDrain \/ MgrRecon
  <2>1. UNCHANGED <<pc, own, out, nd>>
    BY <1>9 DEF MgrBoot, MgrRxIdle, MgrClear, MgrDestroy, MgrNull, MgrDrain,
       MgrRecon
  <2> QED  BY <2>1, Unseen
<1>10. CASE MgrInitDone \/ MgrCommit \/ MgrPublish \/ MgrFail \/ ExitBegin
            \/ MgrExit \/ MgrFence
  <2>1. UNCHANGED <<pc, own, out, nd>>
    BY <1>10 DEF MgrInitDone, MgrCommit, MgrPublish, MgrFail, ExitBegin,
       MgrExit, MgrFence
  <2> QED  BY <2>1, Unseen
<1>11. CASE UNCHANGED vars  BY <1>11, Unseen
<1> QED  BY <1>2, <1>3, <1>4, <1>5, <1>6, <1>7, <1>8, <1>9, <1>10, <1>11
         DEF Next, Manager, Transport

\* The mailbox of esp_cmd.c, with its queue, timeouts, aborts, lost transfers
\* and reconstructions, implements CmdService for every number of callers and
\* nodes: one command is with the firmware at a time, and the outcome of a
\* call is decided once.
THEOREM MailboxImplementsService == Spec => ImplementsService
<1>1. Init => Service!Init
  <2> SUFFICES ASSUME Init PROVE Service!Init  OBVIOUS
  <2>1. \A t \in Callers : Progress(t) = "idle"  BY DEF Init, Progress
  <2> QED  BY <2>1 DEF Service!Init
<1>2. QueueInv /\ [Next]_vars => [Service!Next]_View
  BY StepImplements DEF ServiceStep
<1> QED  BY <1>1, <1>2, QueueInvAlways, PTL
         DEF Spec, ImplementsService, Service!Spec, View

-----------------------------------------------------------------------------
(* Responses: what is under way between the host and the firmware, and when *)
(* a response of an earlier session can no longer arrive.                   *)

\* Everything under way, in the order it arrives: responses, then commands
Pipe == hand \o (rxq \o (fwq \o txq))

\* How many numbers earlier sessions have drawn: a command of this session
\* has the sequence number id - Base.
Base == drawn - nextSeq

\* A command numbered by the first session
Old(m) == m.id = m.seq

IsInit(m) == m.code = "INIT_INTERFACE"

\* A command no reconstruction admits
Foreign(m) == m.code \notin Rebuilding

\* The INIT_INTERFACE handshake is over. In the first session its command and
\* its response are gone; in the second no response to a command of the first
\* can arrive any more that users' commands could be confused with.
Clear == \A i \in 1..Len(Pipe) :
             IF Base = 0 THEN ~IsInit(Pipe[i])
                         ELSE ~(Old(Pipe[i]) /\ Foreign(Pipe[i]))

\* The firmware has restarted and the manager has taken notice.
Second == boots = 1 /\ ~boot

\* The steps of a teardown
Teardown == {"quiesce", "rxidle", "abort", "flush", "clear", "abort2",
             "destroy", "null", "drain"}

\* Messages and nodes carry numbers of the first session or of this one, and
\* a node completed with success holds a response.
Numbered ==
    /\ nextSeq <= drawn
    /\ \A i \in 1..Len(Pipe) :
           /\ Pipe[i].id <= drawn
           /\ Old(Pipe[i]) \/ Pipe[i].id = Pipe[i].seq + Base
    /\ \A n \in Nodes :
           /\ nd[n].id <= drawn
           /\ nd[n].seq # 0 => nd[n].id = nd[n].seq + Base
           /\ nd[n].done /\ nd[n].result = "0" => nd[n].resp # 0

\* With one restart there are two sessions at most, and the second one knows
\* that there is none to come.
TwoSessions ==
    /\ boot => boots = 1
    /\ Base # 0 => Second /\ mpc \notin {"recon", "setup"}
    /\ mpc \in Teardown /\ mret = "recon" => Second /\ Base = 0
    /\ mpc \in {"recon", "setup"} => Second \/ (drawn = 0 /\ ~pool)

\* The first session's messages are ahead of the second's, and its manager
\* issues one INIT_INTERFACE.
Ordered == \A i, j \in 1..Len(Pipe) : i < j =>
    /\ Old(Pipe[j]) => Old(Pipe[i])
    /\ ~(Base = 0 /\ IsInit(Pipe[i]) /\ IsInit(Pipe[j]))

\* While the first session's INIT_INTERFACE is under way no user's command is.
InitAlone == \A i, j \in 1..Len(Pipe) :
    ~(Old(Pipe[i]) /\ IsInit(Pipe[i]) /\ Old(Pipe[j]) /\ Foreign(Pipe[j]))

\* Who issues INIT_INTERFACE, and when
InitIsManagers ==
    /\ own["mgr"] # NoNode =>
           \/ mpc = "initwait" /\ want["mgr"] = "INIT_INTERFACE"
           \/ mpc = "deinitwait" /\ want["mgr"] = "DEINIT_INTERFACE"
    /\ \A t \in Users : want[t] # "INIT_INTERFACE"

\* The manager has not sent its INIT_INTERFACE yet.
InitAhead ==
    \/ mpc = "init"
    \/ mpc = "initwait" /\ own["mgr"] # NoNode /\ ~nd[own["mgr"]].sent

\* It was answered.
InitAnswered ==
    /\ mpc = "initwait"
    /\ \/ own["mgr"] # NoNode /\ nd[own["mgr"]].resp # 0
       \/ /\ pc["mgr"] \in {"drop", "decode", "recycle", "kick", "kickq",
                             "idle"}
          /\ out["mgr"] = "0"

\* Users' commands are admitted.
Open == "CMD_INIT_DONE" \in flags /\ "RECONSTRUCT" \notin flags

\* A user has a command of its own.
UserInside == \E t \in Callers : own[t] # NoNode /\ want[t] \notin Rebuilding

\* The states that rely on the handshake
Relying == \/ Open \/ mpc = "commit" \/ InitAnswered \/ UserInside
           \/ Base = 0 /\ InitAhead

\* Whoever relies on the handshake may.
Handshake ==
    /\ Relying => Clear
    /\ Base = 0 /\ mpc \in {"init", "initwait"}
           => \A i \in 1..Len(Pipe) : ~Foreign(Pipe[i])

AnswerInv == /\ Numbered /\ TwoSessions /\ Ordered /\ InitAlone
             /\ InitIsManagers /\ Handshake /\ ResponseMatches

\* The gates' invariants
GateInv == QueueInv /\ MailboxOpen /\ RebuildQuiet

-----------------------------------------------------------------------------
(* How the pipe moves *)

\* The pipe is a sequence of messages.
LEMMA PipeType ==
    ASSUME WireTypes
    PROVE  /\ fwq \o txq \in Seq(Message)
           /\ rxq \o (fwq \o txq) \in Seq(Message)
           /\ Pipe \in Seq(Message) /\ Len(Pipe) \in Nat
           /\ \A i \in 1..Len(Pipe) :
                  Pipe[i] \in Message /\ Pipe[i].seq \in Nat
                  /\ Pipe[i].id \in Nat /\ Pipe[i].seq # 0
<1>1. fwq \o txq \in Seq(Message)  BY ConcatProperties DEF WireTypes
<1>2. rxq \o (fwq \o txq) \in Seq(Message)
  BY <1>1, ConcatProperties DEF WireTypes
<1>3. Pipe \in Seq(Message)  BY <1>2, ConcatProperties DEF WireTypes, Pipe
<1>4. Len(Pipe) \in Nat  BY <1>3, LenProperties
<1>5. \A i \in 1..Len(Pipe) : Pipe[i] \in Message  BY <1>3, ElementOfSeq
<1>6. \A m \in Message : m.seq \in Nat /\ m.id \in Nat /\ m.seq # 0
  BY SeqSpaceAssumption DEF Message
<1> QED  BY <1>1, <1>2, <1>3, <1>4, <1>5, <1>6

\* Losses in the four queues are losses of the pipe.
LEMMA PipeThins ==
    ASSUME WireTypes, WireTypes', Thinned(hand', hand), Thinned(rxq', rxq),
           Thinned(fwq', fwq), Thinned(txq', txq)
    PROVE  Thinned(Pipe', Pipe)
<1>1. Thinned(fwq' \o txq', fwq \o txq)
  BY ThinnedConcat DEF WireTypes
<1>2. /\ fwq \o txq \in Seq(Message) /\ rxq \o (fwq \o txq) \in Seq(Message)
      /\ fwq' \o txq' \in Seq(Message)
      /\ rxq' \o (fwq' \o txq') \in Seq(Message)
  BY ConcatProperties DEF WireTypes
<1>3. Thinned(rxq' \o (fwq' \o txq'), rxq \o (fwq \o txq))
  BY <1>1, <1>2, ThinnedConcat DEF WireTypes
<1> QED  BY <1>2, <1>3, ThinnedConcat DEF WireTypes, Pipe

\* Every step but the submission of a command only loses messages.
LEMMA PipeLoses ==
    ASSUME QueueInv, [Next]_vars, ~(CmdWork /\ txq' # txq)
    PROVE  Thinned(Pipe', Pipe)
<1>0. WireTypes /\ WireTypes'
  BY QueueInvNext DEF QueueInv, OtherTypes
<1>a. /\ Thinned(hand, hand) /\ Thinned(rxq, rxq) /\ Thinned(fwq, fwq)
      /\ Thinned(txq, txq) /\ Thinned(Pipe, Pipe)
      /\ Thinned(<<>>, hand) /\ Thinned(<<>>, rxq) /\ Thinned(<<>>, fwq)
      /\ Thinned(<<>>, txq)
  BY <1>0, PipeType, ThinnedSame, ThinnedAway DEF WireTypes
<1>1. CASE UNCHANGED <<hand, rxq, fwq, txq>>  BY <1>1, <1>a DEF Pipe
<1>2. CASE CmdWork  BY <1>1, <1>2 DEF CmdWork
<1>3. ASSUME txq # <<>>, fwq' = Append(fwq, Head(txq)), txq' = Tail(txq),
             UNCHANGED <<hand, rxq>>
      PROVE  Thinned(Pipe', Pipe)
  <2>1. fwq' \o txq' = fwq \o txq  BY <1>0, <1>3, MoveAhead DEF WireTypes
  <2> QED  BY <1>3, <1>a, <2>1 DEF Pipe
<1>4. CASE SpiSend  BY <1>3, <1>4 DEF SpiSend
<1>5. CASE SpiLose
  <2>1. CASE fwq' = Append(fwq, Head(txq))  BY <1>3, <1>5, <2>1 DEF SpiLose
  <2>2. CASE fwq' = fwq
    <3>1. Thinned(Tail(txq), txq)
      BY <1>0, <1>5, ThinnedTail DEF WireTypes, SpiLose
    <3> QED  BY <1>0, <1>5, <1>a, <2>2, <3>1, PipeThins DEF SpiLose
  <2> QED  BY <1>5, <2>1, <2>2 DEF SpiLose
<1>6. CASE FwAnswer
  <2>1. /\ fwq # <<>> /\ rxq' = Append(rxq, Head(fwq)) /\ fwq' = Tail(fwq)
        /\ UNCHANGED <<hand, txq>>
    BY <1>6 DEF FwAnswer
  <2>2. rxq' \o (fwq' \o txq') = rxq \o (fwq \o txq)
    BY SMTT(60), <1>0, <2>1, MoveAheadOf DEF WireTypes
  <2> QED  BY <1>a, <2>1, <2>2 DEF Pipe
<1>7. CASE FwMute
  <2>1. Thinned(Tail(fwq), fwq)
    BY <1>0, <1>7, ThinnedTail DEF WireTypes, FwMute
  <2> QED  BY <1>0, <1>7, <1>a, <2>1, PipeThins DEF FwMute
<1>8. CASE FwRestart  BY <1>0, <1>8, <1>a, PipeThins DEF FwRestart
<1>9. CASE RxTake
  <2>1. /\ rxq # <<>> /\ hand = <<>> /\ hand' = <<Head(rxq)>>
        /\ rxq' = Tail(rxq) /\ UNCHANGED <<fwq, txq>>
    BY <1>9 DEF RxTake
  <2>2. Append(hand, Head(rxq)) = hand'  BY <2>1
  <2>3. fwq \o txq \in Seq(Message)  BY <1>0, PipeType
  <2>4. hand' \o (rxq' \o (fwq \o txq)) = hand \o (rxq \o (fwq \o txq))
    BY SMTT(60), <1>0, <2>1, <2>2, <2>3, MoveAheadOf DEF WireTypes
  <2> QED  BY <1>a, <2>1, <2>4 DEF Pipe
<1>10. CASE RxGate
  <2>1. hand' \in {hand, <<>>} /\ UNCHANGED <<rxq, fwq, txq>>
    BY <1>10 DEF RxGate
  <2> QED  BY <1>0, <1>a, <2>1, PipeThins
<1>11. CASE RxResponse  BY <1>0, <1>11, <1>a, PipeThins DEF RxResponse
<1>12. CASE MgrQuiesce  BY <1>0, <1>12, <1>a, PipeThins DEF MgrQuiesce
<1>13. ASSUME NEW t \in Users, UserCall(t)
       PROVE  UNCHANGED <<hand, rxq, fwq, txq>>
  BY <1>13 DEF UserCall, Prepare
<1>14. ASSUME NEW t \in Callers, CallStep(t)
       PROVE  UNCHANGED <<hand, rxq, fwq, txq>>
  BY <1>14 DEF CallStep, AssignSeq, QueueNode, Timeout, Quarantine, Finish,
     Decode, Recycle, Kick, KickQueue
<1>15. CASE MgrBoot \/ MgrRxIdle \/ MgrAbort \/ MgrClear \/ MgrDestroy
            \/ MgrNull \/ MgrDrain \/ MgrRecon \/ MgrSetup \/ MgrCall
  BY <1>1, <1>15 DEF MgrBoot, MgrRxIdle, MgrAbort, MgrClear, MgrDestroy,
     MgrNull, MgrDrain, MgrRecon, MgrSetup, MgrCall, Prepare
<1>16. CASE MgrInitDone \/ MgrCommit \/ MgrPublish \/ MgrFail \/ ExitBegin
            \/ MgrExit \/ MgrFence
  BY <1>1, <1>16 DEF MgrInitDone, MgrCommit, MgrPublish, MgrFail, ExitBegin,
     MgrExit, MgrFence
<1>17. CASE UNCHANGED vars  BY <1>1, <1>17
<1> QED  BY <1>1, <1>2, <1>4, <1>5, <1>6, <1>7, <1>8, <1>9, <1>10, <1>11,
            <1>12, <1>13, <1>14, <1>15, <1>16, <1>17
         DEF Next, Manager, Transport

\* esp_cmd_work submits the command of a caller that waits: its message
\* comes last in the pipe, and its node is marked.
LEMMA Submits ==
    ASSUME QueueInv, CmdWork, txq' # txq
    PROVE  \E t \in Callers, m \in Message :
             /\ Pipe' = Append(Pipe, m)
             /\ own[t] \in Nodes /\ own[t] # NoNode /\ pc[t] = "wait"
             /\ ~nd[own[t]].sent /\ nd[own[t]].seq # 0
             /\ m.code = want[t] /\ m.seq = nd[own[t]].seq
             /\ m.id = nd[own[t]].id
             /\ nd'[own[t]].sent /\ nd'[own[t]].resp = 0
<1> DEFINE n == Head(pend)
           m == [code |-> nd[n].code, seq |-> nd[n].seq, id |-> nd[n].id]
<1>0. NodeInv /\ MailInv /\ WireTypes  BY DEF QueueInv, OtherTypes
<1>1. /\ pend # <<>> /\ txq' = Append(txq, m) /\ UNCHANGED <<fwq, rxq, hand>>
      /\ nd' = [nd EXCEPT ![n].sent = TRUE]
  BY DEF CmdWork, CanSubmit
<1>2. n \in Nodes /\ n \in Range(pend)
  BY <1>0, <1>1, TailFacts DEF MailInv, MailTypes
<1>3. PICK t \in Callers : own[t] = n /\ pc[t] \in Waiting
  BY <1>0, <1>2, OwnerOf
<1>4. /\ nd[n] \in Node /\ NodePhase(pc[t], want[t], nd[n])
      /\ NodePlace(pc[t], n, nd[n]) /\ own[t] # NoNode
  BY <1>0, <1>3, InCall DEF HoldLabels, Waiting
<1>5. /\ pc[t] = "wait" /\ ~nd[n].done /\ ~nd[n].sent /\ nd[n].resp = 0
      /\ nd[n].code = want[t] /\ nd[n].seq # 0
  BY <1>2, <1>4 DEF NodePlace, NodePhase, Asked
<1>6. m \in Message  BY <1>0, <1>1, QueuedMessage
<1>7. nd'[n].sent /\ nd'[n].resp = 0
  BY <1>0, <1>1, <1>2, <1>4, <1>5 DEF MailInv, MailTypes, Node
<1> HIDE DEF n
<1>9. /\ m.code = nd[n].code /\ m.seq = nd[n].seq /\ m.id = nd[n].id
  OBVIOUS
<1> HIDE DEF m
<1>10. Pipe' = Append(Pipe, m)
  <2>1. fwq \o Append(txq, m) = Append(fwq \o txq, m)
    BY <1>0, <1>6, AppendBehind DEF WireTypes
  <2>2. fwq \o txq \in Seq(Message) /\ rxq \o (fwq \o txq) \in Seq(Message)
    BY <1>0, PipeType
  <2>3. rxq \o Append(fwq \o txq, m) = Append(rxq \o (fwq \o txq), m)
    BY <1>0, <1>6, <2>2, AppendBehind DEF WireTypes
  <2>4. hand \o Append(rxq \o (fwq \o txq), m) = Append(Pipe, m)
    BY SMTT(60), <1>0, <1>6, <2>2, AppendBehind DEF WireTypes, Pipe
  <2> QED  BY <1>1, <2>1, <2>3, <2>4 DEF Pipe
<1> QED  BY <1>2, <1>3, <1>4, <1>5, <1>6, <1>7, <1>9, <1>10

\* r is what a step that takes no response makes of a node s: its numbers and
\* its response stay, and it is not completed with success.
Kept(r, s) ==
    /\ r.code = s.code /\ r.seq = s.seq /\ r.id = s.id /\ r.resp = s.resp
    /\ r.done /\ r.result = "0" => s.done /\ s.result = "0"
    /\ s.sent => r.sent

\* Completing a node with an error keeps its numbers.
LEMMA CompletedKept ==
    ASSUME NEW n \in Nodes, nd[n] \in Node,
           NEW res \in {"timedout", "shutdown", "io"}
    PROVE  Kept(Completed(n, res), nd[n])
<1>1. /\ Completed(n, res).code = nd[n].code
      /\ Completed(n, res).seq = nd[n].seq /\ Completed(n, res).id = nd[n].id
      /\ Completed(n, res).resp = nd[n].resp
      /\ Completed(n, res).sent = nd[n].sent
      /\ Completed(n, res).result = res
  BY DEF Completed, Node
<1> QED  BY <1>1 DEF Kept

\* A step gives a node back, numbers it, hands it a response or keeps it.
LEMMA NodeMoves ==
    ASSUME QueueInv, [Next]_vars, NEW n \in Nodes
    PROVE  \/ Kept(nd'[n], nd[n])
           \/ /\ nd'[n] = Blank
              /\ MgrSetup \/ \E t \in Callers : Recycle(t) /\ n = own[t]
           \/ \E t \in Callers : AssignSeq(t) /\ n = own[t]
           \/ RxResponse /\ Accepts(Head(hand)) /\ n = cur
<1>0. nd \in [Nodes -> Node] /\ nd[n] \in Node
  BY DEF QueueInv, MailInv, MailTypes
<1>a. Kept(nd[n], nd[n])  BY DEF Kept
<1>1. CASE UNCHANGED nd  BY <1>1, <1>a
<1>2. ASSUME NEW x \in Nodes, NEW res \in {"timedout", "shutdown", "io"},
             nd' = [nd EXCEPT ![x] = Completed(x, res)]
      PROVE  Kept(nd'[n], nd[n])
  <2>1. CASE n = x
    <3>1. nd'[n] = Completed(n, res)  BY <1>0, <1>2, <2>1
    <3> QED  BY <1>0, <3>1, CompletedKept
  <2>2. CASE n # x  BY <1>0, <1>2, <1>a, <2>2
  <2> QED  BY <2>1, <2>2
<1>3. ASSUME NEW t \in Callers, CallStep(t)
      PROVE  \/ Kept(nd'[n], nd[n])
             \/ nd'[n] = Blank /\ Recycle(t) /\ n = own[t]
             \/ AssignSeq(t) /\ n = own[t]
  <2>0. pc[t] \in HoldLabels => own[t] \in Nodes
    BY HeldNode DEF QueueInv
  <2>1. CASE AssignSeq(t)
    <3>1. CASE n # own[t]
      <4>1. nd'[n] = nd[n]  BY <1>0, <2>1, <3>1 DEF AssignSeq
      <4> QED  BY <1>a, <4>1
    <3> QED  BY <2>1, <3>1
  <2>2. CASE QueueNode(t) \/ Timeout(t) \/ Finish(t)
    <3>1. own[t] \in Nodes
      BY <2>0, <2>2 DEF QueueNode, Timeout, Finish, HoldLabels
    <3>2. \/ UNCHANGED nd
          \/ nd' = [nd EXCEPT ![own[t]] = Completed(own[t], "shutdown")]
          \/ nd' = [nd EXCEPT ![own[t]] = Completed(own[t], "timedout")]
      BY <2>2 DEF QueueNode, Timeout, Finish
    <3> QED  BY <1>1, <1>2, <1>a, <3>1, <3>2
  <2>3. CASE Recycle(t)  BY <1>0, <1>a, <2>3 DEF Recycle
  <2>4. CASE Quarantine(t) \/ Decode(t) \/ Kick(t) \/ KickQueue(t)
    BY <1>a, <2>4 DEF Quarantine, Decode, Kick, KickQueue
  <2> QED  BY <1>3, <2>1, <2>2, <2>3, <2>4 DEF CallStep
<1>4. CASE CmdWork
  <2>1. CASE ~CanSubmit  BY <1>1, <1>4, <2>1 DEF CmdWork
  <2>2. CASE CanSubmit
    <3> DEFINE h == Head(pend)
    <3>1. h \in Nodes
      BY <2>2, TailFacts DEF CanSubmit, QueueInv, MailInv, MailTypes
    <3>2. nd[h] \in Node  BY <1>0, <3>1
    <3>3. CASE ~Admitted(nd[h].code)
      BY <1>2, <1>4, <2>2, <3>1, <3>3 DEF CmdWork
    <3>4. CASE Admitted(nd[h].code)
      <4>1. \/ nd' = [nd EXCEPT ![h].sent = TRUE]
            \/ nd' = [nd EXCEPT ![h] = [Completed(h, "io")
                                        EXCEPT !.sent = TRUE]]
        BY <1>4, <2>2, <3>4 DEF CmdWork
      <4> HIDE DEF h
      <4>2. Kept([nd[h] EXCEPT !.sent = TRUE], nd[h])
        BY <3>2 DEF Kept, Node
      <4>3. Kept([Completed(h, "io") EXCEPT !.sent = TRUE], nd[h])
        BY <3>2 DEF Kept, Node, Completed
      <4>4. CASE n = h
        <5>1. nd'[n] \in {[nd[h] EXCEPT !.sent = TRUE],
                          [Completed(h, "io") EXCEPT !.sent = TRUE]}
          BY <1>0, <4>1, <4>4
        <5> QED  BY <4>2, <4>3, <4>4, <5>1
      <4>5. CASE n # h
        <5>1. nd'[n] = nd[n]  BY <1>0, <4>1, <4>5
        <5> QED  BY <1>a, <5>1
      <4> QED  BY <4>4, <4>5
    <3> QED  BY <3>3, <3>4
  <2> QED  BY <2>1, <2>2
<1>5. ASSUME NEW S, TransportFailed(S) PROVE Kept(nd'[n], nd[n])
  <2>1. cur # NoNode => cur \in Nodes  BY DEF QueueInv, MailInv, MailTypes
  <2> QED  BY <1>1, <1>2, <1>5, <1>a, <2>1 DEF TransportFailed
<1>6. CASE SpiLose \/ MgrQuiesce
  <2>1. \E S : TransportFailed(S)  BY <1>6 DEF SpiLose, MgrQuiesce
  <2> QED  BY <1>5, <2>1
<1>7. CASE RxResponse
  <2>1. CASE Accepts(Head(hand)) /\ n # cur
    <3>1. nd'[n] = nd[n]  BY <1>0, <1>7, <2>1 DEF RxResponse
    <3> QED  BY <1>a, <3>1
  <2>2. CASE ~Accepts(Head(hand))  BY <1>1, <1>7, <2>2 DEF RxResponse
  <2> QED  BY <1>7, <2>1, <2>2
<1>8. CASE MgrAbort
  <2>1. CASE n \in Aborted /\ nd'[n] # nd[n]
    <3>1. nd'[n] = Completed(n, "shutdown")  BY <1>8, <2>1 DEF MgrAbort
    <3> QED  BY <1>0, <3>1, CompletedKept
  <2>2. CASE nd'[n] = nd[n]  BY <1>a, <2>2
  <2>3. CASE n \notin Aborted
    <3>1. nd'[n] = nd[n]  BY <1>8, <2>3 DEF MgrAbort
    <3> QED  BY <2>2, <3>1
  <2> QED  BY <2>1, <2>2, <2>3
<1>9. CASE MgrSetup
  <2>1. nd'[n] = Blank \/ nd'[n] = nd[n]  BY <1>9 DEF MgrSetup
  <2> QED  BY <1>9, <1>a, <2>1
<1>10. CASE SpiSend \/ FwAnswer \/ FwMute \/ FwRestart \/ RxTake \/ RxGate
  BY <1>1, <1>10 DEF SpiSend, FwAnswer, FwMute, FwRestart, RxTake, RxGate
<1>11. CASE MgrBoot \/ MgrRxIdle \/ MgrClear \/ MgrDestroy \/ MgrNull
            \/ MgrDrain \/ MgrRecon \/ MgrCall
  BY <1>1, <1>11 DEF MgrBoot, MgrRxIdle, MgrClear, MgrDestroy, MgrNull,
     MgrDrain, MgrRecon, MgrCall, Prepare
<1>12. CASE MgrInitDone \/ MgrCommit \/ MgrPublish \/ MgrFail \/ ExitBegin
            \/ MgrExit \/ MgrFence
  BY <1>1, <1>12 DEF MgrInitDone, MgrCommit, MgrPublish, MgrFail, ExitBegin,
     MgrExit, MgrFence
<1>13. ASSUME NEW t \in Users, UserCall(t) PROVE UNCHANGED nd
  BY <1>13 DEF UserCall, Prepare
<1>14. CASE UNCHANGED vars  BY <1>1, <1>14
<1> QED  BY <1>1, <1>3, <1>4, <1>6, <1>7, <1>8, <1>9, <1>10, <1>11, <1>12,
            <1>13, <1>14 DEF Next, Manager, Transport

\* The numbers move in AssignSeq, together as long as they do not wrap, and
\* in esp_commands_setup.
LEMMA BaseMoves ==
    ASSUME QueueInv, [Next]_vars, nextSeq <= drawn, drawn' < SeqSpace
    PROVE  /\ nextSeq' <= drawn' /\ drawn <= drawn'
           /\ \/ Base' = Base
              \/ MgrSetup /\ mpc' = "init" /\ drawn' = drawn
                          /\ nextSeq' = 0 /\ Base' = drawn
<1>0. nextSeq \in Nat /\ drawn \in Nat
  BY SeqSpaceAssumption DEF QueueInv, OtherTypes, CountTypes
<1>1. CASE UNCHANGED <<nextSeq, drawn>>  BY <1>0, <1>1 DEF Base
<1>2. ASSUME NEW t \in Callers, AssignSeq(t)
      PROVE  nextSeq' = nextSeq + 1 /\ drawn' = drawn + 1
  <2>1. drawn' = drawn + 1 /\ nextSeq' = NextSeq(nextSeq)
    BY <1>2 DEF AssignSeq
  <2>2. nextSeq + 1 < SeqSpace  BY <1>0, <2>1, SeqSpaceAssumption
  <2>3. (nextSeq + 1) % SeqSpace = nextSeq + 1
    BY <1>0, <2>2, SeqSpaceAssumption
  <2> QED  BY <1>0, <2>1, <2>3 DEF NextSeq
<1>3. ASSUME NEW t \in Callers, CallStep(t), ~AssignSeq(t)
      PROVE  UNCHANGED <<nextSeq, drawn>>
  BY <1>3 DEF CallStep, QueueNode, Timeout, Quarantine, Finish, Decode,
     Recycle, Kick, KickQueue
<1>4. CASE \E t \in Callers : CallStep(t)
  BY <1>0, <1>1, <1>2, <1>3, <1>4 DEF Base
<1>5. CASE MgrSetup
  <2>1. \/ UNCHANGED <<nextSeq, drawn>>
        \/ nextSeq' = 0 /\ drawn' = drawn /\ mpc' = "init"
    BY <1>5 DEF MgrSetup
  <2> QED  BY <1>0, <1>1, <1>5, <2>1 DEF Base
<1>6. CASE CmdWork \/ Transport
  BY <1>1, <1>6 DEF CmdWork, Transport, SpiSend, SpiLose, FwAnswer, FwMute,
     FwRestart, RxTake, RxGate, RxResponse
<1>7. CASE MgrBoot \/ MgrQuiesce \/ MgrRxIdle \/ MgrAbort \/ MgrClear
           \/ MgrDestroy \/ MgrNull \/ MgrDrain \/ MgrRecon \/ MgrCall
  BY <1>1, <1>7 DEF MgrBoot, MgrQuiesce, MgrRxIdle, MgrAbort, MgrClear,
     MgrDestroy, MgrNull, MgrDrain, MgrRecon, MgrCall, Prepare
<1>8. CASE MgrInitDone \/ MgrCommit \/ MgrPublish \/ MgrFail \/ ExitBegin
           \/ MgrExit \/ MgrFence
  BY <1>1, <1>8 DEF MgrInitDone, MgrCommit, MgrPublish, MgrFail, ExitBegin,
     MgrExit, MgrFence
<1>9. CASE \E t \in Users : UserCall(t)
  BY <1>1, <1>9 DEF UserCall, Prepare
<1>10. CASE UNCHANGED vars  BY <1>1, <1>10
<1> QED  BY <1>4, <1>5, <1>6, <1>7, <1>8, <1>9, <1>10 DEF Next, Manager

\* Where an appended message goes
LEMMA PipeGrows ==
    ASSUME WireTypes, NEW m \in Message, Pipe' = Append(Pipe, m)
    PROVE  /\ Len(Pipe') = Len(Pipe) + 1
           /\ \A i \in 1..Len(Pipe) : Pipe'[i] = Pipe[i]
           /\ Pipe'[Len(Pipe) + 1] = m
           /\ \A i \in 1..Len(Pipe') : i \in 1..Len(Pipe) \/ i = Len(Pipe) + 1
<1>1. Pipe \in Seq(Message) /\ Len(Pipe) \in Nat  BY PipeType
<1>2. /\ Len(Append(Pipe, m)) = Len(Pipe) + 1
      /\ \A i \in 1..Len(Pipe) : Append(Pipe, m)[i] = Pipe[i]
      /\ Append(Pipe, m)[Len(Pipe) + 1] = m
  BY <1>1, AppendProperties
<1> QED  BY <1>1, <1>2

\* The response at hand is the first of the pipe, and taking it leaves only
\* what was behind it.
LEMMA PipeHead ==
    ASSUME WireTypes, RxResponse
    PROVE  /\ 1 \in 1..Len(Pipe) /\ Pipe[1] = Head(hand)
           /\ \A i \in 1..Len(Pipe') : \E k \in 1..Len(Pipe) :
                  1 < k /\ Pipe'[i] = Pipe[k]
<1> DEFINE rest == rxq \o (fwq \o txq)
<1>1. /\ hand \in Seq(Message) /\ hand # <<>> /\ rest \in Seq(Message)
  BY PipeType DEF WireTypes, RxResponse
<1>2. Pipe' = <<>> \o rest /\ Pipe = hand \o rest
  BY DEF RxResponse, Pipe
<1>3. Pipe' = rest  BY <1>1, <1>2, ConcatEmptySeq
<1> HIDE DEF rest
<1>4. /\ Len(hand) \in Nat /\ Len(hand) > 0 /\ Len(rest) \in Nat
      /\ Head(hand) = hand[1]
  BY <1>1, LenProperties, EmptySeq
<1>5. /\ Len(Pipe) = Len(hand) + Len(rest)
      /\ \A i \in 1..(Len(hand) + Len(rest)) :
             Pipe[i] = IF i <= Len(hand) THEN hand[i] ELSE rest[i - Len(hand)]
  BY <1>1, <1>2, ConcatProperties
<1>6. 1 \in 1..Len(Pipe) /\ Pipe[1] = Head(hand)  BY <1>4, <1>5
<1>7. ASSUME NEW i \in 1..Len(rest)
      PROVE  \E k \in 1..Len(Pipe) : 1 < k /\ rest[i] = Pipe[k]
  <2>1. /\ Len(hand) + i \in 1..Len(Pipe) /\ 1 < Len(hand) + i
        /\ ~(Len(hand) + i <= Len(hand)) /\ (Len(hand) + i) - Len(hand) = i
    BY <1>4, <1>5
  <2>2. Pipe[Len(hand) + i] = rest[(Len(hand) + i) - Len(hand)]
    BY <1>5, <2>1
  <2> QED  BY <2>1, <2>2
<1> QED  BY <1>3, <1>6, <1>7

\* process_cmd_resp completes the current node with success and keeps its
\* numbers.
LEMMA ResponseNode ==
    ASSUME QueueInv, RxResponse, Accepts(Head(hand))
    PROVE  /\ cur \in Nodes /\ nd[cur] \in Node /\ Pipe[1] = Head(hand)
           /\ nd'[cur].code = nd[cur].code /\ nd'[cur].seq = nd[cur].seq
           /\ nd'[cur].id = nd[cur].id /\ nd'[cur].sent = nd[cur].sent
           /\ nd'[cur].resp = Head(hand).id
           /\ nd[cur].code = Head(hand).code /\ nd[cur].seq = Head(hand).seq
           /\ \E t \in Callers :
                  /\ own[t] = cur /\ own[t] # NoNode /\ pc[t] \in Waiting
                  /\ nd[cur].code = want[t] /\ nd[cur].seq # 0
<1>0. NodeInv /\ MailInv /\ WireTypes  BY DEF QueueInv, OtherTypes
<1>1. /\ cur \in Nodes /\ cur # NoNode /\ nd[cur].code = Head(hand).code
      /\ nd[cur].seq = Head(hand).seq
  BY <1>0 DEF Accepts, Matches, MailInv, MailTypes
<1>2. PICK t \in Callers : own[t] = cur /\ pc[t] \in Waiting
  BY <1>0, <1>1, OwnerOf
<1>3. nd[cur] \in Node /\ nd[cur].code = want[t] /\ nd[cur].seq # 0
  BY <1>0, <1>2, InCall DEF NodePhase, HoldLabels, Waiting, Asked
<1>4. nd'[cur] = [Completed(cur, "0") EXCEPT !.resp = Head(hand).id]
  BY <1>0, <1>1 DEF RxResponse, MailInv, MailTypes
<1>5. /\ nd'[cur].code = nd[cur].code /\ nd'[cur].seq = nd[cur].seq
      /\ nd'[cur].id = nd[cur].id /\ nd'[cur].sent = nd[cur].sent
      /\ nd'[cur].resp = Head(hand).id
  BY <1>3, <1>4 DEF Completed, Node
<1> QED  BY <1>0, <1>1, <1>2, <1>3, <1>5, PipeHead

\* What a submission adds to the pipe: a command of this session. The first
\* INIT_INTERFACE of a session leaves before anyone relies on its answer, and
\* a user's command has its user inside.
LEMMA SubmitsFresh ==
    ASSUME GateInv, AnswerInv, CmdWork, txq' # txq
    PROVE  \E m \in Message :
             /\ Pipe' = Append(Pipe, m)
             /\ m.id <= drawn /\ m.id = m.seq + Base
             /\ IsInit(m) => mpc = "initwait" /\ InitAhead /\ ~Relying'
             /\ Foreign(m) => UserInside
<1>0. QueueInv  BY DEF GateInv
<1>1. PICK t \in Callers, m \in Message :
        /\ Pipe' = Append(Pipe, m)
        /\ own[t] \in Nodes /\ own[t] # NoNode /\ pc[t] = "wait"
        /\ ~nd[own[t]].sent /\ nd[own[t]].seq # 0
        /\ m.code = want[t] /\ m.seq = nd[own[t]].seq
        /\ m.id = nd[own[t]].id
        /\ nd'[own[t]].sent /\ nd'[own[t]].resp = 0
  BY <1>0, Submits
<1>2. m.id <= drawn /\ m.id = m.seq + Base
  BY <1>1 DEF AnswerInv, Numbered
<1>3. Foreign(m) => UserInside  BY <1>1 DEF Foreign, UserInside
<1>4. ASSUME IsInit(m)
      PROVE  mpc = "initwait" /\ InitAhead /\ ~Relying'
  <2>1. t = "mgr"
    BY <1>1, <1>4 DEF IsInit, AnswerInv, InitIsManagers, Callers
  <2>2. mpc = "initwait"
    BY <1>1, <1>4, <2>1 DEF IsInit, AnswerInv, InitIsManagers
  <2>3. UNCHANGED <<flags, mpc, own, want, pc, out>>  BY DEF CmdWork
  <2>4. ~Open' /\ ~UserInside'
    BY <2>2, <2>3 DEF GateInv, RebuildQuiet, Open, UserInside
  <2>5. ~InitAnswered' /\ ~InitAhead'
    BY <1>1, <2>1, <2>2, <2>3 DEF InitAnswered, InitAhead
  <2>6. InitAhead  BY <1>1, <2>1, <2>2 DEF InitAhead
  <2> QED  BY <2>2, <2>3, <2>4, <2>5, <2>6 DEF Relying
<1> QED  BY <1>1, <1>2, <1>3, <1>4

-----------------------------------------------------------------------------
(* Every step keeps AnswerInv *)

\* Each message of the pipe was there before, or is the one submitted.
LEMMA PipeMoves ==
    ASSUME GateInv, AnswerInv, [Next]_vars
    PROVE  \/ Thinned(Pipe', Pipe)
           \/ \E m \in Message :
                /\ Pipe' = Append(Pipe, m)
                /\ m.id <= drawn /\ m.id = m.seq + Base
                /\ IsInit(m) => mpc = "initwait" /\ InitAhead /\ ~Relying'
                /\ Foreign(m) => UserInside
BY PipeLoses, SubmitsFresh DEF GateInv

\* The numbering is kept.
LEMMA NumberedNext ==
    ASSUME GateInv, AnswerInv, [Next]_vars, drawn' < SeqSpace
    PROVE  Numbered'
<1>0. QueueInv /\ WireTypes /\ WireTypes' /\ nextSeq <= drawn
  BY QueueInvNext DEF GateInv, QueueInv, OtherTypes, AnswerInv, Numbered
<1>1. /\ nextSeq' <= drawn' /\ drawn <= drawn'
      /\ \/ Base' = Base
         \/ MgrSetup /\ mpc' = "init" /\ drawn' = drawn
                     /\ nextSeq' = 0 /\ Base' = drawn
  BY <1>0, BaseMoves
<1>2. /\ nextSeq \in Nat /\ drawn \in Nat /\ nextSeq' \in Nat
      /\ drawn' \in Nat /\ Base \in Nat /\ Base' \in Nat
  <2>1. /\ nextSeq \in Nat /\ drawn \in Nat /\ nextSeq' \in Nat
        /\ drawn' \in Nat
    BY <1>0, QueueInvNext, SeqSpaceAssumption
       DEF QueueInv, OtherTypes, CountTypes
  <2>2. Base \in Nat
    <3>1. \A x, y \in Nat : x <= y => y - x \in Nat  OBVIOUS
    <3> QED  BY <1>0, <2>1, <3>1 DEF Base
  <2>3. Base' \in Nat
    <3>1. \A x, y \in Nat : x <= y => y - x \in Nat  OBVIOUS
    <3> QED  BY <1>1, <2>1, <3>1 DEF Base
  <2> QED  BY <2>1, <2>2, <2>3
<1>3. MgrSetup => Base = 0
  BY DEF AnswerInv, TwoSessions, MgrSetup
<1>4. \A i \in 1..Len(Pipe) :
        /\ Pipe[i].id <= drawn' /\ Pipe[i].id \in Nat /\ Pipe[i].seq \in Nat
        /\ Old(Pipe[i]) \/ Pipe[i].id = Pipe[i].seq + Base'
  <2> SUFFICES ASSUME NEW i \in 1..Len(Pipe)
               PROVE  /\ Pipe[i].id <= drawn' /\ Pipe[i].id \in Nat
                      /\ Pipe[i].seq \in Nat
                      /\ Old(Pipe[i]) \/ Pipe[i].id = Pipe[i].seq + Base'
    OBVIOUS
  <2>1. Pipe[i].id \in Nat /\ Pipe[i].seq \in Nat  BY <1>0, PipeType
  <2>2. /\ Pipe[i].id <= drawn
        /\ Old(Pipe[i]) \/ Pipe[i].id = Pipe[i].seq + Base
    BY DEF AnswerInv, Numbered
  <2>3. CASE Base' = Base  BY <1>1, <1>2, <2>1, <2>2, <2>3
  <2>4. CASE MgrSetup
    <3>1. Old(Pipe[i])  BY <1>3, <2>1, <2>2, <2>4 DEF Old
    <3> QED  BY <1>1, <1>2, <2>1, <2>2, <3>1
  <2> QED  BY <1>1, <2>3, <2>4
<1>5. ASSUME NEW i \in 1..Len(Pipe')
      PROVE  /\ Pipe'[i].id <= drawn'
             /\ Old(Pipe'[i]) \/ Pipe'[i].id = Pipe'[i].seq + Base'
  <2>1. CASE Thinned(Pipe', Pipe)
    <3>1. PICK k \in 1..Len(Pipe) : Pipe'[i] = Pipe[k]
      BY <2>1 DEF Thinned
    <3> QED  BY <1>4, <3>1
  <2>2. CASE ~Thinned(Pipe', Pipe)
    <3>1. PICK m \in Message : /\ Pipe' = Append(Pipe, m)
                               /\ m.id <= drawn /\ m.id = m.seq + Base
      BY <2>2, PipeMoves
    <3>2. m.id \in Nat /\ m.seq \in Nat
      BY <3>1, SeqSpaceAssumption DEF Message
    <3>3. Base' = Base
      <4>1. CmdWork  BY <1>0, <2>2, PipeLoses
      <4>2. UNCHANGED <<drawn, nextSeq>>  BY <4>1 DEF CmdWork
      <4> QED  BY <4>2 DEF Base
    <3>4. Pipe'[i] = m \/ (i \in 1..Len(Pipe) /\ Pipe'[i] = Pipe[i])
      <4>1. /\ \A j \in 1..Len(Pipe) : Pipe'[j] = Pipe[j]
            /\ Pipe'[Len(Pipe) + 1] = m
            /\ i \in 1..Len(Pipe) \/ i = Len(Pipe) + 1
        BY <1>0, <3>1, PipeGrows
      <4> QED  BY <4>1
    <3> QED  BY SMTT(60), <1>1, <1>2, <1>4, <3>1, <3>2, <3>3, <3>4
  <2> QED  BY <2>1, <2>2
<1>6. ASSUME NEW n \in Nodes
      PROVE  /\ nd'[n].id <= drawn'
             /\ nd'[n].seq # 0 => nd'[n].id = nd'[n].seq + Base'
             /\ nd'[n].done /\ nd'[n].result = "0" => nd'[n].resp # 0
  <2>0. /\ nd[n] \in Node /\ nd[n].id <= drawn
        /\ nd[n].seq # 0 => nd[n].id = nd[n].seq + Base
        /\ nd[n].done /\ nd[n].result = "0" => nd[n].resp # 0
    BY <1>0 DEF AnswerInv, Numbered, QueueInv, MailInv, MailTypes
  <2>1. nd[n].id \in Nat /\ nd[n].seq \in Nat
    BY <2>0, SeqSpaceAssumption DEF Node
  <2>2. CASE nd'[n] = Blank
    <3>1. nd'[n].id = 0 /\ nd'[n].seq = 0 /\ ~nd'[n].done
      BY <2>2 DEF Blank
    <3> QED  BY <1>2, <3>1
  <2>3. ASSUME MgrSetup, Base' # Base PROVE nd'[n] = Blank
    BY <1>1, <2>3 DEF MgrSetup
  <2>4. CASE Kept(nd'[n], nd[n]) /\ Base' = Base
    BY <1>1, <1>2, <2>0, <2>1, <2>4 DEF Kept
  <2>5. ASSUME NEW t \in Callers, AssignSeq(t), n = own[t]
        PROVE  /\ nd'[n].id <= drawn'
               /\ nd'[n].seq # 0 => nd'[n].id = nd'[n].seq + Base'
               /\ nd'[n].done /\ nd'[n].result = "0" => nd'[n].resp # 0
    <3>1. nd'[n] = [Blank EXCEPT !.code = want[t], !.seq = nextSeq',
                                 !.id = drawn']
      BY <1>0, <2>5 DEF AssignSeq, QueueInv, MailInv, MailTypes
    <3>2. nd'[n].seq = nextSeq' /\ nd'[n].id = drawn' /\ ~nd'[n].done
      BY <3>1 DEF Blank
    <3>3. \A x, y \in Nat : x <= x /\ x = y + (x - y)  OBVIOUS
    <3>4. drawn' <= drawn' /\ drawn' = nextSeq' + Base'
      BY <1>2, <3>3 DEF Base
    <3> QED  BY <3>2, <3>4
  <2>6. CASE RxResponse /\ Accepts(Head(hand)) /\ n = cur
    <3>1. /\ nd'[n].id = nd[n].id /\ nd'[n].seq = nd[n].seq
          /\ nd'[n].resp = Pipe[1].id
      BY <1>0, <2>6, ResponseNode
    <3>2. 1 \in 1..Len(Pipe)  BY <1>0, <2>6, PipeHead
    <3>3. /\ Pipe[1].id \in Nat /\ Pipe[1].seq \in Nat /\ Pipe[1].seq # 0
          /\ Old(Pipe[1]) \/ Pipe[1].id = Pipe[1].seq + Base
      BY <1>0, <3>2, PipeType DEF AnswerInv, Numbered
    <3>4. Pipe[1].id # 0  BY <1>2, <3>3 DEF Old
    <3>5. UNCHANGED <<drawn, nextSeq>>  BY <2>6 DEF RxResponse
    <3> QED  BY <2>0, <3>1, <3>4, <3>5 DEF Base
  <2> QED  BY <1>0, <1>1, <2>2, <2>3, <2>4, <2>5, <2>6, NodeMoves
<1> QED  BY <1>1, <1>5, <1>6 DEF Numbered, Old

\* A second session is the last one, and it is announced by the one restart.
LEMMA TwoSessionsNext ==
    ASSUME GateInv, AnswerInv, [Next]_vars, boots' <= 1, drawn' < SeqSpace
    PROVE  TwoSessions'
<1>0. QueueInv /\ TwoSessions /\ nextSeq <= drawn /\ boots \in Nat
  BY CallBounds DEF GateInv, QueueInv, OtherTypes, CountTypes, AnswerInv,
     Numbered
<1>1. \/ Base' = Base
      \/ MgrSetup /\ mpc' = "init" /\ drawn' = drawn /\ Base' = drawn
  BY <1>0, BaseMoves
<1>2. \/ UNCHANGED <<boots, boot>>
      \/ boots' = boots /\ boot' = FALSE /\ MgrBoot
      \/ boots = 0 /\ boots' = 1 /\ boot' = TRUE /\ ~boot /\ UNCHANGED mpc
  <2>1. CASE FwRestart
    <3>1. boots' = boots + 1 /\ boot' = TRUE /\ ~boot /\ UNCHANGED mpc
      BY <2>1 DEF FwRestart
    <3>2. boots = 0 /\ boots' = 1  BY <1>0, <3>1
    <3> QED  BY <3>1, <3>2
  <2>2. CASE MgrBoot  BY <2>2 DEF MgrBoot
  <2>3. ASSUME NEW t \in Callers, CallStep(t) PROVE UNCHANGED <<boots, boot>>
    BY <2>3 DEF CallStep, AssignSeq, QueueNode, Timeout, Quarantine, Finish,
       Decode, Recycle, Kick, KickQueue
  <2>4. ASSUME NEW t \in Users, UserCall(t) PROVE UNCHANGED <<boots, boot>>
    BY <2>4 DEF UserCall, Prepare
  <2>5. CASE CmdWork \/ SpiSend \/ SpiLose \/ FwAnswer \/ FwMute
             \/ RxTake \/ RxGate \/ RxResponse
    BY <2>5 DEF CmdWork, SpiSend, SpiLose, FwAnswer, FwMute, RxTake, RxGate,
       RxResponse
  <2>6. CASE MgrQuiesce \/ MgrRxIdle \/ MgrAbort \/ MgrClear \/ MgrDestroy
             \/ MgrNull \/ MgrDrain \/ MgrRecon \/ MgrSetup \/ MgrCall
    BY <2>6 DEF MgrQuiesce, MgrRxIdle, MgrAbort, MgrClear, MgrDestroy,
       MgrNull, MgrDrain, MgrRecon, MgrSetup, MgrCall, Prepare
  <2>7. CASE MgrInitDone \/ MgrCommit \/ MgrPublish \/ MgrFail \/ ExitBegin
             \/ MgrExit \/ MgrFence
    BY <2>7 DEF MgrInitDone, MgrCommit, MgrPublish, MgrFail, ExitBegin,
       MgrExit, MgrFence
  <2>8. CASE UNCHANGED vars  BY <2>8
  <2> QED  BY <2>1, <2>2, <2>3, <2>4, <2>5, <2>6, <2>7, <2>8
           DEF Next, Manager, Transport
<1>3. Second => Second'
  BY <1>0, <1>2 DEF Second, TwoSessions, MgrBoot
<1>4. \/ UNCHANGED <<mpc, mret>>
      \/ MgrBoot
      \/ mpc' \in Teardown /\ mret' # "recon"
      \/ /\ mpc \in Teardown /\ UNCHANGED mret
         /\ mpc' \in Teardown \/ mpc' = mret
      \/ /\ mpc = "recon" /\ mpc' \in {"up", "setup"}
         /\ UNCHANGED <<mret, drawn, pool>>
      \/ mpc' \notin Teardown \cup {"recon", "setup"}
  <2>1. CASE ~(Manager \/ ExitBegin)
    <3>1. ASSUME NEW t \in Users, UserCall(t) PROVE UNCHANGED <<mpc, mret>>
      BY <3>1 DEF UserCall, Prepare
    <3>2. ASSUME NEW t \in Callers, CallStep(t) PROVE UNCHANGED <<mpc, mret>>
      BY <3>2 DEF CallStep, AssignSeq, QueueNode, Timeout, Quarantine,
         Finish, Decode, Recycle, Kick, KickQueue
    <3>3. CASE CmdWork \/ Transport
      BY <3>3 DEF CmdWork, Transport, SpiSend, SpiLose, FwAnswer, FwMute,
         FwRestart, RxTake, RxGate, RxResponse
    <3>4. CASE UNCHANGED vars  BY <3>4
    <3> QED  BY <2>1, <3>1, <3>2, <3>3, <3>4 DEF Next
  <2>2. CASE MgrQuiesce \/ MgrRxIdle \/ MgrAbort \/ MgrClear \/ MgrDestroy
             \/ MgrNull \/ MgrDrain
    BY <2>2 DEF MgrQuiesce, MgrRxIdle, MgrAbort, MgrClear, MgrDestroy,
       MgrNull, MgrDrain, Teardown
  <2>3. CASE MgrRecon  BY <2>3 DEF MgrRecon
  <2>4. CASE MgrSetup \/ MgrCall \/ MgrInitDone \/ MgrCommit \/ MgrPublish
    BY <2>4 DEF MgrSetup, MgrCall, MgrInitDone, MgrCommit, MgrPublish,
       Teardown
  <2>5. CASE MgrFail \/ ExitBegin \/ MgrExit \/ MgrFence
    BY <2>5 DEF MgrFail, ExitBegin, MgrExit, MgrFence, Teardown
  <2> QED  BY <2>1, <2>2, <2>3, <2>4, <2>5 DEF Manager
<1>a. "recon" \notin Teardown /\ "setup" \notin Teardown
  BY DEF Teardown
<1>5. boot' => boots' = 1
  BY <1>0, <1>2 DEF TwoSessions
<1>6. Base' # 0 => Second' /\ mpc' \notin {"recon", "setup"}
  <2>1. CASE Base' = Base
    <3> SUFFICES ASSUME Base # 0
                 PROVE  Second' /\ mpc' \notin {"recon", "setup"}
      BY <2>1
    <3>1. Second /\ mpc \notin {"recon", "setup"}
          /\ ~(mpc \in Teardown /\ mret = "recon")
      BY <1>0 DEF TwoSessions
    <3>2. ~MgrBoot  BY <3>1 DEF Second, MgrBoot
    <3>3. mret \in {"recon", "fail", "gone"}
      BY <1>0 DEF QueueInv, OtherTypes, ControlTypes
    <3>4. mpc' \notin {"recon", "setup"}
      BY <1>4, <1>a, <3>1, <3>2, <3>3
    <3> QED  BY <1>3, <3>1, <3>4
  <2>2. CASE MgrSetup /\ mpc' = "init" /\ drawn' = drawn /\ Base' = drawn
    BY <1>0, <1>3, <2>2 DEF TwoSessions, MgrSetup
  <2> QED  BY <1>1, <2>1, <2>2
<1>7. mpc' \in Teardown /\ mret' = "recon" => Second' /\ Base' = 0
  <2> SUFFICES ASSUME mpc' \in Teardown, mret' = "recon"
               PROVE  Second' /\ Base' = 0
    OBVIOUS
  <2>1. Base' = Base  BY <1>1 DEF Teardown
  <2>2. CASE MgrBoot
    <3>1. boot /\ boots = 1 /\ Base = 0
      BY <1>0, <2>2 DEF MgrBoot, TwoSessions, Second
    <3>2. boots' = boots /\ boot' = FALSE  BY <2>2 DEF MgrBoot
    <3> QED  BY <2>1, <3>1, <3>2 DEF Second
  <2>3. CASE mpc \in Teardown /\ mret = "recon"
    BY <1>0, <1>3, <2>1, <2>3 DEF TwoSessions
  <2>4. mpc' \notin {"recon", "up", "setup"}  BY DEF Teardown
  <2> QED  BY <1>4, <2>2, <2>3, <2>4
<1>8. mpc' \in {"recon", "setup"} => Second' \/ (drawn' = 0 /\ ~pool')
  <2> SUFFICES ASSUME mpc' \in {"recon", "setup"}
               PROVE  Second' \/ (drawn' = 0 /\ ~pool')
    OBVIOUS
  <2>0. mret \in {"recon", "fail", "gone"}
    BY <1>0 DEF QueueInv, OtherTypes, ControlTypes
  <2>1. CASE mpc \in Teardown /\ mret = "recon"
    BY <1>0, <1>3, <2>1 DEF TwoSessions
  <2>2. CASE mpc \in {"recon", "setup"}
    <3>1. CASE Second  BY <1>3, <3>1
    <3>2. CASE drawn = 0 /\ ~pool
      <4>1. \A t \in Callers : pc[t] # "seq"
        <5>1. Holding = {}
          BY <1>0, <3>2 DEF QueueInv, NodeInv, NodesConserved
        <5> QED  BY <1>0, <5>1 DEF QueueInv, NodeInv, HoldsWhileInCall,
                    HoldLabels, Holding
      <4>2. UNCHANGED <<drawn, pool>>
        <5>1. ASSUME NEW t \in Callers, CallStep(t)
              PROVE  UNCHANGED <<drawn, pool>>
          BY <4>1, <5>1 DEF CallStep, AssignSeq, QueueNode, Timeout,
             Quarantine, Finish, Decode, Recycle, Kick, KickQueue
        <5>2. ASSUME NEW t \in Users, UserCall(t)
              PROVE  UNCHANGED <<drawn, pool>>
          BY <5>2 DEF UserCall, Prepare
        <5>3. CASE CmdWork \/ Transport
          BY <5>3 DEF CmdWork, Transport, SpiSend, SpiLose, FwAnswer,
             FwMute, FwRestart, RxTake, RxGate, RxResponse
        <5>4. CASE Manager \/ ExitBegin
          BY <2>2, <5>4 DEF Manager, ExitBegin, MgrBoot, MgrQuiesce,
             MgrRxIdle, MgrAbort, MgrClear, MgrDestroy, MgrNull, MgrDrain,
             MgrRecon, MgrSetup, MgrCall, MgrInitDone, MgrCommit, MgrPublish,
             MgrFail, MgrExit, MgrFence
        <5>5. CASE UNCHANGED vars  BY <5>5
        <5> QED  BY <5>1, <5>2, <5>3, <5>4, <5>5 DEF Next
      <4> QED  BY <3>2, <4>2
    <3> QED  BY <1>0, <2>2, <3>1, <3>2 DEF TwoSessions
  <2>3. ~MgrBoot  BY DEF MgrBoot
  <2> QED  BY <1>4, <1>a, <2>0, <2>1, <2>2, <2>3
<1> QED  BY <1>5, <1>6, <1>7, <1>8 DEF TwoSessions

\* Losing messages keeps the order of the others, and a submission adds one
\* of this session behind them.
LEMMA OrderNext ==
    ASSUME GateInv, AnswerInv, [Next]_vars, Base' = Base
    PROVE  Ordered' /\ InitAlone'
<1>0. WireTypes /\ WireTypes'
  BY QueueInvNext DEF GateInv, QueueInv, OtherTypes
<1>1. CASE Thinned(Pipe', Pipe)
  <2>1. PICK f \in [1..Len(Pipe') -> 1..Len(Pipe)] :
          /\ \A i, j \in 1..Len(Pipe') : i < j => f[i] < f[j]
          /\ \A i \in 1..Len(Pipe') : Pipe'[i] = Pipe[f[i]]
    BY <1>1 DEF Thinned
  <2>2. \A i \in 1..Len(Pipe') : f[i] \in 1..Len(Pipe)  BY <2>1
  <2>3. ASSUME NEW i \in 1..Len(Pipe'), NEW j \in 1..Len(Pipe'), i < j
        PROVE  /\ Old(Pipe'[j]) => Old(Pipe'[i])
               /\ ~(Base = 0 /\ IsInit(Pipe'[i]) /\ IsInit(Pipe'[j]))
    <3>1. f[i] < f[j] /\ Pipe'[i] = Pipe[f[i]] /\ Pipe'[j] = Pipe[f[j]]
      BY <2>1, <2>3
    <3> QED  BY <2>2, <3>1 DEF AnswerInv, Ordered
  <2>4. ASSUME NEW i \in 1..Len(Pipe'), NEW j \in 1..Len(Pipe')
        PROVE  ~(/\ Old(Pipe'[i]) /\ IsInit(Pipe'[i])
                 /\ Old(Pipe'[j]) /\ Foreign(Pipe'[j]))
    <3>1. Pipe'[i] = Pipe[f[i]] /\ Pipe'[j] = Pipe[f[j]]  BY <2>1
    <3> QED  BY <2>2, <3>1 DEF AnswerInv, InitAlone
  <2> QED  BY <2>3, <2>4 DEF Ordered, InitAlone, Old, IsInit, Foreign
<1>2. CASE ~Thinned(Pipe', Pipe)
  <2>1. PICK m \in Message :
          /\ Pipe' = Append(Pipe, m) /\ m.id = m.seq + Base
          /\ IsInit(m) => mpc = "initwait" /\ InitAhead /\ ~Relying'
          /\ Foreign(m) => UserInside
    BY <1>2, PipeMoves
  <2>2. /\ \A i \in 1..Len(Pipe) : Pipe'[i] = Pipe[i]
        /\ Pipe'[Len(Pipe) + 1] = m
        /\ \A i \in 1..Len(Pipe') : i \in 1..Len(Pipe) \/ i = Len(Pipe) + 1
    BY <1>0, <2>1, PipeGrows
  <2>3. /\ m.id \in Nat /\ m.seq \in Nat /\ Len(Pipe) \in Nat
        /\ \A i \in 1..Len(Pipe) : Pipe[i].id \in Nat /\ Pipe[i].seq \in Nat
    BY SMTT(60), <1>0, <2>1, PipeType, SeqSpaceAssumption DEF Message
  <2>4. Base \in Int
    BY SeqSpaceAssumption
       DEF Base, GateInv, QueueInv, OtherTypes, CountTypes
  <2>5. Old(m) => Base = 0  BY <2>1, <2>3, <2>4 DEF Old
  <2>6. Base = 0 => \A i \in 1..Len(Pipe) : Old(Pipe[i])
    BY <2>3 DEF AnswerInv, Numbered, Old
  <2>7. Base = 0 /\ IsInit(m) => \A i \in 1..Len(Pipe) :
            ~IsInit(Pipe[i]) /\ ~Foreign(Pipe[i])
    <3> SUFFICES ASSUME Base = 0, IsInit(m)
                 PROVE  \A i \in 1..Len(Pipe) :
                            ~IsInit(Pipe[i]) /\ ~Foreign(Pipe[i])
      OBVIOUS
    <3>1. Relying /\ mpc = "initwait"  BY <2>1 DEF Relying
    <3> QED  BY <3>1 DEF AnswerInv, Handshake, Clear
  <2>8. Base = 0 /\ Foreign(m) => \A i \in 1..Len(Pipe) : ~IsInit(Pipe[i])
    BY <2>1 DEF Relying, AnswerInv, Handshake, Clear
  <2>9. ~(IsInit(m) /\ Foreign(m))  BY DEF IsInit, Foreign, Rebuilding
  <2>10. ASSUME NEW i \in 1..Len(Pipe'), NEW j \in 1..Len(Pipe'), i < j
         PROVE  /\ Old(Pipe'[j]) => Old(Pipe'[i])
                /\ ~(Base = 0 /\ IsInit(Pipe'[i]) /\ IsInit(Pipe'[j]))
    <3>1. i \in 1..Len(Pipe)
      BY <2>2, <2>3, <2>10
    <3>2. CASE j \in 1..Len(Pipe)
      BY <2>2, <2>10, <3>1, <3>2 DEF AnswerInv, Ordered
    <3>3. CASE j = Len(Pipe) + 1
      BY <2>2, <2>5, <2>6, <2>7, <3>1, <3>3
    <3> QED  BY <2>2, <3>2, <3>3
  <2>11. ASSUME NEW i \in 1..Len(Pipe'), NEW j \in 1..Len(Pipe')
         PROVE  ~(/\ Old(Pipe'[i]) /\ IsInit(Pipe'[i])
                  /\ Old(Pipe'[j]) /\ Foreign(Pipe'[j]))
    <3>1. CASE i \in 1..Len(Pipe) /\ j \in 1..Len(Pipe)
      BY <2>2, <3>1 DEF AnswerInv, InitAlone
    <3>2. CASE i = Len(Pipe) + 1
      <4>1. Pipe'[i] = m  BY <2>2, <3>2
      <4>2. Pipe'[j] = m \/ (j \in 1..Len(Pipe) /\ Pipe'[j] = Pipe[j])
        BY <2>2
      <4> QED  BY <2>5, <2>7, <2>9, <4>1, <4>2
    <3>3. CASE i \in 1..Len(Pipe) /\ j = Len(Pipe) + 1
      <4>1. Pipe'[j] = m /\ Pipe'[i] = Pipe[i]  BY <2>2, <3>3
      <4> QED  BY <2>5, <2>8, <3>3, <4>1
    <3> QED  BY <2>2, <3>1, <3>2, <3>3
  <2> QED  BY <2>10, <2>11 DEF Ordered, InitAlone, Old, IsInit, Foreign
<1> QED  BY <1>1, <1>2

\* Only the manager issues INIT_INTERFACE, and it waits for the answer.
LEMMA ManagersNext ==
    ASSUME GateInv, AnswerInv, [Next]_vars, "INIT_INTERFACE" \notin UserCodes
    PROVE  InitIsManagers'
<1>0. /\ QueueInv /\ InitIsManagers /\ "mgr" \in Callers
      /\ own \in [Callers -> Nodes \cup {NoNode}]
      /\ want \in [Callers -> Codes \cup {"none"}]
  BY DEF GateInv, AnswerInv, QueueInv, NodeInv, NodeTypes, MailInv, MailTypes,
     Callers
<1>1. pc["mgr"] = "idle" => own["mgr"] = NoNode
  BY <1>0 DEF QueueInv, NodeInv, HoldsWhileInCall, HoldLabels
<1>2. ASSUME UNCHANGED <<own, want>>,
             mpc' = mpc \/ pc["mgr"] = "idle"
                        \/ mpc \notin {"initwait", "deinitwait"}
      PROVE  InitIsManagers'
  BY <1>0, <1>1, <1>2 DEF InitIsManagers
<1>3. ASSUME NEW t \in Users, UserCall(t) PROVE InitIsManagers'
  <2>1. PICK c \in UserCodes : Prepare(t, c)  BY <1>3 DEF UserCall
  <2>2. t # "mgr" /\ t \in Callers  BY UsersAssumption DEF Callers
  <2>3. mpc' = mpc  BY <1>3 DEF UserCall
  <2>4. \/ UNCHANGED <<own, want>>
        \/ \E n \in free : /\ own' = [own EXCEPT ![t] = n]
                           /\ want' = [want EXCEPT ![t] = c]
    BY <2>1 DEF Prepare
  <2>5. own'["mgr"] = own["mgr"] /\ want'["mgr"] = want["mgr"]
    BY <1>0, <2>2, <2>4
  <2>6. \A u \in Users : want'[u] = want[u] \/ want'[u] = c
    BY <1>0, <2>2, <2>4 DEF Callers
  <2> QED  BY <1>0, <2>3, <2>5, <2>6 DEF InitIsManagers
<1>4. ASSUME NEW t \in Callers, CallStep(t) PROVE InitIsManagers'
  <2>1. mpc' = mpc
    BY <1>4 DEF CallStep, AssignSeq, QueueNode, Timeout, Quarantine, Finish,
       Decode, Recycle, Kick, KickQueue
  <2>2. CASE ~Recycle(t)
    <3>1. UNCHANGED <<own, want>>
      BY <1>4, <2>2 DEF CallStep, AssignSeq, QueueNode, Timeout, Quarantine,
         Finish, Decode, Kick, KickQueue
    <3> QED  BY <1>2, <2>1, <3>1
  <2>3. CASE Recycle(t)
    <3>1. /\ own' = [own EXCEPT ![t] = NoNode]
          /\ want' = [want EXCEPT ![t] = "none"]
      BY <2>3 DEF Recycle
    <3>2. own'["mgr"] # NoNode => /\ own'["mgr"] = own["mgr"]
                                  /\ want'["mgr"] = want["mgr"]
      BY <1>0, <3>1
    <3>3. \A u \in Users : want'[u] = want[u] \/ want'[u] = "none"
      BY <1>0, <3>1 DEF Callers
    <3> QED  BY <1>0, <2>1, <3>2, <3>3 DEF InitIsManagers
  <2> QED  BY <2>2, <2>3
<1>5. CASE MgrCall
  <2>1. PICK c \in {"INIT_INTERFACE", "DEINIT_INTERFACE"} :
          /\ Prepare("mgr", c)
          /\ c = "INIT_INTERFACE" => mpc = "init" /\ mpc' = "initwait"
          /\ c = "DEINIT_INTERFACE" => mpc = "deinit" /\ mpc' = "deinitwait"
    BY <1>5 DEF MgrCall
  <2>2. own["mgr"] = NoNode  BY <1>1, <2>1 DEF Prepare
  <2>3. \/ UNCHANGED <<own, want>>
        \/ want' = [want EXCEPT !["mgr"] = c]
    BY <2>1 DEF Prepare
  <2>4. \A u \in Users : want'[u] = want[u]
    BY <1>0, <2>3, UsersAssumption DEF Callers
  <2>5. own'["mgr"] # NoNode => want'["mgr"] = c
    BY <1>0, <2>2, <2>3
  <2> QED  BY <1>0, <2>1, <2>4, <2>5 DEF InitIsManagers
<1>6. CASE CmdWork \/ Transport
  BY <1>2, <1>6 DEF CmdWork, Transport, SpiSend, SpiLose, FwAnswer, FwMute,
     FwRestart, RxTake, RxGate, RxResponse
<1>7. CASE MgrBoot \/ MgrQuiesce \/ MgrRxIdle \/ MgrAbort \/ MgrClear
           \/ MgrDestroy \/ MgrNull \/ MgrDrain \/ MgrRecon \/ MgrSetup
  BY <1>2, <1>7 DEF MgrBoot, MgrQuiesce, MgrRxIdle, MgrAbort, MgrClear,
     MgrDestroy, MgrNull, MgrDrain, MgrRecon, MgrSetup
<1>8. CASE MgrInitDone \/ MgrCommit \/ MgrPublish \/ MgrFail \/ ExitBegin
           \/ MgrExit \/ MgrFence
  BY <1>2, <1>8 DEF MgrInitDone, MgrCommit, MgrPublish, MgrFail, ExitBegin,
     MgrExit, MgrFence
<1>9. CASE UNCHANGED vars  BY <1>2, <1>9
<1> QED  BY <1>3, <1>4, <1>5, <1>6, <1>7, <1>8, <1>9 DEF Next, Manager

\* A user gets a node only when users' commands are admitted.
LEMMA UserInsideMoves ==
    ASSUME GateInv, [Next]_vars, UserInside'
    PROVE  UserInside \/ Open
<1>0. /\ own \in [Callers -> Nodes \cup {NoNode}]
      /\ want \in [Callers -> Codes \cup {"none"}]
  BY DEF GateInv, QueueInv, NodeInv, NodeTypes, MailInv, MailTypes
<1>1. PICK u \in Callers : own'[u] # NoNode /\ want'[u] \notin Rebuilding
  BY DEF UserInside
<1>2. CASE UNCHANGED <<own, want>>  BY <1>1, <1>2 DEF UserInside
<1>3. ASSUME NEW t \in Callers, NEW c, Prepare(t, c)
      PROVE  UserInside \/ Open
  <2>1. CASE UNCHANGED <<own, want>>  BY <1>2, <2>1
  <2>2. CASE /\ "CMD_INIT_DONE" \in flags /\ Admitted(c)
             /\ want' = [want EXCEPT ![t] = c]
             /\ \E n \in free : own' = [own EXCEPT ![t] = n]
    <3>1. CASE u = t
      <4>1. c \notin Rebuilding  BY <1>0, <1>1, <2>2, <3>1
      <4> QED  BY <2>2, <4>1, RebuildAdmits DEF Open
    <3>2. CASE u # t
      <4>1. own[u] # NoNode /\ want[u] \notin Rebuilding
        BY <1>0, <1>1, <2>2, <3>2
      <4> QED  BY <4>1 DEF UserInside
    <3> QED  BY <3>1, <3>2
  <2> QED  BY <1>3, <2>1, <2>2 DEF Prepare
<1>4. ASSUME NEW t \in Callers, CallStep(t) PROVE UserInside \/ Open
  <2>1. CASE ~Recycle(t)
    BY <1>2, <1>4, <2>1 DEF CallStep, AssignSeq, QueueNode, Timeout,
       Quarantine, Finish, Decode, Kick, KickQueue
  <2>2. CASE Recycle(t)
    <3>1. /\ own' = [own EXCEPT ![t] = NoNode]
          /\ want' = [want EXCEPT ![t] = "none"]
      BY <2>2 DEF Recycle
    <3>2. own[u] # NoNode /\ want[u] \notin Rebuilding  BY <1>0, <1>1, <3>1
    <3> QED  BY <3>2 DEF UserInside
  <2> QED  BY <2>1, <2>2
<1>5. CASE \E t \in Users : UserCall(t)
  BY <1>3, <1>5 DEF UserCall, Callers
<1>6. CASE MgrCall
  <2>1. "mgr" \in Callers  BY DEF Callers
  <2> QED  BY <1>3, <1>6, <2>1 DEF MgrCall
<1>7. CASE CmdWork \/ Transport
  BY <1>2, <1>7 DEF CmdWork, Transport, SpiSend, SpiLose, FwAnswer, FwMute,
     FwRestart, RxTake, RxGate, RxResponse
<1>8. CASE (Manager /\ ~MgrCall) \/ ExitBegin
  BY <1>2, <1>8 DEF Manager, ExitBegin, MgrBoot, MgrQuiesce, MgrRxIdle,
     MgrAbort, MgrClear, MgrDestroy, MgrNull, MgrDrain, MgrRecon, MgrSetup,
     MgrInitDone, MgrCommit, MgrPublish, MgrFail, MgrExit, MgrFence
<1>9. CASE UNCHANGED vars  BY <1>2, <1>9
<1> QED  BY <1>4, <1>5, <1>6, <1>7, <1>8, <1>9 DEF Next

\* Users' commands become admitted when a rebuilt session is committed.
LEMMA OpenMoves ==
    ASSUME GateInv, [Next]_vars, Open'
    PROVE  Open \/ mpc = "commit"
<1>1. CASE Manager
  BY <1>1 DEF GateInv, MailboxOpen, RebuildQuiet, Open, Manager, MgrBoot,
     MgrQuiesce, MgrRxIdle, MgrAbort, MgrClear, MgrDestroy, MgrNull,
     MgrDrain, MgrRecon, MgrSetup, MgrCall, Prepare, MgrInitDone, MgrCommit,
     MgrPublish, MgrFail, MgrExit, MgrFence
<1>2. CASE ExitBegin  BY <1>2 DEF ExitBegin, Open
<1> QED  BY <1>1, <1>2, FlagsMove DEF Open

\* The manager's control around INIT_INTERFACE
LEMMA InitControl ==
    ASSUME GateInv, [Next]_vars, ~MgrSetup
    PROVE  /\ mpc' = "init" => mpc = "init"
           /\ mpc' = "initwait" => \/ mpc = "initwait"
                                   \/ mpc = "init" /\ MgrCall
           /\ mpc' = "commit" => \/ mpc = "commit"
                                 \/ mpc = "initwait" /\ pc["mgr"] = "idle"
                                    /\ out["mgr"] = "0"
<1>0. mret \in {"recon", "fail", "gone"}
  BY DEF GateInv, QueueInv, OtherTypes, ControlTypes
<1>1. CASE Manager
  BY <1>0, <1>1 DEF Manager, MgrBoot, MgrQuiesce, MgrRxIdle, MgrAbort,
     MgrClear, MgrDestroy, MgrNull, MgrDrain, MgrRecon, MgrCall, MgrInitDone,
     MgrCommit, MgrPublish, MgrFail, MgrExit, MgrFence
<1>2. CASE ExitBegin  BY <1>2 DEF ExitBegin
<1> QED  BY <1>1, <1>2, FlagsMove

\* A freed node that the manager takes is blank.
LEMMA ManagerTakes ==
    ASSUME GateInv, NEW c, Prepare("mgr", c)
    PROVE  /\ own["mgr"] = NoNode
           /\ own'["mgr"] # NoNode => nd'[own'["mgr"]] = Blank
           /\ pc'["mgr"] \in {"idle", "drop"} => out'["mgr"] # "0"
           /\ pc'["mgr"] \in {"idle", "drop", "seq"}
<1>0. /\ QueueInv /\ "mgr" \in Callers
      /\ own \in [Callers -> Nodes \cup {NoNode}]
      /\ pc \in [Callers -> CallLabels]
      /\ DOMAIN out = Callers
  BY DEF GateInv, QueueInv, NodeInv, NodeTypes, Callers, OtherTypes,
     CountTypes
<1>1. own["mgr"] = NoNode /\ pc["mgr"] = "idle"
  BY <1>0 DEF QueueInv, NodeInv, HoldsWhileInCall, HoldLabels, Prepare
<1>2. nd' = nd  BY DEF Prepare
<1>3. CASE UNCHANGED <<own, pc>> /\ out' = [out EXCEPT !["mgr"] = "busy"]
  BY <1>0, <1>1, <1>3
<1>4. ASSUME NEW n \in free, own' = [own EXCEPT !["mgr"] = n]
      PROVE  nd[n] = Blank /\ own'["mgr"] = n
  <2>1. n \in Nodes /\ pool
    BY <1>0 DEF QueueInv, NodeInv, NodeTypes, NoPoolNoFree
  <2>2. \A t \in Callers : own[t] # n
    <3>1. free = Nodes \ {own[t] : t \in Holding}
      BY <1>0, <2>1 DEF QueueInv, NodeInv, NodesConserved
    <3>2. n # NoNode  BY <2>1, NodesAssumption
    <3> QED  BY <3>1, <3>2 DEF Holding
  <2> QED  BY <1>0, <1>4, <2>1, <2>2 DEF QueueInv, MailInv, IdleBlank
<1>5. CASE /\ \E n \in free : own' = [own EXCEPT !["mgr"] = n]
           /\ \/ pc' = [pc EXCEPT !["mgr"] = "seq"]
              \/ /\ pc' = [pc EXCEPT !["mgr"] = "drop"]
                 /\ out' = [out EXCEPT !["mgr"] = "nomem"]
  BY <1>0, <1>1, <1>2, <1>4, <1>5
<1> QED  BY <1>3, <1>5 DEF Prepare

\* The manager's node, unless it is given back, stays its own.
LEMMA ManagerKeeps ==
    ASSUME GateInv, [Next]_vars, ~MgrCall, own'["mgr"] # NoNode
    PROVE  own'["mgr"] = own["mgr"] /\ ~Recycle("mgr")
<1>0. /\ own \in [Callers -> Nodes \cup {NoNode}] /\ "mgr" \in Callers
  BY DEF GateInv, QueueInv, NodeInv, NodeTypes, Callers
<1>1. ~Recycle("mgr")  BY <1>0 DEF Recycle
<1>2. CASE own' = own  BY <1>1, <1>2
<1>3. ASSUME NEW t \in Callers, CallStep(t) PROVE own'["mgr"] = own["mgr"]
  <2>1. CASE Recycle(t)
    <3>1. t # "mgr"  BY <1>1, <2>1
    <3> QED  BY <1>0, <2>1, <3>1 DEF Recycle
  <2>2. CASE ~Recycle(t)
    BY <1>3, <2>2 DEF CallStep, AssignSeq, QueueNode, Timeout, Quarantine,
       Finish, Decode, Kick, KickQueue
  <2> QED  BY <2>1, <2>2
<1>4. ASSUME NEW t \in Users, UserCall(t) PROVE own'["mgr"] = own["mgr"]
  <2>1. t # "mgr"  BY UsersAssumption
  <2>2. own' = own \/ \E n \in free : own' = [own EXCEPT ![t] = n]
    BY <1>4 DEF UserCall, Prepare
  <2> QED  BY <1>0, <2>1, <2>2
<1>5. CASE CmdWork \/ Transport
  BY <1>2, <1>5 DEF CmdWork, Transport, SpiSend, SpiLose, FwAnswer, FwMute,
     FwRestart, RxTake, RxGate, RxResponse
<1>6. CASE (Manager /\ ~MgrCall) \/ ExitBegin
  BY <1>2, <1>6 DEF Manager, ExitBegin, MgrBoot, MgrQuiesce, MgrRxIdle,
     MgrAbort, MgrClear, MgrDestroy, MgrNull, MgrDrain, MgrRecon, MgrSetup,
     MgrInitDone, MgrCommit, MgrPublish, MgrFail, MgrExit, MgrFence
<1>7. CASE UNCHANGED vars  BY <1>2, <1>7
<1> QED  BY <1>1, <1>3, <1>4, <1>5, <1>6, <1>7 DEF Next

\* The response to INIT_INTERFACE is taken by process_cmd_resp.
InitResponse == /\ RxResponse /\ Accepts(Head(hand))
                /\ own["mgr"] = cur /\ mpc = "initwait"

\* The manager learns that INIT_INTERFACE was answered from a response.
LEMMA InitAnsweredMoves ==
    ASSUME GateInv, AnswerInv, [Next]_vars, ~MgrSetup, InitAnswered'
    PROVE  InitAnswered \/ InitResponse
<1>0. /\ QueueInv /\ "mgr" \in Callers
      /\ pc \in [Callers -> CallLabels] /\ DOMAIN out = Callers
      /\ own \in [Callers -> Nodes \cup {NoNode}]
  BY DEF GateInv, QueueInv, NodeInv, NodeTypes, Callers, OtherTypes,
     CountTypes
<1> DEFINE Ends == {"drop", "decode", "recycle", "kick", "kickq", "idle"}
<1>1. mpc' = "initwait" /\ ~MgrCall /\ mpc = "initwait"
  <2>1. mpc' = "initwait"  BY DEF InitAnswered
  <2>2. ~MgrCall
    <3> SUFFICES ASSUME MgrCall PROVE FALSE  OBVIOUS
    <3>1. \E c : Prepare("mgr", c)  BY DEF MgrCall
    <3>2. /\ own'["mgr"] # NoNode => nd'[own'["mgr"]] = Blank
          /\ pc'["mgr"] \in {"idle", "drop"} => out'["mgr"] # "0"
          /\ pc'["mgr"] \in {"idle", "drop", "seq"}
      BY <3>1, ManagerTakes
    <3> QED  BY <3>2 DEF InitAnswered, Blank
  <2> QED  BY <2>1, <2>2, InitControl
<1>2. CASE own'["mgr"] # NoNode /\ nd'[own'["mgr"]].resp # 0
  <2> DEFINE n == own["mgr"]
  <2>1. own'["mgr"] = n /\ ~Recycle("mgr")  BY <1>1, <1>2, ManagerKeeps
  <2>2. n \in Nodes /\ n # NoNode /\ pc["mgr"] \in HoldLabels
    BY <1>0, <1>2, <2>1 DEF QueueInv, NodeInv, HoldsWhileInCall
  <2>3. nd'[n].resp # 0  BY <1>2, <2>1
  <2> HIDE DEF n
  <2>4. CASE Kept(nd'[n], nd[n])
    <3>1. nd[n].resp # 0  BY <2>3, <2>4 DEF Kept
    <3> QED  BY <1>1, <2>2, <3>1 DEF InitAnswered, n
  <2>5. CASE nd'[n] = Blank  BY <2>3, <2>5 DEF Blank
  <2>6. ASSUME NEW t \in Callers, AssignSeq(t), n = own[t] PROVE FALSE
    <3>1. nd'[n] = [Blank EXCEPT !.code = want[t], !.seq = nextSeq',
                                 !.id = drawn']
      BY <1>0, <2>2, <2>6 DEF AssignSeq, QueueInv, MailInv, MailTypes
    <3> QED  BY <2>3, <3>1 DEF Blank
  <2>7. CASE RxResponse /\ Accepts(Head(hand)) /\ n = cur
    BY <1>1, <2>7 DEF InitResponse, n
  <2> QED  BY <1>0, <2>2, <2>4, <2>5, <2>6, <2>7, NodeMoves
<1>3. CASE pc'["mgr"] \in Ends /\ out'["mgr"] = "0"
  <2>1. CASE pc'["mgr"] = pc["mgr"] /\ out'["mgr"] = out["mgr"]
    BY <1>1, <1>3, <2>1 DEF InitAnswered
  <2>2. CASE Finish("mgr")
    <3>1. out'["mgr"] = IF Won("mgr") THEN nd[own["mgr"]].result
                                      ELSE "timedout"
      BY <1>0, <2>2 DEF Finish
    <3>2. nd[own["mgr"]].done /\ nd[own["mgr"]].result = "0"
      BY <1>3, <3>1 DEF Won
    <3>3. own["mgr"] \in Nodes /\ own["mgr"] # NoNode
      BY <1>0, <2>2, HeldNode DEF Finish, HoldLabels, QueueInv
    <3>4. nd[own["mgr"]].resp # 0  BY <3>2, <3>3 DEF AnswerInv, Numbered
    <3> QED  BY <1>1, <3>3, <3>4 DEF InitAnswered
  <2>3. CASE Decode("mgr")
    <3>1. pc["mgr"] = "decode"  BY <2>3 DEF Decode
    <3>2. out["mgr"] = "0"  BY <1>0, <1>3, <2>3 DEF Decode
    <3> QED  BY <1>1, <3>1, <3>2 DEF InitAnswered
  <2>4. CASE Recycle("mgr") \/ Kick("mgr") \/ KickQueue("mgr")
    <3>1. pc["mgr"] \in Ends /\ out["mgr"] = "0"
      BY <1>3, <2>4 DEF Recycle, Kick, KickQueue
    <3> QED  BY <1>1, <3>1 DEF InitAnswered
  <2>5. ASSUME AssignSeq("mgr") \/ Timeout("mgr") \/ Quarantine("mgr")
        PROVE FALSE
    BY <1>0, <1>3, <2>5 DEF AssignSeq, Timeout, Quarantine
  <2>6. ASSUME QueueNode("mgr") PROVE FALSE
    BY <1>0, <1>3, <2>6 DEF QueueNode
  <2>7. ASSUME NEW t \in Callers, t # "mgr", CallStep(t)
        PROVE  pc'["mgr"] = pc["mgr"] /\ out'["mgr"] = out["mgr"]
    BY ZenonT(60), <1>0, <2>7 DEF CallStep, AssignSeq, QueueNode, Timeout,
       Quarantine, Finish, Decode, Recycle, Kick, KickQueue
  <2>8. ASSUME NEW t \in Users, UserCall(t)
        PROVE  pc'["mgr"] = pc["mgr"] /\ out'["mgr"] = out["mgr"]
    <3>1. t # "mgr"  BY UsersAssumption
    <3> QED  BY <1>0, <2>8, <3>1 DEF UserCall, Prepare
  <2>9. CASE CmdWork \/ Transport
    BY <2>1, <2>9 DEF CmdWork, Transport, SpiSend, SpiLose, FwAnswer, FwMute,
       FwRestart, RxTake, RxGate, RxResponse
  <2>10. CASE (Manager /\ ~MgrCall) \/ ExitBegin
    BY <2>1, <2>10 DEF Manager, ExitBegin, MgrBoot, MgrQuiesce, MgrRxIdle,
       MgrAbort, MgrClear, MgrDestroy, MgrNull, MgrDrain, MgrRecon, MgrSetup,
       MgrInitDone, MgrCommit, MgrPublish, MgrFail, MgrExit, MgrFence
  <2>11. CASE UNCHANGED vars  BY <2>1, <2>11
  <2>12. CASE CallStep("mgr")
    BY <2>2, <2>3, <2>4, <2>5, <2>6, <2>12 DEF CallStep
  <2> QED  BY <1>1, <2>1, <2>7, <2>8, <2>9, <2>10, <2>11, <2>12 DEF Next
<1> QED  BY <1>2, <1>3 DEF InitAnswered

\* A sent INIT_INTERFACE stays sent.
LEMMA InitAheadMoves ==
    ASSUME GateInv, AnswerInv, [Next]_vars, ~MgrSetup, InitAhead'
    PROVE  InitAhead
<1>0. QueueInv /\ "mgr" \in Callers
      /\ own \in [Callers -> Nodes \cup {NoNode}]
  BY DEF GateInv, QueueInv, NodeInv, NodeTypes, Callers
<1>1. CASE mpc = "init"  BY <1>1 DEF InitAhead
<1>2. CASE mpc # "init"
  <2> DEFINE n == own["mgr"]
  <2>1. /\ mpc = "initwait" /\ own'["mgr"] # NoNode
        /\ ~nd'[own'["mgr"]].sent
    BY <1>2, InitControl DEF InitAhead
  <2>2. ~MgrCall  BY <2>1 DEF MgrCall
  <2>3. own'["mgr"] = n /\ ~Recycle("mgr")  BY <2>1, <2>2, ManagerKeeps
  <2>4. n \in Nodes /\ n # NoNode /\ pc["mgr"] \in HoldLabels
    BY <1>0, <2>1, <2>3 DEF QueueInv, NodeInv, HoldsWhileInCall
  <2>5. \A t \in Callers : own[t] = n => t = "mgr"
    BY <1>0, <2>4, HeldNode DEF QueueInv
  <2>6. ~nd'[n].sent  BY <2>1, <2>3
  <2> HIDE DEF n
  <2>7. ASSUME Kept(nd'[n], nd[n]) PROVE ~nd[n].sent
    BY <2>6, <2>7 DEF Kept
  <2>8. ASSUME NEW t \in Callers, Recycle(t), n = own[t] PROVE FALSE
    BY <2>3, <2>5, <2>8
  <2>9. ASSUME NEW t \in Callers, AssignSeq(t), n = own[t]
        PROVE  ~nd[n].sent
    <3>1. nd[n] = Blank
      BY <1>0, <2>9, InCall DEF AssignSeq, HoldLabels, NodePhase, QueueInv
    <3> QED  BY <3>1 DEF Blank
  <2>10. ASSUME RxResponse, Accepts(Head(hand)), n = cur
         PROVE  ~nd[n].sent
    BY <1>0, <2>6, <2>10, ResponseNode
  <2>11. ~nd[n].sent
    BY <1>0, <2>4, <2>7, <2>8, <2>9, <2>10, <2>6, NodeMoves
  <2> QED  BY <2>1, <2>4, <2>11 DEF InitAhead, n
<1> QED  BY <1>1, <1>2

\* Nobody starts to rely on the handshake but through its response.
LEMMA RelyingMoves ==
    ASSUME GateInv, AnswerInv, [Next]_vars, ~MgrSetup, Base' = Base, Relying'
    PROVE  Relying \/ InitResponse
<1>1. CASE Open'  BY <1>1, OpenMoves DEF Relying
<1>2. CASE mpc' = "commit"
  BY <1>2, InitControl DEF Relying, InitAnswered
<1>3. CASE InitAnswered'  BY <1>3, InitAnsweredMoves DEF Relying
<1>4. CASE UserInside'  BY <1>4, UserInsideMoves DEF Relying
<1>5. CASE Base' = 0 /\ InitAhead'  BY <1>5, InitAheadMoves DEF Relying
<1> QED  BY <1>1, <1>2, <1>3, <1>4, <1>5 DEF Relying

\* The response to INIT_INTERFACE clears the pipe: in the first session it is
\* the only one, in the second everything behind it is the second's, or no
\* user's command of the first is under way.
LEMMA ResponseClears ==
    ASSUME GateInv, AnswerInv, InitResponse
    PROVE  Clear'
<1>0. QueueInv /\ WireTypes /\ RxResponse /\ Accepts(Head(hand))
  BY DEF GateInv, QueueInv, OtherTypes, InitResponse
<1>1. Base' = Base  BY <1>0 DEF RxResponse, Base
<1>2. IsInit(Pipe[1])
  <2>1. PICK t \in Callers : own[t] = cur /\ own[t] # NoNode
                             /\ nd[cur].code = want[t]
    BY <1>0, ResponseNode
  <2>2. t = "mgr"
    <3>1. "mgr" \in Callers /\ own["mgr"] = own[t]
      BY <2>1 DEF InitResponse, Callers
    <3>2. pc[t] \in HoldLabels
      BY <1>0, <2>1 DEF QueueInv, NodeInv, HoldsWhileInCall
    <3> QED  BY <1>0, <3>1, <3>2, HeldNode DEF QueueInv
  <2>3. want["mgr"] = "INIT_INTERFACE"
    BY <2>1, <2>2 DEF AnswerInv, InitIsManagers, InitResponse
  <2> QED  BY <1>0, <2>1, <2>2, <2>3, ResponseNode DEF IsInit
<1>3. ASSUME NEW i \in 1..Len(Pipe')
      PROVE  IF Base = 0 THEN ~IsInit(Pipe'[i])
                         ELSE ~(Old(Pipe'[i]) /\ Foreign(Pipe'[i]))
  <2>1. PICK k \in 1..Len(Pipe) : 1 < k /\ Pipe'[i] = Pipe[k]
    BY <1>0, PipeHead
  <2>2. 1 \in 1..Len(Pipe)  BY <1>0, PipeHead
  <2>3. /\ Old(Pipe[k]) => Old(Pipe[1])
        /\ ~(Base = 0 /\ IsInit(Pipe[1]) /\ IsInit(Pipe[k]))
    BY <2>1, <2>2 DEF AnswerInv, Ordered
  <2>4. ~(/\ Old(Pipe[1]) /\ IsInit(Pipe[1])
          /\ Old(Pipe[k]) /\ Foreign(Pipe[k]))
    BY <2>2 DEF AnswerInv, InitAlone
  <2> QED  BY <1>2, <2>1, <2>3, <2>4
<1> QED  BY <1>1, <1>3 DEF Clear, Old, IsInit, Foreign

\* Whoever relies on the handshake may: a clear pipe stays clear.
LEMMA HandshakeNext ==
    ASSUME GateInv, AnswerInv, [Next]_vars, ~MgrSetup, Base' = Base
    PROVE  Handshake'
<1>0. WireTypes /\ WireTypes'
  BY QueueInvNext DEF GateInv, QueueInv, OtherTypes
<1>a. CASE Thinned(Pipe', Pipe)
  <2>1. \A i \in 1..Len(Pipe') : \E k \in 1..Len(Pipe) : Pipe'[i] = Pipe[k]
    BY <1>a DEF Thinned
  <2>2. Clear => Clear'
    BY <2>1 DEF Clear, Old, IsInit, Foreign
  <2>3. Relying' => Clear'
    BY <2>2, RelyingMoves, ResponseClears DEF AnswerInv, Handshake
  <2>4. Base' = 0 /\ mpc' \in {"init", "initwait"}
          => \A i \in 1..Len(Pipe') : ~Foreign(Pipe'[i])
    BY <2>1, InitControl DEF AnswerInv, Handshake
  <2> QED  BY <2>3, <2>4 DEF Handshake, Foreign
<1>b. CASE ~Thinned(Pipe', Pipe)
  <2>1. PICK m \in Message :
          /\ Pipe' = Append(Pipe, m) /\ m.id = m.seq + Base
          /\ IsInit(m) => mpc = "initwait" /\ InitAhead /\ ~Relying'
          /\ Foreign(m) => UserInside
    BY <1>b, PipeMoves
  <2>2. \A i \in 1..Len(Pipe') :
          Pipe'[i] = m \/ (i \in 1..Len(Pipe) /\ Pipe'[i] = Pipe[i])
    <3>1. /\ \A i \in 1..Len(Pipe) : Pipe'[i] = Pipe[i]
          /\ Pipe'[Len(Pipe) + 1] = m
          /\ \A i \in 1..Len(Pipe') : i \in 1..Len(Pipe) \/ i = Len(Pipe) + 1
      BY <1>0, <2>1, PipeGrows
    <3> QED  BY <3>1
  <2>3. Old(m) => Base = 0
    <3>1. m.id \in Nat /\ m.seq \in Nat
      BY <2>1, SeqSpaceAssumption DEF Message
    <3>2. Base \in Int
      BY SeqSpaceAssumption
         DEF Base, GateInv, QueueInv, OtherTypes, CountTypes
    <3> QED  BY <2>1, <3>1, <3>2 DEF Old
  <2>4. CmdWork  BY <1>b, PipeLoses DEF GateInv
  <2>5. ~RxResponse
    <3>1. RxResponse => UNCHANGED txq  BY DEF RxResponse
    <3>2. txq' # txq  BY <1>b, PipeLoses DEF GateInv
    <3> QED  BY <3>1, <3>2
  <2>6. Relying' => Clear'
    <3> SUFFICES ASSUME Relying' PROVE Clear'  OBVIOUS
    <3>1. ~IsInit(m) /\ Clear
      BY <2>1, <2>5, RelyingMoves DEF AnswerInv, Handshake, InitResponse
    <3>2. \A i \in 1..Len(Pipe') :
            IF Base = 0 THEN ~IsInit(Pipe'[i])
                        ELSE ~(Old(Pipe'[i]) /\ Foreign(Pipe'[i]))
      BY <2>2, <2>3, <3>1 DEF Clear
    <3> QED  BY <3>2 DEF Clear, Old, IsInit, Foreign
  <2>7. Base' = 0 /\ mpc' \in {"init", "initwait"}
          => \A i \in 1..Len(Pipe') : ~Foreign(Pipe'[i])
    <3> SUFFICES ASSUME Base = 0, mpc' \in {"init", "initwait"}
                 PROVE  \A i \in 1..Len(Pipe') : ~Foreign(Pipe'[i])
      OBVIOUS
    <3>1. mpc \in {"init", "initwait"}  BY InitControl
    <3>2. ~UserInside  BY <3>1 DEF GateInv, RebuildQuiet, UserInside
    <3>3. \A i \in 1..Len(Pipe) : ~Foreign(Pipe[i])
      BY <3>1 DEF AnswerInv, Handshake
    <3> QED  BY <2>1, <2>2, <3>2, <3>3
  <2> QED  BY <2>6, <2>7 DEF Handshake, Foreign
<1> QED  BY <1>a, <1>b

\* A response handed to a user's command is its own.
LEMMA MatchesNext ==
    ASSUME GateInv, AnswerInv, [Next]_vars
    PROVE  ResponseMatches'
<1>0. QueueInv /\ WireTypes  BY DEF GateInv, QueueInv, OtherTypes
<1> SUFFICES ASSUME NEW n \in Nodes, nd'[n].resp # 0
             PROVE  nd'[n].resp = nd'[n].id \/ nd'[n].code \in Rebuilding
  BY DEF ResponseMatches
<1>1. CASE Kept(nd'[n], nd[n])
  BY <1>1 DEF Kept, AnswerInv, ResponseMatches
<1>2. CASE nd'[n] = Blank  BY <1>2 DEF Blank
<1>3. ASSUME NEW t \in Callers, AssignSeq(t), n = own[t] PROVE FALSE
  <2>1. nd'[n] = [Blank EXCEPT !.code = want[t], !.seq = nextSeq',
                               !.id = drawn']
    BY <1>0, <1>3 DEF AssignSeq, QueueInv, MailInv, MailTypes
  <2> QED  BY <2>1 DEF Blank
<1>4. ASSUME RxResponse, Accepts(Head(hand)), n = cur,
             nd'[n].code \notin Rebuilding
      PROVE  nd'[n].resp = nd'[n].id
  <2>1. /\ nd'[n].code = nd[n].code /\ nd'[n].id = nd[n].id
        /\ nd'[n].resp = Pipe[1].id /\ nd[n].code = Pipe[1].code
        /\ nd[n].seq = Pipe[1].seq
    BY <1>0, <1>4, ResponseNode
  <2>2. PICK t \in Callers : /\ own[t] # NoNode /\ nd[n].code = want[t]
                             /\ nd[n].seq # 0
    BY <1>0, <1>4, ResponseNode
  <2>3. Clear
    <3>1. UserInside  BY <1>4, <2>1, <2>2 DEF UserInside
    <3> QED  BY <3>1 DEF Relying, AnswerInv, Handshake
  <2>4. nd[n].id = nd[n].seq + Base
    BY <2>2 DEF AnswerInv, Numbered
  <2>5. 1 \in 1..Len(Pipe)  BY <1>0, <1>4, PipeHead
  <2>6. Old(Pipe[1]) \/ Pipe[1].id = Pipe[1].seq + Base
    BY <2>5 DEF AnswerInv, Numbered
  <2>7. Old(Pipe[1]) => Base = 0
    BY <1>4, <2>1, <2>3, <2>5 DEF Clear, Foreign
  <2>8. Pipe[1].seq \in Nat  BY <1>0, <2>5, PipeType
  <2> QED  BY <2>1, <2>4, <2>6, <2>7, <2>8 DEF Old
<1> QED  BY <1>0, <1>1, <1>2, <1>3, <1>4, NodeMoves

\* esp_commands_setup finds no caller inside and opens the second session, or
\* the first one while nothing is under way; or it refuses.
LEMMA SetupAnswers ==
    ASSUME GateInv, AnswerInv, MgrSetup
    PROVE  Ordered' /\ InitAlone' /\ Handshake'
<1>0. /\ NodesConserved /\ WireTypes /\ drawn \in Nat /\ nextSeq \in Nat
  BY SeqSpaceAssumption
     DEF GateInv, QueueInv, NodeInv, OtherTypes, CountTypes
<1>1. /\ mpc = "setup" /\ Pipe' = Pipe /\ own' = own /\ want' = want
      /\ drawn' = drawn
  BY DEF MgrSetup, Pipe
<1>2. Base = 0  BY <1>1 DEF AnswerInv, TwoSessions
<1>3. \A i \in 1..Len(Pipe) : drawn # 0
  <2> SUFFICES ASSUME NEW i \in 1..Len(Pipe) PROVE drawn # 0  OBVIOUS
  <2>1. /\ Pipe[i].id <= drawn
        /\ Pipe[i].id = Pipe[i].seq \/ Pipe[i].id = Pipe[i].seq + Base
    BY DEF AnswerInv, Numbered, Old
  <2>2. Pipe[i].seq \in Nat /\ Pipe[i].seq # 0  BY <1>0, PipeType
  <2> QED  BY <1>0, <1>2, <2>1, <2>2
<1>4. Ordered'
  BY <1>1, <1>2 DEF AnswerInv, Ordered, Old, IsInit
<1>5. InitAlone'
  BY <1>1 DEF AnswerInv, InitAlone, Old, IsInit, Foreign
<1>6. CASE mpc' = "fail"
  <2>1. flags' = flags /\ nextSeq' = nextSeq  BY <1>6 DEF MgrSetup
  <2>2. Base' = Base  BY <1>1, <2>1 DEF Base
  <2>3. Relying' => Relying
    BY <1>1, <1>6, <2>1, <2>2
       DEF Relying, Open, InitAnswered, UserInside, InitAhead
  <2>4. Clear => Clear'
    BY <1>1, <2>2 DEF Clear, Old, IsInit, Foreign
  <2>5. Relying' => Clear'  BY <2>3, <2>4 DEF AnswerInv, Handshake
  <2>6. ~(mpc' \in {"init", "initwait"})  BY <1>6
  <2>7. Handshake'  BY <2>5, <2>6 DEF Handshake
  <2> QED  BY <1>4, <1>5, <2>7
<1>7. CASE mpc' = "init"
  <2>1. /\ flags' = flags \cup {"CMD_INIT_DONE"} /\ nextSeq' = 0
        /\ ~pool \/ inUse = 0
    BY <1>7 DEF MgrSetup
  <2>2. ~Open'  BY <1>1, <2>1 DEF GateInv, RebuildQuiet, Open
  <2>3. Holding = {}
    <3>1. CASE ~pool  BY <1>0, <3>1 DEF NodesConserved
    <3>2. CASE inUse = 0
      <4>1. IsFiniteSet(Holding)
        BY HoldingFinite
      <4> QED  BY <1>0, <3>2, <4>1, FS_EmptySet DEF NodesConserved
    <3> QED  BY <2>1, <3>1, <3>2
  <2>4. ~UserInside'  BY <1>1, <2>3 DEF UserInside, Holding
  <2>5. Base' = drawn  BY <1>0, <1>1, <2>1 DEF Base
  <2>6. Relying' => drawn = 0
    BY <1>7, <2>2, <2>4, <2>5 DEF Relying, InitAnswered
  <2>7. drawn = 0 => Clear' /\ \A i \in 1..Len(Pipe') : FALSE
    BY <1>1, <1>3 DEF Clear
  <2>8. Relying' => Clear'  BY <2>6, <2>7
  <2>9. Base' = 0 => \A i \in 1..Len(Pipe') : ~Foreign(Pipe'[i])
    BY <2>5, <2>7
  <2>10. Handshake'  BY <2>8, <2>9 DEF Handshake, Foreign
  <2> QED  BY <1>4, <1>5, <2>10
<1>8. mpc' \in {"fail", "init"}  BY DEF MgrSetup
<1> QED  BY <1>4, <1>5, <1>6, <1>7, <1>8

\* The driver starts with no command numbered and nothing under way.
LEMMA AnswerInvInit == Init => AnswerInv
<1> SUFFICES ASSUME Init PROVE AnswerInv  OBVIOUS
<1>1. Pipe = <<>> /\ Len(Pipe) = 0  BY DEF Init, Pipe
<1>2. Base = 0  BY DEF Init, Base
<1>3. \A i \in 1..Len(Pipe) : FALSE  BY <1>1
<1>4. \A n \in Nodes : nd[n] = Blank  BY DEF Init
<1>5. Numbered  BY <1>3, <1>4 DEF Numbered, Init, Blank
<1>6. TwoSessions  BY <1>2 DEF TwoSessions, Init, Teardown
<1>7. Ordered /\ InitAlone  BY <1>3 DEF Ordered, InitAlone
<1>8. InitIsManagers
  BY UsersAssumption DEF InitIsManagers, Init, Callers
<1>9. Clear  BY <1>3 DEF Clear
<1>10. Handshake  BY <1>3, <1>9 DEF Handshake
<1>11. ResponseMatches  BY <1>4 DEF ResponseMatches, Blank
<1> QED  BY <1>5, <1>6, <1>7, <1>8, <1>10, <1>11 DEF AnswerInv

\* AnswerInv is kept while the firmware restarts once at most and the
\* sequence numbers do not wrap.
LEMMA AnswerInvNext ==
    ASSUME GateInv, AnswerInv, [Next]_vars, boots' <= 1, drawn' < SeqSpace,
           "INIT_INTERFACE" \notin UserCodes
    PROVE  AnswerInv'
<1>1. Numbered' /\ TwoSessions' /\ InitIsManagers' /\ ResponseMatches'
  BY NumberedNext, TwoSessionsNext, ManagersNext, MatchesNext
<1>2. CASE MgrSetup  BY <1>1, <1>2, SetupAnswers DEF AnswerInv
<1>3. CASE ~MgrSetup
  <2>1. Base' = Base
    BY <1>3, BaseMoves DEF GateInv, AnswerInv, Numbered
  <2> QED  BY <1>1, <1>3, <2>1, OrderNext, HandshakeNext DEF AnswerInv
<1> QED  BY <1>2, <1>3

\* Neither counter of the model runs backwards.
LEMMA CountersGrow ==
    ASSUME QueueInv, [Next]_vars
    PROVE  boots <= boots' /\ drawn <= drawn'
<1>0. boots \in Nat /\ drawn \in Nat
  BY CallBounds DEF QueueInv, OtherTypes, CountTypes
<1>1. CASE UNCHANGED <<boots, drawn>>  BY <1>0, <1>1
<1>2. ASSUME NEW t \in Callers, CallStep(t)
      PROVE  boots' = boots /\ drawn' \in {drawn, drawn + 1}
  BY <1>2 DEF CallStep, AssignSeq, QueueNode, Timeout, Quarantine, Finish,
     Decode, Recycle, Kick, KickQueue
<1>3. CASE FwRestart  BY <1>0, <1>3 DEF FwRestart
<1>4. CASE CmdWork \/ (Transport /\ ~FwRestart)
  BY <1>1, <1>4 DEF CmdWork, Transport, SpiSend, SpiLose, FwAnswer, FwMute,
     RxTake, RxGate, RxResponse
<1>5. CASE Manager \/ ExitBegin
  BY <1>1, <1>5 DEF Manager, ExitBegin, MgrBoot, MgrQuiesce, MgrRxIdle,
     MgrAbort, MgrClear, MgrDestroy, MgrNull, MgrDrain, MgrRecon, MgrSetup,
     MgrCall, Prepare, MgrInitDone, MgrCommit, MgrPublish, MgrFail, MgrExit,
     MgrFence
<1>6. CASE \E t \in Users : UserCall(t)
  BY <1>1, <1>6 DEF UserCall, Prepare
<1>7. CASE UNCHANGED vars  BY <1>1, <1>7
<1> QED  BY <1>0, <1>2, <1>3, <1>4, <1>5, <1>6, <1>7 DEF Next

\* No response is handed to a command it does not answer
\* (process_cmd_resp and its match on command code and sequence number),
\* whatever times out, is lost or is answered late, for every number of
\* callers and nodes: as long as the firmware has restarted once at most,
\* INIT_INTERFACE is the manager's and the sequence numbers have not wrapped.
\* The INIT_INTERFACE handshake of esp_add_card is what separates the
\* sessions, whose numbers restart with each setup.
THEOREM ResponsesMatch ==
    ASSUME "INIT_INTERFACE" \notin UserCodes
    PROVE  Spec => [](boots <= 1 /\ drawn < SeqSpace => ResponseMatches)
<1> DEFINE Inv == boots <= 1 /\ drawn < SeqSpace => AnswerInv
<1>1. Init => Inv  BY AnswerInvInit
<1>2. QueueInv /\ MailboxOpen /\ RebuildQuiet /\ Inv /\ [Next]_vars => Inv'
  <2> SUFFICES ASSUME GateInv, Inv, [Next]_vars, boots' <= 1,
                      drawn' < SeqSpace
               PROVE  AnswerInv'
    BY DEF GateInv
  <2>1. /\ boots <= boots' /\ drawn <= drawn'
        /\ boots \in Nat /\ boots' \in Nat /\ drawn \in Nat /\ drawn' \in Nat
    BY CountersGrow, QueueInvNext, CallBounds
       DEF GateInv, QueueInv, OtherTypes, CountTypes
  <2>2. boots <= 1 /\ drawn < SeqSpace  BY <2>1, SeqSpaceAssumption
  <2> QED  BY <2>2, AnswerInvNext
<1>3. Inv => (boots <= 1 /\ drawn < SeqSpace => ResponseMatches)
  BY DEF AnswerInv
<1> QED  BY <1>1, <1>2, <1>3, GatesAlways, PTL DEF Spec

=============================================================================
