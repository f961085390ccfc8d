----------------------------- MODULE CmdMailbox -----------------------------
(***************************************************************************)
(* The command mailbox of the host driver (host/esp_cmd.c): a pool of      *)
(* command nodes, a pending queue, one current command, and callers that   *)
(* block until their node completes. It is shared by                       *)
(*   Users   cfg80211, worker and ioctl contexts issuing commands          *)
(*   "mgr"   the context that tears the mailbox down and sets it up again: *)
(*           process_event_esp_bootup, and esp_exit on the way out. It     *)
(*           issues commands of its own meanwhile.                         *)
(* plus cmd_work, the SPI transport and the firmware. One action is one    *)
(* section under cmd_lock, or one unlocked step between two of them.       *)
(***************************************************************************)
EXTENDS Naturals, Sequences, FiniteSets, SequencesExt

CONSTANTS
    Users,       \* contexts that issue commands
    Nodes,       \* the command nodes, ESP_NUM_OF_CMD_NODES of them
    NoNode,      \* a null pointer to a node
    UserCodes,   \* the command codes Users issue
    SeqSpace,      \* 2^16: cmd_seq and next_cmd_seq are u16
    Unload,      \* the module may be removed
    MaxCalls,    \* bound: calls of Users
    MaxBoots,    \* bound: firmware restarts
    MaxFaults,   \* bound: environment faults
    FaultKinds   \* which faults the environment may inject

ASSUME UsersAssumption == "mgr" \notin Users /\ IsFiniteSet(Users)
ASSUME NodesAssumption == NoNode \notin Nodes /\ IsFiniteSet(Nodes)
ASSUME SeqSpaceAssumption == SeqSpace \in Nat /\ SeqSpace > 2
ASSUME CallBounds == MaxCalls \in Nat /\ MaxBoots \in Nat /\ MaxFaults \in Nat

Callers == Users \cup {"mgr"}

VARIABLES
    flags,    \* adapter->state_flags, the bits that are set
    path,     \* SPI data_path is open
    ready,    \* adapter->state is ESP_CONTEXT_READY
    pool,     \* cmd_pool is allocated
    free,     \* cmd_free_queue (its nodes are interchangeable)
    pend,     \* cmd_pending_queue
    cur,      \* cur_cmd
    nd,       \* the fields of each node
    inUse,    \* cmd_nodes_in_use
    nextSeq,  \* next_cmd_seq
    wq,       \* cmd_wq: live, destroyed but not yet NULL, or NULL
    workQ,    \* cmd_work is pending
    pc,       \* control of each caller
    own,      \* the node a caller holds
    want,     \* the code it asked for
    out,      \* what wait_and_decode_cmd_resp returns, until it has
    mpc, mret, \* control of the manager, where its teardown returns to
    stale,    \* fw_recovery_gen moved during the reconstruction
    txq,      \* commands in the SPI tx_q
    fwq,      \* commands the firmware has received
    rxq,      \* responses in the SPI rx_q
    hand,     \* the response if_rx_work has dequeued
    passed,   \* ... and found admitted
    boot,     \* a boot event waits in events_skb_q
    calls, drawn, boots, faults  \* counters of the bounds and identities

callerVars == <<pc, own, want, out>>
mgrVars == <<mpc, mret, stale>>
queueVars == <<free, pend, cur, nd, inUse>>
poolVars == <<pool, nextSeq>>
workVars == <<wq, workQ>>
linkVars == <<path, ready>>
wireVars == <<txq, fwq, rxq, hand, passed, boot>>
counters == <<calls, drawn, boots, faults>>
vars == <<flags, linkVars, poolVars, queueVars, workVars, callerVars,
          mgrVars, wireVars, counters>>

-----------------------------------------------------------------------------
(* Helpers *)

Flags == {"CMD_INIT_DONE", "DRIVER_ACTIVE", "INIT_DONE", "CLEANUP",
          "RECONSTRUCT", "RESET_EXPECTED", "UNLOADING", "REMOVING",
          "ALLOW_DEINIT"}

\* esp_cmd_timeout_is_commit_ambiguous
Ambiguous ==
    {"INIT_INTERFACE", "DEINIT_INTERFACE", "SET_MAC", "SCAN_REQUEST",
     "STA_CONNECT", "DISCONNECT", "ADD_KEY", "DEL_KEY", "SET_DEFAULT_KEY",
     "STA_AUTH", "STA_ASSOC", "STA_SET_AUTHORIZED", "SET_IP_ADDR",
     "SET_MCAST_MAC_ADDR", "SET_TXPOWER", "SET_REG_DOMAIN",
     "RAW_TP_ESP_TO_HOST", "RAW_TP_HOST_TO_ESP", "RAW_TP_BIDIRECTIONAL",
     "SET_WOW_CONFIG", "SET_MODE", "SET_IE", "AP_CONFIG", "MGMT_TX",
     "AP_STATION", "SET_TIME", "START_OTA_UPDATE", "START_OTA_WRITE",
     "START_OTA_END", "SET_RADIO_SERVICE", "MONITOR_CONFIG"}

\* The commands a reconstruction may issue.
Rebuilding ==
    {"INIT_INTERFACE", "GET_MAC", "DEINIT_INTERFACE", "START_OTA_UPDATE",
     "START_OTA_WRITE", "START_OTA_END", "RAW_TP_ESP_TO_HOST",
     "RAW_TP_HOST_TO_ESP", "RAW_TP_BIDIRECTIONAL"}

\* The two commands queued with ESP_CMD_HIGH_PRIO
HighPrio == {"SET_RADIO_SERVICE", "GET_RADIO_SERVICE"}

\* esp_cmd_is_admitted
Admitted(c) ==
    CASE "UNLOADING" \in flags ->
            c = "DEINIT_INTERFACE" /\ "ALLOW_DEINIT" \in flags
      [] "UNLOADING" \notin flags /\ "RECONSTRUCT" \in flags ->
            c \in Rebuilding
      [] {"UNLOADING", "RECONSTRUCT"} \cap flags = {}
         /\ "CLEANUP" \in flags ->
            c = "DEINIT_INTERFACE" /\ "ALLOW_DEINIT" \in flags
      [] OTHER -> TRUE

\* What esp_send_packet and write_packet ask of the flags
FlagsAllowTx ==
    /\ "REMOVING" \notin flags
    /\ "CLEANUP" \in flags => {"ALLOW_DEINIT", "RECONSTRUCT"} \cap flags # {}

\* The submit gate of esp_cmd_work
WorkGate ==
    /\ {"DRIVER_ACTIVE", "CMD_INIT_DONE"} \subseteq flags
    /\ "UNLOADING" \in flags => "ALLOW_DEINIT" \in flags
    /\ FlagsAllowTx

Blank == [code |-> "none", seq |-> 0, id |-> 0, done |-> FALSE,
          result |-> "0", sent |-> FALSE, resp |-> 0]

Completed(n, result) == [nd[n] EXCEPT !.done = TRUE, !.result = result]

\* A message answers, or carries, the current command.
Matches(m) == cur # NoNode /\ nd[cur].code = m.code /\ nd[cur].seq = m.seq

\* An environment fault of kind k, counted against the bound.
Fault(k) == k \in FaultKinds /\ faults < MaxFaults /\ faults' = faults + 1

Goto(t, l) == pc' = [pc EXCEPT ![t] = l]

\* esp_schedule_fw_reset_recovery: the incarnation is quarantined.
QuarantineNow ==
    IF {"UNLOADING", "REMOVING"} \cap flags # {}
    THEN UNCHANGED <<flags, ready, stale>>
    ELSE /\ flags' = flags \cup {"RESET_EXPECTED"}
         /\ ready' = (ready /\ "RECONSTRUCT" \in flags)
         /\ stale' = (stale \/ "RECONSTRUCT" \in flags)

-----------------------------------------------------------------------------
(* A caller: prepare, queue, wait, decode, recycle *)

\* prepare_command_request_for_if up to and with get_free_cmd_node: the
\* gates, first unlocked and then under cmd_lock, a node, its skb
Prepare(t, c) ==
    /\ pc[t] = "idle"
    /\ IF "CMD_INIT_DONE" \in flags /\ Admitted(c) /\ free # {}
       THEN /\ \E n \in free : /\ free' = free \ {n}
                               /\ own' = [own EXCEPT ![t] = n]
            /\ inUse' = inUse + 1
            /\ want' = [want EXCEPT ![t] = c]
            /\ \/ Goto(t, "seq") /\ UNCHANGED <<out, faults>>
               \/ /\ Fault("alloc")
                  /\ Goto(t, "drop")
                  /\ out' = [out EXCEPT ![t] = "nomem"]
       ELSE /\ out' = [out EXCEPT !["mgr"] = IF t = "mgr" THEN "busy" ELSE @]
            /\ UNCHANGED <<pc, free, inUse, own, want, faults>>
    /\ UNCHANGED <<flags, linkVars, poolVars, pend, cur, nd, workVars, stale,
                   wireVars, drawn, boots>>

UserCall(t) ==
    /\ calls < MaxCalls
    /\ calls' = calls + 1
    /\ \E c \in UserCodes : Prepare(t, c)
    /\ UNCHANGED <<mpc, mret>>

\* Mutant: the counter wraps to 0.
NextSeqZero(s) == (s + 1) % SeqSpace

\* next_cmd_seq, which skips 0 when it wraps
NextSeq(s) == IF (s + 1) % SeqSpace = 0 THEN 1 ELSE (s + 1) % SeqSpace

\* The rest of prepare_command_request_for_if
AssignSeq(t) ==
    /\ pc[t] = "seq"
    /\ nextSeq' = NextSeq(nextSeq)
    /\ drawn' = drawn + 1
    /\ nd' = [nd EXCEPT ![own[t]] =
                  [Blank EXCEPT !.code = want[t], !.seq = nextSeq',
                                !.id = drawn']]
    /\ Goto(t, "queue")
    /\ UNCHANGED <<flags, linkVars, pool, free, pend, cur, inUse, workVars,
                   own, want, out, mgrVars, wireVars, calls, boots,
                   faults>>

\* queue_cmd_node. Its callers go on to wait for a node that was refused,
\* except cmd_monitor_config, which recycles it.
QueueNode(t) ==
    /\ pc[t] = "queue"
    /\ LET n == own[t] IN
       IF Admitted(want[t])
       THEN /\ pend' = IF want[t] \in HighPrio THEN <<n>> \o pend
                                               ELSE Append(pend, n)
            /\ workQ' = (workQ \/ wq # "null")
            /\ Goto(t, "wait")
            /\ UNCHANGED <<nd, out>>
       ELSE /\ nd' = [nd EXCEPT ![n] = Completed(n, "shutdown")]
            /\ IF want[t] = "MONITOR_CONFIG"
               THEN Goto(t, "drop") /\ out' = [out EXCEPT ![t] = "shutdown"]
               ELSE Goto(t, "wait") /\ UNCHANGED out
            /\ UNCHANGED <<pend, workQ>>
    /\ UNCHANGED <<flags, linkVars, poolVars, free, cur, inUse, wq, own,
                   want, mgrVars, wireVars, counters>>

\* Mutant: a teardown in progress is trusted to take the firmware down.
MustQuarantineUnlessCleanup(n) ==
    /\ nd[n].sent /\ nd[n].code \in Ambiguous
    /\ {"UNLOADING", "REMOVING", "RECONSTRUCT", "RESET_EXPECTED", "CLEANUP"}
           \cap flags = {}

\* A submitted command whose effect is unknown must take the firmware down,
\* unless somebody already answers for the incarnation.
MustQuarantine(n) ==
    /\ nd[n].sent /\ nd[n].code \in Ambiguous
    /\ {"UNLOADING", "REMOVING", "RECONSTRUCT", "RESET_EXPECTED"}
           \cap flags = {}

\* Mutant: only a command still in the queue times out.
TimeoutIfPending(t) ==
    /\ pc[t] = "wait" /\ Contains(pend, own[t])
    /\ pend' = RemoveFirst(pend, own[t])
    /\ nd' = [nd EXCEPT ![own[t]] = Completed(own[t], "timedout")]
    /\ Goto(t, "finish")
    /\ UNCHANGED <<flags, linkVars, poolVars, free, cur, inUse, workVars,
                   own, want, out, mgrVars, wireVars, counters>>

\* esp_cmd_wait_event_guard after the time is up, under cmd_lock
Timeout(t) ==
    /\ pc[t] = "wait" /\ ~nd[own[t]].done
    /\ LET n == own[t] IN
       /\ pend' = RemoveFirst(pend, n)
       /\ nd' = IF Contains(pend, n)
                THEN [nd EXCEPT ![n] = Completed(n, "timedout")] ELSE nd
       /\ Goto(t, IF MustQuarantine(n) THEN "quarantine" ELSE "finish")
    /\ UNCHANGED <<flags, linkVars, poolVars, free, cur, inUse, workVars,
                   own, want, out, mgrVars, wireVars, counters>>

\* esp_cmd_wait_event_guard after the unlock
Quarantine(t) ==
    /\ pc[t] = "quarantine"
    /\ QuarantineNow
    /\ Goto(t, "finish")
    /\ UNCHANGED <<path, poolVars, queueVars, workVars, own, want, out,
                   mpc, mret, wireVars, counters>>

\* Mutant: completion is not checked again under the lock.
WonUnchecked(t) == pc[t] = "wait"

\* A response may have won the race after the wait gave up.
Won(t) == nd[own[t]].done

\* wait_and_decode_cmd_resp, its section under cmd_lock, after the wait has
\* ended because the node completed or time was up
Finish(t) ==
    /\ pc[t] = "finish" \/ (pc[t] = "wait" /\ nd[own[t]].done)
    /\ LET n == own[t] IN
       /\ cur' = IF cur = n THEN NoNode ELSE cur
       /\ IF Won(t)
          THEN /\ out' = [out EXCEPT ![t] = nd[n].result]
               /\ UNCHANGED <<nd, pend>>
          ELSE /\ out' = [out EXCEPT ![t] = "timedout"]
               /\ nd' = [nd EXCEPT ![n] = Completed(n, "timedout")]
               /\ pend' = RemoveFirst(pend, n)
    /\ Goto(t, "decode")
    /\ UNCHANGED <<flags, linkVars, poolVars, free, inUse, workVars, own,
                   want, mgrVars, wireVars, counters>>

\* The second quarantine test, the shutdown override and the decoding: the
\* firmware may have refused the command.
Decode(t) ==
    /\ pc[t] = "decode"
    /\ IF out[t] = "timedout" /\ MustQuarantine(own[t])
       THEN QuarantineNow ELSE UNCHANGED <<flags, ready, stale>>
    /\ \/ /\ out' = IF out[t] = "0" /\ "DRIVER_ACTIVE" \notin flags
                    THEN [out EXCEPT ![t] = "shutdown"] ELSE out
          /\ UNCHANGED faults
       \/ /\ out[t] = "0" /\ Fault("refused")
          /\ out' = [out EXCEPT ![t] = "refused"]
    /\ Goto(t, "recycle")
    /\ UNCHANGED <<path, poolVars, queueVars, workVars, own, want, mpc,
                   mret, wireVars, calls, drawn, boots>>

\* recycle_cmd_node, reset_cmd_node. A caller that never waited ("drop")
\* returns; the others may start the next command. What a user makes of its
\* result is not modelled; the manager acts on it.
Recycle(t) ==
    /\ pc[t] \in {"recycle", "drop"}
    /\ LET n == own[t] IN
       /\ nd' = [nd EXCEPT ![n] = Blank]
       /\ pend' = RemoveFirst(pend, n)
       /\ free' = free \cup {n}
    /\ inUse' = inUse - 1
    /\ own' = [own EXCEPT ![t] = NoNode]
    /\ want' = [want EXCEPT ![t] = "none"]
    /\ out' = IF t = "mgr" THEN out ELSE [out EXCEPT ![t] = "0"]
    /\ Goto(t, IF pc[t] = "recycle" THEN "kick" ELSE "idle")
    /\ UNCHANGED <<flags, linkVars, poolVars, cur, workVars, mgrVars,
                   wireVars, counters>>

\* Mutant: the next command is started only while one is current.
MayKickBusy == wq # "null" /\ "CMD_INIT_DONE" \in flags /\ cur # NoNode

\* The end of wait_and_decode_cmd_resp: the test ...
MayKick == wq # "null" /\ "CMD_INIT_DONE" \in flags

Kick(t) ==
    /\ pc[t] = "kick"
    /\ Goto(t, IF MayKick THEN "kickq" ELSE "idle")
    /\ UNCHANGED <<flags, linkVars, poolVars, queueVars, workVars, own, want,
                   out, mgrVars, wireVars, counters>>

\* ... and the use of cmd_wq, unlocked
KickQueue(t) ==
    /\ pc[t] = "kickq"
    /\ workQ' = (workQ \/ wq = "live")
    /\ Goto(t, "idle")
    /\ UNCHANGED <<flags, linkVars, poolVars, queueVars, wq, own, want,
                   out, mgrVars, wireVars, counters>>

-----------------------------------------------------------------------------
(* esp_cmd_work *)

\* Mutant: a command in flight does not hold the next one back.
CanSubmitOverlapping == WorkGate /\ pend # <<>>

\* One command is in flight at a time.
CanSubmit == WorkGate /\ cur = NoNode /\ pend # <<>>

CmdWork ==
    /\ workQ /\ wq = "live"
    /\ workQ' = FALSE
    /\ IF ~CanSubmit
       THEN UNCHANGED <<pend, cur, nd, txq>>
       ELSE LET n == Head(pend) IN
            /\ pend' = Tail(pend)
            /\ CASE ~Admitted(nd[n].code) ->
                      /\ nd' = [nd EXCEPT ![n] = Completed(n, "shutdown")]
                      /\ UNCHANGED <<cur, txq>>
                 [] Admitted(nd[n].code) /\ path /\ ready ->
                      /\ cur' = n
                      /\ nd' = [nd EXCEPT ![n].sent = TRUE]
                      /\ txq' = Append(txq, [code |-> nd[n].code,
                                             seq |-> nd[n].seq,
                                             id |-> nd[n].id])
                 [] OTHER ->
                      /\ cur' = n
                      /\ nd' = [nd EXCEPT ![n] = [Completed(n, "io")
                                                  EXCEPT !.sent = TRUE]]
                      /\ UNCHANGED txq
    /\ UNCHANGED <<flags, linkVars, poolVars, free, inUse, wq, callerVars,
                   mgrVars, fwq, rxq, hand, passed, boot, counters>>

-----------------------------------------------------------------------------
(* The SPI transport, if_rx_work and the firmware *)

\* esp_cmd_transport_failed for every message of S
TransportFailed(S) ==
    IF cur # NoNode /\ ~nd[cur].done /\ \E m \in S : Matches(m)
    THEN nd' = [nd EXCEPT ![cur] = Completed(cur, "io")]
    ELSE UNCHANGED nd

SpiSend ==
    /\ txq # <<>> /\ path /\ ready
    /\ fwq' = Append(fwq, Head(txq))
    /\ txq' = Tail(txq)
    /\ UNCHANGED <<flags, linkVars, poolVars, queueVars, workVars,
                   callerVars, mgrVars, rxq, hand, passed, boot, counters>>

\* spi_notify_tx_lost: the transfer failed, the slave may have seen it.
SpiLose ==
    /\ txq # <<>> /\ path /\ ready /\ Fault("tx")
    /\ QuarantineNow
    /\ TransportFailed({Head(txq)})
    /\ \/ fwq' = Append(fwq, Head(txq))
       \/ UNCHANGED fwq
    /\ txq' = Tail(txq)
    /\ UNCHANGED <<path, poolVars, free, pend, cur, inUse, workVars,
                   callerVars, mpc, mret, rxq, hand, passed, boot, calls,
                   drawn, boots>>

\* The firmware answers, late or not ...
FwAnswer ==
    /\ fwq # <<>> /\ path
    /\ rxq' = Append(rxq, Head(fwq))
    /\ fwq' = Tail(fwq)
    /\ UNCHANGED <<flags, linkVars, poolVars, queueVars, workVars,
                   callerVars, mgrVars, txq, hand, passed, boot, counters>>

\* ... or its answer is lost
FwMute ==
    /\ fwq # <<>> /\ Fault("mute")
    /\ fwq' = Tail(fwq)
    /\ UNCHANGED <<flags, linkVars, poolVars, queueVars, workVars,
                   callerVars, mgrVars, txq, rxq, hand, passed, boot, calls,
                   drawn, boots>>

\* A restart forgets what the firmware had received and announces itself.
FwRestart ==
    /\ boots < MaxBoots /\ ~boot
    /\ boots' = boots + 1
    /\ boot' = TRUE
    /\ fwq' = <<>>
    /\ UNCHANGED <<flags, linkVars, poolVars, queueVars, workVars,
                   callerVars, mgrVars, txq, rxq, hand, passed, calls, drawn,
                   faults>>

\* if_rx_work dequeues a response
RxTake ==
    /\ rxq # <<>> /\ path /\ hand = <<>>
    /\ hand' = <<Head(rxq)>>
    /\ rxq' = Tail(rxq)
    /\ UNCHANGED <<flags, linkVars, poolVars, queueVars, workVars,
                   callerVars, mgrVars, txq, fwq, passed, boot, counters>>

\* process_rx_packet and process_cmd_resp up to cmd_lock
RxGate ==
    /\ hand # <<>> /\ ~passed
    /\ LET admits == /\ ready /\ "CMD_INIT_DONE" \in flags
                     /\ "CLEANUP" \in flags => "RECONSTRUCT" \in flags
       IN /\ passed' = admits
          /\ hand' = IF admits THEN hand ELSE <<>>
    /\ UNCHANGED <<flags, linkVars, poolVars, queueVars, workVars,
                   callerVars, mgrVars, txq, fwq, rxq, boot, counters>>

\* Mutant: only the command code of a response is compared.
AcceptsByCode(m) == /\ cur # NoNode /\ nd[cur].code = m.code
                    /\ ~nd[cur].done

\* process_cmd_resp takes the response.
Accepts(m) == Matches(m) /\ ~nd[cur].done

\* process_cmd_resp, under cmd_lock
RxResponse ==
    /\ passed
    /\ passed' = FALSE /\ hand' = <<>>
    /\ nd' = IF Accepts(Head(hand))
             THEN [nd EXCEPT ![cur] = [Completed(cur, "0")
                                       EXCEPT !.resp = Head(hand).id]]
             ELSE nd
    /\ UNCHANGED <<flags, linkVars, poolVars, free, pend, cur, inUse,
                   workVars, callerVars, mgrVars, txq, fwq, rxq, boot,
                   counters>>

-----------------------------------------------------------------------------
(* The manager: firmware restart and module exit *)

MgrGoto(from, to) == mpc = from /\ mpc' = to

\* process_event_esp_bootup retires the old session.
MgrBoot ==
    /\ "UNLOADING" \notin flags
    /\ boot /\ MgrGoto("up", "quiesce")
    /\ boot' = FALSE
    /\ mret' = "recon"
    /\ flags' = (flags \ {"INIT_DONE"}) \cup {"CLEANUP"}
    /\ UNCHANGED <<linkVars, poolVars, queueVars, workVars, callerVars,
                   stale, txq, fwq, rxq, hand, passed, counters>>

\* esp_spi_quiesce_for_fw_reset, or the same steps of esp_spi_remove_common
MgrQuiesce ==
    /\ MgrGoto("quiesce", "rxidle")
    /\ path' = FALSE /\ ready' = FALSE
    /\ TransportFailed({txq[i] : i \in DOMAIN txq})
    /\ txq' = <<>> /\ rxq' = <<>>
    /\ UNCHANGED <<flags, poolVars, free, pend, cur, inUse, workVars,
                   callerVars, mret, stale, fwq, hand, passed, boot, counters>>

\* cancel_work_sync(&if_rx_work), and flush_workqueue in esp_remove_card
MgrRxIdle ==
    /\ hand = <<>>
    /\ MgrGoto("rxidle", "abort") \/ MgrGoto("flush", "clear")
    /\ UNCHANGED <<flags, linkVars, poolVars, queueVars, workVars,
                   callerVars, mret, stale, wireVars, counters>>

\* Mutant: commands still in the queue are forgotten.
AbortedCurrentOnly == {cur} \cap {n \in Nodes : ~nd[n].done}

\* The nodes esp_cmd_abort_waiters completes
Aborted == ({cur} \cap {n \in Nodes : ~nd[n].done}) \cup Range(pend)

\* esp_cmd_abort_waiters: from esp_remove_card, and again from
\* esp_commands_teardown
MgrAbort ==
    /\ \/ MgrGoto("abort", "flush")
       \/ MgrGoto("abort2", "destroy")
    /\ IF "CMD_INIT_DONE" \in flags \/ wq # "null"
       THEN /\ nd' = [n \in Nodes |-> IF n \in Aborted
                                      THEN Completed(n, "shutdown")
                                      ELSE nd[n]]
            /\ pend' = <<>>
       ELSE UNCHANGED <<nd, pend>>
    /\ UNCHANGED <<flags, linkVars, poolVars, free, cur, inUse, workVars,
                   callerVars, mret, stale, wireVars, counters>>

\* esp_commands_teardown: nothing to do, or close the mailbox
MgrClear ==
    /\ IF "CMD_INIT_DONE" \in flags THEN MgrGoto("clear", "abort2")
                                    ELSE MgrGoto("clear", mret)
    /\ flags' = flags \ {"CMD_INIT_DONE"}
    /\ UNCHANGED <<linkVars, poolVars, queueVars, workVars, callerVars, mret,
                   stale, wireVars, counters>>

\* destroy_cmd_wq: cancel_work_sync and destroy_workqueue ...
MgrDestroy ==
    /\ MgrGoto("destroy", "null")
    /\ workQ' = FALSE
    /\ wq' = "dying"
    /\ UNCHANGED <<flags, linkVars, poolVars, queueVars, callerVars, mret,
                   stale, wireVars, counters>>

\* ... then the pointer
MgrNull ==
    /\ MgrGoto("null", "drain")
    /\ wq' = "null"
    /\ UNCHANGED <<flags, linkVars, poolVars, queueVars, workQ, callerVars,
                   mret, stale, wireVars, counters>>

\* Mutant: the pool is freed without waiting for its nodes.
DrainedAnyway == TRUE

\* wait_event_timeout(cmd_nodes_in_use == 0)
Drained == inUse = 0

\* The flush at the end of destroy_cmd_wq, then free_esp_cmd_pool, or a
\* timeout that keeps the pool
MgrDrain ==
    /\ hand = <<>> /\ MgrGoto("drain", mret)
    /\ \/ /\ Drained
          /\ pool' = FALSE /\ free' = {}
       \/ ~Drained /\ UNCHANGED <<pool, free>>
    /\ UNCHANGED <<flags, linkVars, nextSeq, pend, cur, nd, inUse, workVars,
                   callerVars, mret, stale, wireVars, counters>>

\* reinit_after_fw_reset and esp_begin_reconstruction, unless the module is
\* being removed
MgrRecon ==
    /\ IF "UNLOADING" \in flags
       THEN MgrGoto("recon", "up") /\ UNCHANGED <<flags, stale, path, ready>>
       ELSE /\ MgrGoto("recon", "setup")
            /\ flags' = flags \cup {"RECONSTRUCT"}
            /\ stale' = FALSE
            /\ path' = TRUE /\ ready' = TRUE
    /\ UNCHANGED <<poolVars, queueVars, workVars, callerVars, mret, wireVars,
                   counters>>

\* esp_commands_setup
MgrSetup ==
    /\ IF pool /\ inUse # 0
       THEN /\ MgrGoto("setup", "fail")
            /\ UNCHANGED <<flags, poolVars, queueVars, workVars>>
       ELSE /\ MgrGoto("setup", "init")
            /\ pool' = TRUE /\ free' = Nodes
            /\ pend' = <<>> /\ cur' = NoNode /\ inUse' = 0
            /\ nd' = [n \in Nodes |-> Blank]
            /\ nextSeq' = 0
            /\ wq' = "live" /\ workQ' = FALSE
            /\ flags' = flags \cup {"CMD_INIT_DONE"}
    /\ UNCHANGED <<linkVars, callerVars, mret, stale, wireVars, counters>>

\* The manager's own commands: initialise the interface, or deinitialise it
\* on module exit.
MgrCall ==
    /\ \/ MgrGoto("init", "initwait") /\ Prepare("mgr", "INIT_INTERFACE")
       \/ MgrGoto("deinit", "deinitwait")
          /\ Prepare("mgr", "DEINIT_INTERFACE")
    /\ UNCHANGED <<mret, calls>>

\* esp_add_card ends: the card is open for commands, or is rolled back.
MgrInitDone ==
    /\ pc["mgr"] = "idle"
    /\ IF out["mgr"] = "0"
       THEN /\ MgrGoto("initwait", "commit")
            /\ flags' = flags \ {"CLEANUP"}
            /\ UNCHANGED mret
       ELSE /\ MgrGoto("initwait", "clear")
            /\ mret' = "fail"
            /\ UNCHANGED flags
    /\ UNCHANGED <<linkVars, poolVars, queueVars, workVars, callerVars,
                   stale, wireVars, counters>>

\* esp_commit_reconstruction
MgrCommit ==
    /\ MgrGoto("commit", "publish")
    /\ ready' = ~stale
    /\ flags' = (flags \cup {"INIT_DONE"}) \
                    ({"RECONSTRUCT"} \cup
                     IF stale THEN {} ELSE {"RESET_EXPECTED"})
    /\ stale' = FALSE
    /\ UNCHANGED <<path, poolVars, queueVars, workVars, callerVars, mret,
                   wireVars, counters>>

\* Interfaces and endpoints are published, or fail_after_commit removes the
\* card again.
MgrPublish ==
    /\ \/ MgrGoto("publish", "up") /\ UNCHANGED <<flags, mret, faults>>
       \/ /\ Fault("publish")
          /\ MgrGoto("publish", "abort") /\ mret' = "fail"
          /\ flags' = (flags \ {"INIT_DONE"}) \cup {"CLEANUP"}
    /\ UNCHANGED <<linkVars, poolVars, queueVars, workVars, callerVars,
                   stale, wireVars, calls, drawn, boots>>

\* The failure exit of process_event_esp_bootup and its retry request
MgrFail ==
    /\ MgrGoto("fail", "up")
    /\ IF "UNLOADING" \in flags
       THEN flags' = flags \ {"RECONSTRUCT"} /\ UNCHANGED ready
       ELSE /\ flags' = (flags \ {"RECONSTRUCT", "CLEANUP"})
                            \cup {"RESET_EXPECTED"}
            /\ ready' = FALSE
    /\ stale' = FALSE
    /\ UNCHANGED <<path, poolVars, queueVars, workVars, callerVars, mret,
                   wireVars, counters>>

\* esp_exit starts; it then waits for events_work.
ExitBegin ==
    /\ Unload /\ "UNLOADING" \notin flags
    /\ flags' = flags \cup {"UNLOADING"}
    /\ UNCHANGED <<linkVars, poolVars, queueVars, workVars, callerVars,
                   mgrVars, wireVars, counters>>

\* esp_exit up to the firmware deinit commands
MgrExit ==
    /\ "UNLOADING" \in flags /\ mpc = "up"
    /\ IF "INIT_DONE" \in flags /\ "RESET_EXPECTED" \notin flags
       THEN flags' = flags \cup {"ALLOW_DEINIT"} /\ mpc' = "deinit"
       ELSE UNCHANGED flags /\ mpc' = "fence"
    /\ UNCHANGED <<linkVars, poolVars, queueVars, workVars, callerVars, mret,
                   stale, wireVars, counters>>

\* esp_exit after them: everything is fenced, then the transport goes.
MgrFence ==
    /\ \/ MgrGoto("fence", "quiesce")
       \/ pc["mgr"] = "idle" /\ MgrGoto("deinitwait", "quiesce")
    /\ mret' = "gone"
    /\ flags' = (flags \ {"ALLOW_DEINIT", "INIT_DONE", "DRIVER_ACTIVE"})
                    \cup {"CLEANUP", "REMOVING"}
    /\ ready' = FALSE
    /\ UNCHANGED <<path, poolVars, queueVars, workVars, callerVars, stale,
                   wireVars, counters>>

-----------------------------------------------------------------------------
(* The first boot event is being processed: no mailbox yet. *)
Init ==
    /\ flags = {"DRIVER_ACTIVE"} /\ path = TRUE /\ ready = TRUE
    /\ pool = FALSE /\ free = {} /\ pend = <<>> /\ cur = NoNode
    /\ nd = [n \in Nodes |-> Blank] /\ inUse = 0 /\ nextSeq = 0
    /\ wq = "null" /\ workQ = FALSE
    /\ pc = [t \in Callers |-> "idle"]
    /\ own = [t \in Callers |-> NoNode]
    /\ want = [t \in Callers |-> "none"]
    /\ out = [t \in Callers |-> "0"]
    /\ mpc = "recon" /\ mret = "recon" /\ stale = FALSE
    /\ txq = <<>> /\ fwq = <<>> /\ rxq = <<>> /\ hand = <<>> /\ passed = FALSE
    /\ boot = FALSE
    /\ calls = 0 /\ drawn = 0 /\ boots = 0 /\ faults = 0

CallStep(t) ==
    \/ AssignSeq(t) \/ QueueNode(t) \/ Timeout(t)
    \/ Quarantine(t) \/ Finish(t) \/ Decode(t) \/ Recycle(t) \/ Kick(t)
    \/ KickQueue(t)

Manager == \/ MgrBoot \/ MgrQuiesce \/ MgrRxIdle \/ MgrAbort \/ MgrClear
           \/ MgrDestroy \/ MgrNull \/ MgrDrain \/ MgrRecon \/ MgrSetup
           \/ MgrCall \/ MgrInitDone \/ MgrCommit \/ MgrPublish
           \/ MgrFail \/ MgrExit \/ MgrFence

Transport == SpiSend \/ SpiLose \/ FwAnswer \/ FwMute \/ FwRestart
             \/ RxTake \/ RxGate \/ RxResponse

Next == \/ \E t \in Users : UserCall(t)
        \/ \E t \in Callers : CallStep(t)
        \/ CmdWork \/ Manager \/ ExitBegin \/ Transport

Spec == Init /\ [][Next]_vars

-----------------------------------------------------------------------------
(* Properties *)

CallLabels == {"idle", "seq", "queue", "wait", "quarantine", "finish",
               "decode", "recycle", "drop", "kick", "kickq"}
MgrLabels == {"up", "quiesce", "rxidle", "abort", "flush", "clear", "abort2",
              "destroy", "null", "drain", "recon", "setup", "init",
              "initwait", "commit", "publish", "fail", "deinit",
              "deinitwait", "fence", "gone"}
Codes == UserCodes \cup {"INIT_INTERFACE", "DEINIT_INTERFACE"}
Message == [code : Codes, seq : 1..(SeqSpace - 1), id : Nat]
Node == [code : Codes \cup {"none"}, seq : 0..(SeqSpace - 1), id : Nat,
         done : BOOLEAN, result : {"0", "timedout", "shutdown", "io"},
         sent : BOOLEAN, resp : Nat]

\* Every variable keeps its type; a sequence number on the wire is never 0.
TypeOK ==
    /\ flags \subseteq Flags
    /\ {path, ready, pool, workQ, stale, passed, boot} \subseteq BOOLEAN
    /\ free \subseteq Nodes /\ pend \in Seq(Nodes)
    /\ cur \in Nodes \cup {NoNode}
    /\ nd \in [Nodes -> Node] /\ inUse \in Nat
    /\ nextSeq \in 0..(SeqSpace - 1)
    /\ wq \in {"live", "dying", "null"}
    /\ pc \in [Callers -> CallLabels]
    /\ own \in [Callers -> Nodes \cup {NoNode}]
    /\ want \in [Callers -> Codes \cup {"none"}]
    /\ out \in [Callers -> {"0", "timedout", "shutdown", "io", "busy",
                            "nomem", "refused"}]
    /\ mpc \in MgrLabels /\ mret \in {"recon", "fail", "gone"}
    /\ \A q \in {txq, fwq, rxq, hand} : q \in Seq(Message)
    /\ calls \in 0..MaxCalls /\ drawn \in Nat
    /\ boots \in 0..MaxBoots /\ faults \in 0..MaxFaults

Holding == {t \in Callers : own[t] # NoNode}

\* No node is lost, shared or freed under its caller, over timeouts, aborts,
\* refused setups and kept pools: cmd_nodes_in_use counts the callers that
\* hold a node, and the rest of an allocated pool is in cmd_free_queue.
NodesConserved ==
    /\ inUse = Cardinality(Holding)
    /\ \A t, u \in Holding : own[t] = own[u] => t = u
    /\ pool => free = Nodes \ {own[t] : t \in Holding}
    /\ ~pool => Holding = {}

\* The pending queue and cur_cmd only ever name nodes whose callers are still
\* there to recycle them, and no node is both pending and current. Conversely
\* a caller that waits has its node completed, pending or current, also while
\* waiters are aborted: it is never left to its timeout.
QueuesOwned ==
    /\ cur # NoNode => \E t \in Callers :
           own[t] = cur /\ pc[t] \in {"wait", "quarantine", "finish"}
    /\ \A n \in Range(pend) : \E t \in Callers :
           own[t] = n /\ pc[t] = "wait" /\ ~nd[n].done /\ n # cur
    /\ \A t \in Callers : pc[t] = "wait" =>
           nd[own[t]].done \/ own[t] \in Range(pend) \cup {cur}

\* A response handed to a caller answers that caller's own command, not an
\* earlier one that timed out or one of the previous incarnation, although
\* sequence numbers restart with every esp_commands_setup. The commands a
\* reconstruction admits are excepted: INIT_INTERFACE is command 1 of every
\* session, and one sent to a firmware that has already restarted may be
\* answered after the next setup. With two restarts that takes users'
\* commands along: INIT_INTERFACE is then answered by its predecessor's
\* response, so that it no longer shows that what was under way is gone.
ResponseMatches ==
    \A n \in Nodes : nd[n].resp # 0 =>
        nd[n].resp = nd[n].id \/ nd[n].code \in Rebuilding

\* A submitted command stays cur_cmd until its own caller clears it: the
\* CMD_STATE_MISMATCH branch of wait_and_decode_cmd_resp is never taken.
SubmittedIsCurrent ==
    \A t \in Callers : pc[t] \in {"wait", "quarantine", "finish"}
                       /\ nd[own[t]].sent => cur = own[t]

\* A caller that will reach the kick at the end of its call
Leaving(t) == \/ pc[t] \in {"quarantine", "finish", "decode", "recycle",
                             "kick", "kickq"}
              \/ pc[t] = "wait" /\ nd[own[t]].done

\* No command is stranded: while the mailbox is open and no command is
\* current, a queued command has cmd_work pending, or a caller on its way to
\* start it, or esp_exit about to abort it (it lets cmd_work through again
\* for its own DEINIT_INTERFACE, without starting it).
NoneStranded ==
    WorkGate /\ pend # <<>> /\ cur = NoNode
        => \/ workQ
           \/ \E t \in Callers : Leaving(t)
           \/ mpc \in {"deinit", "deinitwait"}

\* A user's command whose effect on the firmware is unknown never returns a
\* plain timeout to a session that goes on: the incarnation is quarantined,
\* being rebuilt, or going away. The commands a reconstruction admits are
\* excepted: one that times out during the reconstruction does not stop its
\* commit.
AmbiguousQuarantined ==
    \A t \in Users :
        pc[t] = "recycle" /\ out[t] = "timedout" /\ nd[own[t]].sent
        /\ want[t] \in Ambiguous \ Rebuilding
            => {"RESET_EXPECTED", "RECONSTRUCT", "UNLOADING", "REMOVING"}
                   \cap flags # {}

\* The state a caller of CmdService sees
Progress(t) ==
    IF own[t] = NoNode THEN "idle"
    ELSE IF pc[t] \in {"decode", "recycle"} /\ out[t] = "timedout"
    THEN "failed"
    ELSE LET n == nd[own[t]] IN
         IF n.done THEN IF n.resp # 0 THEN "answered" ELSE "failed"
         ELSE IF n.sent THEN "sent" ELSE "open"

Service == INSTANCE CmdService WITH call <- [t \in Callers |-> Progress(t)]

\* The mailbox implements CmdService: one command with the firmware at a
\* time, and an outcome that is decided once and by its own submission.
ImplementsService == Service!Spec

\* Work that is queued runs, time passes, the manager goes on. Nothing is
\* assumed of the firmware, the wire or the users.
Fairness == /\ \A t \in Callers : WF_vars(CallStep(t))
            /\ WF_vars(CmdWork) /\ WF_vars(RxGate \/ RxResponse)
            /\ WF_vars(Manager /\ mpc # "up") /\ WF_vars(MgrExit)

FairSpec == Spec /\ Fairness

\* Teardown and setup always end, whatever callers and firmware do: the
\* manager waits for no caller without a timeout, and its own commands time
\* out too.
ManagerReturns == (mpc # "up") ~> (mpc \in {"up", "gone"})

\* Every call returns.
CallsReturn == \A t \in Users : (pc[t] # "idle") ~> (pc[t] = "idle")

=============================================================================
