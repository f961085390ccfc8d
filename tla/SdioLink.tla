------------------------------ MODULE SdioLink ------------------------------
(***************************************************************************)
(* The SDIO link: the host transport (host/sdio/esp_sdio.c) against the    *)
(* SDIO slave of the firmware (main/sdio_slave_api.c). Two cumulative      *)
(* counters tie them together: PACKET_LEN, what the firmware has published *)
(* and the host reads up to, and TOKEN, the receive buffers the firmware   *)
(* has loaded and the host may fill. Both restart at a firmware restart    *)
(* and at the link reset of a power-save handshake, and the host has to    *)
(* notice. On the host run concurrently                                    *)
(*   tx    the TX thread            rx    if_rx_work and the function IRQ   *)
(*   rec   fw_recovery_work         bt    the boot-event handler            *)
(*   pm    system suspend/resume, and binding and unbinding of the device  *)
(* A section under sdio_claim_host, or under the driver's spinlocks, is    *)
(* one step. "h" holds the flags and reset intents those steps share.      *)
(***************************************************************************)
EXTENDS Naturals

CONSTANTS
    RxMax,       \* ESP_RX_BYTE_MAX: PACKET_LEN counts modulo this
    Aggr,        \* ESP_HOST_RX_AGGR_SIZE: the most one read may cover
    TxMax,       \* ESP_TX_BUFFER_MAX: TOKEN counts modulo this
    MaxBuf,      \* ESP_MAX_BUF_CNT: receive buffers of the firmware
    MaxAttempts, \* ESP_FW_BOOT_MAX_ATTEMPTS
    RetryMax,    \* ESP_SDIO_PKT_LEN_DELAYED_RETRIES
    FullChip,    \* whether the device tree may declare a full-chip reset
    MaxFrames,   \* bound: frames handed to write_packet
    MaxFaults,   \* bound: faults and user requests of the environment
    FaultKinds   \* which of them may occur

BootLen == 2     \* the boot event is longer than a data packet
DataLen == 1
Gens == 1..3     \* sdio_reset_gen: u8, never 0

ASSUME CounterAssumption ==
    /\ RxMax \in Nat /\ Aggr \in Nat /\ Aggr >= BootLen /\ RxMax > Aggr + BootLen
    /\ TxMax \in Nat /\ MaxBuf \in Nat \ {0} /\ TxMax > 2 * MaxBuf
ASSUME BoundAssumption ==
    /\ MaxAttempts \in Nat \ {0} /\ RetryMax \in Nat
    /\ MaxFrames \in Nat /\ MaxFaults \in Nat
    /\ FullChip \in SUBSET BOOLEAN

VARIABLES
    h,      \* adapter flags and reset intents, shared by every host context
    cx,     \* the host's end of the counters
    q,      \* frames in the priority queues: at most one of each kind
    cmd,    \* the command queued or in the aggregate is still current
    tx,     \* TX thread: control, its aggregate, and its validity
    rec,    \* recovery worker: control and its local fw_reset
    hs,     \* holder of esp_sdio_handshake_mutex
    ev,     \* a boot event waits in events_skb_q
    bt,     \* control of the boot-event handler
    pm,     \* control of suspend/resume
    fw,     \* the firmware's SDIO slave
    faults  \* faults so far, and whether one restarted the counters silently

vars == <<h, cx, q, cmd, tx, rec, hs, ev, bt, pm, fw, faults>>

Flags == {"INIT", "PEND", "EXP", "NEED", "EXH", "CLEAN", "RECON", "REMOVING"}
Kinds == {"cmd", "hci", "data"}
FwBits == {"OPEN", "CLOSE", "RESET", "PSON", "PSOFF"}

\* An incarnation, relative to the one the firmware's counters are in now:
\* the host is based on it, on one that has ended, or on the one to come.
Rel == {"cur", "old", "next"}
Age(r) == IF r = "next" THEN "cur" ELSE "old"

-----------------------------------------------------------------------------
(* Shared recovery policy (host/main.c), on the record h                    *)

Has(a, f) == f \in a.fl
Closed(a) == Has(a, "REMOVING")
Healthy(a) == Has(a, "INIT") /\ {"PEND", "EXP"} \cap a.fl = {}

\* esp_schedule_recovery, with note_fw_reset of the SDIO backend. "dirty" are
\* the snapshots of fw_recovery_gen that are out of date.
SchedRecovery(a, reset) ==
    IF Closed(a) THEN a
    ELSE [a EXCEPT
            !.fl = @ \cup {"PEND"} \cup (IF reset THEN {"EXP"} ELSE {}),
            !.rebase = @ \/ reset,
            !.dirty = {"rec", "bt"},
            !.st = IF @ = "RDY" /\ ~Has(a, "RECON") THEN "RX" ELSE @,
            !.work = TRUE]

\* esp_sdio_reset_budget_sync_locked: the counter belongs to a commit epoch.
BudgetSync(a) == IF a.fresh THEN a ELSE [a EXCEPT !.fresh = TRUE, !.tries = 0]

\* esp_sdio_soft_reset_budget_arm, when it is allowed
Arm(a) == [BudgetSync(a) EXCEPT !.cur = TRUE, !.soft = TRUE]
MayArm(a) == BudgetSync(a).tries < MaxAttempts

\* esp_sdio_reset_target
ResetTarget(a) ==
    LET b == BudgetSync(a) IN
    CASE Closed(a) -> a
      [] ~Closed(a) /\ a.full /\ ~a.noHard ->
            SchedRecovery([b EXCEPT !.cur = TRUE, !.hard = TRUE], TRUE)
      [] ~Closed(a) /\ (a.noHard \/ ~a.full) /\ MayArm(a) ->
            SchedRecovery(Arm(a), TRUE)
      [] OTHER -> b

\* esp_request_firmware_restart: coalesced while a boot deadline is armed
RequestRestart(a) ==
    CASE a.dl -> a
      [] ~a.dl /\ (Has(a, "EXH") \/ a.att >= MaxAttempts) ->
            [a EXCEPT !.fl = @ \cup {"EXH"}]
      [] OTHER ->
            ResetTarget([a EXCEPT !.att = @ + 1, !.dl = TRUE, !.used = FALSE,
                                  !.fl = @ \cup {"NEED"}])

\* The pair every ambiguous failure ends in
Quarantine(a) == RequestRestart(SchedRecovery(a, TRUE))

\* esp_bootup_request_retry
BootRetry(a) ==
    IF Closed(a) THEN a
    ELSE Quarantine([a EXCEPT !.fl = @ \ {"CLEAN"}])

\* Mutant: the commit epoch of the intent is not compared.
ClaimAnyEpoch(a) ==
    IF a.hard THEN "hard" ELSE IF a.soft THEN "soft" ELSE "none"

\* esp_sdio_claim_reset_locked: what a pass finds, and what it leaves
Claim(a) ==
    CASE ~a.hard /\ ~a.soft -> "none"
      [] (a.hard \/ a.soft) /\ (~a.cur \/ Healthy(a)) -> "stale"
      [] OTHER -> IF a.hard THEN "hard" ELSE "soft"
Claimed(a) ==
    LET b == [a EXCEPT !.hard = FALSE, !.soft = FALSE] IN
    IF Claim(a) \in {"hard", "soft"}
    THEN [b EXCEPT !.fl = @ \cup {"PEND", "EXP"}, !.dirty = {"rec", "bt"}]
    ELSE b

\* esp_sdio_commit_reset_budget_locked: a request of an older epoch is void.
CommitBudget(a) ==
    LET b == BudgetSync(a) IN
    IF a.cur THEN b ELSE [b EXCEPT !.hard = FALSE, !.soft = FALSE]

\* esp_sdio_request_slave_reset
SlaveReset(a) ==
    IF Closed(a) THEN a
    ELSE SchedRecovery([a EXCEPT !.rst = TRUE], FALSE)

-----------------------------------------------------------------------------
(* The counters                                                             *)

\* esp_sdio_rx_len_delta
Delta(raw, rx) == (raw + RxMax - rx) % RxMax

\* esp_slave_get_tx_buffer_num: credits the host believes in
Credits(token, count) ==
    LET raw == (token + TxMax - count) % TxMax IN
    IF raw > MaxBuf THEN MaxBuf ELSE raw

\* Mutant: a token below ESP_MAX_BUF_CNT is not clamped.
TxBaseUnclamped(token) == token - MaxBuf

\* esp_sdio_baseline_tx_credits
TxBase(token) == IF token >= MaxBuf THEN token - MaxBuf ELSE 0

\* get_firmware_data: both cursors from the registers, aggregates invalidated
Baselined(c) == [c EXCEPT !.rx = fw.plen, !.tx = TxBase(fw.tok), !.buf = 0,
                          !.based = "cur"]
BaseFlags(a) == [a EXCEPT !.rebase = FALSE, !.rst = FALSE]

\* Cursors for a firmware that restarts its counters at zero
Zeroed(c, r) == [c EXCEPT !.rx = 0, !.tx = 0, !.buf = 0, !.pend = FALSE,
                          !.retry = 0, !.based = r]
\* Mutant: the epoch is not moved.
SameEpoch(t) == t

NoEpoch(t) == [t EXCEPT !.valid = FALSE]

Free == MaxBuf - fw.held
FwUp == fw.run \in {"up", "acked"}    \* the function answers

\* sdio_purge_tx_queues fails a queued command.
Purged(c) == IF "cmd" \in q THEN FALSE ELSE c

\* sdio_fail_abandoned_cmd: a lost stateful frame costs the incarnation.
Abandoned(a) == IF "hci" \in tx.set THEN Quarantine(a) ELSE a
CmdLeft == IF "cmd" \in tx.set THEN FALSE ELSE cmd

Fault(k) == /\ k \in FaultKinds /\ faults.n < MaxFaults
            /\ faults' = [n |-> faults.n + 1, silent |-> faults.silent \/ k = "crash"]

-----------------------------------------------------------------------------
(* Firmware: sdio_slave_api.c and the SDIO part of app_main.c               *)

\* The firmware restarts: every register and counter starts again, and the
\* application waits for the first OPEN. External: what esp_restart clears.
Restarted == [fw EXCEPT !.run = "down", !.app = "wait", !.bits = {}, !.plen = 0,
                        !.out = "none", !.irq = FALSE, !.tok = 0, !.held = 0,
                        !.ps = FALSE, !.gen = 0, !.done = 0,
                        !.fed = FALSE]
AgeAll == /\ cx' = [cx EXCEPT !.based = Age(@)]
          /\ tx' = [tx EXCEPT !.for = "old"]

\* sdio_init: the buffers are loaded and the slave starts.
FwInit ==
    /\ fw.run = "down"
    /\ fw' = [fw EXCEPT !.run = "up", !.tok = MaxBuf]
    /\ UNCHANGED <<h, cx, q, cmd, tx, rec, hs, ev, bt, pm, faults>>

\* Mutant: the CLOSE is acknowledged and then forgotten.
FwCloseStays ==
    /\ fw.run = "up" /\ "CLOSE" \in fw.bits
    /\ fw' = [fw EXCEPT !.bits = @ \ {"CLOSE"}, !.done = fw.gen]
    /\ UNCHANGED <<h, cx, q, cmd, tx, rec, hs, ev, bt, pm, faults>>

\* sdio_process_host_bits, CLOSE: acknowledge this generation, restart later.
FwClose ==
    /\ fw.run = "up" /\ "CLOSE" \in fw.bits
    /\ fw' = [fw EXCEPT !.run = "acked", !.done = fw.gen]
    /\ UNCHANGED <<h, cx, q, cmd, tx, rec, hs, ev, bt, pm, faults>>

\* event_handler(ESP_CLOSE_DATA_PATH), after 150 ms: esp_restart
FwRestart ==
    /\ fw.run = "acked"
    /\ fw' = Restarted /\ AgeAll
    /\ UNCHANGED <<h, q, cmd, rec, hs, ev, bt, pm, faults>>

\* sdio_process_host_bits, ESP_RESET: quiesce and restart without an answer.
FwReset ==
    /\ fw.run = "up" /\ "CLOSE" \notin fw.bits /\ "RESET" \in fw.bits
    /\ fw' = Restarted /\ AgeAll
    /\ UNCHANGED <<h, q, cmd, rec, hs, ev, bt, pm, faults>>

\* sdio_reset_hw_internal(true): what was published is dropped, the counters
\* start again with the buffers that are loaded, and DONE answers.
LinkReset(f) == [f EXCEPT !.plen = 0, !.out = "none", !.irq = FALSE,
                          !.tok = Free, !.done = f.gen]

\* sdio_process_host_bits, POWER_SAVE_ON and POWER_SAVE_OFF
FwPowerSave(bit) ==
    /\ fw.run = "up" /\ {"CLOSE", "RESET"} \cap fw.bits = {} /\ bit \in fw.bits
    /\ fw' = LinkReset([fw EXCEPT !.ps = (bit = "PSON"), !.bits = @ \ {bit}])
    /\ AgeAll
    /\ UNCHANGED <<h, q, cmd, rec, hs, ev, bt, pm, faults>>

\* event_handler(ESP_OPEN_DATA_PATH): the first one releases app_main.
FwOpen ==
    /\ fw.run = "up" /\ fw.bits = {"OPEN"}
    /\ fw' = [fw EXCEPT !.bits = {}, !.app = IF @ = "wait" THEN "boot" ELSE @]
    /\ UNCHANGED <<h, cx, q, cmd, tx, rec, hs, ev, bt, pm, faults>>

\* sdio_transmit_admitted: one packet at a time, until the host has read it.
Publish(kind, len) ==
    /\ fw.run = "up" /\ fw.out = "none"
    /\ fw' = [fw EXCEPT !.plen = (@ + len) % RxMax, !.out = kind, !.irq = TRUE,
                        !.app = "active", !.fed = @ /\ kind # "data"]
    /\ UNCHANGED <<h, cx, q, cmd, tx, rec, hs, ev, bt, pm, faults>>

\* send_bootup_event_to_host, from app_main once the host has opened
FwBoot == fw.app = "boot" /\ Publish("boot", BootLen)

\* sdio_write, sdio_write_aggr: here it sends to answer what it receives.
FwSend == fw.app = "active" /\ fw.fed /\ ~fw.ps /\ Publish("data", DataLen)

\* sdio_read_done: a consumed buffer is loaded again.
FwReload ==
    /\ fw.run = "up" /\ fw.held > 0
    /\ fw' = [fw EXCEPT !.held = @ - 1, !.tok = (@ + 1) % TxMax]
    /\ UNCHANGED <<h, cx, q, cmd, tx, rec, hs, ev, bt, pm, faults>>

\* A fatal error of the running firmware restarts it behind the host's back.
FwCrash ==
    /\ fw.run = "up" /\ fw.app = "active" /\ Fault("crash")
    /\ fw' = Restarted /\ AgeAll
    /\ UNCHANGED <<h, q, cmd, rec, hs, ev, bt, pm>>

-----------------------------------------------------------------------------
(* Host: queues and the TX thread                                           *)

\* write_packet: rejected unless the session is up.
WritePacket(k) ==
    /\ h.st = "RDY" /\ ~Closed(h) /\ (Has(h, "CLEAN") => Has(h, "RECON"))
    /\ k \notin q /\ (k = "cmd" => ~cmd)
    /\ tx.n < MaxFrames /\ tx' = [tx EXCEPT !.n = @ + 1]
    /\ q' = q \cup {k}
    /\ cmd' = (cmd \/ k = "cmd")
    /\ UNCHANGED <<h, cx, rec, hs, ev, bt, pm, fw, faults>>

\* The caller of the command got its response or gave up: not current.
CmdEnds ==
    /\ cmd /\ "cmd" \in q \cup tx.set /\ cmd' = FALSE
    /\ UNCHANGED <<h, cx, q, tx, rec, hs, ev, bt, pm, fw, faults>>

\* esp_sdio_flush_if_traffic: what the queue holds goes; a stateful frame the
\* TX thread keeps for 100 ms costs the incarnation.
FlushTraffic ==
    /\ "hci" \in q \cup tx.set
    /\ \/ /\ "hci" \notin tx.set /\ UNCHANGED <<h, faults>>
       \/ /\ "hci" \in tx.set /\ Fault("flush") /\ h' = Quarantine(h)
    /\ q' = q \ {"hci"}
    /\ UNCHANGED <<cx, cmd, tx, rec, hs, ev, bt, pm, fw>>

TxIdle(t) == [t EXCEPT !.pc = "idle", !.set = {}, !.resv = FALSE, !.valid = FALSE,
                       !.for = "old"]

\* tx_process, building the aggregate: a command travels alone, a stateful
\* frame may share with data behind it; a command nobody waits for is dropped.
Aggregates ==
    CASE "cmd" \in q -> {{"cmd"}}
      [] "cmd" \notin q /\ "hci" \in q -> {{"hci"}, {"hci", "data"} \cap q}
      [] OTHER -> {q}
TxBuild ==
    /\ tx.pc = "idle" /\ h.st = "RDY" /\ ~cx.sleep /\ q # {}
    /\ \E s \in Aggregates :
        /\ q' = q \ s
        /\ tx' = IF s = {"cmd"} /\ ~cmd THEN tx
                 ELSE [tx EXCEPT !.pc = "agg", !.set = s, !.valid = TRUE,
                                 !.for = cx.based]
    /\ UNCHANGED <<h, cx, cmd, rec, hs, ev, bt, pm, fw, faults>>

CmdStale == "cmd" \in tx.set /\ ~cmd

\* The aggregate is given up: the cached credits are dropped with it.
TxAbandon ==
    /\ h' = Abandoned(h) /\ cmd' = CmdLeft
    /\ tx' = TxIdle(tx) /\ cx' = [cx EXCEPT !.buf = 0]
    /\ UNCHANGED <<q, rec, hs, ev, bt, pm, fw>>

\* The credit wait: is_sdio_write_buffer_available reserves from the cache,
\* which it refills from TOKEN when it is empty.
TxCredit ==
    /\ tx.pc = "agg" /\ ~CmdStale /\ h.st = "RDY" /\ ~Closed(h)
    /\ LET c == IF cx.buf > 0 THEN cx.buf ELSE Credits(fw.tok, cx.tx) IN
        \/ /\ cx.sleep
           /\ tx' = [tx EXCEPT !.pc = "ready"]
           /\ UNCHANGED cx
        \/ /\ ~cx.sleep /\ (cx.buf > 0 \/ FwUp) /\ c > 0
           /\ tx' = [tx EXCEPT !.pc = "ready", !.resv = TRUE]
           /\ cx' = [cx EXCEPT !.buf = c - 1]
    /\ UNCHANGED <<h, q, cmd, rec, hs, ev, bt, pm, fw, faults>>

\* The wait ends without a write: the TOKEN read fails, ...
TxCreditError ==
    /\ tx.pc = "agg" /\ ~CmdStale /\ h.st = "RDY" /\ cx.buf = 0
    /\ IF FwUp THEN Fault("bus") ELSE UNCHANGED faults
    /\ h' = Abandoned(SchedRecovery(h, FALSE)) /\ cmd' = CmdLeft
    /\ tx' = TxIdle(tx) /\ cx' = [cx EXCEPT !.buf = 0]
    /\ UNCHANGED <<q, rec, hs, ev, bt, pm, fw>>

\* ... the command is stale, or the session went away.
TxGiveUp ==
    /\ tx.pc \in {"agg", "ready"}
    /\ \/ CmdStale \/ h.st # "RDY" \/ Closed(h)
       \/ tx.pc = "ready" /\ (cx.sleep \/ ~tx.valid)
    /\ TxAbandon /\ UNCHANGED faults

MayWrite == tx.pc = "ready" /\ ~CmdStale /\ h.st = "RDY" /\ ~Closed(h)
            /\ ~cx.sleep /\ tx.valid

\* Mutant: the write is not counted.
TxWriteUncounted ==
    /\ MayWrite /\ FwUp /\ Free > 0
    /\ fw' = [fw EXCEPT !.held = @ + 1, !.fed = TRUE]
    /\ tx' = TxIdle(tx) /\ cmd' = CmdLeft
    /\ UNCHANGED <<h, cx, q, rec, hs, ev, bt, pm, faults>>

\* The CMD53 write, under sdio_claim_host: it is counted only if it succeeds.
TxWrite ==
    /\ MayWrite /\ FwUp /\ Free > 0
    /\ fw' = [fw EXCEPT !.held = @ + 1, !.fed = TRUE]
    /\ cx' = [cx EXCEPT !.tx = (@ + 1) % TxMax]
    /\ tx' = TxIdle(tx) /\ cmd' = CmdLeft
    /\ UNCHANGED <<h, q, rec, hs, ev, bt, pm, faults>>

\* A failed CMD53 may or may not have reached the slave.
TxWriteError ==
    /\ MayWrite
    /\ IF FwUp /\ Free > 0 THEN Fault("write") ELSE UNCHANGED faults
    /\ \/ UNCHANGED fw
       \/ FwUp /\ Free > 0 /\ fw' = [fw EXCEPT !.held = @ + 1, !.fed = TRUE]
    /\ h' = CASE "cmd" \in tx.set -> Quarantine(h)
              [] "hci" \in tx.set ->
                    Quarantine([h EXCEPT !.rst = ~Closed(h) \/ @])
              [] OTHER -> SlaveReset(h)
    /\ cmd' = CmdLeft
    /\ tx' = TxIdle(tx)
    /\ UNCHANGED <<cx, q, rec, hs, ev, bt, pm>>

-----------------------------------------------------------------------------
(* Host: receive                                                            *)

RxOpen == h.st \in {"RX", "RDY"} /\ ~Closed(h)

\* esp_handle_isr
Isr ==
    /\ fw.irq /\ FwUp /\ ~cx.sleep /\ RxOpen
    /\ cx' = [cx EXCEPT !.pend = TRUE, !.rxw = TRUE]
    /\ fw' = [fw EXCEPT !.irq = FALSE]
    /\ UNCHANGED <<h, q, cmd, tx, rec, hs, ev, bt, pm, faults>>
IsrError ==
    /\ fw.irq /\ ~cx.sleep /\ RxOpen /\ Fault("bus")
    /\ h' = SchedRecovery(h, FALSE)
    /\ UNCHANGED <<cx, q, cmd, tx, rec, hs, ev, bt, pm, fw>>

RxDelta == Delta(fw.plen, cx.rx)
OutLen == IF fw.out = "boot" THEN BootLen ELSE DataLen

\* esp_get_len_from_slave: the register cannot be read, or is beyond any
\* aggregate, which is how a firmware reset is noticed.
RxLenError ==
    /\ cx.rxw /\ h.st # "DIS"
    /\ IF FwUp THEN Fault("bus") ELSE UNCHANGED faults
    /\ h' = SchedRecovery(h, FALSE)
    /\ cx' = [cx EXCEPT !.rxw = FALSE, !.pend = FALSE]
    /\ UNCHANGED <<q, cmd, tx, rec, hs, ev, bt, pm, fw>>
RxReset ==
    /\ cx.rxw /\ h.st # "DIS" /\ FwUp /\ RxDelta > Aggr
    /\ h' = SchedRecovery(h, TRUE)
    /\ cx' = [cx EXCEPT !.rxw = FALSE, !.pend = FALSE]
    /\ UNCHANGED <<q, cmd, tx, rec, hs, ev, bt, pm, fw, faults>>

\* Nothing new: notified, it samples again RetryMax times (through
\* rx_len_retry_work) and then asks for recovery.
RxNothing ==
    /\ cx.rxw /\ h.st # "DIS" /\ FwUp /\ RxDelta = 0
    /\ IF cx.pend /\ cx.retry < RetryMax
       THEN cx' = [cx EXCEPT !.retry = @ + 1] /\ UNCHANGED h
       ELSE /\ cx' = [cx EXCEPT !.rxw = FALSE, !.pend = FALSE,
                                !.retry = IF cx.pend THEN 0 ELSE @]
            /\ h' = IF cx.pend THEN SchedRecovery(h, FALSE) ELSE h
    /\ UNCHANGED <<q, cmd, tx, rec, hs, ev, bt, pm, fw, faults>>

\* read_packet: what the FIFO gives is the packet only if the cursor is true
\* to it; a misframed read is dropped, and a read of an empty FIFO fails.
ReadPacket ==
    /\ cx.rxw /\ h.st # "DIS" /\ FwUp /\ RxDelta \in 1..Aggr
    /\ IF fw.out = "none"
       THEN /\ h' = Quarantine(h)
            /\ cx' = [cx EXCEPT !.rxw = FALSE, !.pend = FALSE]
            /\ UNCHANGED <<fw, ev>>
       ELSE /\ cx' = [cx EXCEPT !.rx = fw.plen, !.pend = FALSE, !.retry = 0]
            /\ fw' = IF RxDelta >= OutLen THEN [fw EXCEPT !.out = "none"] ELSE fw
            /\ ev' = (ev \/ (fw.out = "boot" /\ RxDelta = OutLen))
            /\ UNCHANGED h
    /\ UNCHANGED <<q, cmd, tx, rec, hs, bt, pm, faults>>

\* The data phase fails, or there is no memory for the packet.
ReadError ==
    /\ cx.rxw /\ h.st # "DIS" /\ FwUp /\ RxDelta \in 1..Aggr
    /\ \/ /\ Fault("read") /\ h' = Quarantine(h)
          /\ cx' = [cx EXCEPT !.rxw = FALSE, !.pend = FALSE]
       \/ /\ Fault("alloc") /\ cx' = [cx EXCEPT !.pend = TRUE] /\ UNCHANGED h
    /\ UNCHANGED <<q, cmd, tx, rec, hs, ev, bt, pm, fw>>

-----------------------------------------------------------------------------
(* Host: the recovery worker                                                *)

\* Nothing under way can still produce a boot event: what the boot deadline
\* and the initial watchdog are long enough to tell.
Stuck ==
    /\ fw.run = "up" /\ fw.bits \subseteq {"OPEN"} /\ (fw.app = "wait" => fw.bits = {})
    /\ fw.app # "boot" /\ ~(fw.out = "boot" /\ RxDelta = BootLen)
    /\ ~ev /\ bt = "idle" /\ rec.pc = "idle" /\ ~h.hard /\ ~h.soft
    /\ \/ {"CLEAN", "RECON"} \cap h.fl # {}
       \/ IF Has(h, "NEED") THEN ~MayArm(h) ELSE ~(fw.app = "wait" /\ Has(h, "EXP"))

RecIdle == rec' = [pc |-> "idle", claim |-> "none"]

\* esp_fw_recovery_work up to its call of the backend
RecGate ==
    /\ rec.pc = "idle" /\ h.work /\ ~Closed(h)
    /\ IF Has(h, "EXH") \/ Healthy(h)
       THEN h' = [h EXCEPT !.work = FALSE] /\ UNCHANGED rec
       ELSE /\ {"CLEAN", "RECON"} \cap h.fl = {}
            /\ {"INIT", "PEND", "EXP"} \cap h.fl # {}
            /\ h' = [h EXCEPT !.work = FALSE, !.dirty = @ \ {"rec"}]
            /\ rec' = [rec EXCEPT !.pc = "lock"]
    /\ UNCHANGED <<cx, q, cmd, tx, hs, ev, bt, pm, fw, faults>>

\* The boot deadline has passed, or the first boot event never came.
RecExpire ==
    /\ rec.pc = "idle" /\ h.work /\ ~Closed(h) /\ ~Has(h, "EXH") /\ ~Healthy(h)
    /\ h.dl \/ {"INIT", "PEND", "EXP", "CLEAN", "RECON"} \cap h.fl = {}
    /\ IF Stuck THEN UNCHANGED faults ELSE Fault("late")
    /\ h' = BootRetry([h EXCEPT !.dl = FALSE, !.work = FALSE])
    /\ UNCHANGED <<cx, q, cmd, tx, rec, hs, ev, bt, pm, fw>>

\* esp_sdio_recover_transport_inner, the claim: a reset intent of an older
\* commit, or on a healthy session, is dropped here.
RecClaim ==
    /\ rec.pc = "lock" /\ hs = "none" /\ ~Closed(h)
    /\ h' = Claimed(h)
    /\ cx' = [cx EXCEPT !.sleep = FALSE]
    /\ IF Claim(h) = "stale" /\ Healthy(h)
       THEN rec' = [rec EXCEPT !.pc = "live"] /\ UNCHANGED hs
       ELSE rec' = [rec EXCEPT !.pc = "barrier", !.claim = Claim(h)] /\ hs' = "rec"
    /\ faults' = [faults EXCEPT !.silent = @ \/ pm = "asleep"]
    /\ UNCHANGED <<q, cmd, tx, ev, bt, pm, fw>>

\* TX is closed, then its epoch moved while the MMC host is owned.
RecBarrier ==
    /\ rec.pc = "barrier" /\ ~Closed(h)
    /\ tx' = NoEpoch(tx)
    /\ IF rec.claim = "stale" /\ Healthy(h)
       THEN /\ h' = [h EXCEPT !.st = "RDY"]
            /\ rec' = [pc |-> "live", claim |-> "none"] /\ hs' = "none"
       ELSE /\ h' = [h EXCEPT !.st = "RX"]
            /\ rec' = [claim |-> "none",
                       pc |-> IF rec.claim \in {"hard", "soft"} THEN rec.claim
                              ELSE "resync"]
            /\ UNCHANGED hs
    /\ UNCHANGED <<cx, q, cmd, ev, bt, pm, fw, faults>>

\* Mutant: the work is not queued again.
RecFailsQuietly(a) ==
    /\ h' = a /\ RecIdle /\ hs' = "none"

\* Recovery returns a negative value: the work is queued again.
RecFails(a) ==
    /\ h' = [a EXCEPT !.work = TRUE] /\ RecIdle /\ hs' = "none"

\* OPEN is written and a boot event awaited (return 0).
RecOpened(a) ==
    /\ fw' = [fw EXCEPT !.bits = @ \cup {"OPEN"}]
    /\ h' = [a EXCEPT !.work = @ \/ Has(a, "EXP") \/ ~Has(a, "INIT")]
    /\ RecIdle /\ hs' = "none"

FullReset == h.full /\ ~h.noHard

\* esp_sdio_hard_reset_and_reopen: only inside a counted attempt, and the
\* power is cycled once per attempt; without it, CLOSE is armed instead.
RecHard ==
    /\ rec.pc = "hard" /\ ~Closed(h)
    /\ LET a == [h EXCEPT !.fl = @ \cup {"EXP"}, !.rebase = TRUE, !.rst = FALSE,
                          !.used = @ \/ FullReset]
           needed(b) == [b EXCEPT !.fl = @ \cup {"NEED"}]
           fallback(b) == IF MayArm(b) THEN Arm(needed(b)) ELSE needed(b)
           done(b) == [b EXCEPT !.fl = @ \ {"NEED"}]
       IN \/ /\ ~h.dl /\ RecFails(Quarantine(h))
             /\ UNCHANGED <<cx, q, cmd, tx, fw, faults>>
          \/ /\ h.dl /\ ~FullReset
             /\ RecFails([fallback(a) EXCEPT !.noHard = TRUE])
             /\ q' = {} /\ cmd' = Purged(cmd)
             /\ UNCHANGED <<cx, tx, fw, faults>>
          \/ /\ h.dl /\ FullReset /\ ~h.used /\ Fault("mmc")
             /\ RecFails(fallback(a))
             /\ q' = {} /\ cmd' = Purged(cmd)
             /\ UNCHANGED <<cx, tx, fw>>
          \/ /\ h.dl /\ FullReset /\ ~h.used
             /\ fw' = Restarted /\ tx' = [tx EXCEPT !.for = "old"]
             /\ cx' = Zeroed(cx, "cur")
             /\ q' = {} /\ cmd' = Purged(cmd)
             /\ h' = done(a) /\ rec' = [rec EXCEPT !.pc = "reopen"]
             /\ UNCHANGED <<hs, faults>>
          \/ /\ h.dl /\ FullReset /\ h.used
             /\ cx' = Zeroed(cx, cx.based)
             /\ q' = {} /\ cmd' = Purged(cmd)
             /\ h' = done(a) /\ rec' = [rec EXCEPT !.pc = "reopen"]
             /\ UNCHANGED <<hs, tx, fw, faults>>
    /\ UNCHANGED <<ev, bt, pm>>

\* esp_sdio_handshake_slave_reset up to its wait: the answer is cleared, the
\* generation written, and then the interrupt raised.
NextGen == IF cx.gen = 3 THEN 1 ELSE cx.gen + 1
Handshake(bit) ==
    /\ cx' = [cx EXCEPT !.gen = NextGen]
    /\ fw' = [fw EXCEPT !.gen = NextGen, !.done = 0, !.bits = @ \cup {bit}]
Acked == FwUp /\ fw.done = cx.gen
NoAck(bit) == fw.run = "down" \/ (~Acked /\ fw.run = "up" /\ bit \notin fw.bits)

\* The acknowledged in-band restart: a counted CLOSE
RecSoft ==
    /\ rec.pc = "soft" /\ ~Closed(h)
    /\ \/ /\ IF FwUp THEN Fault("bus") ELSE UNCHANGED faults
          /\ RecFails(h) /\ UNCHANGED <<cx, fw>>
       \/ /\ FwUp /\ ~MayArm(h)
          /\ RecFails(BudgetSync(h)) /\ UNCHANGED <<cx, fw, faults>>
       \/ /\ FwUp /\ MayArm(h) /\ Handshake("CLOSE")
          /\ h' = [BudgetSync(h) EXCEPT !.tries = @ + 1]
          /\ rec' = [rec EXCEPT !.pc = "softwait"]
          /\ UNCHANGED <<hs, faults>>
    /\ UNCHANGED <<q, cmd, tx, ev, bt, pm>>

\* Acknowledged: the cursors start at zero with the firmware to come.
RecSoftAck ==
    /\ rec.pc = "softwait" /\ ~Closed(h) /\ Acked
    /\ h' = [h EXCEPT !.fl = (@ \ {"NEED"}) \cup {"EXP"}, !.rebase = TRUE]
    /\ cx' = Zeroed(cx, "next")
    /\ q' = {} /\ cmd' = Purged(cmd)
    /\ rec' = [rec EXCEPT !.pc = "reboot"]
    /\ UNCHANGED <<tx, hs, ev, bt, pm, fw, faults>>
RecSoftTimeout ==
    /\ rec.pc = "softwait" /\ ~Closed(h)
    /\ IF NoAck("CLOSE") THEN UNCHANGED faults ELSE Fault("ack")
    /\ RecFails(h)
    /\ UNCHANGED <<cx, q, cmd, tx, ev, bt, pm, fw>>

\* esp_sdio_wait_reenable_after_reboot, or esp_sdio_reenable_func after a
\* hard reset, then esp_sdio_open_and_poll. 250 ms after an acknowledgement
\* the old firmware no longer answers.
RecReopen ==
    /\ rec.pc \in {"reboot", "reopen"} /\ ~Closed(h)
    /\ \/ /\ IF fw.run = "up" THEN Fault("bus") ELSE fw.run = "down" /\ Fault("late")
          /\ RecFails(h) /\ UNCHANGED <<cx, fw>>
       \/ /\ fw.run = "up"
          /\ RecOpened(h)
          /\ cx' = [cx EXCEPT !.rxw = TRUE]
          /\ UNCHANGED faults
    /\ UNCHANGED <<q, cmd, tx, ev, bt, pm>>

RecTo(pc) == rec' = [rec EXCEPT !.pc = pc] /\ UNCHANGED hs

\* No reset claimed: re-enable the function and find out what is needed.
RecResyncDown ==
    /\ rec.pc = "resync" /\ ~Closed(h)
    /\ IF FwUp THEN Fault("bus") ELSE UNCHANGED faults
    /\ RecTo("hard")
    /\ UNCHANGED <<h, cx, q, cmd, tx, ev, bt, pm, fw>>

\* A restart is still owed: go back through the acknowledged protocol.
RecResyncRestart ==
    /\ rec.pc = "resync" /\ ~Closed(h) /\ FwUp /\ Has(h, "NEED")
    /\ RecFails(IF MayArm(h) THEN Arm(h) ELSE BudgetSync(h))
    /\ UNCHANGED <<cx, q, cmd, tx, ev, bt, pm, fw, faults>>

\* An ambiguous data write: ask the slave to reset its link.
RecResyncSlave ==
    /\ rec.pc = "resync" /\ ~Closed(h) /\ FwUp
    /\ {"NEED", "EXP"} \cap h.fl = {} /\ h.rst
    /\ h' = [h EXCEPT !.rst = FALSE]
    /\ Handshake("RESET") /\ RecTo("rstwait")
    /\ UNCHANGED <<q, cmd, tx, ev, bt, pm, faults>>
RecSlaveDone ==
    /\ rec.pc = "rstwait" /\ ~Closed(h) /\ (Acked \/ NoAck("RESET"))
    /\ IF Acked
       THEN /\ cx' = [Baselined(cx) EXCEPT !.rxw = TRUE] /\ tx' = NoEpoch(tx)
            /\ q' = {} /\ cmd' = Purged(cmd)
            /\ IF Has(h, "INIT")
               THEN /\ h' = [BaseFlags(h) EXCEPT !.st = "RDY"]
                    /\ rec' = [rec EXCEPT !.pc = "live"] /\ hs' = "none"
                    /\ UNCHANGED fw
               ELSE RecOpened(BaseFlags(h))
       ELSE RecTo("hard") /\ UNCHANGED <<h, cx, tx, q, cmd, fw>>
    /\ UNCHANGED <<ev, bt, pm, faults>>

\* Mutant: the counters are rebased although a reset is expected.
RecResyncRebase ==
    /\ rec.pc = "resync" /\ ~Closed(h) /\ FwUp /\ ~Has(h, "NEED")
    /\ Has(h, "EXP") \/ (~h.rst /\ h.rebase)
    /\ cx' = [Baselined(cx) EXCEPT !.rxw = TRUE] /\ tx' = NoEpoch(tx)
    /\ q' = {} /\ cmd' = Purged(cmd)
    /\ RecOpened([h EXCEPT !.fl = @ \cup {"EXP"}, !.rebase = FALSE, !.rst = FALSE])
    /\ UNCHANGED <<ev, bt, pm, faults>>

\* A restarted firmware is expected: OPEN, without moving the cursor if the
\* boot event may already be there.
RecResyncOpen ==
    /\ rec.pc = "resync" /\ ~Closed(h) /\ FwUp /\ ~Has(h, "NEED")
    /\ Has(h, "EXP") \/ (~h.rst /\ h.rebase)
    /\ IF Has(h, "EXP")
       THEN cx' = [cx EXCEPT !.rxw = TRUE] /\ UNCHANGED <<tx, q, cmd>>
       ELSE /\ cx' = [Baselined(cx) EXCEPT !.rxw = TRUE] /\ tx' = NoEpoch(tx)
            /\ q' = {} /\ cmd' = Purged(cmd)
    /\ RecOpened([h EXCEPT !.fl = @ \cup {"EXP"}, !.rebase = FALSE, !.rst = FALSE])
    /\ UNCHANGED <<ev, bt, pm, faults>>

\* Otherwise PACKET_LEN tells: a live session is kept, with OPEN as a probe.
RecResyncLive ==
    /\ rec.pc = "resync" /\ ~Closed(h) /\ FwUp
    /\ {"NEED", "EXP"} \cap h.fl = {} /\ ~h.rst /\ ~h.rebase
    /\ IF RxDelta > Aggr \/ ~Has(h, "INIT")
       THEN /\ RecOpened([h EXCEPT !.fl = IF RxDelta > Aggr THEN @ \cup {"EXP"} ELSE @])
            /\ cx' = [cx EXCEPT !.rxw = TRUE]
       ELSE /\ fw' = [fw EXCEPT !.bits = @ \cup {"OPEN"}]
            /\ cx' = [cx EXCEPT !.buf = 0, !.rxw = TRUE]
            /\ h' = [h EXCEPT !.st = "RDY"]
            /\ rec' = [rec EXCEPT !.pc = "live"] /\ hs' = "none"
    /\ UNCHANGED <<q, cmd, tx, ev, bt, pm, faults>>

\* esp_fw_recovery_work, after a return of 1
RecLive ==
    /\ rec.pc = "live"
    /\ h' = CASE "rec" \in h.dirty -> h
              [] "rec" \notin h.dirty /\ Has(h, "EXP") -> [h EXCEPT !.work = TRUE]
              [] OTHER -> [h EXCEPT !.fl = @ \ {"PEND"}]
    /\ RecIdle
    /\ UNCHANGED <<cx, q, cmd, tx, hs, ev, bt, pm, fw, faults>>

\* The device is being removed: every stage returns -ESHUTDOWN.
RecAbort ==
    /\ rec.pc \notin {"idle", "live"} /\ Closed(h)
    /\ RecIdle /\ hs' = IF hs = "rec" THEN "none" ELSE hs
    /\ UNCHANGED <<h, cx, q, cmd, tx, ev, bt, pm, fw, faults>>

-----------------------------------------------------------------------------
(* Host: the boot-event handler (host/main.c) with its SDIO hooks           *)

\* process_event_esp_bootup; esp_sdio_quiesce_for_fw_reset stops the TX
\* thread, which abandons its aggregate, and empties the queues.
BootStart ==
    /\ bt = "idle" /\ ev /\ rec.pc = "idle" /\ ~Closed(h)
    /\ ev' = FALSE
    /\ LET a == [h EXCEPT !.work = FALSE, !.fl = @ \ {"INIT", "NEED"}]
           stopped == [a EXCEPT !.fl = @ \cup {"PEND", "CLEAN"}, !.st = "DIS"]
       IN IF {"INIT", "PEND", "EXP"} \cap h.fl # {}
          THEN /\ h' = IF tx.pc \in {"agg", "ready"} THEN Abandoned(stopped)
                       ELSE stopped
               /\ tx' = [TxIdle(tx) EXCEPT !.pc = "off"]
               /\ cx' = [cx EXCEPT !.sleep = FALSE, !.buf = 0, !.rxw = FALSE]
               /\ q' = {} /\ cmd' = FALSE
               /\ bt' = "reinit"
          ELSE /\ h' = [a EXCEPT !.fl = @ \cup {"RECON"}, !.st = "RDY",
                                 !.dirty = @ \ {"bt"}]
               /\ bt' = "build"
               /\ UNCHANGED <<tx, cx, q, cmd>>
    /\ UNCHANGED <<rec, hs, pm, fw, faults>>

BootFails(a) == h' = BootRetry([a EXCEPT !.fl = @ \ {"RECON"}]) /\ bt' = "idle"

\* esp_sdio_reinit_after_fw_reset, then esp_begin_reconstruction. The TX thread
\* has been stopped and the card removed since the last write; a firmware that
\* has not loaded its buffers again by then is a fault of its own.
BootReinit ==
    /\ bt = "reinit" /\ ~Closed(h)
    /\ \/ /\ IF FwUp THEN Fault("bus") ELSE UNCHANGED faults
          /\ BootFails(BaseFlags(h)) /\ UNCHANGED <<cx, tx>>
       \/ /\ FwUp
          /\ IF fw.held = 0 THEN UNCHANGED faults ELSE Fault("held")
          /\ cx' = Baselined(cx)
          /\ tx' = [NoEpoch(tx) EXCEPT !.pc = "idle"]
          /\ h' = [BaseFlags(h) EXCEPT !.fl = @ \cup {"RECON"}, !.st = "RDY",
                                       !.dirty = @ \ {"bt"}]
          /\ bt' = "build"
    /\ UNCHANGED <<q, cmd, rec, hs, ev, pm, fw>>

\* Commands are answered: the firmware runs its application, and nothing it
\* has published is out of the host's reach.
Answers == /\ fw.run = "up" /\ fw.app = "active" /\ ~fw.ps
           /\ fw.out = "none" \/ RxDelta = OutLen

\* esp_add_card and esp_commit_reconstruction: its commands need the firmware.
BootCommit ==
    /\ bt = "build" /\ ~Closed(h)
    /\ \/ /\ IF Answers THEN Fault("build") ELSE UNCHANGED faults
          /\ BootFails(h)
       \/ /\ Answers /\ rec.pc = "idle"
          /\ LET a == [h EXCEPT !.work = FALSE,
                                !.fl = (@ \cup {"INIT"}) \ {"RECON", "CLEAN"}]
             IN h' = IF "bt" \in h.dirty
                     THEN [a EXCEPT !.st = "RX", !.work = TRUE]
                     ELSE [a EXCEPT !.fl = @ \ {"PEND", "EXP", "NEED"}, !.st = "RDY"]
          /\ bt' = "publish"
          /\ UNCHANGED faults
    /\ UNCHANGED <<cx, q, cmd, tx, rec, hs, ev, pm, fw>>

\* Interfaces are published and esp_finish_reconstruction runs: a commit is a
\* new epoch for the reset intents. The backend hears of it one step later.
BootFinish ==
    /\ bt = "publish" /\ ~Closed(h)
    /\ \/ /\ Fault("build")
          /\ BootFails([h EXCEPT !.fl = (@ \cup {"CLEAN"}) \ {"INIT"}])
       \/ /\ IF Healthy(h)
             THEN /\ h' = [h EXCEPT !.att = 0, !.dl = FALSE, !.fl = @ \ {"EXH"},
                                    !.cur = FALSE, !.fresh = FALSE]
                  /\ bt' = "callback"
             ELSE bt' = "idle" /\ UNCHANGED h
          /\ UNCHANGED faults
    /\ UNCHANGED <<cx, q, cmd, tx, rec, hs, ev, pm, fw>>

\* esp_sdio_commit_fw_recovery
BootCallback ==
    /\ bt = "callback"
    /\ h' = CommitBudget(h) /\ bt' = "idle"
    /\ UNCHANGED <<cx, q, cmd, tx, rec, hs, ev, pm, fw, faults>>

BootAbort ==
    /\ Closed(h) /\ (ev \/ bt # "idle")
    /\ ev' = FALSE /\ bt' = "idle"
    /\ h' = IF bt = "callback" THEN CommitBudget(h) ELSE h
    /\ UNCHANGED <<cx, q, cmd, tx, rec, hs, pm, fw, faults>>

\* RCP, a command timeout or a user asks for a restart of the firmware.
RestartRequest ==
    /\ h.st # "OFF" /\ Fault("user")
    /\ h' = Quarantine(h)
    /\ UNCHANGED <<cx, q, cmd, tx, rec, hs, ev, bt, pm, fw>>

-----------------------------------------------------------------------------
(* Host: suspend and resume                                                 *)

\* esp_suspend: host_sleep stops TX and the IRQ; a second later both have
\* drained and the firmware is told, by a numbered handshake. A suspend in
\* the middle of a reconstruction is left out.
PmSuspend ==
    /\ pm = "awake" /\ hs = "none" /\ Fault("pm")
    /\ Healthy(h) /\ fw.out # "boot" /\ ~ev /\ bt = "idle"
    /\ hs' = "pm" /\ pm' = "drain"
    /\ cx' = [cx EXCEPT !.sleep = TRUE]
    /\ UNCHANGED <<h, q, cmd, tx, rec, ev, bt, fw>>

PmFails ==
    /\ cx' = [cx EXCEPT !.sleep = FALSE]
    /\ h' = Quarantine(h)
    /\ pm' = "awake" /\ hs' = "none"

PmSleep ==
    /\ pm = "drain" /\ tx.pc # "ready" /\ ~cx.rxw
    /\ IF FwUp
       THEN Handshake("PSON") /\ pm' = "onwait" /\ UNCHANGED <<h, hs>>
       ELSE PmFails /\ UNCHANGED fw
    /\ UNCHANGED <<q, cmd, tx, rec, ev, bt, faults>>

\* Acknowledged; unless the MMC host cannot keep the card powered.
PmAsleep ==
    /\ pm = "onwait" /\ Acked
    /\ \/ /\ pm' = "asleep" /\ hs' = "none" /\ UNCHANGED <<cx, fw, faults>>
       \/ /\ "keep_power" \in FaultKinds /\ pm' = "unwind" /\ UNCHANGED hs
          /\ faults' = [faults EXCEPT !.silent = TRUE]
          /\ cx' = [cx EXCEPT !.sleep = FALSE, !.gen = NextGen]
          /\ fw' = [fw EXCEPT !.gen = NextGen, !.done = 0, !.bits = @ \cup {"PSOFF"}]
    /\ UNCHANGED <<h, q, cmd, tx, rec, ev, bt>>

\* esp_resume
PmResume ==
    /\ pm = "asleep" /\ hs = "none"
    /\ IF FwUp
       THEN Handshake("PSOFF") /\ pm' = "offwait" /\ hs' = "pm" /\ UNCHANGED h
       ELSE PmFails /\ UNCHANGED fw
    /\ UNCHANGED <<q, cmd, tx, rec, ev, bt, faults>>
PmAwake ==
    /\ pm \in {"offwait", "unwind"} /\ Acked
    /\ IF pm = "unwind" THEN pm' = "awake" /\ hs' = "none"
       ELSE pm' = "baseline" /\ UNCHANGED hs
    /\ UNCHANGED <<h, cx, q, cmd, tx, rec, ev, bt, fw, faults>>
PmBaseline ==
    /\ pm = "baseline"
    /\ IF FwUp
       THEN /\ cx' = [Baselined(cx) EXCEPT !.sleep = FALSE]
            /\ h' = BaseFlags(h)
            /\ pm' = "awake" /\ hs' = "none"
       ELSE PmFails
    /\ tx' = NoEpoch(tx)
    /\ UNCHANGED <<q, cmd, rec, ev, bt, fw, faults>>

\* The handshake is not answered within its 500 ms. (A suspend counts as a
\* fault; how it goes wrong is not counted again.)
PmBit == IF pm = "onwait" THEN "PSON" ELSE "PSOFF"
PmTimeout ==
    /\ pm \in {"onwait", "offwait", "unwind"}
    /\ NoAck(PmBit) \/ "ack" \in FaultKinds
    /\ PmFails
    /\ UNCHANGED <<q, cmd, tx, rec, ev, bt, fw, faults>>

-----------------------------------------------------------------------------
(* Host: probe and remove                                                   *)

\* esp_remove publishes the removal, waits for the workers, ...
RemoveStart ==
    /\ h.st # "OFF" /\ ~Closed(h) /\ pm = "awake" /\ Fault("remove")
    /\ h' = [h EXCEPT !.fl = (@ \cup {"REMOVING", "CLEAN"}) \ {"INIT"},
                      !.st = "DIS", !.work = FALSE]
    /\ UNCHANGED <<cx, q, cmd, tx, rec, hs, ev, bt, pm, fw>>

\* ... stops the TX thread, asks the firmware to restart, and forgets every
\* intent of this binding.
RemoveEnd ==
    /\ Closed(h) /\ h.st = "DIS" /\ rec.pc = "idle" /\ bt = "idle" /\ ~ev
    /\ LET a == IF tx.pc \in {"agg", "ready"} THEN Abandoned(h) ELSE h
       IN h' = [a EXCEPT !.st = "OFF", !.rebase = FALSE, !.rst = FALSE,
                         !.hard = FALSE, !.soft = FALSE, !.noHard = FALSE,
                         !.fresh = FALSE, !.tries = 0, !.work = FALSE]
    /\ tx' = [TxIdle(tx) EXCEPT !.pc = "off", !.valid = FALSE]
    /\ cx' = [Zeroed(cx, "old") EXCEPT !.rxw = FALSE]
    /\ q' = {} /\ cmd' = FALSE
    /\ fw' = IF FwUp THEN [fw EXCEPT !.bits = @ \cup {"CLOSE"}] ELSE fw
    /\ UNCHANGED <<rec, hs, ev, bt, pm, faults>>

\* esp_reset_boot_recovery_for_binding: only an attempt still awaiting its
\* boot survives a rebinding.
Rebound(a) ==
    LET b == [a EXCEPT !.fl = @ \ {"REMOVING"}, !.st = "RX"] IN
    IF a.dl /\ Has(a, "EXP") /\ ~Has(a, "EXH") THEN b
    ELSE [b EXCEPT !.att = 0, !.dl = FALSE, !.fl = {}]

\* init_sdio_func, init_context and esp_probe: the credits are baselined, the
\* read cursor starts at zero so that a boot event already published is not
\* skipped, and OPEN is written. If either fails the firmware is restarted.
Probe ==
    /\ h.st = "OFF" /\ fw.run = "up" /\ "CLOSE" \notin fw.bits
    /\ tx' = [tx EXCEPT !.pc = "idle"]
    /\ \/ /\ Fault("bus")
          /\ cx' = Zeroed(cx, "old")
          /\ h' = Quarantine(Rebound(h)) /\ UNCHANGED fw
       \/ /\ cx' = [Zeroed(cx, "cur") EXCEPT !.tx = TxBase(fw.tok)]
          /\ h' = [Rebound(h) EXCEPT !.work = TRUE]
          /\ fw' = [fw EXCEPT !.bits = @ \cup {"OPEN"}]
          /\ UNCHANGED faults
    /\ UNCHANGED <<q, cmd, rec, hs, ev, bt, pm>>

-----------------------------------------------------------------------------
(* Specification                                                            *)

HostRec ==
    [fl : SUBSET Flags, st : {"OFF", "DIS", "RX", "RDY"},
     dirty : SUBSET {"rec", "bt"}, work : BOOLEAN, dl : BOOLEAN,
     att : 0..MaxAttempts, used : BOOLEAN, hard : BOOLEAN, soft : BOOLEAN,
     cur : BOOLEAN, tries : 0..MaxAttempts, fresh : BOOLEAN, rebase : BOOLEAN,
     rst : BOOLEAN, noHard : BOOLEAN, full : FullChip]
CursorRec ==
    [rx : 0..(RxMax - 1), tx : 0..(TxMax - 1), buf : 0..MaxBuf, pend : BOOLEAN,
     retry : 0..RetryMax, rxw : BOOLEAN, sleep : BOOLEAN, gen : Gens, based : Rel]
ThreadRec ==
    [pc : {"off", "idle", "agg", "ready"}, set : SUBSET Kinds, valid : BOOLEAN,
     resv : BOOLEAN, for : Rel, n : 0..MaxFrames]
RecoveryRec ==
    [pc : {"idle", "lock", "barrier", "hard", "soft", "softwait", "reboot",
           "reopen", "resync", "rstwait", "live"},
     claim : {"none", "stale", "hard", "soft"}]
SlaveRec ==
    [run : {"up", "acked", "down"}, app : {"wait", "boot", "active"},
     bits : SUBSET FwBits, plen : 0..(RxMax - 1), out : {"none", "boot", "data"},
     irq : BOOLEAN, tok : 0..(TxMax - 1), held : 0..MaxBuf, ps : BOOLEAN,
     gen : Gens \cup {0}, done : Gens \cup {0}, fed : BOOLEAN]

TypeOK ==
    /\ h \in HostRec /\ cx \in CursorRec /\ tx \in ThreadRec
    /\ rec \in RecoveryRec /\ fw \in SlaveRec
    /\ q \subseteq Kinds /\ cmd \in BOOLEAN /\ ev \in BOOLEAN
    /\ hs \in {"none", "rec", "pm"}
    /\ bt \in {"idle", "reinit", "build", "publish", "callback"}
    /\ pm \in {"awake", "drain", "onwait", "asleep", "offwait", "unwind", "baseline"}
    /\ faults \in [n : 0..MaxFaults, silent : BOOLEAN]

\* The driver is loaded; the firmware is fresh, or still in the session of a
\* host that went away without closing it.
Init ==
    /\ \E f \in FullChip :
       h = [fl |-> {}, st |-> "OFF", dirty |-> {}, work |-> FALSE, dl |-> FALSE,
            att |-> 0, used |-> FALSE, hard |-> FALSE, soft |-> FALSE,
            cur |-> TRUE, tries |-> 0, fresh |-> TRUE, rebase |-> FALSE,
            rst |-> FALSE, noHard |-> FALSE, full |-> f]
    /\ cx = [rx |-> 0, tx |-> 0, buf |-> 0, pend |-> FALSE, retry |-> 0,
             rxw |-> FALSE, sleep |-> FALSE, gen |-> 1, based |-> "old"]
    /\ q = {} /\ cmd = FALSE
    /\ tx = [pc |-> "off", set |-> {}, valid |-> FALSE, resv |-> FALSE,
             for |-> "old", n |-> 0]
    /\ rec = [pc |-> "idle", claim |-> "none"]
    /\ hs = "none" /\ ev = FALSE /\ bt = "idle" /\ pm = "awake"
    /\ fw \in {[run |-> "up", app |-> "wait", bits |-> {}, plen |-> 0,
                out |-> "none", irq |-> FALSE, tok |-> MaxBuf, held |-> 0,
                ps |-> FALSE, gen |-> 0, done |-> 0, fed |-> FALSE],
               [run |-> "up", app |-> "active", bits |-> {}, plen |-> RxMax - 1,
                out |-> "none", irq |-> FALSE, tok |-> TxMax - 1, held |-> 0,
                ps |-> FALSE, gen |-> 0, done |-> 0, fed |-> FALSE]}
    /\ faults = [n |-> 0, silent |-> FALSE]

Firmware == \/ FwInit \/ FwClose \/ FwRestart \/ FwReset \/ FwOpen \/ FwBoot
            \/ FwReload \/ \E b \in {"PSON", "PSOFF"} : FwPowerSave(b)
TxThread == TxBuild \/ TxCredit \/ TxCreditError \/ TxGiveUp \/ TxWrite \/ TxWriteError
RxWork == Isr \/ RxLenError \/ RxReset \/ RxNothing \/ ReadPacket
Recovery == \/ RecGate \/ RecExpire \/ RecClaim \/ RecBarrier \/ RecHard
            \/ RecSoft \/ RecSoftAck \/ RecSoftTimeout \/ RecReopen
            \/ RecResyncDown \/ RecResyncRestart \/ RecResyncSlave
            \/ RecSlaveDone \/ RecResyncOpen \/ RecResyncLive \/ RecLive
            \/ RecAbort
BootHandler == \/ BootStart \/ BootReinit \/ BootCommit \/ BootFinish
               \/ BootCallback \/ BootAbort
PowerManagement == \/ PmSleep \/ PmAsleep \/ PmResume \/ PmAwake
                   \/ PmBaseline \/ PmTimeout

Environment == \/ (\E k \in Kinds : WritePacket(k)) \/ CmdEnds \/ FlushTraffic
             \/ IsrError \/ ReadError \/ RestartRequest
             \/ PmSuspend \/ RemoveStart

Next == \/ Firmware \/ FwSend \/ FwCrash
        \/ PowerManagement \/ RemoveEnd \/ Probe
        \/ Environment \/ TxThread \/ RxWork \/ Recovery \/ BootHandler

\* Threads, work items and the firmware's tasks run when they can; so does the
\* resume of a suspended system, for which the handshake mutex is handed over.
\* Nothing else has to happen.
Fairness ==
    /\ WF_vars(Firmware) /\ WF_vars(FwBoot) /\ SF_vars(PowerManagement)
    /\ WF_vars(TxThread) /\ WF_vars(RxWork)
    /\ WF_vars(Recovery) /\ SF_vars(BootHandler)
    /\ WF_vars(RemoveEnd) /\ WF_vars(Probe)
    /\ SF_vars(Stuck /\ RecExpire)

Spec == Init /\ [][Next]_vars /\ Fairness

-----------------------------------------------------------------------------
(* Properties                                                               *)

\* While TX is open, the credits the host holds, cached or reserved for the
\* aggregate it is about to write, and those it would read from TOKEN next, are
\* buffers the slave has free, also across a wrap: no baseline,
\* failed write or resynchronisation of esp_sdio.c invents a credit. (A write
\* of unknown outcome closes TX, except in a reconstruction, which keeps it
\* open until its commit sees the request.)
CreditsReal ==
    /\ cx.based = "cur" /\ h.st = "RDY"
    /\ ~(Has(h, "RECON") /\ "bt" \in h.dirty)
    => /\ cx.buf + (IF tx.resv /\ tx.valid /\ tx.for = "cur" THEN 1 ELSE 0) <= Free
       /\ fw.run = "up" => Credits(fw.tok, cx.tx) <= Free

\* The session that published the boot event has been told to restart.
Doomed == fw.run # "up" \/ {"CLOSE", "RESET"} \cap fw.bits # {}

\* The read cursor never passes a boot event nobody has read: neither a
\* baseline nor a second zeroing of the cursor loses the only publication of
\* a new firmware session (hard_reset_and_reopen, recover_transport_inner).
BootEventReachable ==
    fw.out = "boot" /\ cx.based = "cur" => RxDelta = BootLen \/ Doomed

\* A boot event that is published where the cursor expects it stays reachable
\* until it is read: no rebase, OPEN retry or repeated hard reset of the
\* recovery worker, and no probe, moves the cursor past it. (The baselines of
\* a resume, and of a boot handler working on an older boot event, do; the
\* commands of that handler then time out and it asks for a restart.)
BootEventKept ==
    [][fw.out = "boot" /\ fw'.out = "boot" /\ pm # "baseline" /\ bt # "reinit"
        /\ BootEventReachable => BootEventReachable']_vars

\* An acknowledged CLOSE means a restart: once the recovery worker has seen
\* RESET_DONE for its generation, that firmware is on its way to esp_restart
\* and answers nothing else, or it has restarted and been asked for nothing
\* since: RESET_DONE is shared by CLOSE, ESP_RESET and the power-save requests,
\* and no other request comes between the CLOSE and its answer.
AckMeansRestart == rec.pc = "reboot" => fw.run = "acked" \/ fw.gen = 0

\* Why: who is in a handshake holds its mutex, and while the CLOSE is not
\* answered only its own answer can make RESET_DONE non-zero.
HandshakeInv ==
    /\ pm \in {"drain", "onwait", "offwait", "unwind", "baseline"} => hs = "pm"
    /\ rec.pc \notin {"idle", "lock", "live"} => hs = "rec"
    /\ fw.gen = 0 => fw.done = 0
    /\ rec.pc = "softwait" =>
         fw.gen = 0 \/ ("CLOSE" \in fw.bits /\ (fw.done = 0 \/ fw.run = "acked"))
    /\ AckMeansRestart

\* A command or HCI frame handed over in one firmware session never reaches
\* the next one once the host has based its counters on it (tx_epoch).
NoStaleTx ==
    [][fw'.held > fw.held => tx.for = "cur" \/ cx.based # "cur"]_vars

\* The recovery worker carries no reset across a commit: whatever commits
\* before it claims an intent, passes the TX barrier, or power-cycles or CLOSEs
\* the firmware, none of its steps takes a healthy session down, and it goes
\* for a reset only if that was asked for since the last commit
\* (esp_sdio_claim_reset_locked, "the reset linearization point").
NoStaleReset ==
    [][rec' # rec =>
         /\ Healthy(h) => Healthy(h') /\ (rec.pc \in {"hard", "soft"} => fw' = fw)
         /\ rec'.claim \in {"hard", "soft"} => h.cur]_vars

\* Why: a recovery pass begins on a session that is not healthy, and only a
\* commit, which waits for the worker, or the end of the pass makes it so.
PassInv ==
    /\ rec.pc \notin {"idle", "live"} => ~Healthy(h)
    /\ rec.pc # "barrier" => rec.claim = "none"

\* A recovery that has begun ends in a committed session, unless the reset
\* budget is exhausted or the device is removed. (Excepted is a restart of the
\* counters the host does not know of: a crash of the firmware, a suspend undone
\* for want of MMC_PM_KEEP_POWER, or a recovery pass between esp_suspend and the
\* sleep. No boot deadline is armed then, and the old cursor hides what is
\* published.)
Recovers ==
    (h.fl \cap {"PEND", "EXP"} # {}) ~> (Healthy(h) \/ Has(h, "EXH") \/ Closed(h) \/ faults.silent)

=============================================================================
