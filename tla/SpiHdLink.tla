----------------------------- MODULE SpiHdLink -----------------------------
(***************************************************************************)
(* The SPI half-duplex link: the host transport (host/spi_hd/esp_spi_hd.c) *)
(* against the firmware's slave (main/spi_hd_slave_api.c). The host reads  *)
(* and writes shared registers: SLAVE_READY and SLAVE_CTRL for the opening *)
(* handshake, TX_BUF_LEN (bytes published) and RX_BUF_LEN (descriptors     *)
(* armed) as cumulative counters. No transaction is acknowledged: after an *)
(* error the host has to decide from the counters alone whether the        *)
(* session can be kept. On the host run concurrently                        *)
(*   wk    spihd_work, the only user of the data phase                      *)
(*   rec   fw_recovery_work         bt    the boot-event handler            *)
(* and any context may ask for a reset, which runs in the caller.          *)
(***************************************************************************)
EXTENDS Integers, Sequences

CONSTANTS
    RxMod,       \* TX_BUF_LEN counts bytes modulo this (2^24)
    RxLimit,     \* spihd_rx_limit, the negotiated largest publication
    CrMod,       \* RX_BUF_LEN counts descriptors modulo this (2^32)
    Slots,       \* SPI_HD_RX_QUEUE_SIZE: descriptors of the firmware
    LiveMax,     \* SPIHD_LIVE_CREDIT_MAX
    MaxAttempts, \* ESP_FW_BOOT_MAX_ATTEMPTS
    AppendModes, \* whether firmware and host may use append DMA
    MaxFrames,   \* bound: frames handed to write_packet
    MaxFaults,   \* bound: faults and user requests of the environment
    FaultKinds   \* which of them may occur

BootLen == 2     \* the boot event is longer than a data frame
DataLen == 1
Segs(k) == IF k = "cmd" THEN 1 ELSE 2    \* segments of a frame

ASSUME CounterAssumption ==
    /\ RxMod \in Nat /\ RxLimit \in Nat /\ RxLimit >= BootLen
    /\ RxMod > RxLimit + BootLen
    /\ CrMod \in Nat /\ Slots \in Nat \ {0} /\ LiveMax \in Nat
    /\ LiveMax >= Slots /\ CrMod > 2 * LiveMax
ASSUME BoundAssumption ==
    /\ MaxAttempts \in Nat \ {0} /\ MaxFrames \in Nat /\ MaxFaults \in Nat
    /\ AppendModes \in SUBSET BOOLEAN

VARIABLES
    h,      \* adapter flags, shared by every host context
    cx,     \* struct esp_spi_hd: counters, in-flight marks, gates
    wk,     \* the transport worker
    q,      \* frames in the priority queues: at most one of each kind
    rec,    \* control of the recovery worker
    ev,     \* a boot event waits in rx_q, or in events_skb_q
    bt,     \* control of the boot-event handler
    fw,     \* the firmware's slave, its registers included
    env     \* frames and faults so far

vars == <<h, cx, wk, q, rec, ev, bt, fw, env>>

Flags == {"INIT", "PEND", "EXP", "NEED", "EXH", "CLEAN", "RECON", "REMOVING"}
Kinds == {"cmd", "hci"}
Answers == {"cmd", "old"}    \* to the current command, or to anything before it

-----------------------------------------------------------------------------
(* Shared recovery policy (host/main.c), on the record h                    *)

Has(a, f) == f \in a.fl
Closed(a) == Has(a, "REMOVING")
Healthy(a) == Has(a, "INIT") /\ {"PEND", "EXP"} \cap a.fl = {}

\* esp_schedule_recovery. "dirty" are the snapshots of fw_recovery_gen that
\* are out of date.
SchedRecovery(a, reset) ==
    IF Closed(a) THEN a
    ELSE [a EXCEPT
            !.fl = @ \cup {"PEND"} \cup (IF reset THEN {"EXP"} ELSE {}),
            !.dirty = {"rec", "bt"},
            !.st = IF @ = "RDY" /\ ~Has(a, "RECON") THEN "RX" ELSE @,
            !.work = TRUE]

\* esp_request_firmware_restart: coalesced while a boot deadline is armed,
\* else the caller enters reset_target.
RequestRestart(a, who) ==
    CASE a.dl -> a
      [] ~a.dl /\ (Has(a, "EXH") \/ a.att >= MaxAttempts) ->
            [a EXCEPT !.fl = @ \cup {"EXH"}]
      [] OTHER -> [a EXCEPT !.att = @ + 1, !.dl = TRUE, !.rst = who,
                            !.fl = @ \cup {"NEED"}]
Quarantine(a, who) == RequestRestart(SchedRecovery(a, TRUE), who)

\* esp_bootup_request_retry
BootRetry(a, who) ==
    IF Closed(a) THEN a
    ELSE Quarantine([a EXCEPT !.fl = @ \ {"CLEAN"}], who)

-----------------------------------------------------------------------------
(* Registers and counters                                                   *)

\* The s32 difference of two counters
Signed(a, b) == LET d == (a + CrMod - b) % CrMod IN
                IF 2 * d >= CrMod THEN d - CrMod ELSE d
CreditDelta == Signed(fw.arm, cx.sent)
PendingBytes == (fw.pub + RxMod - cx.rd) % RxMod
CreditReal(d) == d \in 1..LiveMax

\* What the firmware really received from the host, and was read of
OutLen == CASE fw.out = "boot" -> BootLen [] fw.out \in Answers -> DataLen [] OTHER -> 0
Received == (fw.arm + CrMod - Slots + Len(fw.held)) % CrMod
Consumed == (fw.pub + RxMod - OutLen) % RxMod

Rebased(c) == [c EXCEPT !.rd = 0, !.sent = 0, !.lim = 0, !.txf = FALSE, !.rxf = FALSE,
                         !.quad = FALSE]

Fault(k) == /\ k \in FaultKinds /\ env.faults < MaxFaults
            /\ env' = [env EXCEPT !.faults = @ + 1]

\* spihd_sync_transfer: the controller refuses or fails a register message.
BusFails == Fault("bus")

-----------------------------------------------------------------------------
(* Firmware                                                                 *)

\* A restart: tasks, queues and descriptors are gone, and data-ready falls.
\* The shared registers stay readable until esp_spi_hd_init clears them.
\* External: what a reset of the chip leaves.
Restarted(f) == [f EXCEPT !.run = "down", !.app = "wait", !.out = "none",
                          !.dr = FALSE, !.held = <<>>, !.part = FALSE,
                          !.fed = {}, !.same = FALSE]

\* esp_spi_hd_init: registers are zeroed, SLAVE_READY is published last.
FwInit ==
    /\ fw.run = "down"
    /\ fw' = [fw EXCEPT !.run = "up", !.rdy = TRUE, !.ctrl = FALSE, !.pub = 0,
                        !.arm = 0, !.reset = FALSE, !.unmarked = FALSE]
    /\ UNCHANGED <<h, cx, wk, q, rec, ev, bt, env>>

\* spi_hd_rx_task: the host has written DATAPATH_ON; every descriptor is
\* armed and app_main is released.
FwOpen ==
    /\ fw.run = "up" /\ fw.app = "wait" /\ fw.ctrl
    /\ fw' = [fw EXCEPT !.app = "boot", !.arm = Slots]
    /\ UNCHANGED <<h, cx, wk, q, rec, ev, bt, env>>

\* spi_hd_cb_tx_ready: count, publish and raise data-ready; only an edge
\* interrupts the host (spihd_data_ready_irq).
Publish(kind, len) ==
    /\ fw.run = "up" /\ fw.out = "none"
    /\ fw' = [fw EXCEPT !.pub = (@ + len) % RxMod, !.out = kind, !.dr = TRUE,
                        !.app = "active", !.fed = @ \ {kind}]
    /\ cx' = [cx EXCEPT !.wq = @ \/ (cx.run /\ ~fw.dr)]
    /\ UNCHANGED <<h, wk, q, rec, ev, bt, env>>

\* send_bootup_event_to_host
FwBoot == fw.app = "boot" /\ Publish("boot", BootLen)

\* esp_spi_hd_write: here the firmware answers what it receives.
FwSend == fw.app = "active" /\ \E a \in fw.fed : Publish(a, DataLen)

\* spi_hd_transport_fatal: SLAVE_READY is cleared and the firmware restarts.
Fatal(f) == [Restarted(f) EXCEPT !.rdy = FALSE]

\* spi_hd_consume_segment: a segment that starts a frame while another is
\* incomplete, or continues none, makes no frame.
Misfit(s) == fw.part # (s = "last")    \* a whole frame is "cmd" or "old"

\* A complete frame is validated and queued for the processing task.
Delivered(s) == CASE s = "first" -> {} [] s = "last" -> {"old"} [] OTHER -> {s}

\* spi_hd_queue_dma and spi_hd_cb_rx_ready: a descriptor is armed and counted.
Rearmed(f) == [f EXCEPT !.arm = (@ + 1) % CrMod]

\* spi_hd_rx_task
FwProcess ==
    /\ fw.run = "up" /\ fw.held # <<>>
    /\ LET s == Head(fw.held) IN
       fw' = IF Misfit(s) THEN Fatal(fw)
             ELSE [Rearmed(fw) EXCEPT !.held = Tail(@), !.part = (s = "first"),
                                      !.fed = @ \cup Delivered(s)]
    /\ UNCHANGED <<h, cx, wk, q, rec, ev, bt, env>>

\* A crash of the running firmware leaves SLAVE_READY as it was.
FwCrash ==
    /\ fw.run = "up" /\ fw.app = "active" /\ Fault("crash")
    /\ fw' = Restarted(fw)
    /\ UNCHANGED <<h, cx, wk, q, rec, ev, bt>>

-----------------------------------------------------------------------------
(* Host: queues                                                             *)

\* spihd_write_packet. While the boot handler waits for its first command it
\* owns the mailbox, and the Bluetooth device is not registered.
WritePacket(k) ==
    /\ h.st = "RDY" /\ cx.path /\ cx.run /\ (Has(h, "CLEAN") => Has(h, "RECON"))
    /\ k \notin q /\ env.frames < MaxFrames
    /\ bt \in {"idle", "publish"}
    /\ env' = [env EXCEPT !.frames = @ + 1]
    /\ q' = q \cup {k}
    /\ cx' = [cx EXCEPT !.wq = TRUE]
    /\ UNCHANGED <<h, wk, rec, ev, bt, fw>>

\* spihd_flush_bt_traffic: the worker is waited for, and queued again if
\* there is work left.
FlushBt ==
    /\ "hci" \in q /\ wk.pc = "idle" /\ Fault("flush")
    /\ q' = q \ {"hci"}
    /\ cx' = [cx EXCEPT !.wq = cx.run /\ cx.path /\ (fw.dr \/ "cmd" \in q)]
    /\ UNCHANGED <<h, wk, rec, ev, bt, fw>>

-----------------------------------------------------------------------------
(* Host: spihd_work, with quotas of one frame in each direction             *)

\* spihd_live_recovery_pending
LivePending == /\ h.st # "RDY" /\ Has(h, "INIT") /\ Has(h, "PEND") /\ ~Has(h, "EXP")
Stopped == ~cx.run \/ cx.sync \/ LivePending

WkIdle == [wk EXCEPT !.pc = "idle", !.len = 0, !.k = "none", !.left = 0, !.prog = FALSE]
Unmoved == UNCHANGED <<q, rec, ev, bt, fw>>

WkStart ==
    /\ wk.pc = "idle" /\ cx.wq
    /\ cx' = [cx EXCEPT !.wq = FALSE]
    /\ wk' = IF Stopped THEN wk ELSE [wk EXCEPT !.pc = "rx", !.prog = FALSE]
    /\ UNCHANGED <<h, env>> /\ Unmoved

WkStop ==
    /\ wk.pc \in {"rx", "tx"}
    /\ Stopped
    /\ wk' = WkIdle
    /\ UNCHANGED <<h, cx, env>> /\ Unmoved

\* A failed receive or transmit: the worker asks for recovery and returns.
WkFails == h' = SchedRecovery(h, FALSE) /\ wk' = WkIdle

\* spihd_receive_one up to the data phase: TX_BUF_LEN, and the INT1 that
\* lowers data-ready where the firmware has a CMD9 handler.
Acked(f) == IF cx.append THEN f ELSE [f EXCEPT !.dr = FALSE]
WkSample ==
    /\ wk.pc = "rx" /\ ~Stopped
    /\ \/ /\ ~fw.dr
          /\ wk' = [wk EXCEPT !.pc = "tx"] /\ UNCHANGED <<h, fw, env>>
       \/ /\ fw.dr /\ BusFails /\ WkFails /\ UNCHANGED fw
       \/ /\ fw.dr /\ PendingBytes = 0
          /\ wk' = [wk EXCEPT !.pc = "tx"] /\ fw' = Acked(fw) /\ UNCHANGED <<h, env>>
       \/ /\ fw.dr /\ PendingBytes > RxLimit
          /\ WkFails /\ fw' = Acked(fw) /\ UNCHANGED env
       \/ /\ fw.dr /\ PendingBytes \in 1..RxLimit /\ Fault("alloc")
          /\ WkFails /\ fw' = Acked(fw)
       \/ /\ fw.dr /\ PendingBytes \in 1..RxLimit
          /\ wk' = [wk EXCEPT !.pc = "rd", !.len = PendingBytes]
          /\ fw' = Acked(fw) /\ UNCHANGED <<h, env>>
    /\ UNCHANGED <<cx, q, rec, ev, bt>>

\* spihd_enhanced_xfer_lines: a transaction the SPI core reports as failed may
\* have reached the device or not.
Partly(before, after) == {before, after}

\* The firmware's side of a data phase: the descriptor is done, and in append
\* mode its completion lowers data-ready.
Drained(f) == [f EXCEPT !.out = "none", !.dr = FALSE]
\* spihd_rddma and spihd_process_rx_batch: the bytes are the frame only if
\* the cursor agrees with the firmware; anything else is a malformed batch.
WkRead ==
    /\ wk.pc = "rd" /\ fw.run = "up" /\ wk.len = OutLen
    /\ cx' = [cx EXCEPT !.rd = (@ + wk.len) % RxMod, !.rxf = FALSE]
    /\ fw' = Drained(fw)
    /\ bt' = IF fw.out = "cmd" /\ bt = "wait" THEN "answered" ELSE bt
    /\ LET widen == fw.out = "boot" /\ ~cx.quad IN
       /\ wk' = [wk EXCEPT !.pc = IF widen THEN "qio" ELSE "tx", !.len = 0, !.prog = TRUE]
       /\ ev' = IF fw.out = "boot" /\ ~widen THEN "rxq" ELSE ev
    /\ UNCHANGED <<h, q, rec, env>>

\* DATAPATH_ON in SLAVE_CTRL
Opened(f) == [f EXCEPT !.ctrl = TRUE]

\* spihd_receive_one on a boot event: where the wiring allows it, DATAPATH_ON
\* is written again over four lines; the event is delivered in any case.
WkQio ==
    /\ wk.pc = "qio"
    /\ \/ UNCHANGED <<cx, fw, env>>
       \/ cx' = [cx EXCEPT !.quad = TRUE] /\ fw' = Opened(fw) /\ UNCHANGED env
       \/ BusFails /\ fw' \in Partly(fw, Opened(fw)) /\ UNCHANGED cx
    /\ wk' = [wk EXCEPT !.pc = "tx"] /\ ev' = "rxq"
    /\ UNCHANGED <<h, q, rec, bt>>
WkMalformed ==
    /\ wk.pc = "rd" /\ (fw.run = "down" \/ wk.len # OutLen)
    /\ cx' = [cx EXCEPT !.rd = (@ + wk.len) % RxMod, !.rxf = cx.append]
    /\ fw' = IF fw.run = "up" THEN Drained(fw) ELSE fw
    /\ WkFails
    /\ UNCHANGED <<q, rec, ev, bt, env>>
\* The controller fails after any prefix, or refuses the transfer outright; or
\* the batch was read and cannot be split for want of memory.
WkReadError ==
    /\ wk.pc = "rd"
    /\ \/ /\ Fault("rddma") /\ cx' = [cx EXCEPT !.rxf = TRUE]
          /\ fw' \in Partly(fw, Drained(fw))
       \/ /\ Fault("reject") /\ cx' = [cx EXCEPT !.rxf = FALSE]
          /\ UNCHANGED fw
       \/ /\ fw.run = "up" /\ wk.len = OutLen /\ Fault("alloc")
          /\ cx' = [cx EXCEPT !.rd = (@ + wk.len) % RxMod, !.rxf = FALSE]
          /\ fw' = Drained(fw)
    /\ WkFails
    /\ UNCHANGED <<q, rec, ev, bt>>

\* The transmit half of a pass: a frame is dequeued by priority, or there is
\* nothing to do and the worker returns unless this pass did something.
WkNext ==
    /\ wk.pc = "tx" /\ ~Stopped
    /\ IF cx.path /\ h.st = "RDY" /\ q # {}
       THEN LET k == IF "cmd" \in q THEN "cmd" ELSE "hci" IN
            /\ q' = q \ {k}
            /\ wk' = [wk EXCEPT !.pc = "seg", !.k = k, !.left = Segs(k), !.prog = TRUE]
       ELSE /\ wk' = IF wk.prog THEN [wk EXCEPT !.pc = "rx", !.prog = FALSE] ELSE WkIdle
            /\ UNCHANGED q
    /\ UNCHANGED <<h, cx, rec, ev, bt, fw, env>>

\* The frame fails: esp_cmd_transport_failed wakes the command's caller.
TxFails == /\ WkFails
           /\ bt' = IF wk.k = "cmd" /\ bt = "wait" THEN "failed" ELSE bt
           /\ UNCHANGED <<q, rec, ev>>

\* spihd_wait_tx_credit: a credit seen before is still good; else RX_BUF_LEN
\* is polled for a difference a slave can have.
CreditSeen == Signed(cx.lim, cx.sent) > 0
WkCredit ==
    /\ wk.pc = "seg"
    /\ \/ CreditSeen /\ UNCHANGED cx
       \/ /\ ~CreditSeen /\ CreditReal(CreditDelta)
          /\ cx' = [cx EXCEPT !.lim = fw.arm]
    /\ wk' = [wk EXCEPT !.pc = "write"]
    /\ UNCHANGED <<h, env>> /\ Unmoved
NoCredit == /\ ~CreditReal(CreditDelta)
            /\ fw.run = "down" \/ fw.held = <<>>
WkCreditTimeout ==
    /\ wk.pc = "seg" /\ ~CreditSeen
    /\ IF NoCredit THEN UNCHANGED env ELSE Fault("credit")
    /\ TxFails
    /\ UNCHANGED <<cx, fw>>

\* spihd_wrdma_segment: WRDMA and WR_END. A segment for which no descriptor
\* is armed, or that no firmware is there to take, is gone.
Segment == CASE Segs(wk.k) = 1 -> "cmd"
             [] Segs(wk.k) > 1 /\ wk.left > 1 -> "first"
             [] OTHER -> "last"
Taken(f) == IF f.run = "up" /\ f.app # "wait" /\ Len(f.held) < Slots
            THEN [f EXCEPT !.held = Append(@, Segment)] ELSE f
\* Mutant: the segment counter is wider than the register.
WkWriteWide ==
    /\ wk.pc = "write"
    /\ fw' = Taken(fw)
    /\ cx' = [cx EXCEPT !.sent = @ + 1, !.txf = FALSE]
    /\ wk' = IF wk.left > 1 THEN [wk EXCEPT !.pc = "seg", !.left = @ - 1]
             ELSE [wk EXCEPT !.pc = "rx", !.k = "none", !.left = 0, !.prog = FALSE]
    /\ UNCHANGED <<h, q, rec, ev, bt, env>>

WkWrite ==
    /\ wk.pc = "write"
    /\ fw' = Taken(fw)
    /\ cx' = [cx EXCEPT !.sent = (@ + 1) % CrMod, !.txf = FALSE]
    /\ wk' = IF wk.left > 1 THEN [wk EXCEPT !.pc = "seg", !.left = @ - 1]
             ELSE [wk EXCEPT !.pc = "rx", !.k = "none", !.left = 0, !.prog = FALSE]
    /\ UNCHANGED <<h, q, rec, ev, bt, env>>
WkWriteError ==
    /\ wk.pc = "write"
    /\ \/ /\ Fault("wrdma") /\ cx' = [cx EXCEPT !.txf = TRUE]
          /\ fw' \in Partly(fw, Taken(fw))
       \/ /\ Fault("reject") /\ cx' = [cx EXCEPT !.txf = FALSE]
          /\ UNCHANGED fw
    /\ TxFails

-----------------------------------------------------------------------------
(* Host: reset of the target, in whatever context asked for it              *)

\* Mutant: SLAVE_READY is not cleared before EN.
MarkerKept(f) == f.rdy

\* The ready byte after the write that invalidates it
Marker(f) == FALSE

\* spihd_hw_reset: the ready byte is invalidated before EN is asserted. The
\* write may fail, which only warns, and a firmware that is restarting may set
\* the byte again before EN falls: then it stands ("unmarked") while EN brings
\* the chip up.
HwReset ==
    LET marked == [fw EXCEPT !.rdy = Marker(fw)]
        ResetAs(f, bare) == [Restarted(f) EXCEPT !.reset = TRUE, !.unmarked = bare]
    IN \/ fw' = ResetAs(marked, FALSE) /\ UNCHANGED env
       \/ Fault("marker") /\ fw' \in {ResetAs(f, TRUE) : f \in Partly(fw, marked)}
       \/ /\ fw.run = "down" /\ UNCHANGED env
          /\ fw' = ResetAs([marked EXCEPT !.rdy = TRUE], TRUE)
\* EN could not be driven: the chip runs on, without its ready byte.
HwResetFails == Fault("gpio") /\ fw' = [fw EXCEPT !.rdy = Marker(fw)]

\* spihd_reset_target: close the data path, wait for the worker, then purge,
\* rebase and reset.
ResetClose ==
    /\ h.rst # "none" /\ ~h.shut
    /\ cx' = [cx EXCEPT !.path = FALSE] /\ h' = [h EXCEPT !.shut = TRUE]
    /\ UNCHANGED <<wk, q, rec, ev, bt, fw, env>>
ResetTarget ==
    /\ h.shut /\ wk.pc = "idle"
    /\ h' = [h EXCEPT !.rst = "none", !.shut = FALSE]
    /\ cx' = [Rebased(cx) EXCEPT !.wq = FALSE]
    /\ q' = {} /\ ev' = IF ev = "rxq" THEN "none" ELSE ev
    /\ bt' = IF bt = "wait" /\ "cmd" \in q THEN "failed" ELSE bt
    /\ HwReset \/ HwResetFails
    /\ UNCHANGED <<wk, rec>>

\* RCP, a command timeout or a user asks for a restart of the firmware.
RestartRequest ==
    /\ cx.run /\ ~Closed(h) /\ h.rst = "none" /\ Fault("user")
    /\ h' = Quarantine(h, "user")
    /\ UNCHANGED <<cx, wk, q, rec, ev, bt, fw>>

\* spihd_inject_resync
InjectResync ==
    /\ cx.run /\ Fault("inject")
    /\ h' = SchedRecovery(h, FALSE)
    /\ UNCHANGED <<cx, wk, q, rec, ev, bt, fw>>

-----------------------------------------------------------------------------
(* Host: the recovery worker                                                *)

RecFree == h.rst # "rec" /\ ~Closed(h)

\* Nothing under way can still produce a boot event.
Stuck ==
    /\ fw.run = "up" /\ (fw.app = "wait" => ~fw.ctrl)
    /\ fw.app # "boot" /\ wk.pc \notin {"rd", "qio"} /\ ~(fw.out = "boot" /\ fw.dr /\ PendingBytes = BootLen)
    /\ ev = "none" /\ bt = "idle" /\ rec = "idle" /\ h.rst = "none"
    /\ ~(fw.app = "wait" /\ Has(h, "EXP") /\ {"CLEAN", "RECON"} \cap h.fl = {})

\* esp_fw_recovery_work and the head of spihd_recover_transport: a live
\* session stops the worker first.
RecGate ==
    /\ rec = "idle" /\ h.work /\ RecFree
    /\ IF Has(h, "EXH") \/ Healthy(h)
       THEN h' = [h EXCEPT !.work = FALSE] /\ UNCHANGED <<rec, cx>>
       ELSE /\ {"CLEAN", "RECON"} \cap h.fl = {}
            /\ {"INIT", "PEND", "EXP"} \cap h.fl # {}
            /\ h' = [h EXCEPT !.work = FALSE, !.dirty = @ \ {"rec"}]
            /\ IF Has(h, "INIT") /\ ~Has(h, "EXP")
               THEN rec' = "sync" /\ cx' = [cx EXCEPT !.sync = TRUE]
               ELSE rec' = "rebase" /\ UNCHANGED cx
    /\ UNCHANGED <<wk, q, ev, bt, fw, env>>

\* The boot deadline has passed, or the first boot event never came.
RecExpire ==
    /\ rec = "idle" /\ h.work /\ RecFree /\ h.rst = "none"
    /\ ~Has(h, "EXH") /\ ~Healthy(h)
    /\ h.dl \/ {"INIT", "PEND", "EXP", "CLEAN", "RECON"} \cap h.fl = {}
    /\ IF Stuck THEN UNCHANGED env ELSE Fault("late")
    /\ h' = BootRetry([h EXCEPT !.dl = FALSE, !.work = FALSE], "rec")
    /\ UNCHANGED <<cx, wk, q, rec, ev, bt, fw>>

RecFails(a) == h' = [a EXCEPT !.work = TRUE] /\ rec' = "idle"

\* cancel_work_sync
RecCancel ==
    /\ rec = "sync" /\ wk.pc = "idle"
    /\ rec' = "resync" /\ cx' = [cx EXCEPT !.wq = FALSE]
    /\ UNCHANGED <<h, wk, q, ev, bt, fw, env>>

\* Mutant: an ambiguous WRDMA does not count.
CleanButTx == /\ ~cx.rxf /\ CreditDelta \in 0..LiveMax /\ PendingBytes <= RxLimit

\* spihd_resync_live_session: no ambiguous transfer, plausible counters
Clean == /\ ~cx.txf /\ ~cx.rxf
         /\ CreditDelta \in 0..LiveMax /\ PendingBytes <= RxLimit
RecResync ==
    /\ rec = "resync" /\ RecFree
    /\ LET on == [cx EXCEPT !.sync = FALSE] IN
       \/ /\ BusFails /\ RecFails(h) /\ cx' = on
       \/ /\ ~fw.rdy /\ rec' = "rebase" /\ cx' = on /\ UNCHANGED <<h, env>>
       \/ /\ fw.rdy /\ ~Clean
          /\ RecFails(Quarantine(h, "rec")) /\ cx' = on /\ UNCHANGED env
       \/ /\ fw.rdy /\ Clean
          /\ h' = [h EXCEPT !.st = "RDY"]
          /\ cx' = [on EXCEPT !.lim = 0, !.path = TRUE]
          /\ rec' = "live" /\ UNCHANGED env
    /\ UNCHANGED <<wk, q, ev, bt, fw>>

\* Mutant: the worker is not queued again.
RecLiveQuiet ==
    /\ rec = "live"
    /\ h' = CASE "rec" \in h.dirty -> h
              [] "rec" \notin h.dirty /\ Has(h, "EXP") -> [h EXCEPT !.work = TRUE]
              [] OTHER -> [h EXCEPT !.fl = @ \ {"PEND"}]
    /\ rec' = "idle"
    /\ UNCHANGED <<cx, wk, q, ev, bt, fw, env>>

\* esp_fw_recovery_work, after a return of 1, with
\* spihd_resume_after_live_recovery once PENDING is clear
RecLive ==
    /\ rec = "live"
    /\ h' = CASE "rec" \in h.dirty -> h
              [] "rec" \notin h.dirty /\ Has(h, "EXP") -> [h EXCEPT !.work = TRUE]
              [] OTHER -> [h EXCEPT !.fl = @ \ {"PEND"}]
    /\ cx' = [cx EXCEPT !.wq = @ \/ ({"rec"} \cap h.dirty = {} /\ ~Has(h, "EXP")
                                    /\ cx.run)]
    /\ rec' = "idle"
    /\ UNCHANGED <<wk, q, ev, bt, fw, env>>

\* A restarted firmware: the counters start at zero. The worker is not
\* stopped for this.
RecRebase ==
    /\ rec = "rebase" /\ RecFree
    /\ cx' = [Rebased(cx) EXCEPT !.path = FALSE]
    /\ rec' = "ready"
    /\ UNCHANGED <<h, wk, q, ev, bt, fw, env>>

\* spihd_wait_slave_ready
RecReady ==
    /\ rec = "ready" /\ RecFree
    /\ \/ /\ IF fw.rdy THEN BusFails ELSE Fault("late")
          /\ RecFails(h)
       \/ /\ fw.rdy /\ rec' = "open" /\ UNCHANGED <<h, env>>
    /\ UNCHANGED <<cx, wk, q, ev, bt, fw>>

\* Mutant: the pass is not repeated, whether it failed or not.
RecOpenOnce ==
    /\ rec = "open" /\ RecFree
    /\ \/ /\ BusFails /\ fw' \in Partly(fw, Opened(fw)) /\ UNCHANGED cx
       \/ /\ fw' = Opened(fw) /\ cx' = [cx EXCEPT !.path = TRUE, !.wq = TRUE]
          /\ UNCHANGED env
    /\ rec' = "idle"
    /\ UNCHANGED <<h, wk, q, ev, bt>>

\* spihd_open_slave_datapath: then a boot event is awaited (return 0), under
\* the watchdog. Another context may reset the chip between the two.
RecOpen ==
    /\ rec = "open" /\ RecFree
    /\ \/ /\ BusFails /\ fw' \in Partly(fw, Opened(fw))
          /\ RecFails(h) /\ UNCHANGED cx
       \/ /\ fw' = Opened(fw)
          /\ cx' = [cx EXCEPT !.path = TRUE, !.wq = TRUE]
          /\ h' = [h EXCEPT !.work = @ \/ Has(h, "EXP") \/ ~Has(h, "INIT")]
          /\ rec' = "idle" /\ UNCHANGED env
    /\ UNCHANGED <<wk, q, ev, bt>>

RecAbort ==
    /\ rec \notin {"idle", "live"} /\ Closed(h)
    /\ rec' = "idle" /\ cx' = [cx EXCEPT !.sync = FALSE]
    /\ UNCHANGED <<h, wk, q, ev, bt, fw, env>>

-----------------------------------------------------------------------------
(* Host: the boot-event handler (host/main.c) with its SPI-HD hooks         *)

BtFree == h.rst # "bt" /\ ~Closed(h)

\* if_rx_work reads rx_q and queues the event for the boot handler.
Dispatch ==
    /\ ev = "rxq" /\ ~Closed(h)
    /\ ev' = "evq"
    /\ UNCHANGED <<h, cx, wk, q, rec, bt, fw, env>>

\* esp_begin_reconstruction, then the first command of esp_add_card. The quiet
\* delay of a recovery request outlasts the way from BootStart to here.
Begin(a) == h' = [a EXCEPT !.fl = @ \cup {"RECON"}, !.st = "RDY", !.dirty = @ \ {"bt"}]
Older(x) == IF x = "cmd" THEN "old" ELSE x
Outdated(f) == [f EXCEPT !.held = [i \in 1..Len(@) |-> Older(@[i])],
                         !.fed = {Older(x) : x \in @}, !.out = Older(@)]
FirstCommand(c) ==
    /\ cx' = [c EXCEPT !.wq = @ \/ c.path]
    /\ q' = IF c.path THEN q \cup {"cmd"} ELSE q
    /\ bt' = IF c.path THEN "wait" ELSE "failed"
    /\ fw' = Outdated(fw)

\* process_event_esp_bootup up to the hooks: the recovery worker is waited for.
BootStart ==
    /\ bt = "idle" /\ ev = "evq" /\ rec = "idle" /\ BtFree /\ h.rst # "rec"
    /\ ev' = "none"
    /\ LET a == [h EXCEPT !.work = FALSE, !.fl = @ \ {"INIT", "NEED"}] IN
       IF {"INIT", "PEND", "EXP"} \cap h.fl # {}
       THEN /\ h' = [a EXCEPT !.fl = @ \cup {"PEND", "CLEAN"}]
            /\ cx' = [cx EXCEPT !.path = FALSE]
            /\ bt' = "quiesce" /\ UNCHANGED <<q, fw>>
       ELSE Begin(a) /\ FirstCommand(cx)
    /\ UNCHANGED <<wk, rec, env>>

\* spihd_quiesce_for_fw_reset, and esp_remove_card
BootQuiesce ==
    /\ bt = "quiesce" /\ BtFree /\ wk.pc = "idle"
    /\ cx' = [cx EXCEPT !.wq = FALSE]
    /\ q' = {} /\ ev' = IF ev = "rxq" THEN "none" ELSE ev
    /\ bt' = "reinit"
    /\ UNCHANGED <<h, wk, rec, fw, env>>

\* spihd_reinit_after_fw_reset: the counters are those since the rebase.
BootReinit ==
    /\ bt = "reinit" /\ BtFree
    /\ Begin(h) /\ FirstCommand([cx EXCEPT !.path = TRUE, !.wq = TRUE])
    /\ UNCHANGED <<wk, rec, ev, env>>

BootFails(a) == h' = BootRetry([a EXCEPT !.fl = @ \ {"RECON"}], "bt") /\ bt' = "idle"

\* The command is rejected, or is not answered in time.
Quiet == /\ wk.pc = "idle" /\ ~cx.wq
         /\ fw.run = "down" \/ (fw.held = <<>> /\ ~(fw.fed # {} /\ fw.out = "none"))
BootError ==
    /\ bt \in {"wait", "failed"} /\ BtFree
    /\ IF bt = "failed" \/ Quiet THEN UNCHANGED env ELSE Fault("build")
    /\ BootFails(h)
    /\ UNCHANGED <<cx, wk, q, rec, ev, fw>>

\* esp_commit_reconstruction
BootCommit ==
    /\ bt = "answered" /\ BtFree /\ rec = "idle"
    /\ \/ /\ Fault("build") /\ BootFails(h) /\ UNCHANGED fw
       \/ /\ LET a == [h EXCEPT !.work = FALSE,
                                !.fl = (@ \cup {"INIT"}) \ {"RECON", "CLEAN"}]
             IN h' = IF "bt" \in h.dirty
                     THEN [a EXCEPT !.st = "RX", !.work = TRUE]
                     ELSE [a EXCEPT !.fl = @ \ {"PEND", "EXP", "NEED"}, !.st = "RDY"]
          /\ fw' = [fw EXCEPT !.same = (fw.run = "up" /\ fw.app = "active")]
          /\ bt' = "publish" /\ UNCHANGED env
    /\ UNCHANGED <<cx, wk, q, rec, ev>>

\* Interfaces are published and esp_finish_reconstruction runs.
BootFinish ==
    /\ bt = "publish" /\ BtFree
    /\ \/ /\ Fault("build")
          /\ BootFails([h EXCEPT !.fl = (@ \cup {"CLEAN"}) \ {"INIT"}])
       \/ /\ h' = IF Healthy(h)
                  THEN [h EXCEPT !.att = 0, !.dl = FALSE, !.fl = @ \ {"EXH"}] ELSE h
          /\ bt' = "idle" /\ UNCHANGED env
    /\ UNCHANGED <<cx, wk, q, rec, ev, fw>>

BootAbort ==
    /\ Closed(h) /\ (ev # "none" \/ bt # "idle")
    /\ ev' = "none" /\ bt' = "idle"
    /\ UNCHANGED <<h, cx, wk, q, rec, fw, env>>

-----------------------------------------------------------------------------
(* Host: probe and remove                                                   *)

\* spihd_probe: GPIOs and IRQ, then spihd_hw_reset ...
Probe ==
    /\ h.st = "OFF" /\ rec = "idle"
    /\ \/ HwReset /\ h' = [h EXCEPT !.fl = @ \ {"REMOVING", "CLEAN"}, !.st = "DIS"]
       \/ HwResetFails /\ h' = [h EXCEPT !.fl = @ \cup {"REMOVING", "CLEAN"}]
    /\ UNCHANGED <<cx, wk, q, rec, ev, bt>>

\* ... and once the slave is ready, the limits are negotiated, the IRQ path is
\* made live before OPEN, and a watchdog awaits the boot event. A failure
\* unbinds again; the bus may bind once more.
ProbeOpen ==
    /\ h.st = "DIS" /\ ~Closed(h)
    /\ \/ /\ fw.rdy
          /\ cx' = [Rebased(cx) EXCEPT !.run = TRUE, !.path = TRUE, !.wq = fw.dr]
          /\ h' = [h EXCEPT !.fl = @ \ {"INIT", "PEND", "EXP", "NEED"}, !.st = "RX",
                            !.work = TRUE]
          /\ fw' = Opened(fw)
          /\ UNCHANGED env
       \/ /\ Fault("probe")
          /\ h' = [h EXCEPT !.fl = @ \cup {"REMOVING", "CLEAN"}, !.st = "OFF"]
          /\ fw' \in Partly(fw, IF fw.rdy THEN Opened(fw) ELSE fw)
          /\ UNCHANGED cx
    /\ UNCHANGED <<wk, q, rec, ev, bt>>

\* spihd_remove_common publishes the removal and waits for the workers ...
RemoveStart ==
    /\ cx.run /\ h.rst = "none"
    /\ "remove" \in FaultKinds /\ ~env.removed
    /\ env' = [env EXCEPT !.removed = TRUE]
    /\ cx' = [cx EXCEPT !.run = FALSE, !.path = FALSE]
    /\ h' = [h EXCEPT !.fl = (@ \cup {"REMOVING", "CLEAN"}) \ {"INIT"},
                      !.st = "DIS", !.work = FALSE]
    /\ UNCHANGED <<wk, q, rec, ev, bt, fw>>

\* ... then purges; the driver's recovery budget stays as it is.
RemoveEnd ==
    /\ Closed(h) /\ h.st = "DIS" /\ rec = "idle" /\ wk.pc = "idle"
    /\ bt = "idle" /\ ev = "none"
    /\ cx' = [cx EXCEPT !.wq = FALSE]
    /\ q' = {} /\ h' = [h EXCEPT !.st = "OFF", !.work = FALSE]
    /\ UNCHANGED <<wk, rec, ev, bt, fw, env>>

-----------------------------------------------------------------------------
(* Specification                                                            *)

HostRec ==
    [fl : SUBSET Flags, st : {"OFF", "DIS", "RX", "RDY"},
     dirty : SUBSET {"rec", "bt"}, work : BOOLEAN, dl : BOOLEAN,
     att : 0..MaxAttempts, rst : {"none", "rec", "bt", "user"},
     shut : BOOLEAN]
CursorRec ==
    [run : BOOLEAN, path : BOOLEAN, sync : BOOLEAN, wq : BOOLEAN,
     rd : 0..(RxMod - 1), sent : 0..(CrMod - 1), lim : 0..(CrMod - 1),
     txf : BOOLEAN, rxf : BOOLEAN, append : BOOLEAN, quad : BOOLEAN]
WorkerRec ==
    [pc : {"idle", "rx", "rd", "qio", "tx", "seg", "write"}, len : 0..RxLimit,
     k : Kinds \cup {"none"}, left : 0..2, prog : BOOLEAN]
Segments == {"cmd", "old", "first", "last"}
SlaveRec ==
    [run : {"up", "down"}, rdy : BOOLEAN, ctrl : BOOLEAN,
     pub : 0..(RxMod - 1), arm : 0..(CrMod - 1), app : {"wait", "boot", "active"},
     out : {"none", "boot"} \cup Answers, dr : BOOLEAN, held : Seq(Segments),
     part : BOOLEAN, fed : SUBSET Answers, same : BOOLEAN, reset : BOOLEAN,
     unmarked : BOOLEAN]

\* Among the types: both counters stay below their moduli, the attempts within
\* the reset budget, and the slave holds no more segments than it has slots.
TypeOK ==
    /\ h \in HostRec /\ cx \in CursorRec /\ wk \in WorkerRec /\ q \subseteq Kinds
    /\ rec \in {"idle", "sync", "resync", "live", "rebase", "ready", "open"}
    /\ ev \in {"none", "rxq", "evq"}
    /\ bt \in {"idle", "quiesce", "reinit", "wait", "answered", "failed",
               "publish"}
    /\ fw \in SlaveRec /\ Len(fw.held) <= Slots
    /\ env \in [frames : 0..MaxFrames, faults : 0..MaxFaults, removed : BOOLEAN]

\* The driver is loaded and unbound; or a session has run for so long that the
\* counters are about to wrap.
Fresh ==
    /\ h = [fl |-> {}, st |-> "OFF", dirty |-> {}, work |-> FALSE, dl |-> FALSE,
            att |-> 0, rst |-> "none", shut |-> FALSE]
    /\ \E m \in AppendModes :
       cx = [run |-> FALSE, path |-> FALSE, sync |-> FALSE, wq |-> FALSE, rd |-> 0,
             sent |-> 0, lim |-> 0, txf |-> FALSE, rxf |-> FALSE, append |-> m,
             quad |-> FALSE]
    /\ fw = [run |-> "up", rdy |-> TRUE, ctrl |-> FALSE, pub |-> 0, arm |-> 0,
             app |-> "wait", out |-> "none", dr |-> FALSE, held |-> <<>>,
             part |-> FALSE, fed |-> {}, same |-> FALSE, reset |-> FALSE,
             unmarked |-> FALSE]
Running ==
    /\ h = [fl |-> {"INIT"}, st |-> "RDY", dirty |-> {}, work |-> FALSE, dl |-> FALSE,
            att |-> 0, rst |-> "none", shut |-> FALSE]
    /\ \E m \in AppendModes :
       cx = [run |-> TRUE, path |-> TRUE, sync |-> FALSE, wq |-> FALSE, rd |-> RxMod - 1,
             sent |-> CrMod - 1, lim |-> 0, txf |-> FALSE, rxf |-> FALSE, append |-> m,
             quad |-> FALSE]
    /\ fw = [run |-> "up", rdy |-> TRUE, ctrl |-> TRUE, pub |-> RxMod - 1,
             arm |-> (CrMod - 1 + Slots) % CrMod, app |-> "active", out |-> "none",
             dr |-> FALSE, held |-> <<>>, part |-> FALSE, fed |-> {},
             same |-> TRUE, reset |-> FALSE, unmarked |-> FALSE]
Init ==
    /\ Fresh \/ Running
    /\ wk = [pc |-> "idle", len |-> 0, k |-> "none", left |-> 0, prog |-> FALSE]
    /\ q = {} /\ rec = "idle" /\ ev = "none" /\ bt = "idle"
    /\ env = [frames |-> 0, faults |-> 0, removed |-> FALSE]

Firmware == FwInit \/ FwOpen \/ FwBoot \/ FwSend \/ FwProcess
Worker == \/ WkStart \/ WkStop \/ WkSample \/ WkRead \/ WkQio \/ WkMalformed \/ WkNext
          \/ WkCredit \/ WkCreditTimeout \/ WkWrite
Recovery == \/ RecGate \/ RecCancel \/ RecResync \/ RecLive \/ RecRebase \/ RecReady
            \/ RecOpen \/ RecAbort
BootHandler == \/ Dispatch \/ BootStart \/ BootQuiesce \/ BootReinit \/ BootError
               \/ BootCommit \/ BootFinish \/ BootAbort
Binding == ResetClose \/ ResetTarget \/ Probe \/ ProbeOpen \/ RemoveEnd
Environment == \/ (\E k \in Kinds : WritePacket(k)) \/ FlushBt \/ FwCrash
               \/ WkReadError \/ WkWriteError \/ RestartRequest \/ InjectResync
               \/ RemoveStart

Next == Firmware \/ Worker \/ Recovery \/ RecExpire \/ BootHandler \/ Binding \/ Environment

\* Work items and the firmware's tasks run when they can, and a context that
\* asked for a reset carries it out; a deadline that nothing can meet expires.
Fairness ==
    /\ WF_vars(Firmware) /\ WF_vars(Worker) /\ WF_vars(Recovery)
    /\ SF_vars(BootHandler) /\ WF_vars(Binding) /\ SF_vars(ResetTarget) /\ SF_vars(Stuck /\ RecExpire)

Spec == Init /\ [][Next]_vars /\ Fairness

-----------------------------------------------------------------------------
(* Properties                                                               *)

AtRest == wk.pc \in {"idle", "rx", "tx"}

\* Whenever the driver offers a healthy session to its users, on the firmware
\* incarnation it committed, both cumulative counters agree with what that
\* firmware received and was read of: no failed WRDMA or RDDMA, no resume and
\* no rebase that raced the worker leaves them apart (resync_live_session).
CountersCoherent ==
    Healthy(h) /\ h.st = "RDY" /\ h.rst = "none" /\ fw.same /\ AtRest
    => cx.sent = Received /\ cx.rd = Consumed

\* A healthy session with an idle worker has nothing to do: no frame waits in
\* a queue and data-ready is not left high, although its interrupt is only an
\* edge (spihd_work, spihd_resume_after_live_recovery, spihd_flush_bt_traffic).
NoLostWakeup ==
    /\ Healthy(h) /\ h.st = "RDY" /\ cx.path /\ bt = "idle" /\ rec = "idle"
    /\ h.rst = "none" /\ wk.pc = "idle" /\ ~cx.wq
    => q = {} /\ ~fw.dr

\* The step that takes SLAVE_READY for the sign of a firmware to be opened
ReadyAccepted == \/ rec = "ready" /\ rec' = "open"
                 \/ h.st = "DIS" /\ h'.st = "RX"

\* While EN brings a chip up, neither probe nor a recovery pass takes the ready
\* byte of the firmware before it for the new one's, whose registers are still
\* to be cleared (spihd_hw_reset, spihd_wait_slave_ready). The exceptions are
\* the code's own: the write that clears the byte failed, which only warns, or
\* a firmware that was restarting set it again between that write and EN.
ReadyFresh == [][ReadyAccepted => (fw.reset => fw.unmarked)]_vars

\* No device is bound, or one is being bound.
Unbound == h.st = "OFF" \/ (h.st = "DIS" /\ ~Closed(h))

\* The inductive form of ReadyFresh: a chip in reset shows a ready byte only if
\* it was not cleared. And what binding and removal leave behind: while no
\* device is bound, nothing of an earlier binding runs.
ReadyInv ==
    /\ fw.reset => fw.run = "down" /\ (fw.rdy => fw.unmarked)
    /\ Closed(h) => ~cx.run
    /\ Unbound => /\ ~cx.run /\ ~h.work /\ wk.pc = "idle"
                  /\ rec = "idle" /\ bt = "idle" /\ ev = "none"

\* A recovery that has begun under a boot deadline, or of a session that was
\* committed, ends in a committed session, unless the reset budget is exhausted
\* or the device is removed (fw_recovery_work, spihd_recover_transport).
Recovers ==
    (h.fl \cap {"PEND", "EXP"} # {} /\ (h.dl \/ Has(h, "INIT")))
        ~> (Healthy(h) \/ Has(h, "EXH") \/ Closed(h))

\* Credits stay valid until they are consumed, and a stale credit count never
\* masquerades as free slots (the comments of spihd_wait_tx_credit): a segment
\* is written to the firmware of the session only if it has armed a descriptor
\* for it.
CreditHeld ==
    Healthy(h) /\ fw.same /\ wk.pc = "write" => Len(fw.held) < Slots

\* Resume only a provably clean live session (the comment above
\* spihd_resync_live_session): the firmware is the one the session was
\* committed on, and it is not in the middle of a frame.
ResumeClean ==
    [][rec = "resync" /\ rec' = "live" => fw.same /\ ~fw.part]_vars

=============================================================================
