----------------------------- MODULE FwRecovery -----------------------------
(***************************************************************************)
(* The firmware-recovery coordinator of the host driver (host/main.c) over *)
(* the SPI backend (host/spi/esp_spi.c).                                   *)
(*                                                                         *)
(* Kernel contexts that interleave:                                        *)
(*   "rec"    fw_recovery_work, a delayed work (the watchdog)              *)
(*   "ev"     events_work, running process_event_esp_bootup                *)
(*   "radio"  radio_service_work                                           *)
(*   Errs     any context that reports a failure (SPI worker, RCP, HCI,    *)
(*            command timeouts, cfg80211)                                  *)
(* plus the SPI reset_work (rst) and module exit (exitPc). One action is   *)
(* one section under fw_recovery_lock / spi_reboot_budget_lock, or one     *)
(* group of unlocked bit operations; every point between two sections is a *)
(* value of pc. pc labels follow the source functions, and ret[t] is where *)
(* thread t continues when the schedule / request call chain returns.      *)
(***************************************************************************)
EXTENDS Naturals, Integers, Sequences

CONSTANTS
    Errs,          \* the failure reporting contexts
    MaxAttempts,   \* ESP_FW_BOOT_MAX_ATTEMPTS
    HasResetGpio,  \* Device Tree describes reset-gpios (ESP EN)
    RadioCtrl,     \* firmware advertises ESP_EXT_CAP_RADIO_SERVICE_CTRL
    OtaConfigured, \* the ota_file module parameter is set
    Unload,        \* the module may be removed
    MaxWrites,     \* bound: writes of the radio_service parameter
    MaxFaults,     \* bound: environment faults in one behaviour
    FaultKinds     \* which faults the environment may inject

ASSUME ErrsAssumption == Errs \cap {"rec", "ev", "radio"} = {}
ASSUME MaxAttemptsAssumption == MaxAttempts \in Nat \ {0}
ASSUME BoundsAssumption == MaxWrites \in Nat /\ MaxFaults \in Nat
ASSUME SwitchAssumption ==
    {HasResetGpio, RadioCtrl, OtaConfigured, Unload} \subseteq BOOLEAN

Threads == {"rec", "ev", "radio"} \cup Errs

Flags == {"INIT_DONE", "PENDING", "RESET_EXPECTED", "RESTART_NEEDED",
          "RECONSTRUCT", "CLEANUP", "RADIO_PENDING", "EXHAUSTED",
          "UNLOADING", "REMOVING"}

Labels == {"idle",
           "retry", "schedT", "schedF", "schedR", "arm", "armR", "req",
           "target", "queue",
           "check", "recover", "probe", "open", "live", "settle0", "settle1",
           "rearm",
           "boot", "sync", "begin", "quiesce", "remove", "parse", "reinit", "recon",
           "addcard", "ota", "otafail", "initdone", "cancel", "commit", "mismatch",
           "publish", "failpub", "failrm", "fail",
           "gate", "cmd", "radfail", "endp", "unpub", "latestYes",
           "latestNo", "finish", "commitcb"}

ReturnPoints == {"idle", "rearm", "otafail", "radfail", "unpub"}

ExitLabels == {"none", "unloading", "rec_cancelled", "works_cancelled",
               "removing", "rm_rec_cancelled", "rm_ev_cancelled",
               "rst_cancelled", "card_removed", "drained", "gone"}

VARIABLES
    flags,      \* adapter->state_flags, the bits that are set
    state,      \* adapter->state
    reconStale, \* reconstructing, and fw_recovery_gen # fw_reconstruct_gen
    recStale,   \* fw_recovery_gen # the worker's local gen, while it is used
    overtaken,  \* history, up to esp_exit: a commit overtook a restart
    attempts,   \* fw_boot_reset_attempts
    deadline,   \* fw_boot_deadline: none, armed, or passed by jiffies
    timer,      \* fw_recovery_work is pending
    pc, ret,    \* control of each context
    evFresh,    \* the boot event "ev" is processing is the live firmware's
    reinit,     \* local reinitializing of process_event_esp_bootup
    want,       \* local desired of esp_radio_service_work
    dataPath,   \* SPI data_path is OPEN_DATAPATH
    resetting,  \* ESP_SPI_RESETTING
    rstQ,       \* reset_work is pending on the ordered SPI workqueue
    rst,        \* control of the running reset_work
    rstRet,     \* its local ret
    rstFresh,   \* its pending_boot frame is the live firmware's
    soft,       \* spi_soft_reboot_attempts
    synced,     \* spi_reboot_budget_epoch = fw_boot_commit_epoch
    rescue,     \* spi_boot_rescue_pending
    fw,         \* what the firmware incarnation on the target is doing
    rxq,        \* boot frames in the SPI rx_q: is each one fresh?
    evq,        \* boot events in events_skb_q: is each one fresh?
    meta,       \* whose boot metadata the host holds
    applied,    \* radio selection whose endpoints exist, -1 if none
    desired,    \* radio_service_desired (the number of the last write)
    radioQ,     \* radio_service_work is pending
    otaFile,    \* ota_file still names an image
    faults,     \* environment faults so far
    exitPc      \* control of esp_exit

gens == <<reconStale, recStale, overtaken>>
budget == <<attempts, deadline>>
recVars == <<flags, state, gens, budget, timer>>
locals == <<evFresh, reinit, want>>
ctlVars == <<pc, ret, locals>>
resetVars == <<rstQ, rst, rstRet, rstFresh>>
spiBudget == <<soft, synced, rescue>>
spiVars == <<dataPath, resetting, resetVars, spiBudget>>
fwVars == <<fw, rxq, evq>>
radioVars == <<applied, desired, radioQ>>
sesVars == <<meta, otaFile, radioVars>>
Outside == <<spiVars, fwVars, sesVars, faults, exitPc>>
vars == <<recVars, ctlVars, Outside>>

-----------------------------------------------------------------------------
(* Helpers *)

\* The unload / removal test that opens almost every function.
Stopping == {"UNLOADING", "REMOVING"} \cap flags # {}

\* No recovery of any kind is due: the skip test of esp_fw_recovery_work.
Settled(f) == "INIT_DONE" \in f /\ "PENDING" \notin f
                                /\ "RESET_EXPECTED" \notin f

\* esp_recovery_drop_tx_unlocked: clamp READY, never raise DISABLED.
DropTx(s) == IF s = "READY" THEN "RX_READY" ELSE s

\* spi_accepting_work
Accepting == /\ dataPath
             /\ ~resetting
             /\ "REMOVING" \notin flags
             /\ "CLEANUP" \in flags => "RECONSTRUCT" \in flags

\* A command sent now is answered by the running firmware.
Answers == fw \in {"ready", "live"} /\ Accepting /\ state = "READY"

\* reset_work still has something to do that a session has to know of: to
\* pulse EN, to send CMD_HOST_REBOOT, or to set RESTART_NEEDED because that
\* failed or because the kept boot frame cannot be enqueued.
ResetUnderWay ==
    \/ rstQ
    \/ rst = "flag" /\ rstRet = "fail"
    \/ rst \in {"flag", "clear", "path"} /\ rstRet = "boot"
    \/ \E t \in Threads : pc[t] \in {"target", "queue"}

\* Some context is between its esp_schedule_recovery and the end of the
\* reset its esp_request_firmware_restart asks for.
RestartInFlight ==
    \/ ResetUnderWay
    \/ \E t \in Threads : pc[t] \in {"armR", "req", "unpub"}
    \/ \E t \in Threads : pc[t] = "arm" /\ ret[t] = "unpub"

\* Where esp_fw_recovery_work still compares its local gen.
RecGenLive == {"recover", "probe", "live", "settle1"}

Goto(t, l) == pc' = [pc EXCEPT ![t] = l]
Call(t, l, back) == /\ pc' = [pc EXCEPT ![t] = l]
                    /\ ret' = [ret EXCEPT ![t] = back]
Return(t) == /\ pc' = [pc EXCEPT ![t] = ret[t]]
             /\ ret' = [ret EXCEPT ![t] = "idle"]

\* A new firmware incarnation starts: what the host holds is now stale.
Restarted ==
    /\ rxq' = [i \in DOMAIN rxq |-> FALSE]
    /\ evq' = [i \in DOMAIN evq |-> FALSE]
    /\ evFresh' = FALSE
    /\ rstFresh' = FALSE
    /\ meta' = IF meta = "fresh" THEN "stale" ELSE meta

\* An environment fault of kind k, counted against the bound.
Fault(k) == k \in FaultKinds /\ faults < MaxFaults /\ faults' = faults + 1

-----------------------------------------------------------------------------
(* esp_schedule_recovery, esp_request_firmware_restart,                    *)
(* esp_bootup_request_retry: shared by every context                       *)

\* esp_bootup_request_retry up to its call of esp_schedule_recovery
Retry(t) ==
    /\ pc[t] = "retry"
    /\ IF Stopping
       THEN Goto(t, "idle") /\ UNCHANGED <<flags, ret>>
       ELSE /\ flags' = flags \ {"CLEANUP"}
            /\ Call(t, "schedR", "idle")
    /\ UNCHANGED <<state, gens, budget, timer, locals, Outside>>

\* esp_schedule_recovery, the section under fw_recovery_lock
Schedule(t) ==
    /\ pc[t] \in {"schedT", "schedF", "schedR"}
    /\ IF Stopping
       THEN /\ IF pc[t] = "schedR" THEN Goto(t, "req") /\ UNCHANGED ret
                                   ELSE Return(t)
            /\ UNCHANGED <<flags, state, gens>>
       ELSE /\ flags' = flags \cup {"PENDING"} \cup
                        (IF pc[t] = "schedT" THEN {} ELSE {"RESET_EXPECTED"})
            /\ reconStale' = ("RECONSTRUCT" \in flags)
            /\ recStale' = (pc["rec"] \in RecGenLive)
            /\ state' = IF "RECONSTRUCT" \in flags THEN state
                                                   ELSE DropTx(state)
            /\ Goto(t, IF pc[t] = "schedR" THEN "armR" ELSE "arm")
            /\ UNCHANGED <<overtaken, ret>>
    /\ UNCHANGED <<budget, timer, locals, Outside>>

\* esp_schedule_recovery after the unlock: the watchdog is (re)armed
Arm(t) ==
    /\ pc[t] \in {"arm", "armR"}
    /\ timer' = TRUE
    /\ IF pc[t] = "armR" THEN Goto(t, "req") /\ UNCHANGED ret ELSE Return(t)
    /\ UNCHANGED <<flags, state, gens, budget, locals, Outside>>

\* Mutant: the retry cap is off by one.
BudgetLeftOffByOne == "EXHAUSTED" \notin flags /\ attempts <= MaxAttempts

\* Another counted reset is allowed.
BudgetLeft == "EXHAUSTED" \notin flags /\ attempts < MaxAttempts

\* esp_request_firmware_restart, the section under fw_recovery_lock
Request(t) ==
    /\ pc[t] = "req"
    /\ \/ /\ deadline # "none"
          /\ Return(t)
          /\ UNCHANGED <<flags, budget>>
       \/ /\ deadline = "none"
          /\ ~BudgetLeft
          /\ flags' = flags \cup {"EXHAUSTED"}
          /\ Return(t)
          /\ UNCHANGED budget
       \/ /\ deadline = "none"
          /\ BudgetLeft
          /\ attempts' = attempts + 1
          /\ deadline' = "armed"
          /\ flags' = flags \cup {"RESTART_NEEDED"}
          /\ Goto(t, "target")
          /\ UNCHANGED ret
    /\ UNCHANGED <<state, gens, timer, locals, Outside>>

\* Mutant: a delayed commit callback keeps counting the old epoch.
SoftNowStale == soft

\* esp_spi_reboot_budget_sync_locked
SoftNow == IF synced THEN soft ELSE 0

\* Mutant: the in-flight reset gate is forgotten.
ResetRefusedUngated == ~HasResetGpio /\ SoftNow >= MaxAttempts

\* esp_spi_reset_target joins a reset in flight, or has no reboot left.
ResetRefused == resetting \/ (~HasResetGpio /\ SoftNow >= MaxAttempts)

\* esp_spi_reset_target, the section under spi_reboot_budget_lock
ResetTarget(t) ==
    /\ pc[t] = "target"
    /\ IF Stopping
       THEN Return(t) /\ UNCHANGED <<resetting, soft, synced>>
       ELSE /\ synced' = TRUE
            /\ IF ResetRefused
               THEN /\ soft' = SoftNow
                    /\ Return(t)
                    /\ UNCHANGED resetting
               ELSE /\ soft' = IF HasResetGpio THEN SoftNow ELSE SoftNow + 1
                    /\ resetting' = TRUE
                    /\ Goto(t, "queue")
                    /\ UNCHANGED ret
    /\ UNCHANGED <<recVars, locals, dataPath, resetVars, rescue, fwVars,
                   sesVars, faults, exitPc>>

\* esp_spi_reset_target after the unlock. The -EBUSY rollback needs a
\* reset_work that is already pending; ResetSerialised shows it never is.
ResetQueue(t) ==
    /\ pc[t] = "queue"
    /\ dataPath' = FALSE
    /\ state' = DropTx(state)
    /\ rstQ' = TRUE
    /\ Return(t)
    /\ UNCHANGED <<flags, gens, budget, timer, locals, resetting, rst,
                   rstRet, rstFresh, spiBudget, fwVars, sesVars, faults,
                   exitPc>>

-----------------------------------------------------------------------------
(* esp_fw_recovery_work *)

\* The timer fires; the unlocked early return.
RecStart ==
    /\ timer /\ pc["rec"] = "idle"
    /\ timer' = FALSE
    /\ Goto("rec", IF Stopping \/ "EXHAUSTED" \in flags THEN "idle"
                                                        ELSE "check")
    /\ UNCHANGED <<flags, state, gens, budget, ret, locals, Outside>>

\* Mutant: the boot deadline is never consulted.
RecDecisionNoDeadline ==
    IF Settled(flags) THEN "idle"
    ELSE IF {"CLEANUP", "RECONSTRUCT"} \cap flags # {} THEN "rearm"
    ELSE IF {"INIT_DONE", "PENDING", "RESET_EXPECTED"} \cap flags = {}
    THEN "retry" ELSE "recover"

\* What the section under fw_recovery_lock decides to do next, in order:
\* nothing due, deadline passed, cleanup, reconstruction, initial boot
\* timeout, transport recovery.
RecDecision ==
    IF Settled(flags) THEN "idle"
    ELSE IF deadline = "expired" THEN "retry"
    ELSE IF {"CLEANUP", "RECONSTRUCT"} \cap flags # {} THEN "rearm"
    ELSE IF {"INIT_DONE", "PENDING", "RESET_EXPECTED"} \cap flags = {}
    THEN "retry" ELSE "recover"

RecCheck ==
    /\ pc["rec"] = "check"
    /\ Goto("rec", RecDecision)
    /\ deadline' = IF ~Settled(flags) /\ deadline = "expired"
                   THEN "none" ELSE deadline
    /\ recStale' = FALSE
    /\ UNCHANGED <<flags, state, reconStale, overtaken, attempts, timer, ret,
                   locals, Outside>>

\* esp_spi_recover_transport up to cancel_work_sync(&spi_work)
RecRecover ==
    /\ pc["rec"] = "recover"
    /\ CASE Stopping \/ resetting ->
              /\ Goto("rec", "rearm")
              /\ recStale' = FALSE
              /\ UNCHANGED <<state, ret>>
         [] ~Stopping /\ ~resetting /\ "RESTART_NEEDED" \in flags ->
              /\ Call("rec", "target", "rearm")
              /\ recStale' = FALSE
              /\ UNCHANGED state
         [] OTHER ->
              /\ state' = "RX_READY"
              /\ Goto("rec", "probe")
              /\ UNCHANGED <<recStale, ret>>
    /\ UNCHANGED <<flags, reconStale, overtaken, budget, timer, locals,
                   Outside>>

\* esp_spi_recover_transport after it: which session is expected
RecProbe ==
    /\ pc["rec"] = "probe"
    /\ rxq' = IF "RESET_EXPECTED" \in flags THEN <<>> ELSE rxq
    /\ IF Settled(flags \ {"PENDING"})
       THEN Goto("rec", "live") /\ UNCHANGED recStale
       ELSE Goto("rec", "open") /\ recStale' = FALSE
    /\ UNCHANGED <<flags, state, reconStale, overtaken, budget, timer, ret,
                   locals, spiVars, fw, evq, sesVars, faults, exitPc>>

\* Mutant: recovery flushes events_work before it opens the path.
RecOpenFlushesEvents ==
    /\ pc["rec"] = "open" /\ pc["ev"] = "idle"
    /\ dataPath' = TRUE
    /\ Goto("rec", "settle0")
    /\ UNCHANGED <<recVars, ret, locals, resetting, resetVars, spiBudget,
                   fwVars, sesVars, faults, exitPc>>

\* open_data_path after its 200 ms sleep; recover_transport returns 0
RecOpen ==
    /\ pc["rec"] = "open"
    /\ dataPath' = TRUE
    /\ Goto("rec", "settle0")
    /\ UNCHANGED <<recVars, ret, locals, resetting, resetVars, spiBudget,
                   fwVars, sesVars, faults, exitPc>>

\* The live-session branch of esp_spi_recover_transport, returning 1
RecLive ==
    /\ pc["rec"] = "live"
    /\ dataPath' = TRUE
    /\ state' = "READY"
    /\ Goto("rec", "settle1")
    /\ UNCHANGED <<flags, gens, budget, timer, ret, locals, resetting,
                   resetVars, spiBudget, fwVars, sesVars, faults, exitPc>>

\* Mutant: only an expected reset keeps the watchdog running.
BootAwaitedResetOnly == "RESET_EXPECTED" \in flags

\* A boot event is still due after the path was reopened.
BootAwaited == "RESET_EXPECTED" \in flags \/ "INIT_DONE" \notin flags

\* ret == 0: wait for the boot TLV with the watchdog armed
RecSettle0 ==
    /\ pc["rec"] = "settle0"
    /\ timer' = (timer \/ (~Stopping /\ BootAwaited))
    /\ Goto("rec", "idle")
    /\ UNCHANGED <<flags, state, gens, budget, ret, locals, Outside>>

\* ret > 0: the live session is restored unless a newer request arrived
RecSettle1 ==
    /\ pc["rec"] = "settle1"
    /\ CASE recStale ->
              Goto("rec", "idle") /\ UNCHANGED flags
         [] ~recStale /\ "RESET_EXPECTED" \in flags ->
              Goto("rec", "rearm") /\ UNCHANGED flags
         [] OTHER ->
              Goto("rec", "idle") /\ flags' = flags \ {"PENDING"}
    /\ recStale' = FALSE
    /\ UNCHANGED <<state, reconStale, overtaken, budget, timer, ret, locals,
                   Outside>>

\* Every mod_delayed_work of the worker itself
RecRearm ==
    /\ pc["rec"] = "rearm"
    /\ timer' = TRUE
    /\ Goto("rec", "idle")
    /\ UNCHANGED <<flags, state, gens, budget, ret, locals, Outside>>

-----------------------------------------------------------------------------
(* events_work and process_event_esp_bootup *)

\* esp_events_work dequeues a boot event; a structurally malformed one is
\* answered with a firmware reset (process_esp_bootup_event).
EvTake ==
    /\ pc["ev"] = "idle" /\ evq # <<>>
    /\ evq' = Tail(evq)
    /\ \/ /\ IF Stopping THEN Goto("ev", "idle") /\ UNCHANGED evFresh
                         ELSE Goto("ev", "boot") /\ evFresh' = Head(evq)
          /\ UNCHANGED <<ret, faults>>
       \/ /\ ~Stopping
          /\ Fault("malformed")
          /\ Call("ev", "schedR", "idle")
          /\ UNCHANGED evFresh
    /\ UNCHANGED <<recVars, reinit, want, spiVars, fw, rxq, sesVars, exitPc>>

\* The entry test of process_event_esp_bootup
EvBoot ==
    /\ pc["ev"] = "boot"
    /\ Goto("ev", IF Stopping THEN "idle" ELSE "sync")
    /\ evFresh' = (evFresh /\ ~Stopping)
    /\ UNCHANGED <<recVars, ret, reinit, want, Outside>>

\* cancel_delayed_work_sync(&fw_recovery_work) waits for it to return.
EvSync ==
    /\ pc["ev"] = "sync" /\ pc["rec"] = "idle"
    /\ timer' = FALSE
    /\ Goto("ev", "begin")
    /\ UNCHANGED <<flags, state, gens, budget, ret, locals, Outside>>

\* The old session is retired: flags, boot metadata, queued events.
EvBegin ==
    /\ pc["ev"] = "begin"
    /\ LET again == {"INIT_DONE", "PENDING", "RESET_EXPECTED"}
                        \cap flags # {}
           kept  == flags \ {"INIT_DONE", "RESTART_NEEDED", "RADIO_PENDING"}
       IN /\ reinit' = again
          /\ flags' = IF again THEN kept \cup {"PENDING", "CLEANUP"} ELSE kept
          /\ evq' = IF again THEN <<>> ELSE evq
          /\ Goto("ev", IF again THEN "quiesce" ELSE "parse")
    /\ meta' = "none"
    /\ UNCHANGED <<state, gens, budget, timer, ret, evFresh, want, spiVars,
                   fw, rxq, otaFile, radioVars, faults, exitPc>>

\* esp_spi_quiesce_for_fw_reset
EvQuiesce ==
    /\ pc["ev"] = "quiesce"
    /\ IF resetting
       THEN Goto("ev", "fail") /\ UNCHANGED <<state, dataPath, rxq>>
       ELSE /\ dataPath' = FALSE
            /\ state' = "DISABLED"
            /\ rxq' = <<>>
            /\ Goto("ev", "remove")
    /\ UNCHANGED <<flags, gens, budget, timer, ret, locals, resetting,
                   resetVars, spiBudget, fw, evq, sesVars, faults, exitPc>>

\* esp_remove_card: cancel_work_sync(&radio_service_work), endpoints gone
EvRemove ==
    /\ pc["ev"] = "remove" /\ pc["radio"] = "idle"
    /\ radioQ' = FALSE
    /\ applied' = -1
    /\ Goto("ev", IF Stopping THEN "idle" ELSE "parse")
    /\ UNCHANGED <<recVars, ret, locals, spiVars, fwVars, meta, otaFile,
                   desired, faults, exitPc>>

\* The TLV walk and the capability checks behind it
EvParse ==
    /\ pc["ev"] = "parse"
    /\ \/ /\ IF Stopping
             THEN Goto("ev", "idle") /\ UNCHANGED meta
             ELSE /\ meta' = IF evFresh THEN "fresh" ELSE "stale"
                  /\ Goto("ev", IF reinit THEN "reinit" ELSE "recon")
          /\ UNCHANGED faults
       \/ /\ Fault("parse")
          /\ Goto("ev", "fail")
          /\ UNCHANGED meta
    /\ evFresh' = FALSE /\ reinit' = FALSE
    /\ UNCHANGED <<recVars, ret, want, spiVars, fwVars, otaFile, radioVars,
                   exitPc>>

\* esp_spi_reinit_after_fw_reset
EvReinit ==
    /\ pc["ev"] = "reinit"
    /\ dataPath' = TRUE
    /\ state' = "READY"
    /\ Goto("ev", "recon")
    /\ UNCHANGED <<flags, gens, budget, timer, ret, locals, resetting,
                   resetVars, spiBudget, fwVars, sesVars, faults, exitPc>>

\* esp_begin_reconstruction and the READY publication
EvRecon ==
    /\ pc["ev"] = "recon"
    /\ flags' = flags \cup {"RECONSTRUCT"}
    /\ reconStale' = FALSE
    /\ state' = "READY"
    /\ Goto("ev", "addcard")
    /\ UNCHANGED <<recStale, overtaken, budget, timer, ret, locals, Outside>>

\* Mutant: the rebuilt card is never opened for commands again.
CardOpenedFenced(f) == f

\* What a successful esp_add_card ends with
CardOpened(f) == f \ {"CLEANUP"}

\* esp_add_card: its commands need an answering firmware
EvAddCard ==
    /\ pc["ev"] = "addcard"
    /\ \/ /\ Answers
          /\ flags' = CardOpened(flags)
          /\ Goto("ev", IF otaFile THEN "ota" ELSE "initdone")
          /\ UNCHANGED faults
       \/ /\ \/ ~Answers /\ UNCHANGED faults
             \/ Fault("cmd")
          /\ Goto("ev", "fail")
          /\ UNCHANGED flags
    /\ UNCHANGED <<state, gens, budget, timer, ret, locals, spiVars, fwVars,
                   sesVars, exitPc>>

\* esp_start_ota: image written, image unreadable, or a stage failed
EvOta ==
    /\ pc["ev"] = "ota"
    /\ otaFile' = FALSE
    /\ \/ /\ Answers
          /\ fw' = "rebooting"
          /\ flags' = flags \ {"RECONSTRUCT"} /\ reconStale' = FALSE
          /\ Call("ev", "schedF", "idle")
          /\ UNCHANGED faults
       \/ /\ Fault("otafile")
          /\ Goto("ev", "otafail")
          /\ UNCHANGED <<flags, reconStale, ret, fw>>
       \/ /\ \/ ~Answers /\ UNCHANGED faults
             \/ Fault("cmd")
          /\ IF Stopping \/ "RESET_EXPECTED" \in flags
             THEN Goto("ev", "otafail") /\ UNCHANGED ret
             ELSE Call("ev", "schedR", "otafail")
          /\ UNCHANGED <<flags, reconStale, fw>>
    /\ UNCHANGED <<state, recStale, overtaken, budget, timer, locals, spiVars,
                   rxq, evq, meta, radioVars, exitPc>>

EvOtaFail ==
    /\ pc["ev"] = "otafail"
    /\ Goto("ev", IF "RESET_EXPECTED" \in flags THEN "fail" ELSE "initdone")
    /\ UNCHANGED <<recVars, ret, locals, Outside>>

\* esp_commit_reconstruction, in its three steps
EvInitDone ==
    /\ pc["ev"] = "initdone"
    /\ flags' = flags \cup {"INIT_DONE"}
    /\ Goto("ev", "cancel")
    /\ UNCHANGED <<state, gens, budget, timer, ret, locals, Outside>>

EvCancel ==
    /\ pc["ev"] = "cancel" /\ pc["rec"] = "idle"
    /\ timer' = FALSE
    /\ Goto("ev", "commit")
    /\ UNCHANGED <<flags, state, gens, budget, ret, locals, Outside>>

\* Mutant: the commit forgets the reset intent of the finished recovery.
CommittedKeepsIntent(f) == f \ {"RECONSTRUCT", "PENDING", "RESET_EXPECTED"}

\* What a matching generation clears
Committed(f) == f \ {"RECONSTRUCT", "PENDING", "RESET_EXPECTED",
                     "RESTART_NEEDED"}

EvCommit ==
    /\ pc["ev"] = "commit"
    /\ IF reconStale
       THEN /\ flags' = flags \ {"RECONSTRUCT"}
            /\ state' = "RX_READY"
            /\ Goto("ev", "mismatch")
            /\ UNCHANGED overtaken
       ELSE /\ flags' = Committed(flags)
            /\ state' = "READY"
            /\ Goto("ev", "publish")
            /\ overtaken' = (~Stopping /\ (overtaken \/ RestartInFlight))
    /\ reconStale' = FALSE
    /\ UNCHANGED <<recStale, budget, timer, ret, locals, Outside>>

EvMismatch ==
    /\ pc["ev"] = "mismatch"
    /\ timer' = TRUE
    /\ Goto("ev", "publish")
    /\ UNCHANGED <<flags, state, gens, budget, ret, locals, Outside>>

\* Interfaces published; the radio work, or the legacy endpoints, follow.
EvPublish ==
    /\ pc["ev"] = "publish"
    /\ \/ /\ Fault("publish")
          /\ Goto("ev", "failpub")
          /\ UNCHANGED <<flags, applied, radioQ>>
       \/ /\ RadioCtrl
          /\ flags' = flags \cup {"RADIO_PENDING"}
          /\ radioQ' = TRUE
          /\ Goto("ev", "idle")
          /\ UNCHANGED <<applied, faults>>
       \/ /\ ~RadioCtrl
          /\ applied' = 0
          /\ Goto("ev", "finish")
          /\ UNCHANGED <<flags, radioQ, faults>>
    /\ UNCHANGED <<state, gens, budget, timer, ret, locals, spiVars, fwVars,
                   meta, otaFile, desired, exitPc>>

\* fail_after_commit, then its esp_remove_card (cancels the radio work)
EvFailPub ==
    /\ pc["ev"] = "failpub"
    /\ flags' = (flags \ {"INIT_DONE"}) \cup {"CLEANUP"}
    /\ Goto("ev", "failrm")
    /\ UNCHANGED <<state, gens, budget, timer, ret, locals, Outside>>

EvFailRemove ==
    /\ pc["ev"] = "failrm" /\ pc["radio"] = "idle"
    /\ radioQ' = FALSE
    /\ applied' = -1
    /\ Goto("ev", "fail")
    /\ UNCHANGED <<recVars, ret, locals, spiVars, fwVars, meta, otaFile,
                   desired, faults, exitPc>>

\* fail: esp_clear_reconstruct_flag, then esp_bootup_request_retry
EvFail ==
    /\ pc["ev"] = "fail"
    /\ flags' = flags \ {"RECONSTRUCT"}
    /\ reconStale' = FALSE /\ evFresh' = FALSE /\ reinit' = FALSE
    /\ Goto("ev", "retry")
    /\ UNCHANGED <<state, recStale, overtaken, budget, timer, ret, want,
                   Outside>>

\* Mutant: a late successful boot does not heal the terminal flag.
HealedUnhealed(f) == f

\* A committed boot heals a terminal timeout.
Healed(f) == f \ {"EXHAUSTED"}

\* esp_finish_reconstruction, the section under fw_recovery_lock
Finish(t) ==
    /\ pc[t] = "finish"
    /\ IF Settled(flags)
       THEN /\ attempts' = 0
            /\ deadline' = "none"
            /\ flags' = Healed(flags)
            /\ synced' = FALSE
            /\ Goto(t, "commitcb")
       ELSE Goto(t, "idle") /\ UNCHANGED <<flags, budget, synced>>
    /\ UNCHANGED <<state, gens, timer, ret, locals, dataPath, resetting,
                   resetVars, soft, rescue, fwVars, sesVars, faults, exitPc>>

\* esp_spi_commit_fw_recovery
CommitCallback(t) ==
    /\ pc[t] = "commitcb"
    /\ synced' = TRUE
    /\ soft' = SoftNow
    /\ rescue' = FALSE
    /\ Goto(t, "idle")
    /\ UNCHANGED <<recVars, ret, locals, dataPath, resetting, resetVars,
                   fwVars, sesVars, faults, exitPc>>

-----------------------------------------------------------------------------
(* radio_service_work and the radio_service module parameter *)

\* Mutant: a write while the work runs relies on check_latest alone.
SelectQueuesWhenIdle == "INIT_DONE" \in flags /\ ~Stopping
                                              /\ pc["radio"] = "idle"

\* When a write schedules radio_service_work
SelectQueues == "INIT_DONE" \in flags /\ ~Stopping

\* radio_service_param_set
UserSelect ==
    /\ desired < MaxWrites /\ exitPc # "gone"
    /\ desired' = desired + 1
    /\ radioQ' = (radioQ \/ SelectQueues)
    /\ UNCHANGED <<recVars, ctlVars, spiVars, fwVars, meta, otaFile, applied,
                   faults, exitPc>>

RadioStart ==
    /\ radioQ /\ pc["radio"] = "idle"
    /\ radioQ' = FALSE
    /\ Goto("radio", "gate")
    /\ UNCHANGED <<recVars, ret, locals, spiVars, fwVars, meta, otaFile,
                   applied, desired, faults, exitPc>>

\* again: the eligibility test, then the snapshot of the desired mask
RadioGate ==
    /\ pc["radio"] = "gate"
    /\ IF Settled(flags) /\ "CLEANUP" \notin flags /\ ~Stopping /\ RadioCtrl
       THEN want' = desired /\ Goto("radio", "cmd")
       ELSE Goto("radio", "idle") /\ UNCHANGED want
    /\ UNCHANGED <<recVars, ret, evFresh, reinit, Outside>>

\* cmd_set_radio_service: accepted, accepted but a restart is required
\* (a mask that was active is being left), rejected or aborted, timed out
\* (the mailbox then quarantines the incarnation itself).
RadioCmd ==
    /\ pc["radio"] = "cmd"
    /\ \/ /\ Answers
          /\ Goto("radio", "endp")
          /\ UNCHANGED <<ret, faults>>
       \/ /\ Answers /\ applied \notin {-1, want}
          /\ Call("radio", "schedF", "unpub")
          /\ UNCHANGED faults
       \/ /\ \/ Stopping \/ "CLEANUP" \in flags
             \/ ~Answers
          /\ Goto("radio", "radfail")
          /\ UNCHANGED <<ret, faults>>
       \/ /\ Fault("radio")
          /\ Goto("radio", "radfail")
          /\ UNCHANGED ret
       \/ /\ \/ ~Answers /\ UNCHANGED faults
             \/ Fault("timeout")
          /\ ~Stopping
          /\ {"RECONSTRUCT", "RESET_EXPECTED"} \cap flags = {}
          /\ Call("radio", "schedR", "radfail")
    /\ UNCHANGED <<recVars, locals, spiVars, fwVars, sesVars, exitPc>>

RadioFail ==
    /\ pc["radio"] = "radfail"
    /\ IF "RADIO_PENDING" \in flags
       THEN Call("radio", "schedR", "idle")
       ELSE Goto("radio", "latestNo") /\ UNCHANGED ret
    /\ UNCHANGED <<recVars, locals, Outside>>

\* Endpoints are unpublished before a required restart is requested.
RadioUnpublish ==
    /\ pc["radio"] = "unpub"
    /\ applied' = -1
    /\ Call("radio", "req", "idle")
    /\ UNCHANGED <<recVars, locals, spiVars, fwVars, meta, otaFile, desired,
                   radioQ, faults, exitPc>>

\* init_bt / esp_init_rcp for the active mask, and removal of the others
RadioEndpoints ==
    /\ pc["radio"] = "endp"
    /\ \/ /\ applied' = want
          /\ Goto("radio", "latestYes")
          /\ UNCHANGED <<ret, faults>>
       \/ /\ Fault("endpoint")
          /\ Call("radio", "schedR", "idle")
          /\ UNCHANGED applied
    /\ UNCHANGED <<recVars, locals, spiVars, fwVars, meta, otaFile, desired,
                   radioQ, exitPc>>

\* check_latest
RadioLatest ==
    /\ pc["radio"] \in {"latestYes", "latestNo"}
    /\ CASE desired # want -> Goto("radio", "gate") /\ UNCHANGED flags
         [] desired = want /\ pc["radio"] = "latestYes"
            /\ "RADIO_PENDING" \in flags ->
              /\ flags' = flags \ {"RADIO_PENDING"}
              /\ Goto("radio", "finish")
         [] OTHER -> Goto("radio", "idle") /\ UNCHANGED flags
    /\ UNCHANGED <<state, gens, budget, timer, ret, locals, Outside>>

-----------------------------------------------------------------------------
(* Failure reports from the other contexts *)

\* esp_spi_pause_for_transport_recovery, reached only from the SPI worker
BusError(t) ==
    /\ pc[t] = "idle" /\ Accepting
    /\ exitPc \notin {"card_removed", "drained", "gone"}
    /\ Fault("bus")
    /\ dataPath' = FALSE
    /\ Call(t, "schedT", "idle")
    /\ UNCHANGED <<recVars, locals, resetting, resetVars, spiBudget, fwVars,
                   sesVars, exitPc>>

\* spi_notify_tx_lost, esp_spi_fail_rcp_rx and the other callers of
\* esp_schedule_fw_reset_recovery + esp_request_firmware_restart
StatefulError(t) ==
    /\ pc[t] = "idle"
    /\ exitPc \notin {"card_removed", "drained", "gone"}
    /\ Fault("stateful")
    /\ Call(t, "schedR", "idle")
    /\ UNCHANGED <<recVars, locals, spiVars, fwVars, sesVars, exitPc>>

-----------------------------------------------------------------------------
(* esp_spi_reset_work, on the ordered SPI workqueue *)

\* A complete boot frame is already on the wire and is kept: with a reset
\* GPIO only under the initial rescue token, without one always.
RstKeepBoot ==
    /\ rst = "idle" /\ rstQ
    /\ HasResetGpio => rescue
    /\ fw = "ready"
    /\ rstQ' = FALSE /\ rst' = "flag" /\ rstRet' = "boot"
    /\ rstFresh' = TRUE
    /\ fw' = "live"
    /\ rescue' = (rescue /\ ~HasResetGpio)
    /\ UNCHANGED <<recVars, ctlVars, dataPath, resetting, soft, synced, rxq,
                   evq, sesVars, faults, exitPc>>

\* esp_spi_hw_reset: EN is pulsed, or refused while stopping, or the GPIO
\* fails
RstHwReset ==
    /\ rst = "idle" /\ rstQ /\ HasResetGpio
    /\ ~(rescue /\ fw = "ready")
    /\ rstQ' = FALSE /\ rst' = "flag"
    /\ rescue' = FALSE
    /\ \/ /\ ~Stopping /\ rstRet' = "ok"
          /\ fw' = "boot"
          /\ Restarted
          /\ UNCHANGED faults
       \/ /\ \/ Stopping /\ rstRet' = "shutdown" /\ UNCHANGED faults
             \/ ~Stopping /\ rstRet' = "fail" /\ Fault("gpio")
          /\ UNCHANGED <<evFresh, rstFresh, fwVars, meta>>
    /\ UNCHANGED <<recVars, pc, ret, reinit, want, dataPath, resetting, soft,
                   synced, otaFile, radioVars, exitPc>>

\* CMD_HOST_REBOOT at the bootstrap clock: acknowledged, not answered, or
\* executed although its acknowledgement was lost
RstSoftReboot ==
    /\ rst = "idle" /\ rstQ /\ ~HasResetGpio
    /\ rstQ' = FALSE /\ rst' = "flag" /\ UNCHANGED rstFresh
    /\ \/ /\ fw \in {"ready", "live"} /\ rstRet' = "ok"
          /\ fw' = "rebooting"
          /\ UNCHANGED faults
       \/ /\ \/ fw \notin {"ready", "live"} /\ UNCHANGED faults
             \/ Fault("gpio")
          /\ rstRet' = "fail"
          /\ UNCHANGED fw
       \/ /\ fw \in {"ready", "live"} /\ Fault("ack")
          /\ rstRet' = "fail"
          /\ fw' = "rebooting"
    /\ UNCHANGED <<recVars, ctlVars, dataPath, resetting, spiBudget, rxq,
                   evq, sesVars, exitPc>>

\* RESTART_NEEDED records whether the reset still has to be repeated
RstFlag ==
    /\ rst = "flag"
    /\ rst' = "clear"
    /\ flags' = CASE rstRet = "fail" -> flags \cup {"RESTART_NEEDED"}
                  [] rstRet = "shutdown" -> flags
                  [] OTHER -> flags \ {"RESTART_NEEDED"}
    /\ UNCHANGED <<state, gens, budget, timer, ctlVars, dataPath, resetting,
                   rstQ, rstRet, rstFresh, spiBudget, fwVars, sesVars,
                   faults, exitPc>>

RstClear ==
    /\ rst = "clear"
    /\ rst' = "path"
    /\ resetting' = FALSE
    /\ UNCHANGED <<recVars, ctlVars, dataPath, rstQ, rstRet, rstFresh,
                   spiBudget, fwVars, sesVars, faults, exitPc>>

\* The kept boot frame is enqueued, or the path stays closed after an ACK
RstPath ==
    /\ rst = "path"
    /\ rst' = "arm" /\ rstRet' = "ok" /\ rstFresh' = FALSE
    /\ \/ /\ rstRet = "boot"
          /\ dataPath' = TRUE
          /\ rescue' = FALSE
          /\ \/ /\ rxq' = Append(rxq, rstFresh)
                /\ UNCHANGED <<flags, faults>>
             \/ /\ Fault("enqueue")
                /\ flags' = flags \cup {"RESTART_NEEDED"}
                /\ UNCHANGED rxq
       \/ /\ rstRet # "boot"
          /\ dataPath' = IF rstRet = "ok" /\ ~HasResetGpio
                         THEN FALSE ELSE dataPath
          /\ UNCHANGED <<flags, rescue, rxq, faults>>
    /\ UNCHANGED <<state, gens, budget, timer, ctlVars, resetting, rstQ,
                   soft, synced, fw, evq, sesVars, exitPc>>

RstArm ==
    /\ rst = "arm"
    /\ rst' = "idle"
    /\ timer' = (timer \/ ~Stopping)
    /\ UNCHANGED <<flags, state, gens, budget, ctlVars, dataPath, resetting,
                   rstQ, rstRet, rstFresh, spiBudget, fwVars, sesVars,
                   faults, exitPc>>

-----------------------------------------------------------------------------
(* The target, the wire and the clock (environment) *)

\* The bootloader finishes and the boot event is advertised on data-ready.
FwBoot ==
    /\ fw = "boot" /\ fw' = "ready"
    /\ UNCHANGED <<recVars, ctlVars, spiVars, rxq, evq, sesVars, faults,
                   exitPc>>

\* An acknowledged soft reboot, or an OTA image switch, takes effect.
FwReboot ==
    /\ fw = "rebooting" /\ fw' = "boot"
    /\ Restarted
    /\ UNCHANGED <<recVars, pc, ret, reinit, want, dataPath, resetting, rstQ,
                   rst, rstRet, spiBudget, otaFile, radioVars, faults, exitPc>>

\* A panic or an external reset: a new incarnation nobody asked for.
FwCrash ==
    /\ fw \in {"ready", "live"} /\ Fault("crash")
    /\ fw' = "boot"
    /\ Restarted
    /\ UNCHANGED <<recVars, pc, ret, reinit, want, dataPath, resetting, rstQ,
                   rst, rstRet, spiBudget, otaFile, radioVars, exitPc>>

\* The incarnation stops answering; only a reset line can revive it.
FwHang ==
    /\ fw \in {"boot", "ready", "live"} /\ Fault("hang")
    /\ fw' = "dead"
    /\ UNCHANGED <<recVars, ctlVars, spiVars, rxq, evq, sesVars, exitPc>>

\* The boot frame is clocked out but lost (allocation failure, checksum).
FwLoseBoot ==
    /\ fw = "ready" /\ Fault("lose")
    /\ fw' = "live"
    /\ UNCHANGED <<recVars, ctlVars, spiVars, rxq, evq, sesVars, exitPc>>

\* esp_spi_work / process_rx_buf take the boot frame off the wire.
RxBoot ==
    /\ fw = "ready" /\ Accepting
    /\ fw' = "live"
    /\ rxq' = Append(rxq, TRUE)
    /\ rescue' = FALSE
    /\ UNCHANGED <<recVars, ctlVars, dataPath, resetting, resetVars, soft,
                   synced, evq, sesVars, faults, exitPc>>

\* if_rx_work: read_packet and process_rx_packet (ESP_INTERNAL_IF)
RxDispatch ==
    /\ rxq # <<>> /\ dataPath
    /\ rxq' = Tail(rxq)
    /\ evq' = IF Stopping THEN evq ELSE Append(evq, Head(rxq))
    /\ UNCHANGED <<recVars, ctlVars, spiVars, fw, sesVars, faults, exitPc>>

\* jiffies passes fw_boot_deadline.
DeadlinePasses ==
    /\ deadline = "armed"
    /\ deadline' = "expired"
    /\ UNCHANGED <<flags, state, gens, attempts, timer, ctlVars, Outside>>

-----------------------------------------------------------------------------
(* esp_exit, esp_spi_remove_common and deinit_adapter *)

ExitBegin ==
    /\ Unload /\ exitPc = "none" /\ exitPc' = "unloading"
    /\ flags' = flags \cup {"UNLOADING"}
    /\ overtaken' = FALSE
    /\ UNCHANGED <<state, reconStale, recStale, budget, timer, ctlVars,
                   spiVars, fwVars, sesVars, faults>>

\* cancel_delayed_work_sync(&fw_recovery_work): twice on the way out, and
\* once more in deinit_adapter
ExitCancelRecovery ==
    /\ pc["rec"] = "idle"
    /\ timer' = FALSE
    /\ \/ exitPc = "unloading" /\ exitPc' = "rec_cancelled"
       \/ exitPc = "removing" /\ exitPc' = "rm_rec_cancelled"
    /\ UNCHANGED <<flags, state, gens, budget, ctlVars, spiVars, fwVars,
                   sesVars, faults>>

\* cancel_work_sync(&events_work) and the purge, then the radio work
ExitCancelEvents ==
    /\ pc["ev"] = "idle"
    /\ evq' = <<>>
    /\ \/ /\ exitPc = "rec_cancelled" /\ pc["radio"] = "idle"
          /\ radioQ' = FALSE
          /\ exitPc' = "works_cancelled"
       \/ /\ exitPc = "rm_rec_cancelled"
          /\ exitPc' = "rm_ev_cancelled"
          /\ UNCHANGED radioQ
    /\ UNCHANGED <<recVars, ctlVars, spiVars, fw, rxq, meta, otaFile,
                   applied, desired, faults>>

ExitRemoving ==
    /\ exitPc = "works_cancelled" /\ pc["ev"] = "idle"
    /\ exitPc' = "removing"
    /\ flags' = (flags \ {"INIT_DONE"}) \cup {"CLEANUP", "REMOVING"}
    /\ state' = "DISABLED"
    /\ evq' = <<>>
    /\ UNCHANGED <<gens, budget, timer, ctlVars, spiVars, fw, rxq, sesVars,
                   faults>>

\* esp_spi_remove_common: cancel_work_sync(&reset_work), clear RESETTING
ExitCancelReset ==
    /\ exitPc = "rm_ev_cancelled" /\ rst = "idle"
    /\ exitPc' = "rst_cancelled"
    /\ dataPath' = FALSE
    /\ rstQ' = FALSE
    /\ resetting' = FALSE
    /\ UNCHANGED <<recVars, ctlVars, rst, rstRet, rstFresh, spiBudget,
                   fwVars, sesVars, faults>>

\* cancel spi_work and if_rx_work, purge, esp_remove_card. The reporting
\* contexts end here: interrupts are freed and the card is gone.
ExitRemoveCard ==
    /\ exitPc = "rst_cancelled"
    /\ pc["radio"] = "idle" /\ \A t \in Errs : pc[t] = "idle"
    /\ exitPc' = "card_removed"
    /\ rxq' = <<>>
    /\ applied' = -1
    /\ radioQ' = FALSE
    /\ UNCHANGED <<recVars, ctlVars, spiVars, fw, evq, meta, otaFile,
                   desired, faults>>

\* spi_exit: a reset queued meanwhile is cancelled with its workqueue
ExitTransport ==
    /\ exitPc = "card_removed" /\ rst = "idle"
    /\ exitPc' = "drained"
    /\ rstQ' = FALSE
    /\ UNCHANGED <<recVars, ctlVars, dataPath, resetting, rst, rstRet,
                   rstFresh, spiBudget, fwVars, sesVars, faults>>

\* Mutant: deinit_adapter trusts the cancels of the transport removal.
ExitFreeNoCancel ==
    /\ exitPc = "drained" /\ pc["rec"] = "idle" /\ pc["radio"] = "idle"
    /\ exitPc' = "gone"
    /\ state' = "DISABLED"
    /\ evq' = <<>>
    /\ UNCHANGED <<flags, gens, budget, timer, ctlVars, spiVars, fw, rxq,
                   sesVars, faults>>

\* deinit_adapter
ExitFree ==
    /\ exitPc = "drained" /\ pc["rec"] = "idle" /\ pc["radio"] = "idle"
    /\ exitPc' = "gone"
    /\ timer' = FALSE
    /\ radioQ' = FALSE
    /\ state' = "DISABLED"
    /\ evq' = <<>>
    /\ UNCHANGED <<flags, gens, budget, ctlVars, spiVars, fw, rxq, meta,
                   otaFile, applied, desired, faults>>

-----------------------------------------------------------------------------
(* esp_spi_probe: a fresh binding; firmware may be booting or up already *)
Init ==
    /\ flags = {} /\ state = "RX_READY"
    /\ reconStale = FALSE /\ recStale = FALSE /\ overtaken = FALSE
    /\ attempts = 0 /\ deadline = "none" /\ timer = TRUE
    /\ pc = [t \in Threads |-> "idle"] /\ ret = [t \in Threads |-> "idle"]
    /\ evFresh = FALSE /\ reinit = FALSE /\ want = 0
    /\ dataPath = TRUE /\ resetting = FALSE /\ rstQ = FALSE /\ rst = "idle"
    /\ rstRet = "ok" /\ rstFresh = FALSE /\ soft = 0 /\ synced = TRUE
    /\ rescue = TRUE
    /\ fw \in {"boot", "ready"} /\ rxq = <<>> /\ evq = <<>>
    /\ meta = "none" /\ applied = -1 /\ desired = 0 /\ radioQ = FALSE
    /\ otaFile = OtaConfigured /\ faults = 0 /\ exitPc = "none"

CallChain(t) == \/ Retry(t) \/ Schedule(t) \/ Arm(t) \/ Request(t)
                \/ ResetTarget(t) \/ ResetQueue(t)

RecWork == \/ RecStart \/ RecCheck \/ RecRecover \/ RecProbe \/ RecOpen
           \/ RecLive \/ RecSettle0 \/ RecSettle1 \/ RecRearm
           \/ CallChain("rec")

EvWork == \/ EvTake \/ EvBoot \/ EvSync \/ EvBegin \/ EvQuiesce
          \/ EvRemove \/ EvParse
          \/ EvReinit \/ EvRecon \/ EvAddCard \/ EvOta \/ EvOtaFail
          \/ EvInitDone \/ EvCancel \/ EvCommit \/ EvMismatch \/ EvPublish
          \/ EvFailPub \/ EvFailRemove \/ EvFail
          \/ Finish("ev") \/ CommitCallback("ev") \/ CallChain("ev")

RadioWork == \/ RadioStart \/ RadioGate \/ RadioCmd \/ RadioFail
             \/ RadioUnpublish \/ RadioEndpoints \/ RadioLatest
             \/ Finish("radio") \/ CommitCallback("radio")
             \/ CallChain("radio")

ResetWork == \/ RstKeepBoot \/ RstHwReset \/ RstSoftReboot \/ RstFlag
             \/ RstClear \/ RstPath \/ RstArm

ExitWork == \/ ExitBegin \/ ExitCancelRecovery \/ ExitCancelEvents
            \/ ExitRemoving \/ ExitCancelReset \/ ExitRemoveCard
            \/ ExitTransport \/ ExitFree

ReportWork(t) == BusError(t) \/ StatefulError(t) \/ CallChain(t)

Environment == \/ FwBoot \/ FwReboot \/ FwCrash \/ FwHang \/ FwLoseBoot
               \/ RxBoot \/ RxDispatch \/ DeadlinePasses \/ UserSelect

Next == \/ RecWork \/ EvWork \/ RadioWork \/ ResetWork \/ ExitWork
        \/ \E t \in Errs : ReportWork(t)
        \/ Environment

Spec == Init /\ [][Next]_vars

-----------------------------------------------------------------------------
(* Properties *)

\* Types, by owner: the coordinator, the threads, SPI, firmware, the session.
TypeRec ==
    /\ flags \subseteq Flags
    /\ state \in {"DISABLED", "RX_READY", "READY"}
    /\ reconStale \in BOOLEAN /\ recStale \in BOOLEAN
    /\ overtaken \in BOOLEAN /\ timer \in BOOLEAN
    /\ attempts \in 0..MaxAttempts
    /\ deadline \in {"none", "armed", "expired"}
TypeCtl ==
    /\ pc \in [Threads -> Labels] /\ ret \in [Threads -> ReturnPoints]
    /\ evFresh \in BOOLEAN /\ reinit \in BOOLEAN
    /\ want \in 0..MaxWrites
TypeSpi ==
    /\ dataPath \in BOOLEAN /\ resetting \in BOOLEAN /\ rstQ \in BOOLEAN
    /\ rst \in {"idle", "flag", "clear", "path", "arm"}
    /\ rstRet \in {"ok", "boot", "fail", "shutdown"}
    /\ rstFresh \in BOOLEAN /\ synced \in BOOLEAN /\ rescue \in BOOLEAN
    /\ soft \in 0..MaxAttempts
TypeFw ==
    /\ fw \in {"boot", "ready", "live", "rebooting", "dead"}
    /\ rxq \in Seq(BOOLEAN) /\ evq \in Seq(BOOLEAN)
TypeSes ==
    /\ meta \in {"none", "stale", "fresh"}
    /\ otaFile \in BOOLEAN /\ radioQ \in BOOLEAN
    /\ desired \in 0..MaxWrites /\ applied \in -1..MaxWrites
    /\ faults \in 0..MaxFaults
    /\ exitPc \in ExitLabels

\* Every variable keeps its type and every counter its bound: attempts and
\* soft never pass ESP_FW_BOOT_MAX_ATTEMPTS, ret only holds call returns.
TypeOK == TypeRec /\ TypeCtl /\ TypeSpi /\ TypeFw /\ TypeSes

\* No context is inside the recovery, boot or radio code.
Quiet == \A t \in Threads : pc[t] = "idle"
\* No reset is requested, queued or running.
NoReset == ~resetting /\ ~rstQ /\ rst = "idle"

\* The driver still owes the firmware a recovery it may perform.
Owed == ~Settled(flags) /\ {"EXHAUSTED", "UNLOADING", "REMOVING"}
                             \cap flags = {}

\* A recovery that is owed is never forgotten: whenever no context is inside
\* the recovery code, the watchdog fw_recovery_work is pending. Every path
\* that cancels it (process_event_esp_bootup, esp_commit_reconstruction) or
\* returns from it must end in a commit or re-arm it.
WatchdogArmed == Owed /\ Quiet => timer

\* Who is bound to arm the watchdog, or to end the recovery, before it stops.
EvRebuild == {"quiesce", "remove", "parse", "reinit", "recon", "addcard",
              "ota", "otafail", "initdone", "failrm", "fail", "retry"}
EvArms == pc["ev"] \in EvRebuild \cup {"begin", "cancel", "commit",
                                        "mismatch"}
RecArms ==
    \/ pc["rec"] \in {"check", "retry", "rearm"}
    \/ pc["rec"] \in {"target", "queue"} /\ ret["rec"] = "rearm"
    \/ pc["rec"] \in RecGenLive /\ ~recStale
    \/ /\ pc["rec"] \in {"open", "settle0"}
       /\ "RESET_EXPECTED" \in flags \/ "INIT_DONE" \notin flags
Arming == \E t \in Threads : pc[t] \in {"schedT", "schedF", "schedR",
                                        "arm", "armR"}

\* A recovery that is owed has somebody bound to act on it.
OwedIsBacked == Owed => timer \/ RecArms \/ EvArms \/ Arming

\* A live resync that will clear PENDING has a session, or the event worker
\* is rebuilding one and will settle it or ask for a retry.
LiveResyncBacked ==
    pc["rec"] \in {"live", "settle1"} /\ ~recStale /\ ~Stopping =>
        \/ "INIT_DONE" \in flags
        \/ pc["ev"] \in EvRebuild \cup {"schedF", "schedR"}

\* INIT_DONE is set before esp_commit_reconstruction cancels the watchdog.
CommitInitialised ==
    pc["ev"] \in {"cancel", "commit"} /\ ~Stopping => "INIT_DONE" \in flags

\* UNLOADING stays set through module removal.
ExitMarked == exitPc # "none" => "UNLOADING" \in flags

\* The inductive form of WatchdogArmed: an owed recovery has the timer or a
\* context that will arm it, a live resync whose session is being rebuilt
\* has the rebuilding event worker to answer for it, and the commit of
\* esp_commit_reconstruction really ends in a settled session.
RecoveryInv == OwedIsBacked /\ LiveResyncBacked /\ CommitInitialised
                            /\ ExitMarked

\* The reset budget of esp_request_firmware_restart: the cap is never
\* exceeded, a running deadline belongs to a charged attempt, and the
\* terminal state is reached only with the whole budget spent.
BudgetInv ==
    /\ attempts <= MaxAttempts
    /\ deadline # "none" => attempts > 0
    /\ "EXHAUSTED" \in flags => attempts = MaxAttempts /\ deadline = "none"

\* ESP_SPI_RESETTING serialises resets: a context that is about to queue
\* reset_work is the only one, and finds the work neither pending nor still
\* before its RESETTING release, so the -EBUSY rollback is dead code.
ResetSerialised ==
    \A t \in Threads : pc[t] = "queue" =>
        /\ ~rstQ /\ rst \notin {"flag", "clear"}
        /\ \A u \in Threads \ {t} : pc[u] # "queue"

\* reset_work was cancelled for good: no reset may be requested any more.
PastReset == {"rst_cancelled", "card_removed", "drained", "gone"}

\* The inductive form of ResetSerialised: a reset that is about to be queued,
\* is queued, or has not reached its release holds ESP_SPI_RESETTING until
\* esp_spi_remove_common clears the bit for good.
ResetInv ==
    /\ ResetSerialised
    /\ rstQ => rst \notin {"flag", "clear"}
    /\ rstQ \/ rst \in {"flag", "clear"} \/ (\E t \in Threads : pc[t] = "queue")
         => resetting \/ exitPc \in PastReset
    /\ ExitMarked

\* A committed session carries no left-over reset intent, and no reset is
\* on its way to it: otherwise live firmware would be reset under a session
\* that nobody rebuilds, or by the next harmless transport resync
\* (esp_spi_recover_transport tests RESTART_NEEDED first). Excepted are the
\* sessions after a commit that overtook a restart in flight: schedule and
\* request are two sections, and a reconstruction that begins after the
\* first may commit before the second.
RestartIntentSettles ==
    Settled(flags) /\ ~Stopping /\ ~overtaken =>
        "RESTART_NEEDED" \notin flags /\ ~RestartInFlight

\* The inductive form of RestartIntentSettles: until a commit overtakes it, a
\* restart that is wanted or in flight keeps RESET_EXPECTED, which only a
\* commit clears.
IntentInv ==
    /\ \/ Stopping
       \/ overtaken
       \/ "RESET_EXPECTED" \in flags
       \/ "RESTART_NEEDED" \notin flags /\ ~RestartInFlight
    /\ \A t \in Threads : pc[t] = "schedT" => ret[t] = "idle"

\* A committed session admits commands: neither the cleanup nor the
\* reconstruction gate of spi_accepting_work / esp_cmd_is_admitted is left. And
\* it has boot metadata, which process_event_esp_bootup forgets before it parses:
\* a malformed boot event never ends in a session.
SessionUsable ==
    Settled(flags) /\ Quiet =>
        {"CLEANUP", "RECONSTRUCT"} \cap flags = {} /\ meta # "none"

\* The event worker has reopened the card and not yet published it.
Reopened ==
    \/ pc["ev"] \in {"ota", "otafail", "initdone"}
    \/ /\ ret["ev"] = "otafail"
       /\ pc["ev"] \in {"schedR", "armR", "req", "target", "queue"}

\* The inductive form of SessionUsable: CLEANUP excludes an initialised or
\* reopened card, RECONSTRUCT has the event worker to clear it, and metadata is
\* there from the parsing of a boot event until the session is retired.
UsableInv ==
    /\ "CLEANUP" \in flags => "INIT_DONE" \notin flags /\ ~Reopened
    /\ pc["ev"] \in {"cancel", "commit", "mismatch", "publish"}
         => "CLEANUP" \notin flags
    /\ "RECONSTRUCT" \in flags
         => Reopened \/ pc["ev"] \in {"addcard", "cancel", "commit", "fail"}
    /\ pc["ev"] \in {"schedT", "schedF", "arm"} => ret["ev"] = "idle"
    /\ \/ "INIT_DONE" \in flags \/ Reopened
       \/ pc["ev"] \in {"reinit", "recon", "addcard"}
       => meta # "none"

\* A commit refills the SPI-local budget of soft reboots at once, even when
\* its callback is delayed past a new request: as long as no attempt was
\* charged since, esp_spi_reset_target counts from zero. Excepted is what
\* follows a commit that overtook a restart in flight, whose reboot is
\* counted against the next session.
SoftRebootLeft ==
    attempts = 0 /\ ~Stopping /\ ~overtaken => SoftNow = 0

\* The inductive form of SoftRebootLeft: without a charged attempt no reset
\* is wanted or under way.
SoftInv ==
    \/ Stopping
    \/ overtaken
    \/ attempts > 0
    \/ SoftNow = 0 /\ "RESTART_NEEDED" \notin flags /\ ~ResetUnderWay

\* After esp_exit nothing can run again: no work is pending and every
\* context has left the driver.
ExitQuiescent ==
    exitPc = "gone" => /\ Quiet /\ ~timer /\ ~radioQ
                       /\ ~rstQ /\ rst = "idle" /\ evq = <<>>

\* How far esp_exit is past the cancel of the watchdog, of the event and
\* radio works, and of the reporting contexts
PastRec == ExitLabels \ {"none", "unloading"}
PastWorks == PastRec \ {"rec_cancelled"}
PastCard == {"card_removed", "drained", "gone"}

\* The inductive form of ExitQuiescent: what esp_exit has cancelled stays
\* cancelled, because UNLOADING keeps every source from queueing it again.
ExitInv ==
    /\ ExitMarked
    /\ exitPc \in PastRec => pc["rec"] = "idle"
    /\ exitPc \in PastWorks => pc["ev"] = "idle" /\ pc["radio"] = "idle"
                              /\ ~radioQ
    /\ exitPc \in PastCard => \A t \in Errs : pc[t] = "idle"
    /\ exitPc \in {"drained", "gone"} => ~rstQ /\ rst = "idle"
    /\ exitPc = "gone" => ~timer /\ evq = <<>>

-----------------------------------------------------------------------------
(* Fairness: workqueues run what is queued, a booting firmware boots, a      *)
(* level-high data-ready line is served, time passes. cancel_*_work_sync    *)
(* refuses requeueing while it waits, so the steps of the event worker and  *)
(* of module exit that wait for another work to return are strongly fair.   *)
Fairness ==
    /\ WF_vars(RecWork) /\ SF_vars(EvWork) /\ WF_vars(RadioWork)
    /\ WF_vars(ResetWork) /\ \A t \in Errs : WF_vars(CallChain(t))
    /\ WF_vars(FwBoot) /\ WF_vars(FwReboot)
    /\ WF_vars(RxBoot) /\ WF_vars(RxDispatch) /\ WF_vars(DeadlinePasses)
    /\ SF_vars(ExitWork /\ exitPc # "none")

FairSpec == Spec /\ Fairness

\* Recovery is bounded: it ends in a committed session, in the terminal
\* state, or because the driver goes away; it never retries forever.
RecoveryCompletes == Owed ~> ~Owed

\* Module removal terminates: no context waits for another in a circle.
ExitCompletes == (exitPc = "unloading") ~> (exitPc = "gone")

\* The last write of radio_service is the selection that ends up published.
RadioConverges ==
    (desired = MaxWrites) ~> (applied = desired \/ "EXHAUSTED" \in flags)

=============================================================================
