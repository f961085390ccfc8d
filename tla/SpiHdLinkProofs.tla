-------------------------- MODULE SpiHdLinkProofs --------------------------
(* Proofs about the SPI half-duplex link: its types; that a reset hides the  *)
(* ready byte of the firmware it ends; and that a committed session stays on *)
(* its counters and loses no wakeup.                                         *)
EXTENDS SpiHdLink, TLAPS

-----------------------------------------------------------------------------
(* Types *)

\* The counters of the link are registers of a fixed width.
LEMMA CounterFacts ==
    /\ RxMod \in Nat /\ RxMod > 4 /\ CrMod \in Nat /\ CrMod > 2
    /\ RxLimit \in Nat /\ RxLimit >= 2 /\ Slots \in Nat /\ Slots >= 1
    /\ 0 \in 0..(RxMod - 1) /\ 0 \in 0..(CrMod - 1) /\ 0 \in 0..RxLimit /\ 0 \in 0..2
  BY CounterAssumption DEF BootLen

\* They wrap.
LEMMA Wraps ==
    ASSUME NEW a \in Int
    PROVE  a % RxMod \in 0..(RxMod - 1) /\ a % CrMod \in 0..(CrMod - 1)
  BY CounterFacts

\* The shared recovery policy keeps the shape of the adapter, and the reset
\* budget: esp_schedule_recovery, esp_request_firmware_restart and
\* esp_bootup_request_retry.
LEMMA PolicyFacts ==
    ASSUME NEW a \in HostRec, NEW who \in {"rec", "bt", "user"}, NEW r \in BOOLEAN
    PROVE  /\ SchedRecovery(a, r) \in HostRec
           /\ RequestRestart(a, who) \in HostRec
           /\ Quarantine(a, who) \in HostRec
           /\ BootRetry(a, who) \in HostRec
<1>1. \A b \in HostRec, s \in BOOLEAN : SchedRecovery(b, s) \in HostRec
  <2> SUFFICES ASSUME NEW b \in HostRec, NEW s \in BOOLEAN
               PROVE  SchedRecovery(b, s) \in HostRec
    OBVIOUS
  <2> DEFINE c == SchedRecovery(b, s)
             fl == b.fl \cup {"PEND"} \cup (IF s THEN {"EXP"} ELSE {})
             st == IF b.st = "RDY" /\ ~Has(b, "RECON") THEN "RX" ELSE b.st
  <2>1. fl \in SUBSET Flags /\ st \in {"OFF", "DIS", "RX", "RDY"}
    BY DEF HostRec, Flags
  <2>2. CASE Closed(b)  BY <2>2 DEF SchedRecovery
  <2>3. CASE ~Closed(b)
    <3> HIDE DEF fl, st
    <3>1. c = [b EXCEPT !.fl = fl, !.dirty = {"rec", "bt"}, !.st = st, !.work = TRUE]
      BY <2>3 DEF SchedRecovery, fl, st
    <3> QED  BY ZenonT(60), <2>1, <3>1 DEF HostRec
  <2> QED  BY <2>2, <2>3
<1>2. \A b \in HostRec : RequestRestart(b, who) \in HostRec
  <2> SUFFICES ASSUME NEW b \in HostRec PROVE RequestRestart(b, who) \in HostRec
    OBVIOUS
  <2>1. b.fl \cup {"EXH"} \in SUBSET Flags /\ b.fl \cup {"NEED"} \in SUBSET Flags
    BY DEF HostRec, Flags
  <2>2. CASE b.dl  BY <2>2 DEF RequestRestart
  <2>3. CASE ~b.dl /\ (Has(b, "EXH") \/ b.att >= MaxAttempts)
    <3>1. RequestRestart(b, who) = [b EXCEPT !.fl = @ \cup {"EXH"}]
      BY <2>3 DEF RequestRestart
    <3> QED  BY <2>1, <3>1 DEF HostRec
  <2>4. CASE ~b.dl /\ ~(Has(b, "EXH") \/ b.att >= MaxAttempts)
    <3>1. RequestRestart(b, who)
            = [b EXCEPT !.att = @ + 1, !.dl = TRUE, !.rst = who, !.fl = @ \cup {"NEED"}]
      BY <2>4 DEF RequestRestart
    <3>2. b.att + 1 \in 0..MaxAttempts
      BY <2>4, BoundAssumption DEF HostRec
    <3> QED  BY ZenonT(60), <2>1, <3>1, <3>2 DEF HostRec
  <2> QED  BY <2>2, <2>3, <2>4
<1>3. \A b \in HostRec : Quarantine(b, who) \in HostRec
  BY <1>1, <1>2 DEF Quarantine
<1>4. BootRetry(a, who) \in HostRec
  <2>1. [a EXCEPT !.fl = @ \ {"CLEAN"}] \in HostRec
    BY DEF HostRec
  <2> QED  BY <1>3, <2>1 DEF BootRetry
<1> QED  BY <1>1, <1>2, <1>3, <1>4

\* What the host's contexts write into the adapter keeps its shape.
LEMMA HostNext == TypeOK /\ [Next]_vars => h' \in HostRec
<1> SUFFICES ASSUME TypeOK, [Next]_vars PROVE h' \in HostRec
  OBVIOUS
<1>0. h \in HostRec  BY DEF TypeOK
<1>1. CASE UNCHANGED h  BY <1>0, <1>1
<1>2. CASE h' = SchedRecovery(h, FALSE)  BY <1>0, <1>2, PolicyFacts
<1>3. CASE ResetClose  BY <1>0, <1>3 DEF ResetClose, HostRec
<1>4. CASE ResetTarget  BY <1>0, <1>4 DEF ResetTarget, HostRec
<1>5. CASE RestartRequest  BY <1>0, <1>5, PolicyFacts DEF RestartRequest
<1>6. CASE RecGate
  <2>1. \/ h' = [h EXCEPT !.work = FALSE]
        \/ h' = [h EXCEPT !.work = FALSE, !.dirty = @ \ {"rec"}]
    BY <1>6 DEF RecGate
  <2> QED  BY ZenonT(60), <1>0, <2>1 DEF HostRec
<1>7. CASE RecExpire
  <2>1. [h EXCEPT !.dl = FALSE, !.work = FALSE] \in HostRec
    BY <1>0 DEF HostRec
  <2> QED  BY <1>7, <2>1, PolicyFacts DEF RecExpire
<1>8. CASE RecResync
  <2>1. Quarantine(h, "rec") \in HostRec  BY <1>0, PolicyFacts
  <2>2. \/ h' = [h EXCEPT !.work = TRUE] \/ h' = h
        \/ h' = [Quarantine(h, "rec") EXCEPT !.work = TRUE]
        \/ h' = [h EXCEPT !.st = "RDY"]
    BY <1>8 DEF RecResync, RecFails
  <2> QED  BY ZenonT(60), <1>0, <2>1, <2>2 DEF HostRec
<1>9. CASE RecLive  BY <1>0, <1>9 DEF RecLive, HostRec
<1>10. CASE RecReady \/ RecOpen
  BY ZenonT(60), <1>0, <1>10 DEF RecReady, RecOpen, RecFails, HostRec
<1>11. CASE BootStart
  <2> DEFINE a == [h EXCEPT !.work = FALSE, !.fl = @ \ {"INIT", "NEED"}]
  <2>1. a \in HostRec  BY <1>0 DEF HostRec
  <2>2. \/ h' = [a EXCEPT !.fl = @ \cup {"PEND", "CLEAN"}] \/ Begin(a)
    BY <1>11 DEF BootStart
  <2> HIDE DEF a
  <2>3. a.fl \cup {"PEND", "CLEAN"} \in SUBSET Flags /\ a.fl \cup {"RECON"} \in SUBSET Flags
    BY <2>1 DEF HostRec, Flags
  <2>4. CASE h' = [a EXCEPT !.fl = @ \cup {"PEND", "CLEAN"}]
    BY <2>1, <2>3, <2>4 DEF HostRec
  <2>5. CASE Begin(a)  BY <2>1, <2>3, <2>5 DEF Begin, HostRec
  <2> QED  BY <2>2, <2>4, <2>5
<1>12. CASE BootReinit  BY <1>0, <1>12 DEF BootReinit, Begin, HostRec, Flags
<1>13. ASSUME NEW a \in HostRec, BootFails(a) PROVE h' \in HostRec
  <2>1. [a EXCEPT !.fl = @ \ {"RECON"}] \in HostRec
    BY DEF HostRec
  <2> QED  BY <1>13, <2>1, PolicyFacts DEF BootFails
<1>14. CASE BootError  BY <1>0, <1>13, <1>14 DEF BootError
<1>15. CASE BootCommit
  <2>1. CASE BootFails(h)  BY <1>0, <1>13, <2>1
  <2>2. CASE ~BootFails(h)
    <3> DEFINE a == [h EXCEPT !.work = FALSE,
                              !.fl = (@ \cup {"INIT"}) \ {"RECON", "CLEAN"}]
    <3>1. a \in HostRec  BY <1>0 DEF HostRec, Flags
    <3>2. \/ h' = [a EXCEPT !.st = "RX", !.work = TRUE]
          \/ h' = [a EXCEPT !.fl = @ \ {"PEND", "EXP", "NEED"}, !.st = "RDY"]
      BY <1>15, <2>2 DEF BootCommit
    <3> HIDE DEF a
    <3>3. CASE h' = [a EXCEPT !.st = "RX", !.work = TRUE]
      BY <3>1, <3>3 DEF HostRec
    <3>4. CASE h' = [a EXCEPT !.fl = @ \ {"PEND", "EXP", "NEED"}, !.st = "RDY"]
      BY <3>1, <3>4 DEF HostRec
    <3> QED  BY <3>2, <3>3, <3>4
  <2> QED  BY <2>1, <2>2
<1>16. CASE BootFinish
  <2>1. [h EXCEPT !.fl = (@ \cup {"CLEAN"}) \ {"INIT"}] \in HostRec
    BY <1>0 DEF HostRec, Flags
  <2>2. CASE BootFails([h EXCEPT !.fl = (@ \cup {"CLEAN"}) \ {"INIT"}])
    BY <1>13, <2>1, <2>2
  <2>3. CASE ~BootFails([h EXCEPT !.fl = (@ \cup {"CLEAN"}) \ {"INIT"}])
    <3>1. \/ h' = [h EXCEPT !.att = 0, !.dl = FALSE, !.fl = @ \ {"EXH"}] \/ h' = h
      BY <1>16, <2>3 DEF BootFinish
    <3>2. 0 \in 0..MaxAttempts  BY BoundAssumption
    <3> QED  BY ZenonT(60), <1>0, <3>1, <3>2 DEF HostRec
  <2> QED  BY <2>2, <2>3
<1>17. CASE Probe
  <2>1. \/ h' = [h EXCEPT !.fl = @ \ {"REMOVING", "CLEAN"}, !.st = "DIS"]
        \/ h' = [h EXCEPT !.fl = @ \cup {"REMOVING", "CLEAN"}]
    BY <1>17 DEF Probe
  <2>2. h.fl \cup {"REMOVING", "CLEAN"} \in SUBSET Flags
    BY <1>0 DEF HostRec, Flags
  <2>3. CASE h' = [h EXCEPT !.fl = @ \cup {"REMOVING", "CLEAN"}]
    BY <1>0, <2>2, <2>3 DEF HostRec
  <2>4. CASE h' = [h EXCEPT !.fl = @ \ {"REMOVING", "CLEAN"}, !.st = "DIS"]
    BY <1>0, <2>4 DEF HostRec
  <2> QED  BY <2>1, <2>3, <2>4
<1>18. CASE ProbeOpen
  <2>1. \/ h' = [h EXCEPT !.fl = @ \ {"INIT", "PEND", "EXP", "NEED"}, !.st = "RX",
                          !.work = TRUE]
        \/ h' = [h EXCEPT !.fl = @ \cup {"REMOVING", "CLEAN"}, !.st = "OFF"]
    BY <1>18 DEF ProbeOpen
  <2>2. h.fl \cup {"REMOVING", "CLEAN"} \in SUBSET Flags
    BY <1>0 DEF HostRec, Flags
  <2>3. CASE h' = [h EXCEPT !.fl = @ \cup {"REMOVING", "CLEAN"}, !.st = "OFF"]
    BY <1>0, <2>2, <2>3 DEF HostRec
  <2>4. CASE h' = [h EXCEPT !.fl = @ \ {"INIT", "PEND", "EXP", "NEED"}, !.st = "RX",
                            !.work = TRUE]
    BY <1>0, <2>4 DEF HostRec
  <2> QED  BY <2>1, <2>3, <2>4
<1>19. CASE RemoveStart  BY <1>0, <1>19 DEF RemoveStart, HostRec, Flags
<1>20. CASE RemoveEnd  BY <1>0, <1>20 DEF RemoveEnd, HostRec
<1>21. CASE UNCHANGED vars  BY <1>0, <1>21 DEF vars
<1>22. CASE Firmware
  BY ZenonT(60), <1>1, <1>22 DEF Firmware, FwInit, FwOpen, FwBoot, FwSend, FwProcess, Publish
<1>23. CASE Worker
  BY <1>1, <1>2, <1>23 DEF Worker, WkStart, WkStop, WkSample, WkRead, WkQio,
     WkMalformed, WkNext, WkCredit, WkCreditTimeout, WkWrite, WkFails, TxFails
<1>24. CASE RecCancel \/ RecRebase \/ RecAbort \/ Dispatch \/ BootQuiesce \/ BootAbort
  BY <1>1, <1>24 DEF RecCancel, RecRebase, RecAbort, Dispatch, BootQuiesce, BootAbort
<1>25. CASE \/ \E k \in Kinds : WritePacket(k)
            \/ FlushBt \/ FwCrash \/ WkReadError \/ WkWriteError \/ InjectResync
  BY <1>1, <1>2, <1>25 DEF WritePacket, FlushBt, FwCrash, WkReadError,
     WkWriteError, InjectResync, WkFails, TxFails
<1> QED
  BY <1>3, <1>4, <1>5, <1>6, <1>7, <1>8, <1>9, <1>10, <1>11, <1>12, <1>14,
     <1>15, <1>16, <1>17, <1>18, <1>19, <1>20, <1>21, <1>22, <1>23, <1>24, <1>25
  DEF Next, Recovery, BootHandler, Binding, Environment

\* So does what they write into the transport's context; the read cursor and
\* the segment count wrap with the registers they follow.
LEMMA CursorNext == TypeOK /\ [Next]_vars => cx' \in CursorRec
<1> SUFFICES ASSUME TypeOK, [Next]_vars PROVE cx' \in CursorRec
  OBVIOUS
<1>0. cx \in CursorRec /\ fw \in SlaveRec /\ wk \in WorkerRec  BY DEF TypeOK
<1>1. Rebased(cx) \in CursorRec
  BY <1>0, CounterFacts DEF Rebased, CursorRec
<1>2. \A n \in Nat : (cx.rd + n) % RxMod \in 0..(RxMod - 1)
                   /\ (cx.sent + n) % CrMod \in 0..(CrMod - 1)
  <2> SUFFICES ASSUME NEW n \in Nat
               PROVE  /\ (cx.rd + n) % RxMod \in 0..(RxMod - 1)
                      /\ (cx.sent + n) % CrMod \in 0..(CrMod - 1)
    OBVIOUS
  <2>1. cx.rd + n \in Int /\ cx.sent + n \in Int
    BY <1>0, CounterFacts DEF CursorRec
  <2> QED  BY <2>1, Wraps
<1>3. CASE UNCHANGED cx  BY <1>0, <1>3
<1>4. CASE FwBoot \/ FwSend
  BY ZenonT(60), <1>0, <1>4 DEF FwBoot, FwSend, Publish, CursorRec, SlaveRec
<1>5. CASE \E k \in Kinds : WritePacket(k)  BY <1>0, <1>5 DEF WritePacket, CursorRec
<1>6. CASE FlushBt  BY <1>0, <1>6 DEF FlushBt, CursorRec, SlaveRec
<1>7. CASE WkStart  BY <1>0, <1>7 DEF WkStart, CursorRec
<1>8. CASE WkRead
  <2>1. cx' = [cx EXCEPT !.rd = (cx.rd + wk.len) % RxMod, !.rxf = FALSE]
    BY <1>8 DEF WkRead
  <2>2. wk.len \in Nat  BY <1>0, CounterFacts DEF WorkerRec
  <2> QED  BY <1>0, <1>2, <2>1, <2>2 DEF CursorRec
<1>9. CASE WkQio  BY <1>0, <1>9 DEF WkQio, CursorRec
<1>10. CASE WkMalformed
  <2>1. cx' = [cx EXCEPT !.rd = (cx.rd + wk.len) % RxMod, !.rxf = cx.append]
    BY <1>10 DEF WkMalformed
  <2>2. wk.len \in Nat  BY <1>0, CounterFacts DEF WorkerRec
  <2> QED  BY <1>0, <1>2, <2>1, <2>2 DEF CursorRec
<1>11. CASE WkReadError
  <2>1. wk.len \in Nat  BY <1>0, CounterFacts DEF WorkerRec
  <2>2. CASE cx' = [cx EXCEPT !.rd = (cx.rd + wk.len) % RxMod, !.rxf = FALSE]
    BY <1>0, <1>2, <2>1, <2>2 DEF CursorRec
  <2>3. CASE \E b \in BOOLEAN : cx' = [cx EXCEPT !.rxf = b]
    BY <1>0, <2>3 DEF CursorRec
  <2> QED  BY <1>11, <2>2, <2>3 DEF WkReadError
<1>12. CASE WkCredit  BY <1>0, <1>12 DEF WkCredit, CursorRec, SlaveRec
<1>13. CASE WkWrite
  <2>1. cx' = [cx EXCEPT !.sent = (cx.sent + 1) % CrMod, !.txf = FALSE]
    BY <1>13 DEF WkWrite
  <2> QED  BY <1>0, <1>2, <2>1 DEF CursorRec
<1>14. CASE WkWriteError  BY <1>0, <1>14 DEF WkWriteError, CursorRec
<1>15. CASE ResetClose \/ RecGate \/ RecCancel \/ RecAbort \/ BootQuiesce \/
            RemoveStart \/ RemoveEnd
  BY ZenonT(60), <1>0, <1>15 DEF ResetClose, RecGate, RecCancel, RecAbort, BootQuiesce,
     RemoveStart, RemoveEnd, CursorRec
<1>16. CASE ResetTarget
  <2>1. cx' = [Rebased(cx) EXCEPT !.wq = FALSE]  BY <1>16 DEF ResetTarget
  <2> QED  BY <1>1, <2>1 DEF CursorRec
<1>17. CASE RecResync
  <2>1. \/ cx' = [cx EXCEPT !.sync = FALSE]
        \/ cx' = [[cx EXCEPT !.sync = FALSE] EXCEPT !.lim = 0, !.path = TRUE]
    BY <1>17 DEF RecResync
  <2>2. [cx EXCEPT !.sync = FALSE] \in CursorRec  BY <1>0 DEF CursorRec
  <2> QED  BY <2>1, <2>2, CounterFacts DEF CursorRec
<1>18. CASE RecLive  BY <1>0, <1>18 DEF RecLive, CursorRec
<1>19. CASE RecRebase
  <2>1. cx' = [Rebased(cx) EXCEPT !.path = FALSE]  BY <1>19 DEF RecRebase
  <2> QED  BY <1>1, <2>1 DEF CursorRec
<1>20. CASE RecOpen  BY <1>0, <1>20 DEF RecOpen, CursorRec
<1>21. ASSUME NEW c \in CursorRec, FirstCommand(c) PROVE cx' \in CursorRec
  BY <1>21 DEF FirstCommand, CursorRec
<1>22. CASE BootStart
  <2>1. \/ cx' = [cx EXCEPT !.path = FALSE] \/ FirstCommand(cx)
    BY <1>22 DEF BootStart
  <2>2. [cx EXCEPT !.path = FALSE] \in CursorRec  BY <1>0 DEF CursorRec
  <2> QED  BY <1>0, <1>21, <2>1, <2>2
<1>23. CASE BootReinit
  <2>1. [cx EXCEPT !.path = TRUE, !.wq = TRUE] \in CursorRec  BY <1>0 DEF CursorRec
  <2> QED  BY <1>21, <1>23, <2>1 DEF BootReinit
<1>24. CASE ProbeOpen
  <2>1. \/ cx' = [Rebased(cx) EXCEPT !.run = TRUE, !.path = TRUE, !.wq = fw.dr]
        \/ cx' = cx
    BY <1>24 DEF ProbeOpen
  <2>2. fw.dr \in BOOLEAN  BY <1>0 DEF SlaveRec
  <2> QED  BY <1>0, <1>1, <2>1, <2>2 DEF CursorRec
<1>25. CASE UNCHANGED vars  BY <1>3, <1>25 DEF vars
<1>26. CASE \/ FwInit \/ FwOpen \/ FwProcess \/ FwCrash \/ WkStop \/ WkSample
            \/ WkNext \/ WkCreditTimeout \/ RestartRequest \/ InjectResync
            \/ RecExpire \/ Dispatch \/ BootError \/ BootCommit \/ BootFinish
            \/ BootAbort \/ Probe \/ RecReady
  BY <1>3, <1>26 DEF FwInit, FwOpen, FwProcess, FwCrash, WkStop, WkSample,
     WkNext, WkCreditTimeout, RestartRequest, InjectResync, RecExpire,
     Dispatch, BootError, BootCommit, BootFinish, BootAbort, Probe, RecReady
<1> QED
  BY <1>4, <1>5, <1>6, <1>7, <1>8, <1>9, <1>10, <1>11, <1>12, <1>13, <1>14,
     <1>15, <1>16, <1>17, <1>18, <1>19, <1>20, <1>22, <1>23, <1>24, <1>25, <1>26
  DEF Next, Firmware, Worker, Recovery, BootHandler, Binding, Environment

\* The worker reads no more than the negotiated limit and counts its segments.
LEMMA WorkerNext == TypeOK /\ [Next]_vars => wk' \in WorkerRec
<1> SUFFICES ASSUME TypeOK, [Next]_vars PROVE wk' \in WorkerRec
  OBVIOUS
<1>0. wk \in WorkerRec /\ q \subseteq Kinds  BY DEF TypeOK
<1>1. WkIdle \in WorkerRec
  BY <1>0, CounterFacts DEF WkIdle, WorkerRec
<1>2. CASE wk' \in {wk, WkIdle}  BY <1>0, <1>1, <1>2
<1>3. CASE WkStart  BY <1>0, <1>3 DEF WkStart, WorkerRec
<1>4. CASE WkSample
  <2>1. CASE wk' = WkIdle  BY <1>1, <2>1
  <2>2. CASE wk' = [wk EXCEPT !.pc = "tx"]  BY <1>0, <2>2 DEF WorkerRec
  <2>3. CASE /\ PendingBytes \in 1..RxLimit
             /\ wk' = [wk EXCEPT !.pc = "rd", !.len = PendingBytes]
    <3>1. PendingBytes \in 0..RxLimit  BY <2>3, CounterFacts
    <3> HIDE DEF PendingBytes
    <3> QED  BY <1>0, <2>3, <3>1 DEF WorkerRec
  <2> QED  BY <1>4, <2>1, <2>2, <2>3 DEF WkSample, WkFails
<1>5. CASE WkRead
  <2>1. \E p \in {"qio", "tx"} : wk' = [wk EXCEPT !.pc = p, !.len = 0, !.prog = TRUE]
    BY <1>5 DEF WkRead
  <2>2. PICK p \in {"qio", "tx"} : wk' = [wk EXCEPT !.pc = p, !.len = 0, !.prog = TRUE]
    BY ZenonT(60), <2>1
  <2> QED  BY <1>0, <2>2, CounterFacts DEF WorkerRec
<1>6. CASE WkQio  BY <1>0, <1>6 DEF WkQio, WorkerRec
<1>7. CASE WkNext
  <2>1. CASE wk' = WkIdle  BY <1>1, <2>1
  <2>2. CASE wk' = [wk EXCEPT !.pc = "rx", !.prog = FALSE]
    BY <1>0, <2>2 DEF WorkerRec
  <2>3. ASSUME NEW k \in Kinds,
               wk' = [wk EXCEPT !.pc = "seg", !.k = k, !.left = Segs(k), !.prog = TRUE]
        PROVE  wk' \in WorkerRec
    <3>1. Segs(k) \in 0..2  BY DEF Segs
    <3> QED  BY <1>0, <2>3, <3>1 DEF WorkerRec
  <2> QED  BY <1>7, <2>1, <2>2, <2>3 DEF WkNext, Kinds
<1>8. CASE WkCredit  BY <1>0, <1>8 DEF WkCredit, WorkerRec
<1>9. CASE WkWrite
  <2>1. \/ wk.left > 1 /\ wk' = [wk EXCEPT !.pc = "seg", !.left = wk.left - 1]
        \/ wk' = [wk EXCEPT !.pc = "rx", !.k = "none", !.left = 0, !.prog = FALSE]
    BY <1>9 DEF WkWrite
  <2>2. wk.left > 1 => wk.left - 1 \in 0..2  BY <1>0 DEF WorkerRec
  <2>3. CASE wk.left > 1 /\ wk' = [wk EXCEPT !.pc = "seg", !.left = wk.left - 1]
    BY <1>0, <2>2, <2>3 DEF WorkerRec
  <2>4. CASE wk' = [wk EXCEPT !.pc = "rx", !.k = "none", !.left = 0, !.prog = FALSE]
    BY <1>0, <2>4, CounterFacts DEF WorkerRec
  <2> QED  BY <2>1, <2>3, <2>4
<1>10. CASE Firmware \/ WkStop \/ WkMalformed \/ WkCreditTimeout \/ UNCHANGED vars
  BY ZenonT(60), <1>2, <1>10 DEF Firmware, FwInit, FwOpen, FwBoot, FwSend, FwProcess,
     Publish, WkStop, WkMalformed, WkCreditTimeout, WkFails, TxFails, vars
<1>11. CASE Recovery \/ RecExpire \/ Binding
  BY <1>2, <1>11 DEF Recovery, RecGate, RecCancel, RecResync, RecLive,
     RecRebase, RecReady, RecOpen, RecAbort, RecExpire, Binding, ResetClose,
     ResetTarget, Probe, ProbeOpen, RemoveEnd
<1>12. CASE BootHandler
  BY <1>2, <1>12 DEF BootHandler, Dispatch, BootStart, BootQuiesce,
     BootReinit, BootError, BootCommit, BootFinish, BootAbort
<1>13. CASE Environment
  BY <1>2, <1>13 DEF Environment, WritePacket, FlushBt, FwCrash, WkReadError,
     WkWriteError, RestartRequest, InjectResync, RemoveStart, WkFails, TxFails
<1> QED
  BY <1>3, <1>4, <1>5, <1>6, <1>7, <1>8, <1>9, <1>10, <1>11, <1>12, <1>13
  DEF Next, Worker

\* A slave that holds no more than it has descriptors for
Slave(f) == f \in SlaveRec /\ Len(f.held) <= Slots

\* What the host and the slave's own tasks do to the slave: a restart, a data
\* phase in either direction, a descriptor armed again, and a new command.
LEMMA SlaveFacts ==
    ASSUME TypeOK
    PROVE  /\ Slave(Restarted(fw)) /\ Slave(Fatal(fw)) /\ Slave(Drained(fw))
           /\ Slave(Acked(fw)) /\ Slave(Taken(fw)) /\ Slave(Rearmed(fw))
           /\ Slave(Outdated(fw))
<1>0. fw \in SlaveRec /\ Len(fw.held) <= Slots /\ fw.held \in Seq(Segments)
  BY DEF TypeOK, SlaveRec
<1>1. /\ <<>> \in Seq(Segments) /\ Len(<<>>) = 0 /\ {} \in SUBSET Answers
      /\ Len(fw.held) \in Nat
  BY <1>0
<1>2. Slave(Restarted(fw))
  <2>1. Restarted(fw) \in SlaveRec  BY <1>0, <1>1 DEF Restarted, SlaveRec
  <2>2. Restarted(fw).held = <<>>  BY <1>0 DEF Restarted, SlaveRec
  <2> QED  BY <1>1, <2>1, <2>2, CounterFacts DEF Slave
<1>3. Slave(Fatal(fw))
  BY <1>2 DEF Fatal, Slave, SlaveRec
<1>4. Slave(Drained(fw))
  BY <1>0 DEF Drained, Slave, SlaveRec
<1>5. Slave(Acked(fw))
  BY ZenonT(60), <1>0 DEF Acked, Slave, SlaveRec
<1>6. Slave(Taken(fw))
  <2>1. CASE fw.run = "up" /\ fw.app # "wait" /\ Len(fw.held) < Slots
    <3>1. Taken(fw) = [fw EXCEPT !.held = Append(fw.held, Segment)]
      BY <2>1 DEF Taken
    <3>2. Segment \in Segments  BY DEF Segment, Segments
    <3> HIDE DEF Segment
    <3>3. /\ Append(fw.held, Segment) \in Seq(Segments)
          /\ Len(Append(fw.held, Segment)) = Len(fw.held) + 1
      BY <1>0, <3>2
    <3>4. Len(fw.held) + 1 <= Slots  BY <1>1, <2>1, CounterFacts
    <3> QED  BY <1>0, <3>1, <3>3, <3>4 DEF Slave, SlaveRec
  <2>2. CASE ~(fw.run = "up" /\ fw.app # "wait" /\ Len(fw.held) < Slots)
    BY <1>0, <2>2 DEF Taken, Slave
  <2> QED  BY <2>1, <2>2
<1>7. Slave(Rearmed(fw))
  <2>1. (fw.arm + 1) % CrMod \in 0..(CrMod - 1)
    <3>1. fw.arm + 1 \in Int  BY <1>0, CounterFacts DEF SlaveRec
    <3> QED  BY <3>1, Wraps
  <2> QED  BY <1>0, <2>1 DEF Rearmed, Slave, SlaveRec
<1>8. Slave(Outdated(fw))
  <2> DEFINE aged == [i \in 1..Len(fw.held) |-> Older(fw.held[i])]
  <2>1. \A x \in Segments : Older(x) \in Segments  BY DEF Older, Segments
  <2>2. aged \in Seq(Segments) /\ Len(aged) = Len(fw.held)
    BY <1>0, <1>1, <2>1
  <2>3. {Older(x) : x \in fw.fed} \in SUBSET Answers
    BY <1>0 DEF SlaveRec, Older, Answers
  <2>4. Older(fw.out) \in {"none", "boot"} \cup Answers
    BY <1>0 DEF SlaveRec, Older, Answers
  <2>5. Outdated(fw) = [fw EXCEPT !.held = aged, !.fed = {Older(x) : x \in fw.fed},
                                  !.out = Older(fw.out)]
    BY DEF Outdated
  <2> HIDE DEF aged
  <2> QED  BY ZenonT(60), <1>0, <2>2, <2>3, <2>4, <2>5 DEF Slave, SlaveRec
<1> QED  BY <1>2, <1>3, <1>4, <1>5, <1>6, <1>7, <1>8

\* spihd_hw_reset leaves a chip in reset, which shows a ready byte only where
\* the host did not get to clear it, or a firmware that runs on without one.
LEMMA ResetFacts ==
    ASSUME TypeOK
    PROVE  /\ HwReset => /\ Slave(fw') /\ fw'.reset /\ fw'.run = "down" /\ ~fw'.same
                         /\ ~fw'.dr /\ (fw'.rdy => fw'.unmarked)
                         /\ env' = env \/ Fault("marker")
           /\ HwResetFails => /\ Slave(fw') /\ fw' = [fw EXCEPT !.rdy = FALSE]
                              /\ Fault("gpio")
<1>0. fw \in SlaveRec /\ Len(fw.held) <= Slots  BY DEF TypeOK
<1>1. /\ <<>> \in Seq(Segments) /\ Len(<<>>) = 0 /\ {} \in SUBSET Answers
      /\ Len(fw.held) \in Nat
  BY <1>0 DEF SlaveRec
<1> DEFINE ResetAs(f, bare) == [Restarted(f) EXCEPT !.reset = TRUE, !.unmarked = bare]
<1>2. ASSUME NEW f \in SlaveRec, NEW b \in BOOLEAN, fw' = ResetAs(f, b), b \/ ~f.rdy
      PROVE  /\ Slave(fw') /\ fw'.reset /\ fw'.run = "down" /\ ~fw'.same
             /\ ~fw'.dr /\ (fw'.rdy => fw'.unmarked)
  <2>1. Restarted(f) \in SlaveRec  BY <1>1 DEF Restarted, SlaveRec
  <2>2. /\ Restarted(f).held = <<>> /\ Restarted(f).run = "down" /\ ~Restarted(f).same
        /\ ~Restarted(f).dr /\ Restarted(f).rdy = f.rdy
    BY DEF Restarted, SlaveRec
  <2> DEFINE g == Restarted(f)
  <2>3. fw' = [g EXCEPT !.reset = TRUE, !.unmarked = b]  BY <1>2
  <2> HIDE DEF g
  <2>4. /\ fw' \in SlaveRec /\ fw'.held = g.held /\ fw'.run = g.run /\ fw'.same = g.same
        /\ fw'.dr = g.dr /\ fw'.rdy = g.rdy /\ fw'.reset = TRUE /\ fw'.unmarked = b
    BY <2>1, <2>3 DEF SlaveRec, g
  <2> QED  BY <1>1, <1>2, <2>2, <2>4, CounterFacts DEF Slave, g
<1> DEFINE marked == [fw EXCEPT !.rdy = FALSE]
<1>3. marked \in SlaveRec /\ ~marked.rdy /\ [marked EXCEPT !.rdy = TRUE] \in SlaveRec
  BY <1>0 DEF SlaveRec
<1>4. ASSUME HwReset
      PROVE  /\ Slave(fw') /\ fw'.reset /\ fw'.run = "down" /\ ~fw'.same
             /\ ~fw'.dr /\ (fw'.rdy => fw'.unmarked)
             /\ env' = env \/ Fault("marker")
  <2>1. \/ fw' = ResetAs(marked, FALSE) /\ env' = env
        \/ Fault("marker") /\ (fw' = ResetAs(fw, TRUE) \/ fw' = ResetAs(marked, TRUE))
        \/ fw' = ResetAs([marked EXCEPT !.rdy = TRUE], TRUE) /\ env' = env
    BY <1>4 DEF HwReset, Marker, Partly
  <2> HIDE DEF ResetAs, marked
  <2> QED  BY <1>0, <1>2, <1>3, <2>1
<1>5. ASSUME HwResetFails
      PROVE  Slave(fw') /\ fw' = [fw EXCEPT !.rdy = FALSE] /\ Fault("gpio")
  <2>1. fw' = [fw EXCEPT !.rdy = FALSE] /\ Fault("gpio")
    BY <1>5 DEF HwResetFails, Marker
  <2> QED  BY <1>0, <2>1 DEF Slave, SlaveRec
<1> QED  BY <1>4, <1>5

\* The slave keeps its shape: its counters are registers, what it answers is
\* an answer, and WRDMA never overruns its descriptors.
LEMMA SlaveNext == TypeOK /\ [Next]_vars => Slave(fw)'
<1> SUFFICES ASSUME TypeOK, [Next]_vars PROVE Slave(fw)'
  OBVIOUS
<1>0. Slave(fw) /\ h \in HostRec  BY DEF TypeOK, Slave
<1>1. /\ Slave(Restarted(fw)) /\ Slave(Fatal(fw)) /\ Slave(Drained(fw))
      /\ Slave(Acked(fw)) /\ Slave(Taken(fw)) /\ Slave(Rearmed(fw))
      /\ Slave(Outdated(fw))
  BY SlaveFacts
<1>2. ASSUME NEW f, Slave(f), NEW b \in BOOLEAN
      PROVE  Slave([f EXCEPT !.ctrl = b]) /\ Slave([f EXCEPT !.same = b])
  BY ZenonT(60), <1>2 DEF Slave, SlaveRec
<1>3. CASE fw' \in {fw, Drained(fw), Acked(fw), Taken(fw), Restarted(fw), Outdated(fw)}
  BY <1>0, <1>1, <1>3 DEF Slave
<1>4. CASE FwInit
  BY <1>0, <1>4, CounterFacts DEF FwInit, Slave, SlaveRec
<1>5. CASE FwOpen
  <2>1. Slots \in 0..(CrMod - 1)  BY CounterAssumption
  <2> QED  BY <1>0, <1>5, <2>1 DEF FwOpen, Slave, SlaveRec
<1>6. ASSUME NEW k \in {"boot"} \cup Answers, NEW n \in Nat, Publish(k, n)
      PROVE  Slave(fw)'
  <2>1. (fw.pub + n) % RxMod \in 0..(RxMod - 1)
    <3>1. fw.pub + n \in Int  BY <1>0, CounterFacts DEF Slave, SlaveRec
    <3> QED  BY <3>1, Wraps
  <2>2. fw' = [fw EXCEPT !.pub = (fw.pub + n) % RxMod, !.out = k, !.dr = TRUE,
                         !.app = "active", !.fed = fw.fed \ {k}]
    BY <1>6 DEF Publish
  <2>3. fw.fed \ {k} \in SUBSET Answers  BY <1>0 DEF Slave, SlaveRec
  <2> QED  BY <1>0, <2>1, <2>2, <2>3 DEF Slave, SlaveRec
<1>7. CASE FwBoot  BY <1>6, <1>7 DEF FwBoot, BootLen
<1>8. CASE FwSend
  <2>1. fw.fed \subseteq Answers  BY <1>0 DEF Slave, SlaveRec
  <2> QED  BY <1>6, <1>8, <2>1 DEF FwSend, DataLen
<1>9. CASE FwProcess
  <2> DEFINE s == Head(fw.held)
  <2>1. CASE Misfit(s)  BY <1>1, <1>9, <2>1 DEF FwProcess, Slave
  <2>2. CASE ~Misfit(s)
    <3>1. /\ fw.held \in Seq(Segments) /\ fw.held # <<>>
          /\ fw.fed \in SUBSET Answers
      BY <1>0, <1>9 DEF FwProcess, Slave, SlaveRec
    <3>2. s \in Segments /\ Tail(fw.held) \in Seq(Segments)
          /\ Len(Tail(fw.held)) = Len(fw.held) - 1
      BY <3>1
    <3>3. fw.fed \cup Delivered(s) \in SUBSET Answers
      <4>1. CASE s = "first"  BY <3>1, <4>1 DEF Delivered
      <4>2. CASE s = "last"  BY <3>1, <4>2 DEF Delivered, Answers
      <4>3. CASE s \in {"cmd", "old"}  BY <3>1, <4>3 DEF Delivered, Answers
      <4> QED  BY <3>2, <4>1, <4>2, <4>3 DEF Segments
    <3>4. fw' = [Rearmed(fw) EXCEPT !.held = Tail(Rearmed(fw).held),
                                    !.part = (s = "first"),
                                    !.fed = Rearmed(fw).fed \cup Delivered(s)]
      BY <1>9, <2>2 DEF FwProcess
    <3>5. Rearmed(fw).held = fw.held /\ Rearmed(fw).fed = fw.fed
      BY <1>0 DEF Rearmed, Slave, SlaveRec
    <3>6. Len(Tail(fw.held)) <= Slots
      BY <1>0, <3>1, <3>2, CounterFacts DEF Slave
    <3> DEFINE x == Rearmed(fw)
               p == s = "first"
               d == fw.fed \cup Delivered(s)
               t == Tail(fw.held)
    <3>7. /\ x \in SlaveRec /\ p \in BOOLEAN /\ d \in SUBSET Answers
          /\ t \in Seq(Segments) /\ Len(t) <= Slots
          /\ fw' = [x EXCEPT !.held = t, !.part = p, !.fed = d]
      BY <1>1, <3>2, <3>3, <3>4, <3>5, <3>6 DEF Slave
    <3> HIDE DEF x, p, d, t
    <3> QED  BY <3>7 DEF Slave, SlaveRec
  <2> QED  BY <2>1, <2>2
<1>10. CASE WkQio \/ RecOpen
  <2>1. Slave([fw EXCEPT !.ctrl = TRUE])  BY ZenonT(60), <1>0, <1>2
  <2>2. fw' \in {fw, [fw EXCEPT !.ctrl = TRUE]}
    BY <1>10 DEF WkQio, RecOpen, Opened, Partly
  <2> QED  BY <1>0, <2>1, <2>2 DEF Slave
<1>11. CASE ProbeOpen
  <2>1. Slave([fw EXCEPT !.ctrl = TRUE])  BY ZenonT(60), <1>0, <1>2
  <2>2. fw' \in {fw, [fw EXCEPT !.ctrl = TRUE]}
    BY <1>11 DEF ProbeOpen, Opened, Partly
  <2> QED  BY <1>0, <2>1, <2>2 DEF Slave
<1>12. CASE ResetTarget \/ Probe
  <2>1. HwReset \/ HwResetFails  BY <1>12 DEF ResetTarget, Probe
  <2> QED  BY <2>1, ResetFacts DEF Slave
<1>13. CASE BootCommit
  <2>1. \A b \in BOOLEAN : Slave([fw EXCEPT !.same = b])  BY ZenonT(60), <1>0, <1>2
  <2>2. \/ fw' = fw \/ \E b \in BOOLEAN : fw' = [fw EXCEPT !.same = b]
    BY <1>13 DEF BootCommit
  <2> QED  BY <1>0, <2>1, <2>2 DEF Slave
<1>14. CASE \/ FwCrash \/ WkStart \/ WkStop \/ WkSample \/ WkRead \/ WkMalformed
            \/ WkReadError \/ WkNext \/ WkCredit \/ WkCreditTimeout \/ WkWrite
            \/ WkWriteError \/ UNCHANGED vars
  BY <1>3, <1>14 DEF FwCrash, WkStart, WkStop, WkSample, WkRead, WkMalformed,
     WkReadError, WkNext, WkCredit, WkCreditTimeout, WkWrite, WkWriteError,
     Unmoved, Partly, vars
<1>15. CASE \/ RecGate \/ RecCancel \/ RecResync \/ RecLive \/ RecRebase
            \/ RecAbort \/ RecExpire \/ ResetClose \/ RemoveEnd \/ RecReady
  BY <1>3, <1>15 DEF RecReady, RecGate, RecCancel, RecResync, RecLive, RecRebase,
     RecAbort, RecExpire, ResetClose, RemoveEnd
<1>16. CASE \/ Dispatch \/ BootStart \/ BootQuiesce \/ BootReinit \/ BootError
            \/ BootFinish \/ BootAbort
  BY <1>3, <1>16 DEF Dispatch, BootStart, BootQuiesce, BootReinit, BootError,
     BootFinish, BootAbort, FirstCommand
<1>17. CASE \/ \E k \in Kinds : WritePacket(k)
            \/ FlushBt \/ RestartRequest \/ InjectResync \/ RemoveStart
  BY <1>3, <1>17 DEF WritePacket, FlushBt, RestartRequest, InjectResync, RemoveStart
<1> QED
  BY <1>4, <1>5, <1>7, <1>8, <1>9, <1>10, <1>11, <1>12, <1>13, <1>14, <1>15,
     <1>16, <1>17
  DEF Next, Firmware, Worker, Recovery, BootHandler, Binding, Environment

\* The queues, the control of the workers and the bounds of the environment.
LEMMA RestNext ==
    ASSUME TypeOK, [Next]_vars
    PROVE  /\ q' \subseteq Kinds
           /\ rec' \in {"idle", "sync", "resync", "live", "rebase", "ready", "open"}
           /\ ev' \in {"none", "rxq", "evq"}
           /\ bt' \in {"idle", "quiesce", "reinit", "wait", "answered", "failed",
                       "publish"}
           /\ env' \in [frames : 0..MaxFrames, faults : 0..MaxFaults,
                        removed : BOOLEAN]
<1> DEFINE EnvRec == [frames : 0..MaxFrames, faults : 0..MaxFaults, removed : BOOLEAN]
           Kept == env' = env \/ \E k \in FaultKinds : Fault(k)
<1>0. /\ q \subseteq Kinds
      /\ rec \in {"idle", "sync", "resync", "live", "rebase", "ready", "open"}
      /\ ev \in {"none", "rxq", "evq"}
      /\ bt \in {"idle", "quiesce", "reinit", "wait", "answered", "failed", "publish"}
      /\ env \in EnvRec /\ MaxFrames \in Nat /\ MaxFaults \in Nat
  BY BoundAssumption DEF TypeOK
<1>1. q' \subseteq Kinds
  <2> USE <1>0 DEF Kinds
  <2>1. CASE Firmware \/ Worker \/ UNCHANGED vars
    BY ZenonT(60), <2>1 DEF Firmware, FwInit, FwOpen, FwBoot, FwSend, FwProcess, Publish,
       Worker, WkStart, WkStop, WkSample, WkRead, WkQio, WkMalformed, WkNext,
       WkCredit, WkCreditTimeout, WkWrite, TxFails, Unmoved, vars
  <2>2. CASE Recovery \/ RecExpire \/ Binding
    BY <2>2 DEF Recovery, RecGate, RecCancel, RecResync, RecLive, RecRebase,
       RecReady, RecOpen, RecAbort, RecExpire, Binding, ResetClose, ResetTarget, Probe,
       ProbeOpen, RemoveEnd
  <2>3. CASE BootHandler
    BY <2>3 DEF BootHandler, Dispatch, BootStart, BootQuiesce, BootReinit,
       BootError, BootCommit, BootFinish, BootAbort, FirstCommand
  <2>4. CASE Environment
    BY <2>4 DEF Environment, WritePacket, FlushBt, FwCrash, WkReadError,
       WkWriteError, RestartRequest, InjectResync, RemoveStart, TxFails
  <2> QED  BY <2>1, <2>2, <2>3, <2>4 DEF Next
<1>2. /\ rec' \in {"idle", "sync", "resync", "live", "rebase", "ready", "open"}
      /\ ev' \in {"none", "rxq", "evq"}
      /\ bt' \in {"idle", "quiesce", "reinit", "wait", "answered", "failed", "publish"}
  <2> USE <1>0
  <2>1. CASE Firmware \/ Worker \/ UNCHANGED vars
    BY ZenonT(60), <2>1 DEF Firmware, FwInit, FwOpen, FwBoot, FwSend, FwProcess, Publish,
       Worker, WkStart, WkStop, WkSample, WkRead, WkQio, WkMalformed, WkNext,
       WkCredit, WkCreditTimeout, WkWrite, TxFails, Unmoved, vars
  <2>2. CASE Recovery \/ RecExpire \/ Binding
    BY <2>2 DEF Recovery, RecGate, RecCancel, RecResync, RecLive, RecRebase,
       RecReady, RecOpen, RecAbort, RecExpire, RecFails, Binding, ResetClose, ResetTarget,
       Probe, ProbeOpen, RemoveEnd
  <2>3. CASE BootHandler
    BY <2>3 DEF BootHandler, Dispatch, BootStart, BootQuiesce, BootReinit,
       BootError, BootCommit, BootFinish, BootAbort, FirstCommand, BootFails
  <2>4. CASE Environment
    BY ZenonT(60), <2>4 DEF Environment, WritePacket, FlushBt, FwCrash, WkReadError,
       WkWriteError, RestartRequest, InjectResync, RemoveStart, TxFails
  <2> QED  BY <2>1, <2>2, <2>3, <2>4 DEF Next
<1>3. CASE Kept
  <2>1. CASE env' = env  BY <1>0, <1>1, <1>2, <2>1
  <2>2. CASE env.faults < MaxFaults /\ env' = [env EXCEPT !.faults = env.faults + 1]
    <3>1. env.faults + 1 \in 0..MaxFaults  BY <1>0, <2>2
    <3> QED  BY <1>0, <1>1, <1>2, <2>2, <3>1
  <2> QED  BY <1>3, <2>1, <2>2 DEF Fault
<1>4. CASE \E k \in Kinds : WritePacket(k)
  <2>1. env.frames < MaxFrames /\ env' = [env EXCEPT !.frames = env.frames + 1]
    BY <1>4 DEF WritePacket
  <2>2. env.frames + 1 \in 0..MaxFrames  BY <1>0, <2>1
  <2> QED  BY <1>0, <1>1, <1>2, <2>1, <2>2
<1>5. CASE RemoveStart  BY <1>0, <1>1, <1>2, <1>5 DEF RemoveStart
<1>6. CASE ~RemoveStart /\ ~\E k \in Kinds : WritePacket(k)
  <2>1. CASE Firmware \/ Worker \/ UNCHANGED vars
    BY ZenonT(60), <1>3, <2>1 DEF Firmware, FwInit, FwOpen, FwBoot, FwSend, FwProcess, Publish,
       Worker, WkStart, WkStop, WkSample, WkRead, WkQio, WkMalformed, WkNext,
       WkCredit, WkCreditTimeout, WkWrite, BusFails, Fault, vars
  <2>2. CASE Recovery \/ RecExpire \/ Binding
    <3>1. CASE HwReset \/ HwResetFails  BY <1>3, <3>1, ResetFacts DEF Fault
    <3> QED
      BY <1>3, <2>2, <3>1 DEF Recovery, RecGate, RecCancel, RecResync, RecLive,
         RecRebase, RecReady, RecOpen, RecAbort, RecExpire, Binding, ResetClose,
         ResetTarget, Probe, ProbeOpen, RemoveEnd, BusFails, Fault
  <2>3. CASE BootHandler
    BY <1>3, <2>3 DEF BootHandler, Dispatch, BootStart, BootQuiesce, BootReinit,
       BootError, BootCommit, BootFinish, BootAbort, Fault
  <2>4. CASE Environment
    BY <1>3, <1>6, <2>4 DEF Environment, FlushBt, FwCrash, WkReadError,
       WkWriteError, RestartRequest, InjectResync, Fault
  <2> QED  BY <2>1, <2>2, <2>3, <2>4 DEF Next
<1> QED  BY <1>1, <1>2, <1>4, <1>5, <1>6

\* The driver is unbound, or its session is about to wrap both counters.
LEMMA TypeInit == Init => TypeOK
<1> SUFFICES ASSUME Init PROVE TypeOK
  OBVIOUS
<1>1. h \in HostRec
  <2>1. 0 \in 0..MaxAttempts /\ {"INIT"} \in SUBSET Flags /\ {} \in SUBSET Flags
    BY BoundAssumption DEF Flags
  <2>2. CASE Fresh  BY <2>1, <2>2 DEF Fresh, HostRec
  <2>3. CASE Running  BY <2>1, <2>3 DEF Running, HostRec
  <2> QED  BY <2>2, <2>3 DEF Init
<1>2. cx \in CursorRec
  <2>1. \A m \in AppendModes : m \in BOOLEAN  BY BoundAssumption
  <2>2. RxMod - 1 \in 0..(RxMod - 1) /\ CrMod - 1 \in 0..(CrMod - 1)
    BY CounterFacts
  <2>3. CASE Fresh  BY <2>1, <2>3, CounterFacts DEF Fresh, CursorRec
  <2>4. CASE Running  BY <2>1, <2>2, <2>4, CounterFacts DEF Running, CursorRec
  <2> QED  BY <2>3, <2>4 DEF Init
<1>3. wk \in WorkerRec
  BY CounterFacts DEF Init, WorkerRec
<1>4. fw \in SlaveRec /\ Len(fw.held) <= Slots
  <2>1. <<>> \in Seq(Segments) /\ Len(<<>>) = 0 /\ {} \in SUBSET Answers
    OBVIOUS
  <2>2. /\ RxMod - 1 \in 0..(RxMod - 1)
        /\ (CrMod - 1 + Slots) % CrMod \in 0..(CrMod - 1)
    <3>1. CrMod - 1 + Slots \in Int  BY CounterFacts
    <3> QED  BY <3>1, CounterFacts, Wraps
  <2>3. CASE Fresh  BY <2>1, <2>3, CounterFacts DEF Fresh, SlaveRec
  <2>4. CASE Running  BY <2>1, <2>2, <2>4, CounterFacts DEF Running, SlaveRec
  <2> QED  BY <2>3, <2>4 DEF Init
<1> QED
  BY <1>1, <1>2, <1>3, <1>4, BoundAssumption DEF Init, TypeOK

\* Every step of every context keeps every type.
LEMMA TypeNext == TypeOK /\ [Next]_vars => TypeOK'
  BY HostNext, CursorNext, WorkerNext, SlaveNext, RestNext DEF TypeOK, Slave

\* Both ends of the link keep their types: in particular the counters wrap with
\* their registers, the reset budget of the driver is not overdrawn, and the
\* firmware holds no more segments than spi_hd_rx_task has descriptors.
THEOREM LinkTypes == Spec => []TypeOK
  BY TypeInit, TypeNext, PTL DEF Spec

-----------------------------------------------------------------------------
(* The data path is opened on the right firmware *)

\* The driver is unbound, or bound to a firmware that came up long ago.
LEMMA ReadyInit == Init => ReadyInv
  BY DEF Init, Fresh, Running, ReadyInv, Unbound, Closed, Has

\* The recovery policy neither binds nor unbinds a device.
LEMMA PolicyMoves ==
    ASSUME NEW a \in HostRec, NEW who \in {"rec", "bt", "user"}, NEW r \in BOOLEAN,
           NEW b \in {SchedRecovery(a, r), RequestRestart(a, who),
                      Quarantine(a, who), BootRetry(a, who)}
    PROVE  /\ Closed(b) <=> Closed(a)
           /\ b.st = a.st \/ (a.st = "RDY" /\ b.st = "RX")
<1> DEFINE Same(x, y) == /\ Closed(y) <=> Closed(x)
                         /\ y.st = x.st \/ (x.st = "RDY" /\ y.st = "RX")
<1>1. \A x \in HostRec, s \in BOOLEAN : Same(x, SchedRecovery(x, s))
  BY DEF SchedRecovery, HostRec, Closed, Has
<1>2. \A x \in HostRec : Same(x, RequestRestart(x, who))
  BY DEF RequestRestart, HostRec, Closed, Has
<1>3. \A x \in HostRec : Same(x, Quarantine(x, who))
  <2> SUFFICES ASSUME NEW x \in HostRec PROVE Same(x, Quarantine(x, who))
    OBVIOUS
  <2>1. SchedRecovery(x, TRUE) \in HostRec  BY PolicyFacts
  <2>2. Same(x, SchedRecovery(x, TRUE))  BY <1>1
  <2>3. Same(SchedRecovery(x, TRUE), RequestRestart(SchedRecovery(x, TRUE), who))
    BY <1>2, <2>1
  <2> QED  BY <2>2, <2>3 DEF Quarantine
<1>4. Same(a, BootRetry(a, who))
  <2> DEFINE x == [a EXCEPT !.fl = @ \ {"CLEAN"}]
  <2>1. x \in HostRec /\ Same(a, x)  BY DEF HostRec, Closed, Has
  <2>2. Same(x, Quarantine(x, who))  BY <1>3, <2>1
  <2>3. BootRetry(a, who) \in {a, Quarantine(x, who)}  BY DEF BootRetry
  <2> HIDE DEF x
  <2> QED  BY <2>1, <2>2, <2>3
<1> QED  BY <1>1, <1>2, <1>3, <1>4

\* A data phase, an interrupt acknowledgement or a new command restarts nobody.
LEMMA SlaveMoves ==
    ASSUME TypeOK, NEW f \in {fw, Drained(fw), Acked(fw), Taken(fw), Outdated(fw),
                             Rearmed(fw)}
    PROVE  /\ f.reset = fw.reset /\ f.run = fw.run /\ f.rdy = fw.rdy
           /\ f.unmarked = fw.unmarked
  BY ZenonT(60) DEF TypeOK, SlaveRec, Drained, Acked, Taken, Outdated, Rearmed

\* Every step keeps ReadyInv: a reset waits for the worker, a removal for
\* everybody, and only esp_spi_hd_init shows a ready byte.
LEMMA ReadyNext == TypeOK /\ ReadyInv /\ [Next]_vars => ReadyInv'
<1> SUFFICES ASSUME TypeOK, ReadyInv, [Next]_vars PROVE ReadyInv'
  OBVIOUS
<1> USE DEF ReadyInv, Unbound
<1> DEFINE Still == /\ fw'.reset = fw.reset /\ fw'.run = fw.run /\ fw'.rdy = fw.rdy
                    /\ fw'.unmarked = fw.unmarked
<1>0. /\ h \in HostRec /\ fw \in SlaveRec /\ cx \in CursorRec /\ wk \in WorkerRec
  BY DEF TypeOK
<1>1. CASE UNCHANGED vars  BY <1>1 DEF vars, Closed, Has
<1>2. CASE Firmware
  <2>1. UNCHANGED <<h, wk, rec, ev, bt>> /\ cx'.run = cx.run
    BY ZenonT(60), <1>0, <1>2 DEF Firmware, FwInit, FwOpen, FwBoot, FwSend, FwProcess,
       Publish, CursorRec
  <2>2. CASE FwInit
    <3>1. ~fw'.reset  BY <1>0, <2>2 DEF FwInit, SlaveRec
    <3> QED  BY <2>1, <3>1 DEF Closed, Has
  <2>3. CASE ~FwInit
    <3>1. fw.run = "up" /\ fw'.reset = fw.reset
      <4>1. CASE FwOpen \/ FwBoot \/ FwSend
        BY ZenonT(60), <1>0, <4>1 DEF FwOpen, FwBoot, FwSend, Publish, SlaveRec
      <4>2. CASE FwProcess
        BY <1>0, <4>2 DEF FwProcess, Fatal, Restarted, Rearmed, SlaveRec
      <4> QED  BY <1>2, <2>3, <4>1, <4>2 DEF Firmware
    <3> QED  BY <2>1, <3>1 DEF Closed, Has
  <2> QED  BY <2>2, <2>3
<1>3. ASSUME \/ h' = h \/ h' = SchedRecovery(h, FALSE)
      PROVE  (Closed(h)' <=> Closed(h)) /\ (Unbound' => Unbound)
  <2>1. CASE h' = h  BY <2>1 DEF Closed, Has
  <2>2. CASE h' = SchedRecovery(h, FALSE)
    <3>1. /\ Closed(h') <=> Closed(h)
          /\ h'.st = h.st \/ (h.st = "RDY" /\ h'.st = "RX")
      BY <1>0, <2>2, PolicyMoves
    <3> QED  BY <3>1 DEF Closed, Has
  <2> QED  BY <1>3, <2>1, <2>2
<1>4. CASE WkStart
  <2>1. UNCHANGED <<h, rec, ev, bt, fw>> /\ cx'.run = cx.run
    BY <1>0, <1>4 DEF WkStart, Unmoved, CursorRec
  <2>2. wk' = wk \/ (cx.run /\ wk'.pc = "rx")
    BY <1>0, <1>4 DEF WkStart, Stopped, WorkerRec
  <2> QED  BY <1>3, <2>1, <2>2
<1>5. CASE \/ WkStop \/ WkSample \/ WkRead \/ WkQio \/ WkMalformed \/ WkReadError
           \/ WkNext \/ WkCredit \/ WkCreditTimeout \/ WkWrite \/ WkWriteError
  <2>1. /\ wk.pc # "idle" /\ cx'.run = cx.run
        /\ h' = h \/ h' = SchedRecovery(h, FALSE)
    <3>1. CASE WkStop \/ WkSample \/ WkNext \/ WkCreditTimeout
      BY <3>1 DEF WkStop, WkSample, WkNext, WkCreditTimeout, WkFails, TxFails
    <3>2. CASE WkRead \/ WkQio \/ WkMalformed \/ WkReadError
      BY <1>0, <3>2 DEF WkRead, WkQio, WkMalformed, WkReadError, WkFails, CursorRec
    <3>3. CASE WkCredit \/ WkWrite \/ WkWriteError
      BY <1>0, <3>3 DEF WkCredit, WkWrite, WkWriteError, WkFails, TxFails, CursorRec
    <3> QED  BY <1>5, <3>1, <3>2, <3>3
  <2>2. Still
    <3>1. CASE WkQio  BY <1>0, <3>1 DEF WkQio, Opened, Partly, SlaveRec
    <3>2. CASE ~WkQio
      <4>1. fw' \in {fw, Drained(fw), Acked(fw), Taken(fw), Outdated(fw), Rearmed(fw)}
        BY <1>5, <3>2 DEF WkStop, WkSample, WkRead, WkMalformed, WkReadError,
           WkNext, WkCredit, WkCreditTimeout, WkWrite, WkWriteError, Unmoved, Partly
      <4> QED  BY <4>1, SlaveMoves
    <3> QED  BY <3>1, <3>2
  <2> QED  BY <1>3, <2>1, <2>2
<1>6. ASSUME NEW a \in HostRec, NEW who \in {"rec", "bt", "user"},
             Closed(a) <=> Closed(h), a.st = h.st,
             NEW b \in {Quarantine(a, who), BootRetry(a, who)},
             h' = b \/ h' = [b EXCEPT !.work = TRUE]
      PROVE  (Closed(h)' <=> Closed(h)) /\ (Unbound' => Unbound)
  <2>1. (Closed(b) <=> Closed(a)) /\ (b.st = a.st \/ (a.st = "RDY" /\ b.st = "RX"))
    <3>1. b \in {SchedRecovery(a, TRUE), RequestRestart(a, who),
                 Quarantine(a, who), BootRetry(a, who)}
      OBVIOUS
    <3>2. TRUE \in BOOLEAN  OBVIOUS
    <3> QED  BY <3>1, <3>2, PolicyMoves
  <2>2. b \in HostRec  BY PolicyFacts
  <2>3. (Closed(h') <=> Closed(b)) /\ h'.st = b.st
    BY <1>6, <2>2 DEF Closed, Has, HostRec
  <2> QED  BY <1>6, <2>1, <2>3 DEF Closed, Has
<1>7. CASE (\E k \in Kinds : WritePacket(k)) \/ FlushBt \/ FwCrash \/ RestartRequest
           \/ InjectResync \/ RemoveStart
  <2>1. CASE RemoveStart
    <3>1. h'.st = "DIS" /\ Closed(h)' /\ ~cx'.run
      BY <1>0, <2>1 DEF RemoveStart, Closed, Has, HostRec, CursorRec
    <3> QED  BY <2>1, <3>1 DEF RemoveStart
  <2>2. CASE FwCrash
    <3>1. ~fw.reset /\ fw'.reset = fw.reset
      BY <1>0, <2>2 DEF FwCrash, Restarted, SlaveRec
    <3> QED  BY <1>3, <2>2, <3>1 DEF FwCrash
  <2>3. CASE (\E k \in Kinds : WritePacket(k)) \/ FlushBt
    BY <1>0, <1>3, <2>3 DEF WritePacket, FlushBt, CursorRec
  <2>4. CASE RestartRequest  BY <1>0, <1>6, <2>4 DEF RestartRequest
  <2>5. CASE InjectResync  BY <1>3, <2>5 DEF InjectResync
  <2> QED  BY <1>7, <2>1, <2>2, <2>3, <2>4, <2>5
<1>8. CASE RecGate \/ RecCancel \/ RecResync \/ RecLive \/ RecRebase \/ RecReady \/ RecOpen
           \/ RecAbort \/ RecExpire
  <2>1. ~Unbound /\ UNCHANGED wk /\ cx'.run = cx.run
    BY <1>0, <1>8 DEF RecGate, RecCancel, RecResync, RecLive, RecRebase, RecReady, RecOpen,
       RecAbort, RecExpire, Rebased, CursorRec
  <2>2. Still
    BY <1>0, <1>8 DEF RecGate, RecCancel, RecResync, RecLive, RecRebase, RecReady, RecOpen,
       RecAbort, RecExpire, Opened, Partly, SlaveRec
  <2>3. (Closed(h)' <=> Closed(h)) /\ ~Unbound'
    <3>1. CASE RecExpire
      <4> DEFINE a == [h EXCEPT !.dl = FALSE, !.work = FALSE]
      <4>1. a \in HostRec /\ (Closed(a) <=> Closed(h)) /\ a.st = h.st
        BY <1>0 DEF HostRec, Closed, Has
      <4>2. h' = BootRetry(a, "rec")  BY <3>1 DEF RecExpire
      <4> HIDE DEF a
      <4> QED  BY <1>6, <2>1, <4>1, <4>2
    <3>2. CASE RecResync
      <4>1. CASE h' = [Quarantine(h, "rec") EXCEPT !.work = TRUE]
        BY <1>0, <1>6, <2>1, <4>1
      <4>2. CASE h' \in {h, [h EXCEPT !.work = TRUE], [h EXCEPT !.st = "RDY"]}
        BY <1>0, <2>1, <4>2 DEF Closed, Has, HostRec
      <4> QED  BY <3>2, <4>1, <4>2 DEF RecResync, RecFails
    <3>3. CASE RecGate \/ RecCancel \/ RecLive \/ RecRebase \/ RecReady \/ RecOpen \/ RecAbort
      <4>1. h'.st = h.st /\ (Closed(h') <=> Closed(h))
        <5>1. CASE RecGate
          <6>1. \/ h' = [h EXCEPT !.work = FALSE]
                \/ h' = [h EXCEPT !.work = FALSE, !.dirty = @ \ {"rec"}]
            BY <5>1 DEF RecGate
          <6> QED  BY <1>0, <6>1 DEF Closed, Has, HostRec
        <5>2. CASE RecLive
          BY <1>0, <5>2 DEF RecLive, Closed, Has, HostRec
        <5>3. CASE RecReady \/ RecOpen
          BY <1>0, <5>3 DEF RecReady, RecOpen, RecFails, Closed, Has, HostRec
        <5>4. CASE RecCancel \/ RecRebase \/ RecAbort
          BY <5>4 DEF RecCancel, RecRebase, RecAbort
        <5> QED  BY <3>3, <5>1, <5>2, <5>3, <5>4
      <4> QED  BY <2>1, <4>1 DEF Closed, Has
    <3> QED  BY <1>8, <3>1, <3>2, <3>3
  <2> QED  BY <2>1, <2>2, <2>3
<1>9. CASE BootHandler
  <2>1. ~Unbound /\ UNCHANGED wk /\ cx'.run = cx.run
    <3>1. CASE BootStart
      BY <1>0, <3>1 DEF BootStart, FirstCommand, CursorRec
    <3>2. CASE BootReinit
      BY <1>0, <3>2 DEF BootReinit, FirstCommand, CursorRec
    <3>3. CASE Dispatch \/ BootQuiesce \/ BootError \/ BootCommit \/ BootFinish \/ BootAbort
      BY <1>0, <3>3 DEF Dispatch, BootQuiesce, BootError, BootCommit, BootFinish,
         BootAbort, CursorRec
    <3> QED  BY <1>9, <3>1, <3>2, <3>3 DEF BootHandler
  <2>2. Still
    <3>1. CASE fw' \in {fw, Outdated(fw)}  BY <3>1, SlaveMoves
    <3>2. CASE BootCommit  BY <1>0, <3>2 DEF BootCommit, SlaveRec
    <3> QED
      BY <1>9, <3>1, <3>2 DEF BootHandler, Dispatch, BootStart, BootQuiesce,
         BootReinit, BootError, BootFinish, BootAbort, FirstCommand
  <2>3. (Closed(h)' <=> Closed(h)) /\ ~Unbound'
    <3>1. ASSUME NEW a \in HostRec, BootFails(a), Closed(a) <=> Closed(h), a.st = h.st
          PROVE  (Closed(h)' <=> Closed(h)) /\ ~Unbound'
      <4> DEFINE c == [a EXCEPT !.fl = @ \ {"RECON"}]
      <4>1. c \in HostRec /\ (Closed(c) <=> Closed(h)) /\ c.st = h.st
        BY <3>1 DEF HostRec, Closed, Has
      <4>2. h' = BootRetry(c, "bt")  BY <3>1 DEF BootFails
      <4> HIDE DEF c
      <4> QED  BY <1>6, <2>1, <4>1, <4>2
    <3>2. CASE BootStart
      <4>1. h'.st \in {h.st, "RDY"} /\ (Closed(h') <=> Closed(h))
        <5> DEFINE a == [h EXCEPT !.work = FALSE, !.fl = @ \ {"INIT", "NEED"}]
        <5>1. a \in HostRec /\ (Closed(a) <=> Closed(h)) /\ a.st = h.st
          BY <1>0 DEF HostRec, Closed, Has
        <5>2. \/ h' = [a EXCEPT !.fl = @ \cup {"PEND", "CLEAN"}] \/ Begin(a)
          BY <3>2 DEF BootStart
        <5> HIDE DEF a
        <5>3. CASE h' = [a EXCEPT !.fl = @ \cup {"PEND", "CLEAN"}]
          BY <5>1, <5>3 DEF HostRec, Closed, Has
        <5>4. CASE Begin(a)  BY <5>1, <5>4 DEF Begin, HostRec, Closed, Has
        <5> QED  BY <5>2, <5>3, <5>4
      <4> QED  BY <2>1, <4>1 DEF Closed, Has
    <3>3. CASE BootReinit
      <4>1. h'.st = "RDY" /\ (Closed(h') <=> Closed(h))
        BY <1>0, <3>3 DEF BootReinit, Begin, Closed, Has, HostRec
      <4> QED  BY <2>1, <4>1 DEF Closed, Has
    <3>4. CASE BootError  BY <1>0, <3>1, <3>4 DEF BootError
    <3>5. CASE BootCommit
      <4>1. CASE BootFails(h)  BY <1>0, <3>1, <4>1
      <4>2. CASE ~BootFails(h)
        <5>1. h'.st \in {"RX", "RDY"} /\ (Closed(h') <=> Closed(h))
          <6> DEFINE a == [h EXCEPT !.work = FALSE,
                                    !.fl = (@ \cup {"INIT"}) \ {"RECON", "CLEAN"}]
          <6>1. a \in HostRec /\ (Closed(a) <=> Closed(h))
            BY <1>0 DEF HostRec, Flags, Closed, Has
          <6>2. \/ h' = [a EXCEPT !.st = "RX", !.work = TRUE]
                \/ h' = [a EXCEPT !.fl = @ \ {"PEND", "EXP", "NEED"}, !.st = "RDY"]
            BY <3>5, <4>2 DEF BootCommit
          <6> HIDE DEF a
          <6>3. CASE h' = [a EXCEPT !.st = "RX", !.work = TRUE]
            BY <6>1, <6>3 DEF HostRec, Closed, Has
          <6>4. CASE h' = [a EXCEPT !.fl = @ \ {"PEND", "EXP", "NEED"}, !.st = "RDY"]
            BY <6>1, <6>4 DEF HostRec, Closed, Has
          <6> QED  BY <6>2, <6>3, <6>4
        <5> QED  BY <2>1, <5>1 DEF Closed, Has
      <4> QED  BY <4>1, <4>2
    <3>6. CASE BootFinish
      <4> DEFINE a == [h EXCEPT !.fl = (@ \cup {"CLEAN"}) \ {"INIT"}]
      <4>1. a \in HostRec /\ (Closed(a) <=> Closed(h)) /\ a.st = h.st
        BY <1>0 DEF HostRec, Flags, Closed, Has
      <4>2. CASE BootFails(a)  BY <3>1, <4>1, <4>2
      <4>3. CASE ~BootFails(a)
        <5>1. h'.st = h.st /\ (Closed(h') <=> Closed(h))
          <6>1. \/ h' = [h EXCEPT !.att = 0, !.dl = FALSE, !.fl = @ \ {"EXH"}]
                \/ h' = h
            BY <3>6, <4>3 DEF BootFinish
          <6>2. CASE h' = h  BY <6>2
          <6>3. CASE h' = [h EXCEPT !.att = 0, !.dl = FALSE, !.fl = @ \ {"EXH"}]
            BY <1>0, <6>3 DEF HostRec, Closed, Has
          <6> QED  BY <6>1, <6>2, <6>3
        <5> QED  BY <2>1, <5>1 DEF Closed, Has
      <4> QED  BY <4>2, <4>3
    <3>7. CASE Dispatch \/ BootQuiesce \/ BootAbort
      BY <2>1, <3>7 DEF Dispatch, BootQuiesce, BootAbort, Closed, Has
    <3> QED  BY <1>9, <3>2, <3>3, <3>4, <3>5, <3>6, <3>7 DEF BootHandler
  <2> QED  BY <2>1, <2>2, <2>3
<1>10. CASE ResetClose
  <2>1. UNCHANGED <<wk, rec, ev, bt, fw>> /\ cx'.run = cx.run
        /\ h'.st = h.st /\ h'.work = h.work /\ (Closed(h') <=> Closed(h))
    BY <1>0, <1>10 DEF ResetClose, Closed, Has, HostRec, CursorRec
  <2> QED  BY <2>1 DEF Closed, Has
<1>a. ASSUME HwReset \/ HwResetFails
       PROVE  fw'.reset => fw'.run = "down" /\ (fw'.rdy => fw'.unmarked)
  <2>1. CASE HwReset  BY <2>1, ResetFacts
  <2>2. CASE HwResetFails
    <3>1. fw' = [fw EXCEPT !.rdy = FALSE]  BY <2>2, ResetFacts
    <3> QED  BY <1>0, <3>1 DEF SlaveRec
  <2> QED  BY <1>a, <2>1, <2>2
<1>11. CASE ResetTarget
  <2>1. /\ UNCHANGED <<wk, rec>> /\ cx'.run = cx.run /\ wk.pc = "idle"
        /\ h'.st = h.st /\ h'.work = h.work /\ (Closed(h') <=> Closed(h))
        /\ (bt = "idle" => bt' = "idle") /\ (ev = "none" => ev' = "none")
    BY <1>0, <1>11 DEF ResetTarget, Rebased, Closed, Has, HostRec, CursorRec
  <2>2. HwReset \/ HwResetFails  BY <1>11 DEF ResetTarget
  <2> QED  BY <1>a, <2>1, <2>2 DEF Closed, Has
<1>12. CASE Probe
  <2>1. UNCHANGED <<cx, wk, rec, ev, bt>> /\ h.st = "OFF"  BY <1>12 DEF Probe
  <2>2. /\ h'.work = h.work
        /\ (h'.st = "DIS" /\ ~Closed(h')) \/ h'.st = "OFF"
    <3>1. CASE h' = [h EXCEPT !.fl = @ \ {"REMOVING", "CLEAN"}, !.st = "DIS"]
      BY <1>0, <3>1 DEF Closed, Has, HostRec
    <3>2. CASE h' = [h EXCEPT !.fl = @ \cup {"REMOVING", "CLEAN"}]
      BY <1>0, <2>1, <3>2 DEF HostRec
    <3> QED  BY <1>12, <3>1, <3>2 DEF Probe
  <2>3. HwReset \/ HwResetFails  BY <1>12 DEF Probe
  <2> QED  BY <1>a, <2>1, <2>2, <2>3 DEF Closed, Has
<1>13. CASE ProbeOpen
  <2>1. Still /\ UNCHANGED <<wk, rec, ev, bt>>
    BY <1>0, <1>13 DEF ProbeOpen, Opened, Partly, SlaveRec
  <2>2. \/ h'.st = "RX" /\ ~Closed(h')
        \/ h'.st = "OFF" /\ h'.work = h.work /\ cx' = cx
    <3>1. CASE h' = [h EXCEPT !.fl = @ \ {"INIT", "PEND", "EXP", "NEED"}, !.st = "RX",
                              !.work = TRUE]
      BY <1>0, <1>13, <3>1 DEF ProbeOpen, Closed, Has, HostRec
    <3>2. CASE cx' = cx /\ h' = [h EXCEPT !.fl = @ \cup {"REMOVING", "CLEAN"},
                                          !.st = "OFF"]
      BY <1>0, <3>2 DEF HostRec
    <3> QED  BY <1>13, <3>1, <3>2 DEF ProbeOpen
  <2> QED  BY <1>13, <2>1, <2>2 DEF ProbeOpen, Closed, Has
<1>14. CASE RemoveEnd
  <2>1. /\ ~h'.work /\ cx'.run = cx.run /\ Closed(h)
        /\ UNCHANGED <<wk, rec, ev, bt, fw>>
    BY <1>0, <1>14 DEF RemoveEnd, HostRec, CursorRec
  <2> QED  BY <1>14, <2>1 DEF RemoveEnd
<1> QED
  BY <1>1, <1>2, <1>4, <1>5, <1>7, <1>8, <1>9, <1>10, <1>11, <1>12, <1>13, <1>14
  DEF Next, Worker, Recovery, Binding, Environment

\* Neither a recovery pass (spihd_wait_slave_ready) nor spihd_probe takes the
\* ready byte of the firmware that a reset ends for that of the firmware it
\* brings up: while the chip comes up the byte shows only if the host's write
\* failed, or came before a restarting firmware's own (ReadyFresh).
THEOREM ReadyByteFresh == Spec => ReadyFresh
<1>1. TypeOK /\ ReadyInv /\ [Next]_vars
        => [ReadyAccepted => (fw.reset => fw.unmarked)]_vars
  <2> SUFFICES ASSUME TypeOK, ReadyInv, [Next]_vars, ReadyAccepted PROVE fw.rdy
    BY DEF ReadyInv
  <2>0. h \in HostRec  BY DEF TypeOK
  <2>1. CASE rec = "ready" /\ rec' = "open"
    <3>1. RecReady
      <4>1. ~(Firmware \/ Worker \/ BootHandler \/ Binding \/ RecExpire \/ UNCHANGED vars)
        BY ZenonT(60), <2>1 DEF Firmware, FwInit, FwOpen, FwBoot, FwSend, FwProcess,
           Publish, Worker, WkStart, WkStop, WkSample, WkRead, WkQio, WkMalformed,
           WkNext, WkCredit, WkCreditTimeout, WkWrite, TxFails, Unmoved, BootHandler,
           Dispatch, BootStart, BootQuiesce, BootReinit, BootError, BootCommit,
           BootFinish, BootAbort, Binding, ResetClose, ResetTarget, Probe, ProbeOpen,
           RemoveEnd, RecExpire, vars
      <4>2. ~Environment
        BY ZenonT(60), <2>1 DEF Environment, WritePacket, FlushBt, FwCrash, WkReadError,
           WkWriteError, RestartRequest, InjectResync, RemoveStart, TxFails
      <4> QED
        BY <2>1, <4>1, <4>2 DEF Next, Recovery, RecGate, RecCancel, RecResync, RecLive,
           RecRebase, RecOpen, RecAbort, RecFails
    <3> QED  BY <2>1, <3>1 DEF RecReady, RecFails
  <2>2. CASE h.st = "DIS" /\ h'.st = "RX"
    <3>1. ASSUME NEW a \in HostRec, NEW b \in {SchedRecovery(a, FALSE), BootRetry(a, "bt"),
                   Quarantine(a, "rec"), Quarantine(a, "user"), BootRetry(a, "rec")},
                 a.st = "DIS"
          PROVE  b.st = "DIS"
      BY <3>1, PolicyMoves
    <3>2. h' # h /\ h' # SchedRecovery(h, FALSE)  BY <2>0, <2>2, <3>1
    <3>3. ~(Firmware \/ Worker \/ UNCHANGED vars)
      BY ZenonT(60), <3>2 DEF Firmware, FwInit, FwOpen, FwBoot, FwSend, FwProcess, Publish,
         Worker, WkStart, WkStop, WkSample, WkRead, WkQio, WkMalformed, WkNext, WkCredit,
         WkCreditTimeout, WkWrite, WkFails, TxFails, vars
    <3>4. ~Environment
      <4>1. ~RestartRequest  BY <2>0, <2>2, <3>1 DEF RestartRequest
      <4>2. ~RemoveStart  BY <2>0, <2>2 DEF RemoveStart, HostRec
      <4> QED
        BY <3>2, <4>1, <4>2 DEF Environment, WritePacket, FlushBt, FwCrash, WkReadError,
           WkWriteError, InjectResync, WkFails, TxFails
    <3>5. ~(Recovery \/ RecExpire)
      <4>1. ~RecExpire
        <5> SUFFICES ASSUME RecExpire PROVE FALSE
          OBVIOUS
        <5>1. [h EXCEPT !.dl = FALSE, !.work = FALSE] \in HostRec
              /\ [h EXCEPT !.dl = FALSE, !.work = FALSE].st = "DIS"
          BY <2>0, <2>2 DEF HostRec
        <5> QED  BY <2>2, <3>1, <5>1 DEF RecExpire
      <4>2. ~RecResync
        <5> SUFFICES ASSUME RecResync PROVE FALSE
          OBVIOUS
        <5>1. Quarantine(h, "rec") \in HostRec /\ Quarantine(h, "rec").st = "DIS"
          BY <2>0, <2>2, <3>1, PolicyFacts
        <5> DEFINE b == Quarantine(h, "rec")
        <5>2. h' \in {h, [h EXCEPT !.work = TRUE], [h EXCEPT !.st = "RDY"],
                      [b EXCEPT !.work = TRUE]}
          BY DEF RecResync, RecFails
        <5> HIDE DEF b
        <5> QED  BY <2>0, <2>2, <5>1, <5>2 DEF HostRec, b
      <4>3. ~RecGate
        <5>1. RecGate => \/ h' = [h EXCEPT !.work = FALSE]
                         \/ h' = [h EXCEPT !.work = FALSE, !.dirty = @ \ {"rec"}]
          BY DEF RecGate
        <5> QED  BY <2>0, <2>2, <5>1 DEF HostRec
      <4>4. ~RecLive  BY <2>0, <2>2 DEF RecLive, HostRec
      <4>5. ~(RecReady \/ RecOpen)
        BY ZenonT(60), <2>0, <2>2 DEF RecReady, RecOpen, RecFails, HostRec
      <4> QED
        BY <3>2, <4>1, <4>2, <4>3, <4>4, <4>5 DEF Recovery, RecCancel, RecRebase, RecAbort
    <3>6. ~BootHandler
      <4>1. (bt = "idle" /\ ev = "none") \/ Closed(h)  BY <2>2 DEF ReadyInv, Unbound
      <4>2. BootHandler => UNCHANGED h
        BY <4>1 DEF BootHandler, Dispatch, BootStart, BootQuiesce, BootReinit, BootError,
           BootCommit, BootFinish, BootAbort, BtFree
      <4> QED  BY <3>2, <4>2
    <3>7. ~(ResetClose \/ ResetTarget \/ Probe \/ RemoveEnd)
      BY ZenonT(60), <2>0, <2>2 DEF ResetClose, ResetTarget, Probe, RemoveEnd, HostRec
    <3>8. ProbeOpen
      BY <3>3, <3>4, <3>5, <3>6, <3>7 DEF Next, Binding
    <3> QED  BY <2>0, <2>2, <3>8 DEF ProbeOpen, HostRec
  <2> QED  BY <2>1, <2>2 DEF ReadyAccepted
<1> QED
  BY <1>1, TypeInit, TypeNext, ReadyInit, ReadyNext, PTL DEF Spec, ReadyFresh

-----------------------------------------------------------------------------
(* Counters that wrap *)

\* One wrap of a counter at most
LEMMA ModSmall ==
    ASSUME NEW m \in Nat \ {0}, NEW a \in 0..(2 * m - 1)
    PROVE  a % m = IF a < m THEN a ELSE a - m
<1>1. CASE a < m  BY <1>1
<1>2. CASE a >= m
  <2>1. a = m + (a - m) /\ a - m \in 0..(m - 1)  BY <1>2
  <2> QED  BY SMTT(60), <1>2, <2>1
<1> QED  BY <1>1, <1>2

\* How far counter b has to go to reach counter a
LEMMA ModDiff ==
    ASSUME NEW m \in Nat \ {0}, NEW a \in 0..(m - 1), NEW b \in 0..(m - 1)
    PROVE  (a + m - b) % m = IF b <= a THEN a - b ELSE a + m - b
<1> DEFINE x == a + m - b
<1>1. x \in 0..(2 * m - 1)  OBVIOUS
<1>2. x % m = IF x < m THEN x ELSE x - m
  <2> HIDE DEF x
  <2> QED  BY <1>1, ModSmall
<1> QED  BY <1>2

\* TX_BUF_LEN: a publication of l bytes is what the host has to read next, and
\* what the host sees as pending is what it adds to its cursor.
LEMMA BytesArith ==
    ASSUME NEW pub \in 0..(RxMod - 1), NEW rd \in 0..(RxMod - 1), NEW l \in 0..(RxMod - 1)
    PROVE  /\ (((pub + l) % RxMod) + RxMod - l) % RxMod = pub
           /\ (pub + RxMod - 0) % RxMod = pub
           /\ \A p : p = (pub + RxMod - rd) % RxMod => (rd + p) % RxMod = pub
           /\ rd = (pub + RxMod - l) % RxMod => (pub + RxMod - rd) % RxMod = l
<1>0. RxMod \in Nat \ {0}  BY CounterFacts
<1>1. (((pub + l) % RxMod) + RxMod - l) % RxMod = pub
  <2>1. (pub + l) % RxMod = IF pub + l < RxMod THEN pub + l ELSE pub + l - RxMod
    <3> DEFINE y == pub + l
    <3>1. y \in 0..(2 * RxMod - 1)  BY <1>0
    <3>2. y % RxMod = IF y < RxMod THEN y ELSE y - RxMod
      <4> HIDE DEF y
      <4> QED  BY <1>0, <3>1, ModSmall
    <3> QED  BY <1>0, <3>2
  <2>2. (pub + l) % RxMod \in 0..(RxMod - 1)  BY <1>0, <2>1
  <2> DEFINE p == (pub + l) % RxMod
  <2>3. (p + RxMod - l) % RxMod = IF l <= p THEN p - l ELSE p + RxMod - l
    BY <1>0, <2>2, ModDiff
  <2> QED  BY <1>0, <2>1, <2>2, <2>3
<1>2. (pub + RxMod - 0) % RxMod = pub
  <2>1. 0 \in 0..(RxMod - 1)  BY <1>0
  <2> QED  BY <1>0, <2>1, ModDiff
<1>3. ASSUME NEW d, d = (pub + RxMod - rd) % RxMod PROVE (rd + d) % RxMod = pub
  <2>1. d = IF rd <= pub THEN pub - rd ELSE pub + RxMod - rd  BY <1>0, <1>3, ModDiff
  <2>2. d \in 0..(RxMod - 1)  BY <1>0, <2>1
  <2>3. (rd + d) % RxMod = IF rd + d < RxMod THEN rd + d ELSE rd + d - RxMod
    <3> DEFINE y == rd + d
    <3>1. y \in 0..(2 * RxMod - 1)  BY <1>0, <2>2
    <3>2. y % RxMod = IF y < RxMod THEN y ELSE y - RxMod
      <4> HIDE DEF y
      <4> QED  BY <1>0, <3>1, ModSmall
    <3> QED  BY <1>0, <2>2, <3>2
  <2> QED  BY <1>0, <2>1, <2>2, <2>3
<1>4. ASSUME rd = (pub + RxMod - l) % RxMod PROVE (pub + RxMod - rd) % RxMod = l
  <2>1. rd = IF l <= pub THEN pub - l ELSE pub + RxMod - l  BY <1>0, <1>4, ModDiff
  <2>2. (pub + RxMod - rd) % RxMod = IF rd <= pub THEN pub - rd ELSE pub + RxMod - rd
    BY <1>0, ModDiff
  <2> QED  BY <1>0, <2>1, <2>2
<1> QED  BY <1>1, <1>2, <1>3, <1>4

\* RX_BUF_LEN: a descriptor processed and armed again changes nothing, one more
\* segment held is one more received, and the host's view of a fresh count is
\* the number of free descriptors.
LEMMA CreditArith ==
    ASSUME NEW arm \in 0..(CrMod - 1), NEW n \in 0..Slots
    PROVE  /\ (arm + CrMod - Slots + n) % CrMod \in 0..(CrMod - 1)
           /\ n > 0 => (((arm + 1) % CrMod) + CrMod - Slots + (n - 1)) % CrMod
                         = (arm + CrMod - Slots + n) % CrMod
           /\ n < Slots => (arm + CrMod - Slots + (n + 1)) % CrMod
                             = (((arm + CrMod - Slots + n) % CrMod) + 1) % CrMod
           /\ \A s : s = (arm + CrMod - Slots + n) % CrMod
                       => (arm + CrMod - s) % CrMod = Slots - n
<1>0. CrMod \in Nat \ {0} /\ Slots \in Nat /\ 2 * Slots < CrMod
  BY CounterAssumption
<1> DEFINE x == arm + CrMod - Slots + n
           r == x % CrMod
<1>1. x \in 0..(2 * CrMod - 1)  BY <1>0
<1>2. r = IF x < CrMod THEN x ELSE x - CrMod  BY <1>0, <1>1, ModSmall
<1>3. r \in 0..(CrMod - 1)  BY <1>0, <1>1, <1>2
<1>4. ASSUME n > 0
      PROVE  (((arm + 1) % CrMod) + CrMod - Slots + (n - 1)) % CrMod = r
  <2>1. (arm + 1) % CrMod = IF arm + 1 < CrMod THEN arm + 1 ELSE arm + 1 - CrMod
    <3> DEFINE y == arm + 1
    <3>1. y \in 0..(2 * CrMod - 1)  BY <1>0
    <3>2. y % CrMod = IF y < CrMod THEN y ELSE y - CrMod
      <4> HIDE DEF y
      <4> QED  BY <1>0, <3>1, ModSmall
    <3> QED  BY <1>0, <3>2
  <2> DEFINE y == ((arm + 1) % CrMod) + CrMod - Slots + (n - 1)
  <2>2. y \in 0..(2 * CrMod - 1)  BY <1>0, <1>4, <2>1
  <2>3. y % CrMod = IF y < CrMod THEN y ELSE y - CrMod  BY <1>0, <2>2, ModSmall
  <2> QED  BY <1>0, <1>2, <2>1, <2>3
<1>5. ASSUME n < Slots
      PROVE  (arm + CrMod - Slots + (n + 1)) % CrMod = (r + 1) % CrMod
  <2> DEFINE y == arm + CrMod - Slots + (n + 1)
  <2>1. y \in 0..(2 * CrMod - 1)  BY <1>0, <1>5
  <2>2. y % CrMod = IF y < CrMod THEN y ELSE y - CrMod  BY <1>0, <2>1, ModSmall
  <2>3. (r + 1) % CrMod = IF r + 1 < CrMod THEN r + 1 ELSE r + 1 - CrMod
    <3> HIDE DEF r
    <3> DEFINE z == r + 1
    <3>1. z \in 0..(2 * CrMod - 1)  BY <1>0, <1>3
    <3>2. z % CrMod = IF z < CrMod THEN z ELSE z - CrMod
      <4> HIDE DEF z
      <4> QED  BY <1>0, <3>1, ModSmall
    <3> QED  BY <1>0, <1>3, <3>2
  <2> QED  BY <1>0, <1>2, <2>2, <2>3
<1>6. ASSUME NEW s, s = r PROVE (arm + CrMod - s) % CrMod = Slots - n
  <2>1. (arm + CrMod - s) % CrMod = IF s <= arm THEN arm - s ELSE arm + CrMod - s
    <3> HIDE DEF r
    <3> QED  BY <1>0, <1>3, <1>6, ModDiff
  <2>2. s = IF x < CrMod THEN x ELSE x - CrMod  BY <1>2, <1>6
  <2> QED  BY <1>0, <2>1, <2>2
<1>7. n > 0 => (((arm + 1) % CrMod) + CrMod - Slots + (n - 1)) % CrMod = r
  BY ZenonT(60), <1>4
<1>8. n < Slots => (arm + CrMod - Slots + (n + 1)) % CrMod = (r + 1) % CrMod
  BY ZenonT(60), <1>5
<1> QED  BY <1>0, <1>3, <1>6, <1>7, <1>8

\* A segment sent uses up one credit.
LEMMA CreditSpent ==
    ASSUME NEW lim \in 0..(CrMod - 1), NEW s \in 0..(CrMod - 1),
           (lim + CrMod - s) % CrMod > 0, NEW t, t = (s + 1) % CrMod
    PROVE  (lim + CrMod - t) % CrMod = ((lim + CrMod - s) % CrMod) - 1
<1>0. CrMod \in Nat \ {0}  BY CounterFacts
<1>1. (lim + CrMod - s) % CrMod = IF s <= lim THEN lim - s ELSE lim + CrMod - s
  BY <1>0, ModDiff
<1>2. t = IF s + 1 < CrMod THEN s + 1 ELSE s + 1 - CrMod
  <2> DEFINE y == s + 1
  <2>1. y \in 0..(2 * CrMod - 1)  BY <1>0
  <2>2. y % CrMod = IF y < CrMod THEN y ELSE y - CrMod
    <3> HIDE DEF y
    <3> QED  BY <1>0, <2>1, ModSmall
  <2> QED  BY <1>0, <2>2
<1>3. t \in 0..(CrMod - 1)  BY <1>0, <1>2
<1>4. (lim + CrMod - t) % CrMod = IF t <= lim THEN lim - t ELSE lim + CrMod - t
  BY <1>0, <1>3, ModDiff
<1> QED  BY <1>0, <1>1, <1>2, <1>3, <1>4

-----------------------------------------------------------------------------
(* What the contexts of the host know of each other *)

\* Data-ready announces a publication, and the firmware of a committed session
\* is up and has booted.
SlaveShown ==
    /\ fw.dr => fw.out # "none"
    /\ fw.same => fw.run = "up" /\ fw.app = "active"

\* Transport workers run only between spihd_probe and spihd_remove_common; a
\* committed session lies between them, outside a reconstruction.
Initialised ==
    /\ Closed(h) \/ cx.run \/ Unbound
    /\ Has(h, "INIT") => /\ ~Closed(h) /\ ~Has(h, "RECON") /\ cx.run
                         /\ bt \in {"idle", "publish"}

\* The live recovery holds the worker back from before its cancellation until
\* it has read the counters, and PENDING until it has resumed the session.
Syncing ==
    /\ cx.sync <=> rec \in {"sync", "resync"}
    /\ rec = "resync" => wk.pc = "idle"
    /\ rec \in {"sync", "resync", "live"} => Has(h, "PEND")

LinkInv == SlaveShown /\ Initialised /\ Syncing

\* The driver is unbound, or runs a session.
LEMMA LinkInit == Init => LinkInv
  BY DEF Init, Fresh, Running, LinkInv, SlaveShown, Initialised, Syncing, Unbound,
     Closed, Has

\* esp_schedule_recovery marks the session and moves no other flag.
LEMMA SchedMarks ==
    ASSUME NEW a \in HostRec
    PROVE  LET b == SchedRecovery(a, FALSE) IN
           /\ \A f \in Flags \ {"PEND"} : Has(b, f) <=> Has(a, f)
           /\ Has(a, "PEND") => Has(b, "PEND")
           /\ ~Closed(a) => Has(b, "PEND") /\ "rec" \in b.dirty
           /\ a.st # "RDY" => b.st # "RDY"
           /\ ~Closed(a) /\ ~Has(a, "RECON") => b.st # "RDY"
  BY DEF SchedRecovery, HostRec, Closed, Has, Flags

\* A request for a restart marks the session for reset, and commits nothing.
LEMMA RetryMarks ==
    ASSUME NEW a \in HostRec, NEW who \in {"rec", "bt", "user"},
           NEW b \in {Quarantine(a, who), BootRetry(a, who)}
    PROVE  /\ \A f \in {"INIT", "RECON", "REMOVING"} : Has(b, f) <=> Has(a, f)
           /\ Has(a, "PEND") => Has(b, "PEND")
           /\ ~Closed(a) => Has(b, "EXP") /\ Has(b, "PEND")
<1> DEFINE Marks(x, y) ==
             /\ \A f \in {"INIT", "RECON", "REMOVING"} : Has(y, f) <=> Has(x, f)
             /\ Has(x, "PEND") => Has(y, "PEND")
             /\ ~Closed(x) => Has(y, "EXP") /\ Has(y, "PEND")
<1>1. \A x \in HostRec : Marks(x, SchedRecovery(x, TRUE))
  BY DEF SchedRecovery, HostRec, Closed, Has
<1>2. \A x \in HostRec : \A f \in {"INIT", "RECON", "REMOVING", "EXP", "PEND"} :
        Has(RequestRestart(x, who), f) <=> Has(x, f)
  BY DEF RequestRestart, HostRec, Has
<1>3. \A x \in HostRec : Marks(x, Quarantine(x, who))
  <2> SUFFICES ASSUME NEW x \in HostRec PROVE Marks(x, Quarantine(x, who))
    OBVIOUS
  <2> DEFINE y == SchedRecovery(x, TRUE)
  <2>1. y \in HostRec  BY PolicyFacts
  <2>2. Marks(x, y)  BY <1>1
  <2> HIDE DEF y
  <2>3. \A f \in {"INIT", "RECON", "REMOVING", "EXP", "PEND"} :
          Has(RequestRestart(y, who), f) <=> Has(y, f)
    BY <1>2, <2>1
  <2>4. Quarantine(x, who) = RequestRestart(y, who)  BY DEF Quarantine, y
  <2> QED  BY <2>2, <2>3, <2>4
<1>4. Marks(a, BootRetry(a, who))
  <2> DEFINE x == [a EXCEPT !.fl = @ \ {"CLEAN"}]
  <2>1. x \in HostRec /\ \A f \in Flags \ {"CLEAN"} : Has(x, f) <=> Has(a, f)
    BY DEF HostRec, Has
  <2>2. Marks(x, Quarantine(x, who))  BY <1>3, <2>1
  <2>3. BootRetry(a, who) = IF Closed(a) THEN a ELSE Quarantine(x, who)  BY DEF BootRetry
  <2> HIDE DEF x
  <2> QED  BY <2>1, <2>2, <2>3 DEF Closed, Flags
<1> QED  BY <1>3, <1>4

\* The slave's side of LinkInv: data-ready is raised by a publication and falls
\* with it, and a restart ends the session.
LEMMA ShownNext == TypeOK /\ SlaveShown /\ [Next]_vars => SlaveShown'
<1> SUFFICES ASSUME TypeOK, SlaveShown, [Next]_vars PROVE SlaveShown'
  OBVIOUS
<1> USE DEF SlaveShown
<1>0. fw \in SlaveRec  BY DEF TypeOK
<1>1. CASE fw' \in {fw, Drained(fw), Acked(fw), Taken(fw)}
  BY ZenonT(60), <1>0, <1>1 DEF Drained, Acked, Taken, SlaveRec
<1>2. CASE fw' = Outdated(fw)
  BY ZenonT(60), <1>0, <1>2 DEF Outdated, Older, SlaveRec
<1>3. CASE Firmware \/ FwCrash
  <2>1. CASE FwInit \/ FwOpen
    BY <1>0, <2>1 DEF FwInit, FwOpen, SlaveRec
  <2>2. CASE FwBoot \/ FwSend
    <3>1. fw.run = "up" /\ fw'.run = fw.run /\ fw'.app = "active"
      BY ZenonT(60), <1>0, <2>2 DEF FwBoot, FwSend, Publish, SlaveRec
    <3>2. fw'.out # "none"
      BY ZenonT(60), <1>0, <2>2 DEF FwBoot, FwSend, Publish, SlaveRec, Answers
    <3> QED  BY <3>1, <3>2
  <2>3. CASE FwProcess
    BY <1>0, <2>3 DEF FwProcess, Fatal, Restarted, Rearmed, SlaveRec
  <2>4. CASE FwCrash
    BY <1>0, <2>4 DEF FwCrash, Restarted, SlaveRec
  <2> QED  BY <1>3, <2>1, <2>2, <2>3, <2>4 DEF Firmware
<1>4. CASE Worker \/ WkReadError \/ WkWriteError \/ UNCHANGED vars
  <2>1. CASE WkQio  BY <1>0, <2>1 DEF WkQio, Opened, Partly, SlaveRec
  <2>2. CASE ~WkQio
    BY <1>1, <1>4, <2>2 DEF Worker, WkStart, WkStop, WkSample, WkRead,
         WkMalformed, WkNext, WkCredit, WkCreditTimeout, WkWrite, WkReadError,
         WkWriteError, Unmoved, Partly, vars
  <2> QED  BY <2>1, <2>2
<1>5. CASE Recovery \/ RecExpire
  BY <1>0, <1>5 DEF Recovery, RecGate, RecCancel, RecResync, RecLive,
     RecRebase, RecReady, RecOpen, RecAbort, RecExpire, Opened, Partly, SlaveRec
<1>6. CASE BootHandler
  <2>1. CASE BootCommit  BY <1>0, <2>1 DEF BootCommit, SlaveRec
  <2> QED
    BY <1>1, <1>2, <1>6, <2>1 DEF BootHandler, Dispatch, BootStart, BootQuiesce,
       BootReinit, BootError, BootFinish, BootAbort, FirstCommand
<1>7. CASE Binding
  <2>1. CASE HwReset  BY <2>1, ResetFacts
  <2>2. CASE HwResetFails
    <3>1. fw' = [fw EXCEPT !.rdy = FALSE]  BY <2>2, ResetFacts
    <3> QED  BY <1>0, <3>1 DEF SlaveRec
  <2>3. CASE ProbeOpen  BY <1>0, <2>3 DEF ProbeOpen, Opened, Partly, SlaveRec
  <2> QED
    BY <1>1, <1>7, <2>1, <2>2, <2>3 DEF Binding, ResetClose, ResetTarget, Probe, RemoveEnd
<1>8. CASE (\E k \in Kinds : WritePacket(k)) \/ FlushBt \/ RestartRequest
           \/ InjectResync \/ RemoveStart
  BY <1>8 DEF WritePacket, FlushBt, RestartRequest, InjectResync, RemoveStart
<1> QED
  BY <1>3, <1>4, <1>5, <1>6, <1>7, <1>8 DEF Next, Environment

\* The host's side of LinkInv: only esp_commit_reconstruction commits, a removal
\* uncommits, and the live recovery keeps its own order.
LEMMA HeldNext ==
    TypeOK /\ ReadyInv /\ Initialised /\ Syncing /\ [Next]_vars => Initialised' /\ Syncing'
<1> SUFFICES ASSUME TypeOK, ReadyInv, Initialised, Syncing, [Next]_vars
             PROVE  Initialised' /\ Syncing'
  OBVIOUS
<1> USE DEF Initialised, Syncing
<1>0. h \in HostRec /\ cx \in CursorRec /\ wk \in WorkerRec  BY DEF TypeOK
<1>1. ASSUME h' = h \/ h' = SchedRecovery(h, FALSE)
      PROVE  /\ \A f \in Flags \ {"PEND"} : Has(h', f) <=> Has(h, f)
             /\ Has(h, "PEND") => Has(h', "PEND")
             /\ Unbound => h'.st = h.st
  <2>1. CASE h' = h  BY <2>1
  <2>2. CASE h' = SchedRecovery(h, FALSE)
    <3>1. h'.st = h.st \/ h.st = "RDY"
      BY <1>0, <2>2 DEF SchedRecovery, HostRec
    <3>2. /\ \A f \in Flags \ {"PEND"} : Has(h', f) <=> Has(h, f)
          /\ Has(h, "PEND") => Has(h', "PEND")
      BY <1>0, <2>2, SchedMarks
    <3> QED  BY <3>1, <3>2 DEF Unbound
  <2> QED  BY <1>1, <2>1, <2>2
<1>2. ASSUME /\ \A f \in {"INIT", "RECON", "REMOVING"} : Has(h', f) <=> Has(h, f)
             /\ Has(h, "PEND") => Has(h', "PEND")
             /\ Unbound => h'.st = h.st
             /\ cx'.run = cx.run /\ cx'.sync = cx.sync /\ UNCHANGED <<rec, bt>>
             /\ rec = "resync" /\ wk.pc = "idle" => wk'.pc = "idle"
      PROVE  Initialised' /\ Syncing'
  <2>1. Unbound => Unbound'  BY <1>2 DEF Unbound, Closed
  <2> QED  BY <1>2, <2>1 DEF Closed
<1>3. CASE Firmware \/ FwCrash \/ UNCHANGED vars
  <2>1. UNCHANGED <<h, wk, rec, bt>> /\ cx'.run = cx.run /\ cx'.sync = cx.sync
    BY ZenonT(60), <1>0, <1>3 DEF Firmware, FwInit, FwOpen, FwBoot, FwSend, FwProcess,
       Publish, FwCrash, CursorRec, vars
  <2> QED  BY <1>1, <1>2, <2>1 DEF Flags
<1>4. CASE WkStart
  <2>1. UNCHANGED <<h, rec, bt>> /\ cx'.run = cx.run /\ cx'.sync = cx.sync
    BY <1>0, <1>4 DEF WkStart, Unmoved, CursorRec
  <2>2. cx.sync => wk' = wk  BY <1>4 DEF WkStart, Stopped
  <2> QED  BY <1>1, <1>2, <2>1, <2>2 DEF Flags
<1>5. CASE \/ WkStop \/ WkSample \/ WkRead \/ WkQio \/ WkMalformed \/ WkReadError
           \/ WkNext \/ WkCredit \/ WkCreditTimeout \/ WkWrite \/ WkWriteError
  <2>1. /\ wk.pc # "idle" /\ cx'.run = cx.run /\ cx'.sync = cx.sync /\ rec' = rec
        /\ h' = h \/ h' = SchedRecovery(h, FALSE)
    <3>1. CASE WkStop \/ WkSample \/ WkNext \/ WkCreditTimeout
      BY <3>1 DEF WkStop, WkSample, WkNext, WkCreditTimeout, WkFails, TxFails, Unmoved
    <3>2. CASE WkRead \/ WkQio \/ WkMalformed \/ WkReadError
      BY <1>0, <3>2 DEF WkRead, WkQio, WkMalformed, WkReadError, WkFails, CursorRec
    <3>3. CASE WkCredit \/ WkWrite \/ WkWriteError
      BY <1>0, <3>3 DEF WkCredit, WkWrite, WkWriteError, WkFails, TxFails, CursorRec,
         Unmoved
    <3> QED  BY <1>5, <3>1, <3>2, <3>3
  <2>2. bt \in {"idle", "publish"} => bt' = bt
    BY <1>5 DEF WkStop, WkSample, WkRead, WkQio, WkMalformed, WkReadError,
       WkNext, WkCredit, WkCreditTimeout, WkWrite, WkWriteError, TxFails, Unmoved
  <2>3. ~Unbound  BY <2>1 DEF ReadyInv
  <2> QED  BY <1>1, <2>1, <2>2, <2>3 DEF Closed, Flags
<1>6. CASE (\E k \in Kinds : WritePacket(k)) \/ FlushBt
  <2>1. UNCHANGED <<h, wk, rec, bt>> /\ cx'.run = cx.run /\ cx'.sync = cx.sync
    BY <1>0, <1>6 DEF WritePacket, FlushBt, CursorRec
  <2> QED  BY <1>1, <1>2, <2>1 DEF Flags
<1>7. CASE RestartRequest
  <2>1. UNCHANGED <<cx, wk, rec, bt>> /\ h' = Quarantine(h, "user") /\ ~Unbound
    BY <1>7 DEF RestartRequest, ReadyInv
  <2>2. /\ \A f \in {"INIT", "RECON", "REMOVING"} : Has(h', f) <=> Has(h, f)
        /\ Has(h, "PEND") => Has(h', "PEND")
    BY <1>0, <2>1, RetryMarks
  <2> QED  BY <1>2, <2>1, <2>2
<1>8. CASE InjectResync
  <2>1. UNCHANGED <<cx, wk, rec, bt>> /\ h' = SchedRecovery(h, FALSE)
    BY <1>8 DEF InjectResync
  <2> QED  BY <1>1, <1>2, <2>1 DEF Flags
<1>9. CASE RemoveStart
  <2>1. Closed(h') /\ ~Has(h', "INIT") /\ (Has(h, "PEND") => Has(h', "PEND"))
    BY <1>0, <1>9 DEF RemoveStart, Closed, Has, HostRec
  <2>2. UNCHANGED <<wk, rec>> /\ cx'.sync = cx.sync
    BY <1>0, <1>9 DEF RemoveStart, CursorRec
  <2> QED  BY <2>1, <2>2
<1>10. CASE RecGate
  <2>1. /\ \A f \in Flags : Has(h', f) <=> Has(h, f)
        /\ h'.st = h.st /\ UNCHANGED <<wk, bt>> /\ cx'.run = cx.run /\ ~Unbound
    <3>1. \/ h' = [h EXCEPT !.work = FALSE]
          \/ h' = [h EXCEPT !.work = FALSE, !.dirty = @ \ {"rec"}]
      BY <1>10 DEF RecGate
    <3>2. \A f \in Flags : Has(h', f) <=> Has(h, f)
      BY <1>0, <3>1 DEF HostRec, Has
    <3>3. h'.st = h.st /\ UNCHANGED <<wk, bt>> /\ cx'.run = cx.run /\ ~Unbound
      BY ZenonT(60), <1>0, <1>10, <3>1 DEF HostRec, RecGate, CursorRec, ReadyInv
    <3> QED  BY <3>2, <3>3
  <2>2. \/ rec' = "idle" /\ cx'.sync = cx.sync
        \/ rec' = "rebase" /\ cx'.sync = cx.sync
        \/ rec' = "sync" /\ cx'.sync = TRUE /\ Has(h, "PEND")
    BY <1>0, <1>10 DEF RecGate, CursorRec, Healthy, Has
  <2>3. rec = "idle"  BY <1>10 DEF RecGate
  <2> QED  BY <2>1, <2>2, <2>3 DEF Closed, Flags
<1>11. CASE RecExpire
  <2> DEFINE a == [h EXCEPT !.dl = FALSE, !.work = FALSE]
  <2>1. a \in HostRec /\ \A f \in Flags : Has(a, f) <=> Has(h, f)
    BY <1>0 DEF HostRec, Has
  <2>2. /\ h' = BootRetry(a, "rec") /\ UNCHANGED <<cx, wk, rec, bt>> /\ ~Unbound
    BY <1>11 DEF RecExpire, ReadyInv
  <2> HIDE DEF a
  <2>3. /\ \A f \in {"INIT", "RECON", "REMOVING"} : Has(h', f) <=> Has(h, f)
        /\ Has(h, "PEND") => Has(h', "PEND")
    BY <2>1, <2>2, RetryMarks DEF Flags
  <2> QED  BY <1>2, <2>2, <2>3
<1>12. CASE RecCancel
  BY <1>0, <1>12 DEF RecCancel, CursorRec, Unbound, Closed, Has
<1>13. CASE RecResync
  <2>1. UNCHANGED <<wk, bt>> /\ cx'.run = cx.run /\ ~cx'.sync /\ ~Unbound /\ wk.pc = "idle"
    BY <1>0, <1>13 DEF RecResync, CursorRec, ReadyInv
  <2>2. rec' \in {"idle", "rebase", "live"}  BY <1>13 DEF RecResync, RecFails
  <2>3. /\ \A f \in {"INIT", "RECON", "REMOVING"} : Has(h', f) <=> Has(h, f)
        /\ Has(h, "PEND") => Has(h', "PEND")
    <3>1. CASE h' = [Quarantine(h, "rec") EXCEPT !.work = TRUE]
      <4> DEFINE b == Quarantine(h, "rec")
      <4>1. b \in HostRec  BY <1>0, PolicyFacts
      <4>2. /\ \A f \in {"INIT", "RECON", "REMOVING"} : Has(b, f) <=> Has(h, f)
            /\ Has(h, "PEND") => Has(b, "PEND")
        BY <1>0, RetryMarks
      <4> HIDE DEF b
      <4>3. h'.fl = b.fl  BY <3>1, <4>1 DEF HostRec, b
      <4> QED  BY <4>2, <4>3 DEF Has
    <3>2. CASE h' \in {h, [h EXCEPT !.work = TRUE], [h EXCEPT !.st = "RDY"]}
      BY <1>0, <3>2 DEF Has, HostRec
    <3> QED  BY <1>13, <3>1, <3>2 DEF RecResync, RecFails
  <2>4. Has(h, "PEND")  BY <1>13 DEF RecResync
  <2> QED  BY <2>1, <2>2, <2>3, <2>4 DEF Closed
<1>14. CASE RecLive
  <2>1. /\ \A f \in Flags \ {"PEND"} : Has(h', f) <=> Has(h, f)
        /\ UNCHANGED <<wk, bt>> /\ rec' = "idle"
    BY <1>0, <1>14 DEF RecLive, Has, HostRec
  <2>2. cx'.run = cx.run /\ cx'.sync = cx.sync /\ ~Unbound /\ rec = "live"
    BY <1>0, <1>14 DEF RecLive, CursorRec, ReadyInv
  <2> QED  BY <2>1, <2>2 DEF Closed, Flags
<1>15. CASE RecRebase \/ RecReady \/ RecOpen
  <2>1. /\ \A f \in Flags : Has(h', f) <=> Has(h, f)
        /\ UNCHANGED <<wk, bt>> /\ rec' \in {"idle", "ready", "open"}
        /\ rec \in {"rebase", "ready", "open"}
    BY <1>0, <1>15 DEF RecRebase, RecReady, RecOpen, RecFails, Has, HostRec
  <2>2. cx'.run = cx.run /\ cx'.sync = cx.sync /\ ~Unbound
    BY <1>0, <1>15 DEF RecRebase, RecReady, RecOpen, Rebased, CursorRec, ReadyInv
  <2> QED  BY <2>1, <2>2 DEF Closed, Flags
<1>16. CASE RecAbort
  BY <1>0, <1>16 DEF RecAbort, CursorRec, Closed, Has
<1>17. CASE BootHandler
  <2>0. ~Unbound /\ UNCHANGED <<wk, rec>>
    BY <1>17 DEF BootHandler, Dispatch, BootStart, BootQuiesce, BootReinit, BootError,
       BootCommit, BootFinish, BootAbort, ReadyInv
  <2>1. cx'.run = cx.run /\ cx'.sync = cx.sync
    <3>1. CASE BootStart
      BY <1>0, <3>1 DEF BootStart, FirstCommand, CursorRec
    <3>2. CASE BootReinit
      BY <1>0, <3>2 DEF BootReinit, FirstCommand, CursorRec
    <3>3. CASE Dispatch \/ BootQuiesce \/ BootError \/ BootCommit \/ BootFinish \/ BootAbort
      BY <1>0, <3>3 DEF Dispatch, BootQuiesce, BootError, BootCommit, BootFinish,
         BootAbort, CursorRec
    <3> QED  BY <1>17, <3>1, <3>2, <3>3 DEF BootHandler
  <2>2. ASSUME /\ Has(h', "REMOVING") <=> Has(h, "REMOVING")
               /\ Has(h', "INIT") => /\ ~Closed(h') /\ ~Has(h', "RECON")
                                     /\ bt' \in {"idle", "publish"}
               /\ Has(h', "PEND") \/ rec = "idle" \/ (Has(h, "PEND") => Has(h', "PEND"))
        PROVE  Initialised' /\ Syncing'
    BY <2>0, <2>1, <2>2 DEF Closed
  <2>3. ASSUME NEW a \in HostRec, BootFails(a),
               \A f \in Flags \ {"INIT", "CLEAN"} : Has(a, f) <=> Has(h, f),
               Has(a, "INIT") => Has(h, "INIT")
        PROVE  Initialised' /\ Syncing'
    <3> DEFINE c == [a EXCEPT !.fl = @ \ {"RECON"}]
    <3>1. /\ c \in HostRec /\ ~Has(c, "RECON")
          /\ \A f \in Flags \ {"RECON"} : Has(c, f) <=> Has(a, f)
      BY <2>3 DEF HostRec, Has
    <3>2. h' = BootRetry(c, "bt") /\ bt' = "idle"  BY <2>3 DEF BootFails
    <3> HIDE DEF c
    <3>3. /\ \A f \in {"INIT", "RECON", "REMOVING"} : Has(h', f) <=> Has(c, f)
          /\ Has(c, "PEND") => Has(h', "PEND")
      BY <3>1, <3>2, RetryMarks
    <3> QED  BY <2>2, <2>3, <3>1, <3>2, <3>3 DEF Closed, Flags
  <2>4. CASE Dispatch \/ BootAbort
    BY <2>2, <2>4 DEF Dispatch, BootAbort, Closed, Has
  <2>5. CASE BootStart
    <3>1. /\ Has(h', "REMOVING") <=> Has(h, "REMOVING")
          /\ ~Has(h', "INIT") /\ rec = "idle"
      <4> DEFINE a == [h EXCEPT !.work = FALSE, !.fl = @ \ {"INIT", "NEED"}]
      <4>1. a \in HostRec /\ ~Has(a, "INIT") /\ (Has(a, "REMOVING") <=> Has(h, "REMOVING"))
        BY <1>0 DEF HostRec, Has
      <4>2. (h' = [a EXCEPT !.fl = @ \cup {"PEND", "CLEAN"}] \/ Begin(a)) /\ rec = "idle"
        BY <2>5 DEF BootStart
      <4> HIDE DEF a
      <4>3. CASE h' = [a EXCEPT !.fl = @ \cup {"PEND", "CLEAN"}]
        BY <4>1, <4>2, <4>3 DEF HostRec, Has
      <4>4. CASE Begin(a)  BY <4>1, <4>2, <4>4 DEF Begin, HostRec, Has
      <4> QED  BY <4>2, <4>3, <4>4
    <3> QED  BY <2>2, <3>1
  <2>6. CASE BootQuiesce
    BY <2>2, <2>6 DEF BootQuiesce, Closed, Has
  <2>7. CASE BootReinit
    <3>1. /\ Has(h', "REMOVING") <=> Has(h, "REMOVING")
          /\ Has(h', "PEND") <=> Has(h, "PEND")
          /\ ~Has(h', "INIT")
      BY <1>0, <2>7 DEF BootReinit, Begin, HostRec, Has
    <3> QED  BY <2>2, <3>1
  <2>8. CASE BootError
    BY <1>0, <2>3, <2>8 DEF BootError
  <2>9. CASE BootCommit
    <3>1. CASE BootFails(h)  BY <1>0, <2>3, <3>1
    <3>2. CASE ~BootFails(h)
      <4>1. /\ Has(h', "REMOVING") <=> Has(h, "REMOVING")
            /\ ~Has(h', "RECON") /\ ~Closed(h)
        <5> DEFINE a == [h EXCEPT !.work = FALSE,
                                  !.fl = (@ \cup {"INIT"}) \ {"RECON", "CLEAN"}]
        <5>1. /\ a \in HostRec /\ ~Has(a, "RECON")
              /\ Has(a, "REMOVING") <=> Has(h, "REMOVING")
          BY <1>0 DEF HostRec, Flags, Has
        <5>2. /\ \/ h' = [a EXCEPT !.st = "RX", !.work = TRUE]
                 \/ h' = [a EXCEPT !.fl = @ \ {"PEND", "EXP", "NEED"}, !.st = "RDY"]
              /\ ~Closed(h)
          BY <2>9, <3>2 DEF BootCommit, BtFree
        <5> HIDE DEF a
        <5>3. CASE h' = [a EXCEPT !.st = "RX", !.work = TRUE]
          BY <5>1, <5>2, <5>3 DEF HostRec, Has
        <5>4. CASE h' = [a EXCEPT !.fl = @ \ {"PEND", "EXP", "NEED"}, !.st = "RDY"]
          BY <5>1, <5>2, <5>4 DEF HostRec, Has
        <5> QED  BY <5>2, <5>3, <5>4
      <4>2. bt' = "publish" /\ rec = "idle"  BY <2>9, <3>2 DEF BootCommit
      <4> QED  BY <2>2, <4>1, <4>2 DEF Closed
    <3> QED  BY <3>1, <3>2
  <2>10. CASE BootFinish
    <3> DEFINE a == [h EXCEPT !.fl = (@ \cup {"CLEAN"}) \ {"INIT"}]
    <3>1. /\ a \in HostRec /\ ~Has(a, "INIT")
          /\ \A f \in Flags \ {"INIT", "CLEAN"} : Has(a, f) <=> Has(h, f)
      BY <1>0 DEF HostRec, Flags, Has
    <3>2. CASE BootFails(a)  BY <2>3, <3>1, <3>2
    <3>3. CASE ~BootFails(a)
      <4>1. \/ h' = [h EXCEPT !.att = 0, !.dl = FALSE, !.fl = @ \ {"EXH"}]
            \/ h' = h
        BY <2>10, <3>3 DEF BootFinish
      <4>2. \A f \in Flags \ {"EXH"} : Has(h', f) <=> Has(h, f)
        <5>1. CASE h' = h  BY <5>1
        <5>2. CASE h' = [h EXCEPT !.att = 0, !.dl = FALSE, !.fl = @ \ {"EXH"}]
          BY <1>0, <5>2 DEF HostRec, Has
        <5> QED  BY <4>1, <5>1, <5>2
      <4>3. bt' = "idle"  BY <2>10, <3>3 DEF BootFinish
      <4> QED  BY <2>2, <4>2, <4>3 DEF Closed, Flags
    <3> QED  BY <3>2, <3>3
  <2> QED  BY <1>17, <2>4, <2>5, <2>6, <2>7, <2>8, <2>9, <2>10 DEF BootHandler
<1>18. CASE ResetClose \/ ResetTarget
  <2>1. /\ \A f \in Flags : Has(h', f) <=> Has(h, f)
        /\ h'.st = h.st /\ UNCHANGED <<wk, rec>>
        /\ bt \in {"idle", "publish"} => bt' = bt
    BY ZenonT(60), <1>0, <1>18 DEF ResetClose, ResetTarget, Has, HostRec
  <2>2. cx'.run = cx.run /\ cx'.sync = cx.sync
    BY <1>0, <1>18 DEF ResetClose, ResetTarget, Rebased, CursorRec
  <2> QED  BY <2>1, <2>2 DEF Closed, Flags, Unbound
<1>19. CASE Probe
  <2>1. UNCHANGED <<cx, wk, rec, ev, bt>> /\ h.st = "OFF" /\ Unbound'
        /\ (Has(h', "INIT") => Has(h, "INIT"))
    <3>1. UNCHANGED <<cx, wk, rec, ev, bt>> /\ h.st = "OFF"  BY <1>19 DEF Probe
    <3>2. CASE h' = [h EXCEPT !.fl = @ \ {"REMOVING", "CLEAN"}, !.st = "DIS"]
      BY <1>0, <3>1, <3>2 DEF Closed, Has, HostRec, Unbound
    <3>3. CASE h' = [h EXCEPT !.fl = @ \cup {"REMOVING", "CLEAN"}]
      BY <1>0, <3>1, <3>3 DEF Has, HostRec, Unbound
    <3> QED  BY <1>19, <3>2, <3>3 DEF Probe
  <2>2. ~cx.run /\ rec = "idle"  BY <2>1 DEF ReadyInv, Unbound
  <2> QED  BY <2>1, <2>2 DEF Unbound
<1>20. CASE ProbeOpen
  <2>1. UNCHANGED <<wk, rec, ev, bt>> /\ Unbound /\ ~cx.run /\ rec = "idle"
        /\ (Has(h', "INIT") => Has(h, "INIT")) /\ cx'.sync = cx.sync
    <3>1. Unbound  BY <1>20 DEF ProbeOpen, Unbound
    <3>2. Has(h', "INIT") => Has(h, "INIT")
      <4>1. CASE h' = [h EXCEPT !.fl = @ \ {"INIT", "PEND", "EXP", "NEED"}, !.st = "RX",
                                !.work = TRUE]
        BY <1>0, <4>1 DEF HostRec, Has
      <4>2. CASE h' = [h EXCEPT !.fl = @ \cup {"REMOVING", "CLEAN"}, !.st = "OFF"]
        BY <1>0, <4>2 DEF HostRec, Has
      <4> QED  BY <1>20, <4>1, <4>2 DEF ProbeOpen
    <3>3. UNCHANGED <<wk, rec, ev, bt>> /\ cx'.sync = cx.sync
      BY <1>0, <1>20 DEF ProbeOpen, Rebased, CursorRec
    <3> QED  BY <3>1, <3>2, <3>3 DEF ReadyInv
  <2>2. cx'.run \/ Closed(h')
    <3>1. CASE cx' = [Rebased(cx) EXCEPT !.run = TRUE, !.path = TRUE, !.wq = fw.dr]
      BY <1>0, <3>1 DEF Rebased, CursorRec
    <3>2. CASE h' = [h EXCEPT !.fl = @ \cup {"REMOVING", "CLEAN"}, !.st = "OFF"]
      BY <1>0, <3>2 DEF HostRec, Closed, Has
    <3> QED  BY <1>20, <3>1, <3>2 DEF ProbeOpen
  <2> QED  BY <2>1, <2>2
<1>21. CASE RemoveEnd
  <2>1. /\ \A f \in Flags : Has(h', f) <=> Has(h, f)
        /\ Closed(h) /\ UNCHANGED <<wk, rec, bt>> /\ cx'.run = cx.run /\ cx'.sync = cx.sync
    BY <1>0, <1>21 DEF RemoveEnd, Has, HostRec, CursorRec
  <2> QED  BY <2>1 DEF Closed, Flags
<1> QED
  BY <1>3, <1>4, <1>5, <1>6, <1>7, <1>8, <1>9, <1>10, <1>11, <1>12, <1>13, <1>14,
     <1>15, <1>16, <1>17, <1>18, <1>19, <1>20, <1>21
  DEF Next, Worker, Recovery, Binding, Environment

\* Every step of every context keeps LinkInv.
LEMMA LinkNext == TypeOK /\ ReadyInv /\ LinkInv /\ [Next]_vars => LinkInv'
  BY ShownNext, HeldNext DEF LinkInv

-----------------------------------------------------------------------------
(* The counters of a session *)

\* A session lasts from its commit, on the firmware it was committed on, until
\* somebody asks for a reset or that firmware is gone.
Session == Has(h, "INIT") /\ ~Has(h, "EXP") /\ fw.same

\* The segments the cached credit still allows have descriptors armed for them.
CreditBacked ==
    LET d == (cx.lim + CrMod - cx.sent) % CrMod IN
    d <= Slots - Len(fw.held) \/ 2 * d >= CrMod

\* Both cursors agree with the firmware, unless a transfer of unknown outcome is
\* marked, and up to the transfer the worker is about to make.
Agree ==
    /\ ~cx.txf => /\ cx.sent = Received /\ CreditBacked
                  /\ wk.pc = "write" => CreditSeen
    /\ ~cx.rxf => cx.rd = Consumed
    /\ wk.pc = "rd" => fw.out # "none" /\ wk.len = PendingBytes

\* A transfer of unknown outcome stops the worker and takes the session away
\* from its users, and the recovery that will find its mark has not passed yet.
Marked ==
    cx.txf \/ cx.rxf => /\ Has(h, "PEND") /\ h.st # "RDY" /\ wk.pc = "idle"
                        /\ (rec = "live" => "rec" \in h.dirty)

Tracked ==
    Session => Agree /\ Marked /\ fw.rdy /\ rec \notin {"rebase", "ready", "open"}

\* Three steps may take a tracked session off its counters: the commit of a
\* reconstruction that was never on them; a reset that rebased the host's
\* counters and then could not reset the chip; and the resynchronization that
\* forgets the credit snapshot when the segment count is in the upper half of its
\* range, where a snapshot of zero lies ahead of it.
LosesCount ==
    \/ BootCommit /\ ~(Agree /\ ~cx.txf /\ ~cx.rxf /\ fw.rdy)
    \/ ResetTarget /\ fw'.same
    \/ RecResync /\ Signed(0, cx.sent) > 0

\* Who can still act during a session: the steps after which there is a session
\* are its commit and steps of these actions within it.
LEMMA SessionSteps ==
    ASSUME TypeOK, ReadyInv, LinkInv, [Next]_vars, Session'
    PROVE  \/ BootCommit /\ bt' = "publish"
           \/ /\ Session
              /\ \/ UNCHANGED vars \/ FwSend \/ FwProcess \/ FlushBt
                 \/ \E k \in Kinds : WritePacket(k)
                 \/ Worker \/ WkReadError \/ WkWriteError \/ InjectResync
                 \/ RecGate \/ RecCancel \/ RecResync \/ RecLive \/ RecRebase \/ RecReady \/ RecOpen
                 \/ ResetClose \/ ResetTarget \/ Dispatch \/ BootFinish
<1> USE DEF Session
<1>0. h \in HostRec /\ fw \in SlaveRec /\ h' \in HostRec  BY HostNext DEF TypeOK
<1>a. Has(h', "INIT") /\ ~Has(h', "EXP") /\ fw'.same  BY DEF Has
<1>1. ~(FwInit \/ FwOpen \/ FwBoot \/ FwCrash \/ Probe)
  <2>1. CASE FwInit  BY <1>0, <2>1 DEF FwInit, LinkInv, SlaveShown, SlaveRec
  <2>2. CASE FwOpen  BY <1>0, <2>2 DEF FwOpen, LinkInv, SlaveShown, SlaveRec
  <2>3. CASE FwBoot
    <3>1. fw'.same = fw.same  BY ZenonT(60), <1>0, <2>3 DEF FwBoot, Publish, SlaveRec
    <3> QED  BY <2>3, <3>1 DEF FwBoot, LinkInv, SlaveShown
  <2>4. CASE FwCrash  BY <1>0, <2>4 DEF FwCrash, Restarted, SlaveRec
  <2>5. CASE Probe
    <3>1. ~Has(h, "INIT")
      BY <2>5 DEF Probe, ReadyInv, Unbound, LinkInv, Initialised
    <3>2. \/ h' = [h EXCEPT !.fl = @ \ {"REMOVING", "CLEAN"}, !.st = "DIS"]
          \/ h' = [h EXCEPT !.fl = @ \cup {"REMOVING", "CLEAN"}]
      BY <2>5 DEF Probe
    <3>3. CASE h' = [h EXCEPT !.fl = @ \ {"REMOVING", "CLEAN"}, !.st = "DIS"]
      BY <1>0, <1>a, <3>1, <3>3 DEF HostRec, Has
    <3>4. CASE h' = [h EXCEPT !.fl = @ \cup {"REMOVING", "CLEAN"}]
      BY <1>0, <1>a, <3>1, <3>4 DEF HostRec, Has
    <3> QED  BY <3>2, <3>3, <3>4
  <2> QED  BY <2>1, <2>2, <2>3, <2>4, <2>5
<1>2. ASSUME NEW a \in HostRec, NEW who \in {"rec", "bt", "user"},
             NEW b \in {Quarantine(a, who), BootRetry(a, who)}, h' = b,
             ~Closed(a)
      PROVE  FALSE
  BY <1>2, RetryMarks
<1>3. ~RestartRequest
  BY <1>0, <1>2 DEF RestartRequest
<1>4. ~RecExpire
  <2> SUFFICES ASSUME RecExpire PROVE FALSE
    OBVIOUS
  <2> DEFINE a == [h EXCEPT !.dl = FALSE, !.work = FALSE]
  <2>1. a \in HostRec /\ (Closed(a) <=> Closed(h))  BY <1>0 DEF HostRec, Closed, Has
  <2>2. h' = BootRetry(a, "rec") /\ ~Closed(h)  BY DEF RecExpire, RecFree
  <2> HIDE DEF a
  <2> QED  BY <1>2, <2>1, <2>2
<1>5. ASSUME NEW a \in HostRec, BootFails(a), Closed(a) <=> Closed(h), ~Closed(h)
      PROVE  FALSE
  <2> DEFINE c == [a EXCEPT !.fl = @ \ {"RECON"}]
  <2>1. c \in HostRec /\ (Closed(c) <=> Closed(a))  BY <1>5 DEF HostRec, Closed, Has
  <2>2. h' = BootRetry(c, "bt")  BY <1>5 DEF BootFails
  <2> HIDE DEF c
  <2> QED  BY <1>2, <1>5, <2>1, <2>2
<1>6. ~(BootError \/ BootStart \/ BootQuiesce \/ BootReinit)
  <2>1. ~BootError  BY <1>0, <1>5 DEF BootError, BtFree
  <2>2. ~BootStart
    <3> SUFFICES ASSUME BootStart PROVE FALSE
      OBVIOUS
    <3> DEFINE a == [h EXCEPT !.work = FALSE, !.fl = @ \ {"INIT", "NEED"}]
    <3>1. a \in HostRec /\ ~Has(a, "INIT")  BY <1>0 DEF HostRec, Has
    <3>2. h' = [a EXCEPT !.fl = @ \cup {"PEND", "CLEAN"}] \/ Begin(a)
      BY DEF BootStart
    <3> HIDE DEF a
    <3>3. ~Has(h', "INIT")
      <4>1. CASE h' = [a EXCEPT !.fl = @ \cup {"PEND", "CLEAN"}]
        BY <3>1, <4>1 DEF HostRec, Has
      <4>2. CASE Begin(a)  BY <3>1, <4>2 DEF Begin, HostRec, Has
      <4> QED  BY <3>2, <4>1, <4>2
    <3> QED  BY <1>a, <3>3
  <2>3. ~BootQuiesce
    BY DEF BootQuiesce, LinkInv, Initialised, Has
  <2>4. ~BootReinit
    <3> SUFFICES ASSUME BootReinit PROVE FALSE
      OBVIOUS
    <3>1. ~Has(h, "INIT")  BY DEF BootReinit, LinkInv, Initialised
    <3>2. Has(h', "INIT") <=> Has(h, "INIT")
      BY <1>0 DEF BootReinit, Begin, HostRec, Has
    <3> QED  BY <1>a, <3>1, <3>2
  <2> QED  BY <2>1, <2>2, <2>3, <2>4
<1>7. ~(RecAbort \/ BootAbort \/ RemoveStart \/ RemoveEnd \/ ProbeOpen)
  <2>1. ~(RecAbort \/ BootAbort)
    BY DEF RecAbort, BootAbort, LinkInv, Initialised, Has, Closed
  <2>2. ~RemoveStart
    <3>1. RemoveStart => ~Has(h', "INIT")  BY <1>0 DEF RemoveStart, HostRec, Has
    <3> QED  BY <1>a, <3>1
  <2>3. ~RemoveEnd
    BY <1>0 DEF RemoveEnd, LinkInv, Initialised, HostRec, Has, Closed
  <2>4. ~ProbeOpen
    <3> SUFFICES ASSUME ProbeOpen PROVE FALSE
      OBVIOUS
    <3>1. Unbound  BY DEF ProbeOpen, Unbound
    <3>2. ~Has(h, "INIT")  BY <3>1 DEF ReadyInv, LinkInv, Initialised
    <3>3. ~Has(h', "INIT")
      <4>1. CASE h' = [h EXCEPT !.fl = @ \ {"INIT", "PEND", "EXP", "NEED"}, !.st = "RX",
                                !.work = TRUE]
        BY <1>0, <4>1 DEF HostRec, Has
      <4>2. CASE h' = [h EXCEPT !.fl = @ \cup {"REMOVING", "CLEAN"}, !.st = "OFF"]
        BY <1>0, <3>2, <4>2 DEF HostRec, Has
      <4> QED  BY <4>1, <4>2 DEF ProbeOpen
    <3> QED  BY <3>3 DEF Has
  <2> QED  BY <2>1, <2>2, <2>3, <2>4
<1>8. BootCommit => bt' = "publish"
  BY <1>0, <1>5 DEF BootCommit, BtFree
<1>9. ASSUME UNCHANGED fw \/ fw'.same = fw.same,
             h' = h \/ \A f \in {"INIT", "EXP"} : Has(h', f) <=> Has(h, f)
      PROVE  Session
  BY <1>9, <1>a
<1>10. CASE FwSend \/ FwProcess
  <2>1. fw'.same = fw.same \/ ~fw'.same
    <3>1. CASE FwSend  BY ZenonT(60), <1>0, <3>1 DEF FwSend, Publish, SlaveRec
    <3>2. CASE FwProcess
      BY <1>0, <3>2 DEF FwProcess, Fatal, Restarted, Rearmed, SlaveRec
    <3> QED  BY <1>10, <3>1, <3>2
  <2> QED  BY ZenonT(60), <1>9, <1>10, <2>1 DEF FwSend, FwProcess, Publish
<1>11. CASE \/ UNCHANGED vars \/ FlushBt \/ (\E k \in Kinds : WritePacket(k))
            \/ RecCancel \/ RecRebase \/ Dispatch
  BY <1>9, <1>11 DEF vars, FlushBt, WritePacket, RecCancel, RecRebase, Dispatch
<1>12. CASE Worker \/ WkReadError \/ WkWriteError \/ InjectResync
  <2>1. h' = h \/ h' = SchedRecovery(h, FALSE)
    BY <1>12 DEF Worker, WkStart, WkStop, WkSample, WkRead, WkQio,
       WkMalformed, WkNext, WkCredit, WkCreditTimeout, WkWrite, WkReadError,
       WkWriteError, WkFails, TxFails, InjectResync
  <2>2. fw'.same = fw.same
    <3>1. CASE fw' \in {fw, Drained(fw), Acked(fw), Taken(fw)}
      BY ZenonT(60), <1>0, <3>1 DEF Drained, Acked, Taken, SlaveRec
    <3>2. CASE WkQio  BY <1>0, <3>2 DEF WkQio, Opened, Partly, SlaveRec
    <3> QED
      BY <1>12, <3>1, <3>2 DEF Worker, WkStart, WkStop, WkSample, WkRead,
         WkMalformed, WkNext, WkCredit, WkCreditTimeout, WkWrite, WkReadError,
         WkWriteError, InjectResync, Unmoved, Partly
  <2>3. \A f \in {"INIT", "EXP"} : Has(h', f) <=> Has(h, f)
    BY ZenonT(60), <1>0, <2>1, SchedMarks DEF Flags
  <2> QED  BY <1>9, <1>12, <2>2, <2>3
<1>13. CASE RecGate \/ RecLive \/ RecReady \/ RecOpen \/ ResetClose
  <2>1. \A f \in {"INIT", "EXP"} : Has(h', f) <=> Has(h, f)
    <3>1. CASE RecGate
      <4>1. \/ h' = [h EXCEPT !.work = FALSE]
            \/ h' = [h EXCEPT !.work = FALSE, !.dirty = @ \ {"rec"}]
        BY <3>1 DEF RecGate
      <4> QED  BY <1>0, <4>1 DEF HostRec, Has
    <3>2. CASE RecLive \/ RecReady \/ RecOpen \/ ResetClose
      BY <1>0, <3>2 DEF RecLive, RecReady, RecOpen, RecFails, ResetClose, HostRec, Has
    <3> QED  BY <1>13, <3>1, <3>2
  <2>2. fw'.same = fw.same
    BY <1>0, <1>13 DEF RecGate, RecLive, RecReady, RecOpen, ResetClose, Opened, Partly,
       SlaveRec
  <2> QED  BY <1>9, <1>13, <2>1, <2>2
<1>14. CASE RecResync
  <2>1. fw' = fw  BY <1>14 DEF RecResync
  <2>2. CASE h' \in {h, [h EXCEPT !.work = TRUE], [h EXCEPT !.st = "RDY"]}
    <3>1. \A f \in {"INIT", "EXP"} : Has(h', f) <=> Has(h, f)
      BY <1>0, <2>2 DEF Has, HostRec
    <3> QED  BY <1>9, <1>14, <2>1, <3>1
  <2>3. CASE h' = [Quarantine(h, "rec") EXCEPT !.work = TRUE]
    <3> DEFINE b == Quarantine(h, "rec")
    <3>1. b \in HostRec  BY <1>0, PolicyFacts
    <3>2. ~Closed(h)  BY <1>14 DEF RecResync, RecFree
    <3>3. Has(b, "EXP")  BY <1>0, <3>2, RetryMarks
    <3> HIDE DEF b
    <3>4. h'.fl = b.fl  BY <2>3, <3>1 DEF HostRec, b
    <3> QED  BY <3>3, <3>4 DEF Has
  <2> QED  BY <1>14, <2>2, <2>3 DEF RecResync, RecFails
<1>15. CASE ResetTarget
  <2>1. \A f \in {"INIT", "EXP"} : Has(h', f) <=> Has(h, f)
    BY <1>0, <1>15 DEF ResetTarget, HostRec, Has
  <2>2. fw'.same => fw.same
    <3>1. CASE HwReset  BY <3>1, ResetFacts
    <3>2. CASE HwResetFails
      <4>1. fw' = [fw EXCEPT !.rdy = FALSE]  BY <3>2, ResetFacts
      <4> QED  BY <1>0, <4>1 DEF SlaveRec
    <3> QED  BY <1>15, <3>1, <3>2 DEF ResetTarget
  <2> QED  BY <1>15, <1>a, <2>1, <2>2
<1>16. CASE BootFinish
  <2>0. ~Closed(h) /\ fw' = fw  BY <1>16 DEF BootFinish, BtFree
  <2> DEFINE a == [h EXCEPT !.fl = (@ \cup {"CLEAN"}) \ {"INIT"}]
  <2>1. a \in HostRec /\ (Closed(a) <=> Closed(h))
    BY <1>0 DEF HostRec, Flags, Closed, Has
  <2>2. ~BootFails(a)  BY <1>5, <2>0, <2>1
  <2>3. h' = [h EXCEPT !.att = 0, !.dl = FALSE, !.fl = @ \ {"EXH"}] \/ h' = h
    BY <1>16, <2>2 DEF BootFinish
  <2>4. CASE h' = [h EXCEPT !.att = 0, !.dl = FALSE, !.fl = @ \ {"EXH"}]
    <3>1. \A f \in {"INIT", "EXP"} : Has(h', f) <=> Has(h, f)
      BY <1>0, <2>4 DEF HostRec, Has
    <3> QED  BY <1>9, <1>16, <2>0, <3>1
  <2> QED  BY <1>9, <1>16, <2>0, <2>3, <2>4
<1> QED
  BY <1>1, <1>3, <1>4, <1>6, <1>7, <1>8, <1>10, <1>11, <1>12, <1>13, <1>14, <1>15, <1>16
  DEF Next, Firmware, Recovery, BootHandler, Binding, Environment

\* What leaves the counters of both sides alone leaves them in agreement.
LEMMA AgreeKept ==
    ASSUME Agree, fw'.arm = fw.arm, fw'.held = fw.held, fw'.pub = fw.pub,
           fw'.out = fw.out, cx'.rd = cx.rd, cx'.sent = cx.sent, cx'.lim = cx.lim,
           cx'.txf = cx.txf, cx'.rxf = cx.rxf,
           wk'.pc = "write" => wk.pc = "write",
           wk'.pc = "rd" => wk.pc = "rd" /\ wk'.len = wk.len
    PROVE  Agree'
<1>1. /\ Received' = Received /\ Consumed' = Consumed /\ PendingBytes' = PendingBytes
      /\ CreditBacked' = CreditBacked /\ CreditSeen' = CreditSeen
  <2>1. Received' = Received  BY DEF Received
  <2>2. OutLen' = OutLen  BY DEF OutLen
  <2>3. Consumed' = Consumed  BY <2>2 DEF Consumed
  <2>4. PendingBytes' = PendingBytes  BY DEF PendingBytes
  <2>5. CreditBacked' = CreditBacked  BY DEF CreditBacked
  <2>6. CreditSeen' = CreditSeen  BY DEF CreditSeen, Signed
  <2> QED  BY <2>1, <2>3, <2>4, <2>5, <2>6
<1> QED  BY <1>1 DEF Agree

\* A data phase, and the acknowledgement of data-ready, in the slave's record
LEMMA PhaseFacts ==
    ASSUME TypeOK
    PROVE  /\ Acked(fw).arm = fw.arm /\ Acked(fw).held = fw.held
           /\ Acked(fw).pub = fw.pub /\ Acked(fw).out = fw.out
           /\ Drained(fw).arm = fw.arm /\ Drained(fw).held = fw.held
           /\ Drained(fw).pub = fw.pub /\ Drained(fw).out = "none"
           /\ Taken(fw).arm = fw.arm /\ Taken(fw).pub = fw.pub /\ Taken(fw).out = fw.out
           /\ Acked(fw).dr => fw.dr
           /\ ~Drained(fw).dr /\ Taken(fw).dr = fw.dr
<1>0. fw \in SlaveRec  BY DEF TypeOK
<1>1. /\ Acked(fw).arm = fw.arm /\ Acked(fw).held = fw.held
      /\ Acked(fw).pub = fw.pub /\ Acked(fw).out = fw.out
      /\ Acked(fw).dr => fw.dr
  BY ZenonT(60), <1>0 DEF Acked, SlaveRec
<1>2. /\ Drained(fw).arm = fw.arm /\ Drained(fw).held = fw.held
      /\ Drained(fw).pub = fw.pub /\ Drained(fw).out = "none" /\ ~Drained(fw).dr
  BY <1>0 DEF Drained, SlaveRec
<1>3. /\ Taken(fw).arm = fw.arm /\ Taken(fw).pub = fw.pub /\ Taken(fw).out = fw.out
      /\ Taken(fw).dr = fw.dr
  <2>1. Taken(fw) = fw \/ Taken(fw) = [fw EXCEPT !.held = Append(@, Segment)]
    BY DEF Taken
  <2> HIDE DEF Segment
  <2> QED  BY <1>0, <2>1 DEF SlaveRec
<1> QED  BY <1>1, <1>2, <1>3

\* The receive cursor: a publication the host has not read is what it is behind.
LEMMA ReadFacts ==
    ASSUME TypeOK
    PROVE  /\ OutLen \in 0..(RxMod - 1) /\ (OutLen = 0 <=> fw.out = "none")
           /\ Consumed \in 0..(RxMod - 1)
           /\ cx.rd = Consumed => PendingBytes = OutLen
           /\ (cx.rd + PendingBytes) % RxMod = fw.pub
           /\ fw.out = "none" => Consumed = fw.pub
<1>0. cx.rd \in 0..(RxMod - 1) /\ fw.pub \in 0..(RxMod - 1)
      /\ fw.out \in {"none", "boot"} \cup Answers
  BY DEF TypeOK, CursorRec, SlaveRec
<1>1. OutLen \in 0..(RxMod - 1) /\ (OutLen = 0 <=> fw.out = "none")
  BY <1>0, CounterFacts DEF OutLen, BootLen, DataLen, Answers
<1>2. Consumed \in 0..(RxMod - 1)
  <2>1. fw.pub + RxMod - OutLen \in Int  BY <1>0, <1>1, CounterFacts
  <2> QED  BY <2>1, Wraps DEF Consumed
<1>3. cx.rd = Consumed => PendingBytes = OutLen
  BY <1>0, <1>1, BytesArith DEF Consumed, PendingBytes
<1>4. (cx.rd + PendingBytes) % RxMod = fw.pub
  <2>1. PendingBytes = (fw.pub + RxMod - cx.rd) % RxMod  BY DEF PendingBytes
  <2> QED  BY <1>0, <1>1, <2>1, BytesArith
<1>5. fw.out = "none" => Consumed = fw.pub
  <2>1. (fw.pub + RxMod - 0) % RxMod = fw.pub  BY <1>0, <1>1, BytesArith
  <2> QED  BY <1>1, <2>1 DEF Consumed
<1> QED  BY <1>1, <1>2, <1>3, <1>4, <1>5

\* The firmware publishes into an empty slot: what the host has consumed stays.
LEMMA PublishKeeps ==
    ASSUME TypeOK, FwSend
    PROVE  /\ fw.out = "none" /\ Consumed' = Consumed /\ fw'.arm = fw.arm
           /\ fw'.held = fw.held /\ fw'.rdy = fw.rdy /\ fw'.dr /\ fw'.same = fw.same
<1>0. fw \in SlaveRec  BY DEF TypeOK
<1>1. PICK a \in fw.fed : Publish(a, DataLen)  BY DEF FwSend
<1>2. a \in Answers  BY <1>0 DEF SlaveRec
<1>3. /\ fw' = [fw EXCEPT !.pub = (fw.pub + DataLen) % RxMod, !.out = a, !.dr = TRUE,
                          !.app = "active", !.fed = fw.fed \ {a}]
      /\ fw.out = "none"
  BY <1>1 DEF Publish
<1>4. /\ fw'.pub = (fw.pub + DataLen) % RxMod /\ fw'.out = a /\ fw'.arm = fw.arm
      /\ fw'.held = fw.held /\ fw'.rdy = fw.rdy /\ fw'.dr /\ fw'.same = fw.same
  BY <1>0, <1>3 DEF SlaveRec
<1>5. OutLen' = DataLen  BY <1>2, <1>4 DEF OutLen, Answers
<1>6. fw.pub \in 0..(RxMod - 1) /\ DataLen \in 0..(RxMod - 1)
  BY <1>0, CounterFacts DEF SlaveRec, DataLen
<1>7. Consumed' = fw.pub
  <2>1. (((fw.pub + DataLen) % RxMod) + RxMod - DataLen) % RxMod = fw.pub
    BY <1>6, BytesArith
  <2> QED  BY ZenonT(60), <1>4, <1>5, <2>1 DEF Consumed
<1> QED  BY <1>3, <1>4, <1>7, ReadFacts

\* The firmware processes a segment: its descriptor is armed again, so what it
\* has received stays, and it has room for one more.
LEMMA ProcessKeeps ==
    ASSUME TypeOK, FwProcess, fw'.same
    PROVE  /\ Received' = Received /\ Len(fw'.held) = Len(fw.held) - 1
           /\ fw'.pub = fw.pub /\ fw'.out = fw.out /\ fw'.rdy = fw.rdy /\ fw'.dr = fw.dr
<1>0. fw \in SlaveRec /\ fw.held \in Seq(Segments) /\ fw.held # <<>>
      /\ Len(fw.held) \in 0..Slots /\ Len(fw.held) > 0 /\ fw.arm \in 0..(CrMod - 1)
  <2>1. fw \in SlaveRec /\ fw.held \in Seq(Segments) /\ fw.held # <<>> /\ Len(fw.held) <= Slots
    BY DEF TypeOK, SlaveRec, FwProcess
  <2> QED  BY <2>1, CounterFacts DEF SlaveRec
<1>1. ~Misfit(Head(fw.held))
  BY <1>0 DEF FwProcess, Fatal, Restarted, SlaveRec
<1>2. fw' = [Rearmed(fw) EXCEPT !.held = Tail(@), !.part = (Head(fw.held) = "first"),
                                !.fed = @ \cup Delivered(Head(fw.held))]
  BY <1>1 DEF FwProcess
<1>3. /\ fw'.arm = (fw.arm + 1) % CrMod /\ fw'.held = Tail(fw.held) /\ fw'.pub = fw.pub
      /\ fw'.out = fw.out /\ fw'.rdy = fw.rdy /\ fw'.dr = fw.dr
  <2> HIDE DEF Delivered
  <2> QED  BY <1>0, <1>2 DEF Rearmed, SlaveRec
<1>4. Len(fw'.held) = Len(fw.held) - 1  BY <1>0, <1>3
<1>5. (((fw.arm + 1) % CrMod) + CrMod - Slots + (Len(fw.held) - 1)) % CrMod
        = (fw.arm + CrMod - Slots + Len(fw.held)) % CrMod
  BY <1>0, CreditArith
<1>6. Received' = Received
  BY ZenonT(60), <1>3, <1>4, <1>5 DEF Received
<1> QED  BY <1>3, <1>4, <1>6

\* A segment is written to a firmware that has a descriptor for it: both counts
\* move by one, and one credit is used up.
LEMMA WriteKeeps ==
    ASSUME TypeOK, fw.run = "up", fw.app = "active", cx.sent = Received,
           CreditBacked, CreditSeen, fw' = Taken(fw), cx'.lim = cx.lim,
           cx'.sent = (cx.sent + 1) % CrMod
    PROVE  cx'.sent = Received' /\ CreditBacked'
<1>0. /\ fw \in SlaveRec /\ fw.held \in Seq(Segments) /\ Len(fw.held) \in 0..Slots
      /\ fw.arm \in 0..(CrMod - 1) /\ cx.lim \in 0..(CrMod - 1) /\ cx.sent \in 0..(CrMod - 1)
      /\ CrMod \in Nat \ {0} /\ Slots \in Nat
  <2>1. fw \in SlaveRec /\ fw.held \in Seq(Segments) /\ Len(fw.held) <= Slots
    BY DEF TypeOK, SlaveRec
  <2> QED  BY <2>1, CounterFacts DEF TypeOK, SlaveRec, CursorRec
<1> DEFINE d == (cx.lim + CrMod - cx.sent) % CrMod
           n == Len(fw.held)
<1>1. d \in 0..(CrMod - 1)
  <2>1. cx.lim + CrMod - cx.sent \in Int  BY <1>0
  <2> QED  BY <2>1, Wraps
<1>2. (d <= Slots - n \/ 2 * d >= CrMod) /\ Signed(cx.lim, cx.sent) > 0
  BY DEF CreditBacked, CreditSeen
<1>3. Signed(cx.lim, cx.sent) = IF 2 * d >= CrMod THEN d - CrMod ELSE d
  BY DEF Signed
<1> HIDE DEF d
<1>4. d > 0 /\ d <= Slots - n
  BY <1>0, <1>1, <1>2, <1>3
<1>5. n < Slots  BY <1>0, <1>1, <1>4
<1>6. fw'.held = Append(fw.held, Segment) /\ fw'.arm = fw.arm
  <2>1. fw' = [fw EXCEPT !.held = Append(fw.held, Segment)]
    BY <1>5 DEF Taken
  <2> HIDE DEF Segment
  <2> QED  BY <1>0, <2>1 DEF SlaveRec
<1>7. Len(fw'.held) = n + 1
  <2>1. Segment \in Segments  BY DEF Segment, Segments
  <2> HIDE DEF Segment
  <2> QED  BY <1>0, <1>6, <2>1
<1>8. (fw.arm + CrMod - Slots + (n + 1)) % CrMod
        = (((fw.arm + CrMod - Slots + n) % CrMod) + 1) % CrMod
  BY <1>0, <1>5, CreditArith
<1>9. cx'.sent = Received'
  BY ZenonT(60), <1>6, <1>7, <1>8 DEF Received
<1>10. (cx'.lim + CrMod - cx'.sent) % CrMod = d - 1
  <2>1. (cx.lim + CrMod - cx.sent) % CrMod > 0  BY <1>4 DEF d
  <2>2. (cx.lim + CrMod - cx'.sent) % CrMod = ((cx.lim + CrMod - cx.sent) % CrMod) - 1
    BY <1>0, <2>1, CreditSpent
  <2> QED  BY <1>0, <2>2 DEF d
<1>11. CreditBacked'
  <2>1. d - 1 <= Slots - (n + 1)  BY <1>0, <1>1, <1>4
  <2> HIDE DEF n
  <2> QED  BY <1>7, <1>10, <2>1 DEF CreditBacked
<1> QED  BY <1>9, <1>11

\* A fresh count of descriptors backs every credit it gives.
LEMMA FreshCredit ==
    ASSUME TypeOK, cx.sent = Received, UNCHANGED fw, cx'.sent = cx.sent, cx'.lim = fw.arm
    PROVE  CreditBacked'
<1>0. /\ fw.held \in Seq(Segments) /\ Len(fw.held) \in 0..Slots /\ fw.arm \in 0..(CrMod - 1)
      /\ Slots \in Nat
  <2>1. fw \in SlaveRec /\ fw.held \in Seq(Segments) /\ Len(fw.held) <= Slots
    BY DEF TypeOK, SlaveRec
  <2> QED  BY <2>1, CounterFacts DEF SlaveRec
<1>1. cx'.sent = (fw.arm + CrMod - Slots + Len(fw.held)) % CrMod
  BY ZenonT(60) DEF Received
<1>2. (cx'.lim + CrMod - cx'.sent) % CrMod = Slots - Len(fw.held)
  <2>1. (fw.arm + CrMod - cx'.sent) % CrMod = Slots - Len(fw.held)
    BY <1>0, <1>1, CreditArith
  <2> QED  BY <2>1
<1>3. Slots - Len(fw.held) <= Slots - Len(fw'.held)  BY <1>0
<1> QED  BY <1>2, <1>3 DEF CreditBacked

\* A worker that fails a transfer during a session marks the session.
LEMMA FailMarks ==
    ASSUME TypeOK, LinkInv, Session, WkFails
    PROVE  /\ Has(h', "PEND") /\ h'.st # "RDY" /\ "rec" \in h'.dirty
           /\ wk'.pc = "idle" /\ Marked'
<1>1. h \in HostRec /\ ~Closed(h) /\ ~Has(h, "RECON")
  BY DEF TypeOK, LinkInv, Initialised, Session
<1>2. h' = SchedRecovery(h, FALSE) /\ wk' = WkIdle  BY DEF WkFails
<1>3. Has(h', "PEND") /\ h'.st # "RDY" /\ "rec" \in h'.dirty
  BY <1>1, <1>2, SchedMarks
<1>4. wk'.pc = "idle"  BY <1>2 DEF WkIdle, TypeOK, WorkerRec
<1> QED  BY <1>3, <1>4 DEF Marked, Has

\* Nothing the worker does during a session takes it off its counters: it reads
\* what was published, it writes where a descriptor is armed, and it marks what
\* it does not know.
LEMMA WorkerTracks ==
    ASSUME TypeOK, LinkInv, Session, Agree, Marked, fw.rdy,
           Worker \/ WkReadError \/ WkWriteError
    PROVE  Agree' /\ Marked' /\ fw'.rdy /\ rec' = rec
<1>0. /\ h \in HostRec /\ cx \in CursorRec /\ wk \in WorkerRec /\ fw \in SlaveRec
      /\ cx' \in CursorRec
  BY CursorNext DEF TypeOK, Next, Environment
<1>1. rec' = rec
  BY DEF Worker, WkStart, WkStop, WkSample, WkRead, WkQio, WkMalformed, WkNext,
     WkCredit, WkCreditTimeout, WkWrite, WkReadError, WkWriteError, TxFails, Unmoved
<1>2. fw'.rdy
  <2>1. CASE WkQio  BY <1>0, <2>1 DEF WkQio, Opened, Partly, SlaveRec
  <2>2. CASE ~WkQio
    <3>1. fw' \in {fw, Drained(fw), Acked(fw), Taken(fw)}
      BY <2>2 DEF Worker, WkStart, WkStop, WkSample, WkRead, WkMalformed, WkNext,
         WkCredit, WkCreditTimeout, WkWrite, WkReadError, WkWriteError, Partly, Unmoved
    <3> QED  BY <3>1, SlaveMoves
  <2> QED  BY <2>1, <2>2
<1>3. wk.pc # "idle" => ~cx.txf /\ ~cx.rxf  BY DEF Marked
<1>4. ASSUME UNCHANGED h, cx'.txf = cx.txf, cx'.rxf = cx.rxf, wk.pc # "idle" PROVE Marked'
  BY <1>3, <1>4 DEF Marked
<1>5. fw.run = "up" /\ fw.app = "active"  BY DEF LinkInv, SlaveShown, Session
<1>6. CASE WkStart
  <2>1. /\ UNCHANGED <<h, fw>> /\ cx' = [cx EXCEPT !.wq = FALSE]
        /\ wk' = IF Stopped THEN wk ELSE [wk EXCEPT !.pc = "rx", !.prog = FALSE]
    BY <1>6 DEF WkStart, Unmoved
  <2>2. Agree'
    BY <1>0, <2>1, AgreeKept DEF CursorRec, WorkerRec
  <2>3. cx.txf \/ cx.rxf => Stopped
    BY DEF Marked, Stopped, LivePending, Session
  <2>4. Marked'
    <3>1. cx'.txf = cx.txf /\ cx'.rxf = cx.rxf  BY <1>0, <2>1 DEF CursorRec
    <3> QED  BY <1>1, <2>1, <2>3, <3>1 DEF Marked, Has
  <2> QED  BY <1>1, <1>2, <2>2, <2>4
<1>7. CASE WkStop \/ WkNext
  <2>1. UNCHANGED <<h, fw, cx>> /\ wk.pc # "idle" /\ wk'.pc \notin {"write", "rd"}
    BY <1>0, <1>7 DEF WkStop, WkNext, WkIdle, Unmoved, WorkerRec
  <2>2. Agree'  BY <2>1, AgreeKept
  <2> QED  BY <1>1, <1>2, <1>4, <2>1, <2>2
<1>8. CASE WkSample
  <2>0. UNCHANGED cx /\ wk.pc = "rx" /\ fw' \in {fw, Acked(fw)}  BY <1>8 DEF WkSample
  <2>1. fw'.arm = fw.arm /\ fw'.held = fw.held /\ fw'.pub = fw.pub /\ fw'.out = fw.out
    BY <2>0, PhaseFacts
  <2>2. CASE wk'.pc \notin {"write", "rd"}
    <3>1. Agree'  BY <2>0, <2>1, <2>2, AgreeKept
    <3>2. CASE WkFails  BY <1>1, <1>2, <3>1, <3>2, FailMarks
    <3>3. CASE ~WkFails
      <4>1. UNCHANGED h  BY <1>8, <3>3 DEF WkSample
      <4> QED  BY <1>1, <1>2, <1>4, <2>0, <3>1, <4>1
    <3> QED  BY <3>2, <3>3
  <2>3. CASE wk'.pc \in {"write", "rd"}
    <3>1. /\ wk' = [wk EXCEPT !.pc = "rd", !.len = PendingBytes] /\ UNCHANGED h /\ fw.dr
      <4> HIDE DEF PendingBytes
      <4> QED  BY <1>0, <1>8, <2>3 DEF WkSample, WkFails, WkIdle, WorkerRec
    <3>2. wk'.pc = "rd" /\ wk'.len = PendingBytes
      <4> HIDE DEF PendingBytes
      <4> QED  BY <1>0, <3>1 DEF WorkerRec
    <3>3. fw'.out # "none"  BY <2>1, <3>1 DEF LinkInv, SlaveShown
    <3>4. PendingBytes' = PendingBytes  BY <2>0, <2>1 DEF PendingBytes
    <3>5. Received' = Received  BY <2>1 DEF Received
    <3>6. Consumed' = Consumed  BY <2>1 DEF Consumed, OutLen
    <3>7. CreditBacked' = CreditBacked  BY <2>0, <2>1 DEF CreditBacked
    <3>8. Agree'
      BY <2>0, <3>2, <3>3, <3>4, <3>5, <3>6, <3>7 DEF Agree
    <3> QED  BY <1>1, <1>2, <1>4, <2>0, <3>1, <3>8
  <2> QED  BY <2>2, <2>3
<1>a. ASSUME wk.pc = "rd", fw' = Drained(fw), wk'.pc \in {"qio", "tx", "idle"},
             cx' = [cx EXCEPT !.rd = (cx.rd + wk.len) % RxMod, !.rxf = FALSE]
      PROVE  Agree' /\ cx'.txf = cx.txf /\ ~cx'.rxf
  <2>1. /\ cx'.rd = (cx.rd + wk.len) % RxMod /\ cx'.sent = cx.sent /\ cx'.lim = cx.lim
        /\ cx'.txf = cx.txf /\ cx'.rxf = FALSE
    BY <1>0, <1>a DEF CursorRec
  <2>2. fw'.arm = fw.arm /\ fw'.held = fw.held /\ fw'.pub = fw.pub /\ fw'.out = "none"
    BY <1>a, PhaseFacts
  <2>3. cx'.rd = fw.pub
    <3>1. wk.len = PendingBytes  BY <1>a DEF Agree
    <3>2. (cx.rd + PendingBytes) % RxMod = fw.pub  BY ReadFacts
    <3> QED  BY <2>1, <3>1, <3>2
  <2>4. Consumed' = fw.pub
    <3>1. fw.pub \in 0..(RxMod - 1) /\ 0 \in 0..(RxMod - 1)
      BY <1>0, CounterFacts DEF SlaveRec
    <3>2. (fw.pub + RxMod - 0) % RxMod = fw.pub  BY <3>1, BytesArith
    <3>3. OutLen' = 0  BY <2>2 DEF OutLen, Answers
    <3> QED  BY ZenonT(60), <2>2, <3>2, <3>3 DEF Consumed
  <2>5. Received' = Received /\ CreditBacked' = CreditBacked
    BY <2>1, <2>2 DEF Received, CreditBacked
  <2>6. Agree'  BY <1>a, <2>1, <2>3, <2>4, <2>5 DEF Agree
  <2> QED  BY <2>1, <2>6
<1>9. CASE WkRead
  <2>1. /\ wk.pc = "rd" /\ fw' = Drained(fw) /\ UNCHANGED h
        /\ cx' = [cx EXCEPT !.rd = (cx.rd + wk.len) % RxMod, !.rxf = FALSE]
        /\ wk'.pc \in {"qio", "tx"}
    BY <1>0, <1>9 DEF WkRead, WorkerRec
  <2>2. Agree' /\ cx'.txf = cx.txf /\ ~cx'.rxf  BY <1>a, <2>1
  <2>3. Marked'  BY <1>3, <2>1, <2>2 DEF Marked
  <2> QED  BY <1>1, <1>2, <2>2, <2>3
<1>10. CASE WkQio
  <2>1. UNCHANGED h /\ wk'.pc = "tx" /\ wk.pc = "qio"
    BY <1>0, <1>10 DEF WkQio, WorkerRec
  <2>2. /\ cx'.rd = cx.rd /\ cx'.sent = cx.sent /\ cx'.lim = cx.lim
        /\ cx'.txf = cx.txf /\ cx'.rxf = cx.rxf
    BY <1>0, <1>10 DEF WkQio, CursorRec
  <2>3. fw'.arm = fw.arm /\ fw'.held = fw.held /\ fw'.pub = fw.pub /\ fw'.out = fw.out
    BY <1>0, <1>10 DEF WkQio, Opened, Partly, SlaveRec
  <2>4. Agree'  BY <2>1, <2>2, <2>3, AgreeKept
  <2> QED  BY <1>1, <1>2, <1>4, <2>1, <2>2, <2>4
<1>11. ~WkMalformed
  <2> SUFFICES ASSUME WkMalformed PROVE FALSE
    OBVIOUS
  <2>1. wk.pc = "rd" /\ wk.len # OutLen  BY <1>5 DEF WkMalformed
  <2>2. cx.rd = Consumed /\ wk.len = PendingBytes  BY <1>3, <2>1 DEF Agree
  <2> QED  BY <2>1, <2>2, ReadFacts
<1>12. CASE WkReadError
  <2>1. wk.pc = "rd" /\ WkFails /\ fw' \in {fw, Drained(fw)}
    BY <1>12 DEF WkReadError, Partly
  <2>a. CASE /\ cx' = [cx EXCEPT !.rd = (cx.rd + wk.len) % RxMod, !.rxf = FALSE]
             /\ fw' = Drained(fw)
    <3>1. wk'.pc = "idle" /\ Marked'  BY <2>1, FailMarks
    <3>2. Agree'  BY <1>a, <2>1, <2>a, <3>1
    <3> QED  BY <1>1, <1>2, <3>1, <3>2
  <2> SUFFICES ASSUME ~(/\ cx' = [cx EXCEPT !.rd = (cx.rd + wk.len) % RxMod, !.rxf = FALSE]
                        /\ fw' = Drained(fw))
               PROVE  Agree' /\ Marked' /\ fw'.rdy /\ rec' = rec
    BY <2>a
  <2>2. /\ cx'.rd = cx.rd /\ cx'.sent = cx.sent /\ cx'.lim = cx.lim /\ cx'.txf = cx.txf
        /\ cx'.rxf \/ (UNCHANGED fw /\ cx'.rxf = cx.rxf)
    BY <1>0, <1>3, <1>12 DEF WkReadError, CursorRec
  <2>3. fw'.arm = fw.arm /\ fw'.held = fw.held /\ fw'.pub = fw.pub
    BY <2>1, PhaseFacts
  <2>4. wk'.pc = "idle" /\ Marked'  BY <2>1, FailMarks
  <2>5. Received' = Received /\ CreditBacked' = CreditBacked
    BY <2>2, <2>3 DEF Received, CreditBacked
  <2>6. ~cx'.rxf => Consumed' = Consumed
    BY <2>2 DEF Consumed, OutLen
  <2>7. Agree'  BY <1>3, <2>1, <2>2, <2>4, <2>5, <2>6 DEF Agree
  <2> QED  BY <1>1, <1>2, <2>4, <2>7
<1>13. CASE WkCredit
  <2>1. wk.pc = "seg" /\ UNCHANGED <<h, fw>> /\ wk'.pc = "write"
    BY <1>0, <1>13 DEF WkCredit, Unmoved, WorkerRec
  <2>2. cx.sent = Received /\ CreditBacked  BY <1>3, <2>1 DEF Agree
  <2>3. Received' = Received /\ Consumed' = Consumed
    BY <2>1 DEF Received, Consumed, OutLen
  <2>4. CASE CreditSeen /\ UNCHANGED cx
    <3>1. CreditSeen' /\ CreditBacked'
      BY <2>1, <2>2, <2>4 DEF CreditSeen, Signed, CreditBacked
    <3>2. Agree'  BY <2>1, <2>3, <2>4, <3>1 DEF Agree
    <3> QED  BY <1>1, <1>2, <1>4, <2>1, <2>4, <3>2
  <2>5. CASE CreditReal(CreditDelta) /\ cx' = [cx EXCEPT !.lim = fw.arm]
    <3>1. /\ cx'.rd = cx.rd /\ cx'.sent = cx.sent /\ cx'.lim = fw.arm
          /\ cx'.txf = cx.txf /\ cx'.rxf = cx.rxf
      BY <1>0, <2>5 DEF CursorRec
    <3>2. CreditBacked'  BY <2>1, <2>2, <3>1, FreshCredit
    <3>3. CreditSeen'
      <4> DEFINE s == Signed(fw.arm, cx.sent)
      <4>1. CreditSeen' <=> s > 0  BY <3>1 DEF CreditSeen, Signed
      <4>2. s \in 1..LiveMax  BY <2>5 DEF CreditReal, CreditDelta
      <4> HIDE DEF s
      <4>3. s > 0  BY <4>2, CounterAssumption
      <4> QED  BY <4>1, <4>3
    <3>4. Agree'  BY <2>1, <2>2, <2>3, <3>1, <3>2, <3>3 DEF Agree
    <3> QED  BY <1>1, <1>2, <1>4, <2>1, <3>1, <3>4
  <2> QED  BY <1>13, <2>4, <2>5 DEF WkCredit
<1>14. CASE WkCreditTimeout
  <2>1. WkFails /\ UNCHANGED <<cx, fw>>  BY <1>14 DEF WkCreditTimeout, TxFails
  <2>2. wk'.pc = "idle" /\ Marked'  BY <2>1, FailMarks
  <2>3. Agree'  BY <2>1, <2>2, AgreeKept
  <2> QED  BY <1>1, <1>2, <2>2, <2>3
<1>15. CASE WkWrite
  <2>1. /\ wk.pc = "write" /\ fw' = Taken(fw) /\ UNCHANGED h
        /\ cx' = [cx EXCEPT !.sent = (cx.sent + 1) % CrMod, !.txf = FALSE]
        /\ wk'.pc \in {"seg", "rx"}
    BY <1>0, <1>15 DEF WkWrite, WorkerRec
  <2>2. /\ cx'.rd = cx.rd /\ cx'.sent = (cx.sent + 1) % CrMod /\ cx'.lim = cx.lim
        /\ cx'.txf = FALSE /\ cx'.rxf = cx.rxf
    BY <1>0, <2>1 DEF CursorRec
  <2>3. cx.sent = Received /\ CreditBacked /\ CreditSeen
    BY <1>3, <2>1 DEF Agree
  <2>4. cx'.sent = Received' /\ CreditBacked'
    BY <1>5, <2>1, <2>2, <2>3, WriteKeeps
  <2>5. fw'.pub = fw.pub /\ fw'.out = fw.out  BY <2>1, PhaseFacts
  <2>6. Consumed' = Consumed  BY <2>5 DEF Consumed, OutLen
  <2>7. Agree'  BY <2>1, <2>2, <2>4, <2>6 DEF Agree
  <2>a. Marked'  BY <1>3, <2>1, <2>2 DEF Marked
  <2> QED  BY <1>1, <1>2, <2>7, <2>a
<1>16. CASE WkWriteError
  <2>1. wk.pc = "write" /\ WkFails /\ fw' \in {fw, Taken(fw)}
    BY <1>16 DEF WkWriteError, TxFails, Partly
  <2>2. /\ cx'.rd = cx.rd /\ cx'.sent = cx.sent /\ cx'.lim = cx.lim /\ cx'.rxf = cx.rxf
        /\ cx'.txf \/ (UNCHANGED fw /\ cx'.txf = cx.txf)
    BY <1>0, <1>3, <1>16 DEF WkWriteError, CursorRec
  <2>3. fw'.pub = fw.pub /\ fw'.out = fw.out  BY <2>1, PhaseFacts
  <2>4. wk'.pc = "idle" /\ Marked'  BY <2>1, FailMarks
  <2>5. ~cx'.txf => Received' = Received /\ CreditBacked' = CreditBacked
    BY <2>2 DEF Received, CreditBacked
  <2>6. Consumed' = Consumed  BY <2>3 DEF Consumed, OutLen
  <2>7. Agree'  BY <1>3, <2>1, <2>2, <2>4, <2>5, <2>6 DEF Agree
  <2> QED  BY <1>1, <1>2, <2>4, <2>7
<1> QED
  BY <1>6, <1>7, <1>8, <1>9, <1>10, <1>11, <1>12, <1>13, <1>14, <1>15, <1>16 DEF Worker

\* Every step that follows the commit of a session keeps it on its counters, but
\* for a failed reset and a resynchronization late in the range of the count.
LEMMA TrackedNext ==
    ASSUME TypeOK, ReadyInv, LinkInv, Tracked, [Next]_vars
    PROVE  Tracked' \/ LosesCount
<1> SUFFICES ASSUME ~LosesCount, Session'
             PROVE  Agree' /\ Marked' /\ fw'.rdy /\ rec' \notin {"rebase", "ready", "open"}
  BY DEF Tracked
<1>0. /\ h \in HostRec /\ cx \in CursorRec /\ wk \in WorkerRec /\ fw \in SlaveRec
  BY DEF TypeOK
<1>a. Has(h', "INIT") /\ ~Has(h', "EXP") /\ fw'.same  BY DEF Session, Has
<1>1. CASE BootCommit /\ bt' = "publish"
  <2>1. Agree /\ ~cx.txf /\ ~cx.rxf /\ fw.rdy  BY <1>1 DEF LosesCount
  <2>2. UNCHANGED <<cx, wk, rec>> /\ rec = "idle"  BY <1>1 DEF BootCommit
  <2>3. /\ fw'.arm = fw.arm /\ fw'.held = fw.held /\ fw'.pub = fw.pub /\ fw'.out = fw.out
        /\ fw'.rdy = fw.rdy
    BY <1>0, <1>1 DEF BootCommit, SlaveRec
  <2>4. Agree'  BY <2>1, <2>2, <2>3, AgreeKept
  <2> QED  BY <2>1, <2>2, <2>3, <2>4 DEF Marked
<1>2. CASE Session
  <2>0. /\ Agree /\ Marked /\ fw.rdy /\ rec \notin {"rebase", "ready", "open"}
        /\ ~Closed(h) /\ ~Has(h, "RECON") /\ ~Has(h, "EXP") /\ Has(h, "INIT")
    BY <1>2 DEF Tracked, Session, LinkInv, Initialised
  <2>1. ASSUME UNCHANGED <<fw, wk>>,
               cx'.rd = cx.rd, cx'.sent = cx.sent, cx'.lim = cx.lim,
               cx'.txf = cx.txf, cx'.rxf = cx.rxf,
               cx.txf \/ cx.rxf => /\ Has(h, "PEND") => Has(h', "PEND")
                                   /\ h.st # "RDY" => h'.st # "RDY"
                                   /\ rec' = "live" => "rec" \in h'.dirty,
               rec' \notin {"rebase", "ready", "open"}
        PROVE  Agree' /\ Marked' /\ fw'.rdy /\ rec' \notin {"rebase", "ready", "open"}
    <3>1. Agree'  BY <2>0, <2>1, AgreeKept
    <3>2. Marked'  BY <2>0, <2>1 DEF Marked, Has
    <3> QED  BY <2>0, <2>1, <3>1, <3>2
  <2>2. CASE UNCHANGED vars
    BY <2>0, <2>1, <2>2 DEF vars, Marked, Has
  <2>3. CASE FwSend
    <3>1. /\ fw.out = "none" /\ Consumed' = Consumed /\ fw'.arm = fw.arm
          /\ fw'.held = fw.held /\ fw'.rdy = fw.rdy
      BY <2>3, PublishKeeps
    <3>2. UNCHANGED <<h, wk, rec>>
      BY ZenonT(60), <2>3 DEF FwSend, Publish
    <3>3. /\ cx'.rd = cx.rd /\ cx'.sent = cx.sent /\ cx'.lim = cx.lim
          /\ cx'.txf = cx.txf /\ cx'.rxf = cx.rxf
      BY ZenonT(60), <1>0, <2>3 DEF FwSend, Publish, CursorRec
    <3>4. Received' = Received  BY <3>1 DEF Received
    <3>5. CreditBacked' = CreditBacked  BY <3>1, <3>3 DEF CreditBacked
    <3>6. CreditSeen' = CreditSeen  BY <3>3 DEF CreditSeen, Signed
    <3>7. Agree'  BY <2>0, <3>1, <3>2, <3>3, <3>4, <3>5, <3>6 DEF Agree
    <3>8. Marked'  BY <2>0, <3>2, <3>3 DEF Marked
    <3> QED  BY <2>0, <3>1, <3>2, <3>7, <3>8
  <2>4. CASE FwProcess
    <3>1. /\ Received' = Received /\ Len(fw'.held) = Len(fw.held) - 1
          /\ fw'.pub = fw.pub /\ fw'.out = fw.out /\ fw'.rdy = fw.rdy
      BY <1>a, <2>4, ProcessKeeps
    <3>2. UNCHANGED <<h, cx, wk, rec>>  BY <2>4 DEF FwProcess
    <3>3. Consumed' = Consumed /\ PendingBytes' = PendingBytes
      BY <3>1, <3>2 DEF Consumed, OutLen, PendingBytes
    <3>4. CreditBacked => CreditBacked'
      <4> DEFINE d == (cx.lim + CrMod - cx.sent) % CrMod
                 n == Len(fw.held)
                 m == Len(fw'.held)
      <4>1. d \in Int
        <5>1. cx.lim + CrMod - cx.sent \in Int  BY <1>0, CounterFacts DEF CursorRec
        <5> QED  BY <5>1, CounterFacts
      <4>2. n \in Nat /\ m = n - 1
        BY <1>0, <3>1 DEF SlaveRec
      <4>3. CreditBacked <=> (d <= Slots - n \/ 2 * d >= CrMod)  BY DEF CreditBacked
      <4>4. CreditBacked' <=> (d <= Slots - m \/ 2 * d >= CrMod)
        BY <3>2 DEF CreditBacked
      <4> HIDE DEF d, n, m
      <4> QED  BY <4>1, <4>2, <4>3, <4>4, CounterFacts
    <3>5. CreditSeen' = CreditSeen  BY <3>2 DEF CreditSeen, Signed
    <3>6. Agree'  BY <2>0, <3>1, <3>2, <3>3, <3>4, <3>5 DEF Agree
    <3>7. Marked'  BY <2>0, <3>2 DEF Marked
    <3> QED  BY <2>0, <3>1, <3>2, <3>6, <3>7
  <2>5. CASE FlushBt \/ (\E k \in Kinds : WritePacket(k))
    <3>1. UNCHANGED <<h, wk, rec, fw>>  BY <2>5 DEF FlushBt, WritePacket
    <3>2. /\ cx'.rd = cx.rd /\ cx'.sent = cx.sent /\ cx'.lim = cx.lim
          /\ cx'.txf = cx.txf /\ cx'.rxf = cx.rxf
      BY <1>0, <2>5 DEF FlushBt, WritePacket, CursorRec
    <3> QED  BY <2>0, <2>1, <3>1, <3>2 DEF Marked, Has
  <2>6. CASE Worker \/ WkReadError \/ WkWriteError
    BY <1>2, <2>0, <2>6, WorkerTracks
  <2>7. CASE InjectResync
    <3>1. UNCHANGED <<cx, wk, rec, fw>> /\ h' = SchedRecovery(h, FALSE)
      BY <2>7 DEF InjectResync
    <3>2. Has(h', "PEND") /\ "rec" \in h'.dirty /\ (h.st # "RDY" => h'.st # "RDY")
      BY <1>0, <2>0, <3>1, SchedMarks
    <3> QED  BY <2>0, <2>1, <3>1, <3>2
  <2>8. CASE RecGate
    <3>1. UNCHANGED <<wk, fw>> /\ rec' \in {"idle", "sync"}
      BY <2>0, <2>8 DEF RecGate
    <3>2. h'.fl = h.fl /\ h'.st = h.st
      <4>1. \/ h' = [h EXCEPT !.work = FALSE]
            \/ h' = [h EXCEPT !.work = FALSE, !.dirty = @ \ {"rec"}]
        BY <2>8 DEF RecGate
      <4> QED  BY <1>0, <4>1 DEF HostRec
    <3>3. /\ cx'.rd = cx.rd /\ cx'.sent = cx.sent /\ cx'.lim = cx.lim
          /\ cx'.txf = cx.txf /\ cx'.rxf = cx.rxf
      BY <1>0, <2>8 DEF RecGate, CursorRec
    <3> QED  BY <2>1, <3>1, <3>2, <3>3 DEF Has
  <2>9. CASE RecCancel
    <3>1. UNCHANGED <<h, wk, fw>> /\ rec' = "resync"  BY <2>9 DEF RecCancel
    <3>2. /\ cx'.rd = cx.rd /\ cx'.sent = cx.sent /\ cx'.lim = cx.lim
          /\ cx'.txf = cx.txf /\ cx'.rxf = cx.rxf
      BY <1>0, <2>9 DEF RecCancel, CursorRec
    <3> QED  BY <2>1, <3>1, <3>2 DEF Has
  <2>10. CASE RecResync
    <3>0. UNCHANGED <<wk, fw>> /\ wk.pc = "idle" /\ ~(Signed(0, cx.sent) > 0)
      BY <2>10 DEF RecResync, LinkInv, Syncing, LosesCount
    <3>1. CASE /\ rec' = "idle" /\ cx' = [cx EXCEPT !.sync = FALSE]
               /\ h' = [h EXCEPT !.work = TRUE]
      <4>1. h'.fl = h.fl /\ h'.st = h.st /\ h'.dirty = h.dirty  BY <1>0, <3>1 DEF HostRec
      <4>2. /\ cx'.rd = cx.rd /\ cx'.sent = cx.sent /\ cx'.lim = cx.lim
            /\ cx'.txf = cx.txf /\ cx'.rxf = cx.rxf
        BY <1>0, <3>1 DEF CursorRec
      <4> QED  BY <2>1, <3>0, <3>1, <4>1, <4>2 DEF Has
    <3>2. ~RecFails(Quarantine(h, "rec"))
      <4> SUFFICES ASSUME RecFails(Quarantine(h, "rec")) PROVE FALSE
        OBVIOUS
      <4> DEFINE b == Quarantine(h, "rec")
      <4>1. b \in HostRec  BY <1>0, PolicyFacts
      <4>2. Has(b, "EXP")  BY <1>0, <2>0, RetryMarks
      <4>3. h' = [b EXCEPT !.work = TRUE]  BY DEF RecFails
      <4> HIDE DEF b
      <4>4. h'.fl = b.fl  BY <4>1, <4>3 DEF HostRec
      <4> QED  BY <1>a, <4>2, <4>4 DEF Has
    <3>3. CASE /\ Clean /\ rec' = "live"
               /\ cx' = [[cx EXCEPT !.sync = FALSE] EXCEPT !.lim = 0, !.path = TRUE]
      <4>1. ~cx.txf /\ ~cx.rxf  BY <3>3 DEF Clean
      <4>2. /\ cx'.rd = cx.rd /\ cx'.sent = cx.sent /\ cx'.lim = 0
            /\ cx'.txf = cx.txf /\ cx'.rxf = cx.rxf
        BY <1>0, <3>3 DEF CursorRec
      <4>3. Received' = Received /\ Consumed' = Consumed
        BY <3>0 DEF Received, Consumed, OutLen
      <4>4. CreditBacked'
        <5> DEFINE d == (0 + CrMod - cx.sent) % CrMod
                   n == Len(fw.held)
        <5>1. d \in 0..(CrMod - 1)
          <6>1. 0 + CrMod - cx.sent \in Int  BY <1>0, CounterFacts DEF CursorRec
          <6> QED  BY <6>1, Wraps
        <5>2. ~((IF 2 * d >= CrMod THEN d - CrMod ELSE d) > 0)
          BY <3>0 DEF Signed
        <5>3. CreditBacked' <=> (d <= Slots - n \/ 2 * d >= CrMod)
          BY <3>0, <4>2 DEF CreditBacked
        <5>4. n \in Nat /\ n <= Slots  BY <1>0 DEF TypeOK, SlaveRec
        <5> HIDE DEF d, n
        <5> QED  BY <5>1, <5>2, <5>3, <5>4, CounterFacts
      <4>5. Agree'  BY <2>0, <3>0, <4>1, <4>2, <4>3, <4>4 DEF Agree
      <4> QED  BY <2>0, <3>0, <3>3, <4>1, <4>2, <4>5 DEF Marked
    <3> QED  BY <2>0, <2>10, <3>1, <3>2, <3>3 DEF RecResync, RecFails
  <2>11. CASE RecLive
    <3>1. UNCHANGED <<wk, fw>> /\ rec' = "idle" /\ rec = "live"  BY <2>11 DEF RecLive
    <3>2. /\ cx'.rd = cx.rd /\ cx'.sent = cx.sent /\ cx'.lim = cx.lim
          /\ cx'.txf = cx.txf /\ cx'.rxf = cx.rxf
      BY <1>0, <2>11 DEF RecLive, CursorRec
    <3>3. cx.txf \/ cx.rxf => h' = h
      BY <2>0, <2>11, <3>1 DEF RecLive, Marked
    <3> QED  BY <2>1, <3>1, <3>2, <3>3
  <2>12. ~(RecRebase \/ RecReady \/ RecOpen)  BY <2>0 DEF RecRebase, RecReady, RecOpen
  <2>13. CASE ResetClose
    <3>1. UNCHANGED <<wk, rec, fw>>  BY <2>13 DEF ResetClose
    <3>2. h'.fl = h.fl /\ h'.st = h.st /\ h'.dirty = h.dirty
      BY <1>0, <2>13 DEF ResetClose, HostRec
    <3>3. /\ cx'.rd = cx.rd /\ cx'.sent = cx.sent /\ cx'.lim = cx.lim
          /\ cx'.txf = cx.txf /\ cx'.rxf = cx.rxf
      BY <1>0, <2>13 DEF ResetClose, CursorRec
    <3> QED  BY <2>0, <2>1, <3>1, <3>2, <3>3 DEF Has, Marked
  <2>14. ~ResetTarget  BY <1>a DEF LosesCount
  <2>15. CASE Dispatch
    BY <2>0, <2>1, <2>15 DEF Dispatch, Marked, Has
  <2>16. CASE BootFinish
    <3>1. UNCHANGED <<cx, wk, rec, fw>>  BY <2>16 DEF BootFinish
    <3> DEFINE a == [h EXCEPT !.fl = (@ \cup {"CLEAN"}) \ {"INIT"}]
    <3>2. ~BootFails(a)
      <4> SUFFICES ASSUME BootFails(a) PROVE FALSE
        OBVIOUS
      <4> DEFINE c == [a EXCEPT !.fl = @ \ {"RECON"}]
      <4>1. a \in HostRec /\ ~Closed(a)
        BY <1>0, <2>0 DEF HostRec, Flags, Closed, Has
      <4> HIDE DEF a
      <4>2. c \in HostRec /\ ~Closed(c)  BY <4>1 DEF HostRec, Closed, Has
      <4>3. h' = BootRetry(c, "bt")  BY DEF BootFails
      <4> HIDE DEF c
      <4> QED  BY <1>a, <4>2, <4>3, RetryMarks
    <3>3. h' = [h EXCEPT !.att = 0, !.dl = FALSE, !.fl = @ \ {"EXH"}] \/ h' = h
      BY <2>16, <3>2 DEF BootFinish
    <3>4. /\ Has(h, "PEND") => Has(h', "PEND")
          /\ h'.st = h.st /\ h'.dirty = h.dirty
      <4>1. CASE h' = h  BY <4>1
      <4>2. CASE h' = [h EXCEPT !.att = 0, !.dl = FALSE, !.fl = @ \ {"EXH"}]
        BY <1>0, <4>2 DEF HostRec, Has
      <4> QED  BY <3>3, <4>1, <4>2
    <3> QED  BY <2>0, <2>1, <3>1, <3>4 DEF Marked
  <2> QED
    BY <1>2, <2>2, <2>3, <2>4, <2>5, <2>6, <2>7, <2>8, <2>9, <2>10, <2>11, <2>12,
       <2>13, <2>14, <2>15, <2>16, SessionSteps, <1>1
<1> QED  BY <1>1, <1>2, SessionSteps

\* The driver is unbound, or its session is on its counters and about to wrap
\* them.
LEMMA TrackedInit == Init => Tracked
<1> SUFFICES ASSUME Init, Session PROVE Tracked
  BY DEF Tracked
<1>1. Running  BY DEF Init, Fresh, Session, Has
<1>2. /\ cx.rd = RxMod - 1 /\ cx.sent = CrMod - 1 /\ cx.lim = 0 /\ ~cx.txf /\ ~cx.rxf
      /\ fw.pub = RxMod - 1 /\ fw.arm = (CrMod - 1 + Slots) % CrMod /\ fw.out = "none"
      /\ fw.held = <<>> /\ fw.rdy /\ wk.pc = "idle" /\ rec = "idle"
  <2>1. /\ cx.rd = RxMod - 1 /\ cx.sent = CrMod - 1 /\ cx.lim = 0 /\ ~cx.txf /\ ~cx.rxf
    BY <1>1 DEF Running
  <2>2. /\ fw.pub = RxMod - 1 /\ fw.arm = (CrMod - 1 + Slots) % CrMod /\ fw.out = "none"
        /\ fw.held = <<>> /\ fw.rdy
    BY ZenonT(60), <1>1 DEF Running
  <2>3. wk.pc = "idle" /\ rec = "idle"  BY DEF Init
  <2> QED  BY <2>1, <2>2, <2>3
<1>3. cx.rd = Consumed  BY <1>2, TypeInit, ReadFacts
<1>4. CrMod \in Nat \ {0} /\ Slots \in Nat /\ Slots >= 1 /\ 2 * Slots < CrMod
  BY CounterAssumption
<1> DEFINE y == CrMod - 1 + Slots
           a == fw.arm
           x == a + CrMod - Slots + 0
<1>5. y \in 0..(2 * CrMod - 1)  BY <1>4
<1>6. y % CrMod = IF y < CrMod THEN y ELSE y - CrMod
  <2> HIDE DEF y
  <2> QED  BY <1>4, <1>5, ModSmall
<1>7. a = Slots - 1  BY <1>2, <1>4, <1>6
<1> HIDE DEF a
<1>8. x = CrMod - 1 /\ x \in 0..(2 * CrMod - 1)  BY <1>4, <1>7
<1>9. x % CrMod = CrMod - 1
  <2> HIDE DEF x
  <2>1. x % CrMod = IF x < CrMod THEN x ELSE x - CrMod  BY <1>4, <1>8, ModSmall
  <2> QED  BY <1>4, <1>8, <2>1
<1>10. cx.sent = Received
  <2>1. Len(fw.held) = 0  BY <1>2
  <2> QED  BY ZenonT(60), <1>2, <1>9, <2>1 DEF Received, a
<1>11. CreditBacked
  <2>1. 0 \in 0..(CrMod - 1) /\ CrMod - 1 \in 0..(CrMod - 1)  BY <1>4
  <2>2. (0 + CrMod - cx.sent) % CrMod = 1  BY <1>2, <1>4, <2>1, ModDiff
  <2>3. Len(fw.held) = 0  BY <1>2
  <2> QED  BY <1>2, <1>4, <2>2, <2>3 DEF CreditBacked
<1> QED  BY <1>2, <1>3, <1>10, <1>11 DEF Tracked, Agree, Marked

\* A session that starts on its counters stays on them, whatever faults occur and
\* however often: through every failed, refused or lost transfer, every live
\* resynchronization and every wrap of either counter, a healthy session has both
\* counters where the firmware has them (CountersCoherent). Only the three steps of
\* LosesCount can take it off them.
THEOREM CountersKept ==
    Spec => /\ Tracked
            /\ [][Tracked => (Tracked' /\ CountersCoherent') \/ LosesCount]_vars
<1>1. TypeOK /\ ReadyInv /\ LinkInv /\ [Next]_vars
        => [Tracked => (Tracked' /\ CountersCoherent') \/ LosesCount]_vars
  <2> SUFFICES ASSUME TypeOK, ReadyInv, LinkInv, [Next]_vars, Tracked, ~LosesCount
               PROVE  Tracked' /\ CountersCoherent'
    OBVIOUS
  <2>1. Tracked'  BY TrackedNext
  <2>2. CountersCoherent'
    BY <2>1 DEF Tracked, Session, Agree, Marked, CountersCoherent, Healthy, Has
  <2> QED  BY <2>1, <2>2
<1> QED
  BY <1>1, TypeInit, TypeNext, ReadyInit, ReadyNext, LinkInit, LinkNext,
     TrackedInit, PTL DEF Spec

-----------------------------------------------------------------------------
(* The wakeups of a session *)

\* The worker sleeps only if there is nothing to do, and once past its sample of
\* data-ready it has been queued again for a publication it has not seen.
Alert ==
    /\ wk.pc = "idle" /\ ~cx.wq => q = {} /\ ~fw.dr
    /\ wk.pc \in {"qio", "tx", "seg", "write"} /\ fw.dr => cx.wq

Awake ==
    Session /\ ~Has(h, "PEND") /\ h.st = "RDY" /\ cx.path => Alert

\* Two steps may leave a session with a sleeping worker and something to do: the
\* commit of one that already was so, and a reset that cancelled the worker and
\* then could not reset the chip.
LosesWakeup ==
    \/ BootCommit /\ cx.path /\ ~Alert
    \/ ResetTarget /\ fw'.same

\* Nothing the worker does in a session loses a wakeup: it goes to sleep only
\* after a pass that found neither data-ready nor a frame.
LEMMA WorkerAwake ==
    ASSUME TypeOK, LinkInv, Session, Tracked, Alert, ~Has(h, "PEND"), h.st = "RDY",
           cx.path, Worker \/ WkReadError \/ WkWriteError, ~Has(h', "PEND")
    PROVE  Alert'
<1>0. /\ h \in HostRec /\ cx \in CursorRec /\ wk \in WorkerRec /\ fw \in SlaveRec
  BY DEF TypeOK
<1>1. Agree /\ Marked /\ ~cx.txf /\ ~cx.rxf
  BY DEF Tracked, Marked
<1>2. ~Stopped
  BY DEF Stopped, LivePending, LinkInv, Initialised, Syncing, Session
<1>3. ~WkFails  BY FailMarks
<1>4. CASE WkStart
  <2>1. wk'.pc = "rx"  BY <1>0, <1>2, <1>4 DEF WkStart, WorkerRec
  <2> QED  BY <2>1 DEF Alert
<1>5. ~WkStop  BY <1>2 DEF WkStop
<1>6. CASE WkSample
  <2>1. fw.dr => PendingBytes # 0
    BY <1>1, ReadFacts DEF Agree, LinkInv, SlaveShown
  <2>2. \/ ~fw.dr /\ UNCHANGED fw /\ wk'.pc = "tx"
        \/ wk'.pc = "rd"
    <3> HIDE DEF PendingBytes
    <3> QED  BY <1>0, <1>3, <1>6, <2>1 DEF WkSample, WorkerRec
  <2> QED  BY <2>2 DEF Alert
<1>7. CASE WkRead
  <2>1. ~fw'.dr /\ wk'.pc # "idle"
    BY <1>0, <1>7, PhaseFacts DEF WkRead, WorkerRec
  <2> QED  BY <2>1 DEF Alert
<1>8. CASE WkQio
  <2>1. wk.pc = "qio" /\ wk'.pc = "tx" /\ fw'.dr = fw.dr /\ cx'.wq = cx.wq
    BY <1>0, <1>8 DEF WkQio, Opened, Partly, WorkerRec, SlaveRec, CursorRec
  <2> QED  BY <2>1 DEF Alert
<1>9. CASE WkNext
  <2>1. wk.pc = "tx" /\ UNCHANGED <<cx, fw>>  BY <1>9 DEF WkNext
  <2>2. wk'.pc \in {"seg", "rx"} \/ q' = {}
    BY <1>0, <1>9 DEF WkNext, WorkerRec
  <2> QED  BY <2>1, <2>2 DEF Alert
<1>10. CASE WkCredit
  <2>1. wk.pc = "seg" /\ wk'.pc = "write" /\ UNCHANGED fw /\ cx'.wq = cx.wq
    BY <1>0, <1>10 DEF WkCredit, Unmoved, WorkerRec, CursorRec
  <2> QED  BY <2>1 DEF Alert
<1>11. CASE WkWrite
  <2>1. wk.pc = "write" /\ wk'.pc \in {"seg", "rx"} /\ cx'.wq = cx.wq /\ fw' = Taken(fw)
    BY <1>0, <1>11 DEF WkWrite, WorkerRec, CursorRec
  <2>2. fw'.dr = fw.dr  BY <2>1, PhaseFacts
  <2> QED  BY <2>1, <2>2 DEF Alert
<1>12. ~(WkMalformed \/ WkCreditTimeout \/ WkReadError \/ WkWriteError)
  BY <1>3 DEF WkMalformed, WkCreditTimeout, WkReadError, WkWriteError, TxFails
<1> QED
  BY <1>4, <1>5, <1>6, <1>7, <1>8, <1>9, <1>10, <1>11, <1>12 DEF Worker

\* Every step that follows the commit of a session on its counters keeps its
\* worker awake while there is something to do, but for a failed reset.
LEMMA AwakeNext ==
    ASSUME TypeOK, ReadyInv, LinkInv, Tracked, Awake, [Next]_vars
    PROVE  Awake' \/ LosesWakeup
<1> SUFFICES ASSUME ~LosesWakeup, Session', ~Has(h', "PEND"), h'.st = "RDY", cx'.path
             PROVE  Alert'
  BY DEF Awake, Has
<1>0. /\ h \in HostRec /\ cx \in CursorRec /\ wk \in WorkerRec /\ fw \in SlaveRec
      /\ q \subseteq Kinds
  BY DEF TypeOK
<1>a. Has(h', "INIT") /\ ~Has(h', "EXP") /\ fw'.same  BY DEF Session, Has
<1>1. CASE BootCommit /\ bt' = "publish"
  <2>1. UNCHANGED <<cx, wk, q>> /\ fw'.dr = fw.dr
    BY <1>0, <1>1 DEF BootCommit, SlaveRec
  <2>2. Alert  BY <1>1, <2>1 DEF LosesWakeup
  <2> QED  BY <2>1, <2>2 DEF Alert
<1>2. CASE Session
  <2>0. /\ rec \notin {"rebase", "ready", "open"} /\ ~Closed(h) /\ ~Has(h, "RECON")
        /\ ~Has(h, "EXP") /\ Has(h, "INIT") /\ cx.run
    BY <1>2 DEF Tracked, Session, LinkInv, Initialised
  <2>1. ASSUME UNCHANGED <<wk, q>>, fw'.dr = fw.dr, cx'.wq = cx.wq, cx'.path = cx.path,
               Has(h, "PEND") => Has(h', "PEND"), h'.st = h.st
        PROVE  Alert'
    BY <1>2, <2>1 DEF Awake, Alert
  <2>2. CASE UNCHANGED vars \/ Dispatch
    BY <2>1, <2>2 DEF vars, Dispatch, Has
  <2>3. CASE FwSend
    <3>1. fw.out = "none"  BY <2>3, PublishKeeps
    <3>2. cx' = [cx EXCEPT !.wq = @ \/ (cx.run /\ ~fw.dr)]
      BY ZenonT(60), <2>3 DEF FwSend, Publish
    <3>3. ~fw.dr  BY <3>1 DEF LinkInv, SlaveShown
    <3>4. cx'.wq  BY <1>0, <2>0, <3>2, <3>3 DEF CursorRec
    <3> QED  BY <3>4 DEF Alert
  <2>4. CASE FwProcess
    <3>1. UNCHANGED <<h, cx, wk, q>>  BY <2>4 DEF FwProcess
    <3>2. fw'.dr = fw.dr  BY <1>a, <2>4, ProcessKeeps
    <3> QED  BY <2>1, <3>1, <3>2 DEF Has
  <2>5. CASE FlushBt
    <3>1. /\ wk.pc = "idle" /\ UNCHANGED <<wk, fw>> /\ q' = q \ {"hci"}
          /\ cx' = [cx EXCEPT !.wq = cx.run /\ cx.path /\ (fw.dr \/ "cmd" \in q)]
      BY <2>5 DEF FlushBt
    <3>2. cx'.wq = (cx.run /\ cx.path /\ (fw.dr \/ "cmd" \in q)) /\ cx'.path = cx.path
      BY <1>0, <3>1 DEF CursorRec
    <3>3. ~cx'.wq => ~fw.dr /\ q' = {}
      BY <1>0, <2>0, <3>1, <3>2 DEF Kinds
    <3> QED  BY <3>1, <3>3 DEF Alert
  <2>6. CASE \E k \in Kinds : WritePacket(k)
    <3>1. cx'.wq  BY <1>0, <2>6 DEF WritePacket, CursorRec
    <3> QED  BY <3>1 DEF Alert
  <2>7. CASE Worker \/ WkReadError \/ WkWriteError
    <3>1. h' = h \/ h' = SchedRecovery(h, FALSE)
      BY <2>7 DEF Worker, WkStart, WkStop, WkSample, WkRead, WkQio,
         WkMalformed, WkNext, WkCredit, WkCreditTimeout, WkWrite, WkReadError,
         WkWriteError, WkFails, TxFails
    <3>2. ~Has(h, "PEND") /\ h.st = "RDY"
      BY <1>0, <3>1, SchedMarks
    <3>3. cx'.path = cx.path
      BY <1>0, <2>7 DEF Worker, WkStart, WkStop, WkSample, WkRead, WkQio,
         WkMalformed, WkNext, WkCredit, WkCreditTimeout, WkWrite, WkReadError,
         WkWriteError, CursorRec
    <3>4. Alert  BY <1>2, <3>2, <3>3 DEF Awake
    <3> QED  BY <1>2, <2>7, <3>2, <3>3, <3>4, WorkerAwake
  <2>8. ~InjectResync
    <3>1. InjectResync => Has(h', "PEND")
      BY <1>0, <2>0, SchedMarks DEF InjectResync
    <3> QED  BY <3>1
  <2>9. CASE RecGate
    <3>1. UNCHANGED <<wk, fw, q>>  BY <2>9 DEF RecGate
    <3>2. h'.fl = h.fl /\ h'.st = h.st
      <4>1. \/ h' = [h EXCEPT !.work = FALSE]
            \/ h' = [h EXCEPT !.work = FALSE, !.dirty = @ \ {"rec"}]
        BY <2>9 DEF RecGate
      <4> QED  BY <1>0, <4>1 DEF HostRec
    <3>3. cx'.wq = cx.wq /\ cx'.path = cx.path
      BY <1>0, <2>9 DEF RecGate, CursorRec
    <3> QED  BY <2>1, <3>1, <3>2, <3>3 DEF Has
  <2>10. ~RecCancel
    BY DEF RecCancel, LinkInv, Syncing, Has
  <2>11. ~RecResync
    <3> SUFFICES ASSUME RecResync PROVE FALSE
      OBVIOUS
    <3>1. Has(h, "PEND")  BY DEF RecResync, LinkInv, Syncing
    <3>2. CASE h' \in {h, [h EXCEPT !.work = TRUE], [h EXCEPT !.st = "RDY"]}
      BY <1>0, <3>1, <3>2 DEF Has, HostRec
    <3>3. CASE h' = [Quarantine(h, "rec") EXCEPT !.work = TRUE]
      <4> DEFINE b == Quarantine(h, "rec")
      <4>1. b \in HostRec  BY <1>0, PolicyFacts
      <4>2. Has(b, "PEND")  BY <1>0, <3>1, RetryMarks
      <4> HIDE DEF b
      <4>3. h'.fl = b.fl  BY <3>3, <4>1 DEF HostRec, b
      <4> QED  BY <4>2, <4>3 DEF Has
    <3> QED  BY <3>2, <3>3 DEF RecResync, RecFails
  <2>12. CASE RecLive
    <3>1. Has(h, "PEND")  BY <2>12 DEF RecLive, LinkInv, Syncing
    <3>2. "rec" \notin h.dirty
      <4>1. "rec" \in h.dirty => h' = h  BY <2>12 DEF RecLive
      <4> QED  BY <3>1, <4>1
    <3>3. cx'.wq
      <4>1. cx' = [cx EXCEPT !.wq = @ \/ ({"rec"} \cap h.dirty = {} /\ ~Has(h, "EXP")
                                         /\ cx.run)]
        BY <2>12 DEF RecLive
      <4>2. {"rec"} \cap h.dirty = {}  BY <3>2
      <4> QED  BY <1>0, <2>0, <4>1, <4>2 DEF CursorRec
    <3> QED  BY <3>3 DEF Alert
  <2>13. ~(RecRebase \/ RecReady \/ RecOpen)  BY <2>0 DEF RecRebase, RecReady, RecOpen
  <2>14. ~ResetClose
    BY <1>0 DEF ResetClose, CursorRec
  <2>15. ~ResetTarget  BY <1>a DEF LosesWakeup
  <2>16. CASE BootFinish
    <3>1. UNCHANGED <<cx, wk, q, fw>>  BY <2>16 DEF BootFinish
    <3> DEFINE a == [h EXCEPT !.fl = (@ \cup {"CLEAN"}) \ {"INIT"}]
    <3>2. ~BootFails(a)
      <4> SUFFICES ASSUME BootFails(a) PROVE FALSE
        OBVIOUS
      <4> DEFINE c == [a EXCEPT !.fl = @ \ {"RECON"}]
      <4>1. a \in HostRec /\ ~Closed(a)
        BY <1>0, <2>0 DEF HostRec, Flags, Closed, Has
      <4> HIDE DEF a
      <4>2. c \in HostRec /\ ~Closed(c)  BY <4>1 DEF HostRec, Closed, Has
      <4>3. h' = BootRetry(c, "bt")  BY DEF BootFails
      <4> HIDE DEF c
      <4> QED  BY <1>a, <4>2, <4>3, RetryMarks
    <3>3. h' = [h EXCEPT !.att = 0, !.dl = FALSE, !.fl = @ \ {"EXH"}] \/ h' = h
      BY <2>16, <3>2 DEF BootFinish
    <3>4. (Has(h, "PEND") => Has(h', "PEND")) /\ h'.st = h.st
      <4>1. CASE h' = h  BY <4>1
      <4>2. CASE h' = [h EXCEPT !.att = 0, !.dl = FALSE, !.fl = @ \ {"EXH"}]
        BY <1>0, <4>2 DEF HostRec, Has
      <4> QED  BY <3>3, <4>1, <4>2
    <3> QED  BY <2>1, <3>1, <3>4
  <2> QED
    BY <1>1, <2>2, <2>3, <2>4, <2>5, <2>6, <2>7, <2>8, <2>9, <2>10, <2>11, <2>12,
       <2>13, <2>14, <2>15, <2>16, SessionSteps
<1> QED  BY <1>1, <1>2, SessionSteps

\* The driver is unbound, or its session is quiet.
LEMMA AwakeInit == Init => Awake
  BY DEF Init, Fresh, Running, Awake, Alert, Session, Has

\* A session on its counters loses no wakeup, although the interrupt of data-ready
\* is only an edge and live recovery cancels the worker: while it is healthy, its
\* firmware is the one it was committed on and its worker sleeps, no frame waits and
\* data-ready is low (NoLostWakeup). Only the two steps of LosesWakeup can leave it
\* asleep.
THEOREM WakeupsKept ==
    Spec => /\ Awake
            /\ [][Tracked /\ Awake
                  => (Awake' /\ (fw'.same => NoLostWakeup')) \/ LosesWakeup]_vars
<1>1. TypeOK /\ ReadyInv /\ LinkInv /\ [Next]_vars
        => [Tracked /\ Awake
            => (Awake' /\ (fw'.same => NoLostWakeup')) \/ LosesWakeup]_vars
  <2> SUFFICES ASSUME TypeOK, ReadyInv, LinkInv, [Next]_vars, Tracked, Awake, ~LosesWakeup
               PROVE  Awake' /\ (fw'.same => NoLostWakeup')
    OBVIOUS
  <2>1. Awake'  BY AwakeNext
  <2>2. fw'.same => NoLostWakeup'
    BY <2>1 DEF Awake, Alert, Session, NoLostWakeup, Healthy, Has
  <2> QED  BY <2>1, <2>2
<1> QED
  BY <1>1, TypeInit, TypeNext, ReadyInit, ReadyNext, LinkInit, LinkNext,
     AwakeInit, PTL DEF Spec

=============================================================================
