--------------------------- MODULE SdioLinkProofs ---------------------------
(* Proofs about the SDIO link: its types, the CLOSE handshake, the resets of  *)
(* the recovery worker, and the credits and epochs of the TX path.            *)
EXTENDS SdioLink, Integers, TLAPS

-----------------------------------------------------------------------------
(* Types *)

\* The counters of the link are registers of a fixed width.
LEMMA CounterFacts ==
    /\ RxMax \in Nat /\ RxMax > 4 /\ TxMax \in Nat /\ MaxBuf \in Nat /\ MaxBuf >= 1
    /\ TxMax > 2 * MaxBuf
    /\ 0 \in 0..(RxMax - 1) /\ 0 \in 0..(TxMax - 1) /\ 0 \in 0..MaxBuf
    /\ RetryMax \in Nat /\ 0 \in 0..RetryMax
    /\ MaxAttempts \in Nat /\ 0 \in 0..MaxAttempts
  BY CounterAssumption, BoundAssumption DEF BootLen

\* They wrap.
LEMMA Wraps ==
    ASSUME NEW a \in Int
    PROVE  a % RxMax \in 0..(RxMax - 1) /\ a % TxMax \in 0..(TxMax - 1)
  BY CounterFacts

\* The shared recovery policy and the reset intents of the SDIO backend keep
\* the shape of the adapter, the boot budget and the CLOSE budget:
\* esp_schedule_recovery, esp_sdio_soft_reset_budget_arm, esp_sdio_reset_target,
\* esp_request_firmware_restart and esp_bootup_request_retry.
LEMMA PolicyFacts ==
    ASSUME NEW a \in HostRec, NEW r \in BOOLEAN
    PROVE  /\ SchedRecovery(a, r) \in HostRec
           /\ BudgetSync(a) \in HostRec
           /\ Arm(a) \in HostRec
           /\ RequestRestart(a) \in HostRec
           /\ Quarantine(a) \in HostRec
           /\ BootRetry(a) \in HostRec
<1>1. \A b \in HostRec, s \in BOOLEAN : SchedRecovery(b, s) \in HostRec
  <2> SUFFICES ASSUME NEW b \in HostRec, NEW s \in BOOLEAN
               PROVE  SchedRecovery(b, s) \in HostRec
    OBVIOUS
  <2> DEFINE fl == b.fl \cup {"PEND"} \cup (IF s THEN {"EXP"} ELSE {})
             st == IF b.st = "RDY" /\ ~Has(b, "RECON") THEN "RX" ELSE b.st
             rb == b.rebase \/ s
  <2>1. fl \in SUBSET Flags /\ st \in {"OFF", "DIS", "RX", "RDY"} /\ rb \in BOOLEAN
    BY DEF HostRec, Flags
  <2>2. CASE Closed(b)  BY <2>2 DEF SchedRecovery
  <2>3. CASE ~Closed(b)
    <3> HIDE DEF fl, st, rb
    <3>1. SchedRecovery(b, s)
            = [b EXCEPT !.fl = fl, !.rebase = rb, !.dirty = {"rec", "bt"},
                        !.st = st, !.work = TRUE]
      BY <2>3 DEF SchedRecovery, fl, st, rb
    <3> DEFINE c == [b EXCEPT !.fl = fl, !.rebase = rb]
    <3>2. c \in HostRec  BY <2>1 DEF HostRec
    <3> HIDE DEF c
    <3>3. [c EXCEPT !.dirty = {"rec", "bt"}, !.st = st, !.work = TRUE] \in HostRec
      BY <2>1, <3>2 DEF HostRec
    <3> QED  BY <3>1, <3>3 DEF c
  <2> QED  BY <2>2, <2>3
<1>2. \A b \in HostRec : BudgetSync(b) \in HostRec
  <2> SUFFICES ASSUME NEW b \in HostRec PROVE BudgetSync(b) \in HostRec
    OBVIOUS
  <2>1. [b EXCEPT !.fresh = TRUE, !.tries = 0] \in HostRec
    BY CounterFacts DEF HostRec
  <2> QED  BY <2>1 DEF BudgetSync
<1>3. \A b \in HostRec : Arm(b) \in HostRec
  <2> SUFFICES ASSUME NEW b \in HostRec PROVE Arm(b) \in HostRec
    OBVIOUS
  <2>1. BudgetSync(b) \in HostRec  BY <1>2
  <2> QED  BY <2>1 DEF Arm, HostRec
<1>4. \A b \in HostRec : ResetTarget(b) \in HostRec
  <2> SUFFICES ASSUME NEW b \in HostRec PROVE ResetTarget(b) \in HostRec
    OBVIOUS
  <2> DEFINE c == BudgetSync(b)
             d == [c EXCEPT !.cur = TRUE, !.hard = TRUE]
  <2>1. c \in HostRec  BY <1>2
  <2> HIDE DEF c
  <2>2. d \in HostRec  BY <2>1 DEF HostRec
  <2>3. SchedRecovery(d, TRUE) \in HostRec /\ SchedRecovery(Arm(b), TRUE) \in HostRec
    BY <1>1, <1>3, <2>2
  <2>4. ResetTarget(b) \in {b, SchedRecovery(d, TRUE), SchedRecovery(Arm(b), TRUE), c}
    BY Zenon DEF ResetTarget, c, d
  <2> QED  BY Zenon, <2>1, <2>3, <2>4
<1>5. \A b \in HostRec : RequestRestart(b) \in HostRec
  <2> SUFFICES ASSUME NEW b \in HostRec PROVE RequestRestart(b) \in HostRec
    OBVIOUS
  <2> DEFINE e == b.fl \cup {"EXH"}
             d == b.fl \cup {"NEED"}
             n == b.att + 1
             c == [b EXCEPT !.att = n, !.dl = TRUE, !.used = FALSE, !.fl = d]
  <2>1. e \in SUBSET Flags /\ d \in SUBSET Flags
    BY DEF HostRec, Flags
  <2>2. CASE b.dl  BY <2>2 DEF RequestRestart
  <2>3. CASE ~b.dl /\ (Has(b, "EXH") \/ b.att >= MaxAttempts)
    <3>1. RequestRestart(b) = [b EXCEPT !.fl = e]
      BY <2>3 DEF RequestRestart
    <3> HIDE DEF e
    <3> QED  BY <2>1, <3>1 DEF HostRec
  <2>4. CASE ~b.dl /\ ~(Has(b, "EXH") \/ b.att >= MaxAttempts)
    <3>1. RequestRestart(b) = ResetTarget(c)
      BY <2>4 DEF RequestRestart
    <3>2. n \in 0..MaxAttempts
      BY <2>4, BoundAssumption DEF HostRec
    <3>3. c \in HostRec
      <4> HIDE DEF d, n
      <4> QED  BY <2>1, <3>2 DEF HostRec
    <3> QED  BY <1>4, <3>1, <3>3
  <2> QED  BY <2>2, <2>3, <2>4
<1>6. \A b \in HostRec : Quarantine(b) \in HostRec
  BY <1>1, <1>5 DEF Quarantine
<1>7. BootRetry(a) \in HostRec
  <2>1. [a EXCEPT !.fl = @ \ {"CLEAN"}] \in HostRec
    BY DEF HostRec
  <2> QED  BY <1>6, <2>1 DEF BootRetry
<1> QED  BY <1>1, <1>2, <1>3, <1>5, <1>6, <1>7

\* So do the claim of a reset intent, the commit callback, the request for a
\* slave reset, a baseline and a rebinding.
LEMMA IntentFacts ==
    ASSUME NEW a \in HostRec
    PROVE  /\ Claimed(a) \in HostRec
           /\ CommitBudget(a) \in HostRec
           /\ SlaveReset(a) \in HostRec
           /\ BaseFlags(a) \in HostRec
           /\ Rebound(a) \in HostRec
           /\ Abandoned(a) \in HostRec
<1>1. Claimed(a) \in HostRec
  <2> DEFINE b == [a EXCEPT !.hard = FALSE, !.soft = FALSE]
             fl == b.fl \cup {"PEND", "EXP"}
  <2>1. b \in HostRec  BY DEF HostRec
  <2>2. Claimed(a) \in {b, [b EXCEPT !.fl = fl, !.dirty = {"rec", "bt"}]}
    BY Zenon DEF Claimed
  <2>3. fl \in SUBSET Flags  BY <2>1 DEF HostRec, Flags
  <2> HIDE DEF b, fl
  <2> QED  BY ZenonT(60), <2>1, <2>2, <2>3 DEF HostRec
<1>2. CommitBudget(a) \in HostRec
  <2> DEFINE b == BudgetSync(a)
  <2>1. b \in HostRec  BY PolicyFacts
  <2> HIDE DEF b
  <2>2. [b EXCEPT !.hard = FALSE, !.soft = FALSE] \in HostRec
    BY <2>1 DEF HostRec
  <2> QED  BY <2>1, <2>2 DEF CommitBudget, b
<1>3. SlaveReset(a) \in HostRec
  <2>1. [a EXCEPT !.rst = TRUE] \in HostRec  BY DEF HostRec
  <2> QED  BY <2>1, PolicyFacts DEF SlaveReset
<1>4. BaseFlags(a) \in HostRec  BY DEF BaseFlags, HostRec
<1>5. Rebound(a) \in HostRec
  <2> DEFINE b == [a EXCEPT !.fl = @ \ {"REMOVING"}, !.st = "RX"]
  <2>1. b \in HostRec  BY DEF HostRec
  <2>2. Rebound(a) \in {b, [b EXCEPT !.att = 0, !.dl = FALSE, !.fl = {}]}
    BY Zenon DEF Rebound
  <2> HIDE DEF b
  <2> QED  BY ZenonT(60), <2>1, <2>2, CounterFacts DEF HostRec
<1>6. Abandoned(a) \in HostRec  BY PolicyFacts DEF Abandoned
<1> QED  BY <1>1, <1>2, <1>3, <1>4, <1>5, <1>6

\* What the host's contexts write into the adapter keeps its shape.
LEMMA HostNext == TypeOK /\ [Next]_vars => h' \in HostRec
<1> SUFFICES ASSUME TypeOK, [Next]_vars PROVE h' \in HostRec
  OBVIOUS
<1>0. h \in HostRec  BY DEF TypeOK
<1>a. \A a \in HostRec, r \in BOOLEAN :
          /\ SchedRecovery(a, r) \in HostRec /\ Quarantine(a) \in HostRec
          /\ Abandoned(a) \in HostRec /\ SlaveReset(a) \in HostRec
          /\ BaseFlags(a) \in HostRec /\ BudgetSync(a) \in HostRec
          /\ Arm(a) \in HostRec
  BY PolicyFacts, IntentFacts
<1>b. \A a \in HostRec : [a EXCEPT !.work = TRUE] \in HostRec
  BY DEF HostRec
<1>c. \A a \in HostRec : BootFails(a) => h' \in HostRec
  <2> SUFFICES ASSUME NEW a \in HostRec, BootFails(a) PROVE h' \in HostRec
    OBVIOUS
  <2>1. [a EXCEPT !.fl = @ \ {"RECON"}] \in HostRec
    BY DEF HostRec
  <2> QED  BY <2>1, PolicyFacts DEF BootFails
<1>d. \A a \in HostRec : RecFails(a) => h' \in HostRec
  BY <1>b DEF RecFails
<1>e. \A a \in HostRec : RecOpened(a) => h' \in HostRec
  <2> SUFFICES ASSUME NEW a \in HostRec, RecOpened(a) PROVE h' \in HostRec
    OBVIOUS
  <2>1. h' = [a EXCEPT !.work = @ \/ Has(a, "EXP") \/ ~Has(a, "INIT")]
    BY DEF RecOpened
  <2> DEFINE w == a.work \/ Has(a, "EXP") \/ ~Has(a, "INIT")
  <2>2. w \in BOOLEAN /\ h' = [a EXCEPT !.work = w]  BY <2>1 DEF Has
  <2> HIDE DEF w
  <2> QED  BY <2>2 DEF HostRec
<1>1. CASE UNCHANGED h  BY <1>0, <1>1
<1>2. CASE TxWriteError
  <2> DEFINE v == ~Closed(h) \/ h.rst
             a == [h EXCEPT !.rst = v]
  <2>1. v \in BOOLEAN  BY <1>0 DEF HostRec
  <2>2. a \in HostRec
    <3> HIDE DEF v
    <3> QED  BY <1>0, <2>1 DEF HostRec
  <2>3. h' \in {Quarantine(h), Quarantine(a), SlaveReset(h)}
    BY <1>2 DEF TxWriteError
  <2> HIDE DEF a
  <2> QED  BY <1>0, <1>a, <2>2, <2>3
<1>3. CASE \/ FlushTraffic \/ TxCreditError \/ TxGiveUp \/ IsrError \/ RxLenError
           \/ RxReset \/ ReadPacket \/ ReadError \/ RestartRequest
  <2>1. \/ h' = h \/ h' = Quarantine(h) \/ h' = SchedRecovery(h, FALSE)
        \/ h' = SchedRecovery(h, TRUE) \/ h' = Abandoned(h)
        \/ h' = Abandoned(SchedRecovery(h, FALSE))
    BY <1>3 DEF FlushTraffic, TxCreditError, TxGiveUp, TxAbandon, IsrError, RxLenError,
       RxReset, ReadPacket, ReadError, RestartRequest
  <2> QED  BY <1>0, <1>a, <2>1
<1>4. CASE RxNothing
  <2>1. h' = h \/ h' = SchedRecovery(h, FALSE)  BY <1>4 DEF RxNothing
  <2> QED  BY <1>0, <1>a, <2>1
<1>5. CASE RecGate
  <2>1. \/ h' = [h EXCEPT !.work = FALSE]
        \/ h' = [h EXCEPT !.work = FALSE, !.dirty = @ \ {"rec"}]
    BY <1>5 DEF RecGate
  <2>2. h.dirty \ {"rec"} \in SUBSET {"rec", "bt"}  BY <1>0 DEF HostRec
  <2> QED  BY ZenonT(60), <1>0, <2>1, <2>2 DEF HostRec
<1>6. CASE RecExpire
  <2>1. [h EXCEPT !.dl = FALSE, !.work = FALSE] \in HostRec
    BY <1>0 DEF HostRec
  <2> QED  BY <1>6, <2>1, PolicyFacts DEF RecExpire
<1>7. CASE RecClaim  BY <1>0, <1>7, IntentFacts DEF RecClaim
<1>8. CASE RecBarrier
  <2>1. \E t \in {"RX", "RDY"} : h' = [h EXCEPT !.st = t]
    BY <1>8 DEF RecBarrier
  <2> QED  BY <1>0, <2>1 DEF HostRec
<1>9. CASE RecSoft
  <2>1. CASE RecFails(h)  BY <1>0, <1>d, <2>1
  <2>2. CASE RecFails(BudgetSync(h))  BY <1>0, <1>a, <1>d, <2>2
  <2>3. CASE MayArm(h) /\ h' = [BudgetSync(h) EXCEPT !.tries = @ + 1]
    <3> DEFINE b == BudgetSync(h)
    <3>1. b \in HostRec /\ b.tries < MaxAttempts  BY <1>0, <1>a, <2>3 DEF MayArm
    <3> HIDE DEF b
    <3>2. b.tries + 1 \in 0..MaxAttempts  BY <3>1, CounterFacts DEF HostRec
    <3>3. [b EXCEPT !.tries = @ + 1] \in HostRec
      BY <3>1, <3>2 DEF HostRec
    <3> QED  BY <2>3, <3>3 DEF b
  <2> QED  BY <1>9, <2>1, <2>2, <2>3 DEF RecSoft
<1>10. CASE RecSoftAck
  <2>1. (h.fl \ {"NEED"}) \cup {"EXP"} \in SUBSET Flags  BY <1>0 DEF HostRec, Flags
  <2> QED  BY <1>0, <1>10, <2>1 DEF RecSoftAck, HostRec
<1>11. CASE RecSoftTimeout  BY <1>0, <1>d, <1>11 DEF RecSoftTimeout
<1>12. CASE RecReopen  BY <1>0, <1>d, <1>e, <1>12 DEF RecReopen
<1>13. CASE RecResyncRestart  BY <1>0, <1>a, <1>d, <1>13 DEF RecResyncRestart
<1>14. CASE RecResyncSlave  BY <1>0, <1>14 DEF RecResyncSlave, HostRec
<1>15. CASE RecSlaveDone
  <2> DEFINE b == BaseFlags(h)
  <2>1. b \in HostRec  BY <1>0, <1>a
  <2>2. h' = h \/ h' = [b EXCEPT !.st = "RDY"] \/ RecOpened(b)
    BY <1>15 DEF RecSlaveDone, RecTo
  <2> HIDE DEF b
  <2>3. [b EXCEPT !.st = "RDY"] \in HostRec  BY <2>1 DEF HostRec
  <2> QED  BY <1>0, <1>e, <2>1, <2>2, <2>3
<1>16. CASE RecResyncOpen
  <2> DEFINE fl == h.fl \cup {"EXP"}
  <2>1. fl \in SUBSET Flags  BY <1>0 DEF HostRec, Flags
  <2>2. [h EXCEPT !.fl = fl, !.rebase = FALSE, !.rst = FALSE] \in HostRec
    <3> HIDE DEF fl
    <3> QED  BY <1>0, <2>1 DEF HostRec
  <2> QED  BY <1>e, <1>16, <2>2 DEF RecResyncOpen
<1>17. CASE RecResyncLive
  <2> DEFINE fl == IF RxDelta > Aggr THEN h.fl \cup {"EXP"} ELSE h.fl
  <2>1. fl \in SUBSET Flags  BY <1>0 DEF HostRec, Flags
  <2>2. [h EXCEPT !.fl = fl] \in HostRec /\ [h EXCEPT !.st = "RDY"] \in HostRec
    <3> HIDE DEF fl
    <3> QED  BY <1>0, <2>1 DEF HostRec
  <2> QED  BY <1>e, <1>17, <2>2 DEF RecResyncLive
<1>18. CASE RecLive
  <2>1. \/ h' = h \/ h' = [h EXCEPT !.work = TRUE]
        \/ h' = [h EXCEPT !.fl = @ \ {"PEND"}]
    BY <1>18 DEF RecLive
  <2>2. [h EXCEPT !.fl = @ \ {"PEND"}] \in HostRec  BY <1>0 DEF HostRec
  <2> QED  BY <1>0, <1>b, <2>1, <2>2
<1>19. CASE BootReinit
  <2> DEFINE b == BaseFlags(h)
             fl == b.fl \cup {"RECON"}
             d == b.dirty \ {"bt"}
  <2>1. b \in HostRec  BY <1>0, <1>a
  <2>2. \/ BootFails(b) \/ h' = [b EXCEPT !.fl = fl, !.st = "RDY", !.dirty = d]
    BY <1>19 DEF BootReinit
  <2> HIDE DEF b
  <2>3. fl \in SUBSET Flags /\ d \in SUBSET {"rec", "bt"}  BY <2>1 DEF HostRec, Flags
  <2>4. [b EXCEPT !.fl = fl, !.st = "RDY", !.dirty = d] \in HostRec
    <3> HIDE DEF fl, d
    <3> QED  BY <2>1, <2>3 DEF HostRec
  <2> QED  BY <1>c, <2>1, <2>2, <2>4
<1>20. CASE BootCommit
  <2>1. CASE BootFails(h)  BY <1>0, <1>c, <2>1
  <2>2. CASE ~BootFails(h)
    <3> DEFINE f == (h.fl \cup {"INIT"}) \ {"RECON", "CLEAN"}
               a == [h EXCEPT !.work = FALSE, !.fl = f]
    <3>1. f \in SUBSET Flags  BY <1>0 DEF HostRec, Flags
    <3>2. \/ h' = [a EXCEPT !.st = "RX", !.work = TRUE]
          \/ h' = [a EXCEPT !.fl = @ \ {"PEND", "EXP", "NEED"}, !.st = "RDY"]
      BY <1>20, <2>2 DEF BootCommit
    <3>3. a \in HostRec
      <4> HIDE DEF f
      <4> QED  BY <1>0, <3>1 DEF HostRec
    <3> HIDE DEF a
    <3>4. CASE h' = [a EXCEPT !.st = "RX", !.work = TRUE]
      BY <3>3, <3>4 DEF HostRec
    <3>5. CASE h' = [a EXCEPT !.fl = @ \ {"PEND", "EXP", "NEED"}, !.st = "RDY"]
      BY <3>3, <3>5 DEF HostRec
    <3> QED  BY <3>2, <3>4, <3>5
  <2> QED  BY <2>1, <2>2
<1>21. CASE BootFinish
  <2> DEFINE f == (h.fl \cup {"CLEAN"}) \ {"INIT"}
             a == [h EXCEPT !.fl = f]
             b == [h EXCEPT !.att = 0, !.dl = FALSE, !.fl = @ \ {"EXH"},
                            !.cur = FALSE, !.fresh = FALSE]
  <2>1. f \in SUBSET Flags  BY <1>0 DEF HostRec, Flags
  <2>2. a \in HostRec
    <3> HIDE DEF f
    <3> QED  BY <1>0, <2>1 DEF HostRec
  <2>3. b \in HostRec
    <3> DEFINE c == [h EXCEPT !.att = 0, !.dl = FALSE, !.fl = @ \ {"EXH"}]
    <3>1. c \in HostRec  BY <1>0, CounterFacts DEF HostRec
    <3>2. b = [c EXCEPT !.cur = FALSE, !.fresh = FALSE]  OBVIOUS
    <3> HIDE DEF b, c
    <3> QED  BY <3>1, <3>2 DEF HostRec
  <2>4. BootFails(a) \/ h' = b \/ h' = h
    BY <1>21 DEF BootFinish
  <2> HIDE DEF a, b
  <2> QED  BY <1>0, <1>c, <2>2, <2>3, <2>4
<1>22. CASE BootCallback \/ BootAbort
  BY <1>0, <1>22, IntentFacts DEF BootCallback, BootAbort
<1>23. CASE BootStart
  <2> DEFINE a == [h EXCEPT !.work = FALSE, !.fl = @ \ {"INIT", "NEED"}]
             f == a.fl \cup {"PEND", "CLEAN"}
             g == a.fl \cup {"RECON"}
             d == a.dirty \ {"bt"}
             b == [a EXCEPT !.fl = f, !.st = "DIS"]
             c == [a EXCEPT !.fl = g, !.st = "RDY", !.dirty = d]
  <2>1. a \in HostRec  BY <1>0 DEF HostRec
  <2>2. h' \in {Abandoned(b), b, c}
    BY <1>23 DEF BootStart
  <2> HIDE DEF a
  <2>3. f \in SUBSET Flags /\ g \in SUBSET Flags /\ d \in SUBSET {"rec", "bt"}
    BY <2>1 DEF HostRec, Flags
  <2> HIDE DEF f, g, d
  <2>4. b \in HostRec /\ c \in HostRec  BY <2>1, <2>3 DEF HostRec
  <2> HIDE DEF b, c
  <2> QED  BY <1>a, <2>2, <2>4
<1>24. CASE PmSleep \/ PmResume \/ PmBaseline \/ PmTimeout
  <2>1. h' = h \/ h' = Quarantine(h) \/ h' = BaseFlags(h)
    BY <1>24 DEF PmSleep, PmResume, PmBaseline, PmTimeout, PmFails
  <2> QED  BY <1>0, <1>a, <2>1
<1>25. CASE RemoveStart
  <2>1. (h.fl \cup {"REMOVING", "CLEAN"}) \ {"INIT"} \in SUBSET Flags
    BY <1>0 DEF HostRec, Flags
  <2> QED  BY <1>0, <1>25, <2>1 DEF RemoveStart, HostRec
<1>26. CASE RemoveEnd
  <2> DEFINE a == IF tx.pc \in {"agg", "ready"} THEN Abandoned(h) ELSE h
             b == [a EXCEPT !.st = "OFF", !.rebase = FALSE, !.rst = FALSE]
             c == [b EXCEPT !.hard = FALSE, !.soft = FALSE, !.noHard = FALSE]
  <2>1. a \in HostRec  BY <1>0, <1>a
  <2>2. h' = [a EXCEPT !.st = "OFF", !.rebase = FALSE, !.rst = FALSE,
                         !.hard = FALSE, !.soft = FALSE, !.noHard = FALSE,
                         !.fresh = FALSE, !.tries = 0, !.work = FALSE]
    BY <1>26 DEF RemoveEnd
  <2> HIDE DEF a
  <2>3. b \in HostRec  BY <2>1 DEF HostRec
  <2>4. c \in HostRec
    <3> HIDE DEF b
    <3> QED  BY <2>3 DEF HostRec
  <2>5. h' = [c EXCEPT !.fresh = FALSE, !.tries = 0, !.work = FALSE]
    BY <2>2
  <2> HIDE DEF c
  <2> QED  BY <2>4, <2>5, CounterFacts DEF HostRec
<1>27. CASE Probe
  <2>1. Rebound(h) \in HostRec  BY <1>0, IntentFacts
  <2>2. h' = Quarantine(Rebound(h)) \/ h' = [Rebound(h) EXCEPT !.work = TRUE]
    BY <1>27 DEF Probe
  <2> QED  BY <1>a, <1>b, <2>1, <2>2
<1>28. CASE RecHard
  <2> DEFINE fl == h.fl \cup {"EXP"}
             us == h.used \/ FullReset
             a == [h EXCEPT !.fl = fl, !.rebase = TRUE, !.rst = FALSE, !.used = us]
             needed(b) == [b EXCEPT !.fl = @ \cup {"NEED"}]
             fallback(b) == IF MayArm(b) THEN Arm(needed(b)) ELSE needed(b)
             done(b) == [b EXCEPT !.fl = @ \ {"NEED"}]
             fb == fallback(a)
  <2>1. fl \in SUBSET Flags /\ us \in BOOLEAN
    BY <1>0 DEF HostRec, Flags, FullReset
  <2>2. a \in HostRec
    <3> HIDE DEF fl, us
    <3> DEFINE c == [h EXCEPT !.fl = fl, !.rebase = TRUE]
    <3>1. c \in HostRec  BY <1>0, <2>1 DEF HostRec
    <3>2. a = [c EXCEPT !.rst = FALSE, !.used = us]  OBVIOUS
    <3> HIDE DEF a, c
    <3> QED  BY <2>1, <3>1, <3>2 DEF HostRec
  <2>3. \/ RecFails(Quarantine(h)) \/ RecFails([fb EXCEPT !.noHard = TRUE])
        \/ RecFails(fb) \/ h' = done(a)
    BY <1>28 DEF RecHard
  <2> HIDE DEF a
  <2>4. a.fl \cup {"NEED"} \in SUBSET Flags  BY <2>2 DEF HostRec, Flags
  <2>5. needed(a) \in HostRec /\ done(a) \in HostRec  BY <2>2, <2>4 DEF HostRec
  <2>6. fb \in HostRec
    <3> HIDE DEF needed
    <3> QED  BY <1>a, <2>5
  <2> HIDE DEF fb, done
  <2>7. [fb EXCEPT !.noHard = TRUE] \in HostRec  BY <2>6 DEF HostRec
  <2> QED  BY <1>0, <1>a, <1>d, <2>3, <2>5, <2>6, <2>7
<1>29. CASE Firmware \/ FwSend \/ FwCrash
  BY <1>1, <1>29 DEF Firmware, FwInit, FwClose, FwRestart, FwReset, FwOpen, FwBoot,
     FwReload, FwPowerSave, FwSend, FwCrash, Publish
<1>30. CASE \/ \E k \in Kinds : WritePacket(k)
            \/ CmdEnds \/ TxBuild \/ TxCredit \/ TxWrite \/ Isr
            \/ RecResyncDown \/ RecAbort \/ PmSuspend \/ PmAwake \/ PmAsleep
  BY ZenonT(60), <1>1, <1>30 DEF WritePacket, CmdEnds, TxBuild, TxCredit, TxWrite, Isr,
     RecResyncDown, RecAbort, PmSuspend, PmAwake, PmAsleep
<1>31. CASE UNCHANGED vars  BY <1>1, <1>31 DEF vars
<1> QED
  BY <1>2, <1>3, <1>4, <1>5, <1>6, <1>7, <1>8, <1>9, <1>10, <1>11, <1>12, <1>13,
     <1>14, <1>15, <1>16, <1>17, <1>18, <1>19, <1>20, <1>21, <1>22, <1>23, <1>24,
     <1>25, <1>26, <1>27, <1>28, <1>29, <1>30, <1>31
  DEF Next, TxThread, RxWork, Recovery, BootHandler, PowerManagement, Environment

\* A baseline, a zeroing and the next generation of a handshake give the host's
\* end of the counters its shape: TxBase is what keeps a token below
\* ESP_MAX_BUF_CNT from wrapping.
LEMMA CursorFacts ==
    ASSUME NEW c \in CursorRec, NEW r \in Rel, fw \in SlaveRec
    PROVE  /\ Baselined(c) \in CursorRec
           /\ Zeroed(c, r) \in CursorRec
           /\ TxBase(fw.tok) \in 0..(TxMax - 1)
           /\ \A t \in 0..(TxMax - 1) : [Zeroed(c, r) EXCEPT !.tx = t] \in CursorRec
           /\ \A b \in BOOLEAN : /\ [c EXCEPT !.sleep = b] \in CursorRec
                                 /\ [c EXCEPT !.rxw = b] \in CursorRec
<1>1. TxBase(fw.tok) \in 0..(TxMax - 1)
  <2>1. fw.tok \in 0..(TxMax - 1)  BY DEF SlaveRec
  <2> QED  BY <2>1, CounterFacts DEF TxBase
<1>2. fw.plen \in 0..(RxMax - 1)  BY DEF SlaveRec
<1>3. Baselined(c) \in CursorRec
  <2> DEFINE t == TxBase(fw.tok)
             p == fw.plen
  <2>1. Baselined(c) = [c EXCEPT !.rx = p, !.tx = t, !.buf = 0, !.based = "cur"]
    BY DEF Baselined
  <2>2. t \in 0..(TxMax - 1) /\ p \in 0..(RxMax - 1)  BY <1>1, <1>2
  <2> HIDE DEF t, p
  <2> QED  BY <2>1, <2>2, CounterFacts DEF CursorRec, Rel
<1>4. Zeroed(c, r) \in CursorRec
  <2> DEFINE d == [c EXCEPT !.rx = 0, !.tx = 0, !.buf = 0]
  <2>1. d \in CursorRec  BY CounterFacts DEF CursorRec
  <2>2. Zeroed(c, r) = [d EXCEPT !.pend = FALSE, !.retry = 0, !.based = r]
    BY DEF Zeroed
  <2> HIDE DEF d
  <2> QED  BY <2>1, <2>2, CounterFacts DEF CursorRec
<1>5. \A t \in 0..(TxMax - 1) : [Zeroed(c, r) EXCEPT !.tx = t] \in CursorRec
  <2> DEFINE z == Zeroed(c, r)
  <2> HIDE DEF z
  <2>1. z \in CursorRec  BY <1>4 DEF z
  <2>2. \A t \in 0..(TxMax - 1) : [z EXCEPT !.tx = t] \in CursorRec
    BY <2>1 DEF CursorRec
  <2> QED  BY <2>2 DEF z
<1>6. \A b \in BOOLEAN : /\ [c EXCEPT !.sleep = b] \in CursorRec
                         /\ [c EXCEPT !.rxw = b] \in CursorRec
  BY DEF CursorRec
<1> QED  BY <1>1, <1>3, <1>4, <1>5, <1>6

\* The host's cursor, credit count and cached credits stay within their widths.
LEMMA CursorNext == TypeOK /\ [Next]_vars => cx' \in CursorRec
<1> SUFFICES ASSUME TypeOK, [Next]_vars PROVE cx' \in CursorRec
  OBVIOUS
<1>0. cx \in CursorRec /\ fw \in SlaveRec  BY DEF TypeOK
<1>a. \A c \in CursorRec, r \in Rel :
          /\ Baselined(c) \in CursorRec /\ Zeroed(c, r) \in CursorRec
          /\ TxBase(fw.tok) \in 0..(TxMax - 1)
          /\ \A t \in 0..(TxMax - 1) : [Zeroed(c, r) EXCEPT !.tx = t] \in CursorRec
  BY <1>0, CursorFacts
<1>b. \A c \in CursorRec, b \in BOOLEAN :
          [c EXCEPT !.sleep = b] \in CursorRec /\ [c EXCEPT !.rxw = b] \in CursorRec
  BY DEF CursorRec
<1>c. cx.based \in Rel /\ {"cur", "old", "next"} \subseteq Rel  BY <1>0 DEF CursorRec, Rel
<1>d. NextGen \in Gens /\ [cx EXCEPT !.gen = NextGen] \in CursorRec
  <2>1. cx.gen \in Gens  BY <1>0 DEF CursorRec
  <2>2. NextGen \in Gens  BY <2>1 DEF NextGen, Gens
  <2> HIDE DEF NextGen
  <2> QED  BY <1>0, <2>2 DEF CursorRec
<1>1. CASE UNCHANGED cx  BY <1>0, <1>1
<1>2. CASE FwRestart \/ FwReset \/ FwCrash \/ \E b \in {"PSON", "PSOFF"} : FwPowerSave(b)
  <2>1. cx' = [cx EXCEPT !.based = Age(@)]
    BY <1>2 DEF FwRestart, FwReset, FwCrash, FwPowerSave, AgeAll
  <2>2. Age(cx.based) \in Rel  BY DEF Age, Rel
  <2> QED  BY <1>0, <2>1, <2>2 DEF CursorRec
<1>3. CASE TxCredit
  <2> DEFINE c == IF cx.buf > 0 THEN cx.buf ELSE Credits(fw.tok, cx.tx)
             raw == (fw.tok + TxMax - cx.tx) % TxMax
  <2>1. cx' = cx \/ (c > 0 /\ cx' = [cx EXCEPT !.buf = c - 1])
    BY <1>3 DEF TxCredit
  <2>2. fw.tok + TxMax - cx.tx \in Int
    BY <1>0, CounterFacts DEF SlaveRec, CursorRec
  <2>3. raw \in Nat  BY <2>2, Wraps, CounterFacts
  <2>4. Credits(fw.tok, cx.tx) \in 0..MaxBuf
    <3>1. Credits(fw.tok, cx.tx) = IF raw > MaxBuf THEN MaxBuf ELSE raw  BY DEF Credits
    <3> HIDE DEF raw
    <3> QED  BY <2>3, <3>1, CounterFacts
  <2>5. cx.buf \in 0..MaxBuf  BY <1>0 DEF CursorRec
  <2>6. c \in 0..MaxBuf  BY <2>4, <2>5
  <2> HIDE DEF c
  <2>7. c > 0 => c - 1 \in 0..MaxBuf  BY <2>6, CounterFacts
  <2> QED  BY <1>0, <2>1, <2>7 DEF CursorRec
<1>4. CASE TxCreditError \/ TxGiveUp
  BY <1>0, <1>4, CounterFacts DEF TxCreditError, TxGiveUp, TxAbandon, CursorRec
<1>5. CASE TxWrite
  <2>1. cx' = [cx EXCEPT !.tx = (cx.tx + 1) % TxMax]  BY <1>5 DEF TxWrite
  <2>2. cx.tx + 1 \in Int  BY <1>0, CounterFacts DEF CursorRec
  <2>3. (cx.tx + 1) % TxMax \in 0..(TxMax - 1)  BY <2>2, Wraps
  <2> QED  BY <1>0, <2>1, <2>3 DEF CursorRec
<1>6. CASE Isr \/ RxLenError \/ RxReset \/ ReadError
  <2>1. \/ cx' = [cx EXCEPT !.pend = TRUE, !.rxw = TRUE] \/ cx' = [cx EXCEPT !.pend = TRUE]
        \/ cx' = [cx EXCEPT !.rxw = FALSE, !.pend = FALSE]
    BY <1>6 DEF Isr, RxLenError, RxReset, ReadError
  <2> QED  BY <1>0, <2>1 DEF CursorRec
<1>7. CASE RxNothing
  <2>1. CASE cx.retry < RetryMax /\ cx' = [cx EXCEPT !.retry = @ + 1]
    <3>1. cx.retry + 1 \in 0..RetryMax  BY <1>0, <2>1, CounterFacts DEF CursorRec
    <3> QED  BY <1>0, <2>1, <3>1 DEF CursorRec
  <2>2. CASE cx' = [cx EXCEPT !.rxw = FALSE, !.pend = FALSE,
                              !.retry = IF cx.pend THEN 0 ELSE @]
    BY <1>0, <2>2, CounterFacts DEF CursorRec
  <2> QED  BY <1>7, <2>1, <2>2 DEF RxNothing
<1>8. CASE ReadPacket
  <2>1. \/ cx' = [cx EXCEPT !.rxw = FALSE, !.pend = FALSE]
        \/ cx' = [cx EXCEPT !.rx = fw.plen, !.pend = FALSE, !.retry = 0]
    BY <1>8 DEF ReadPacket
  <2>2. fw.plen \in 0..(RxMax - 1)  BY <1>0 DEF SlaveRec
  <2> QED  BY <1>0, <2>1, <2>2, CounterFacts DEF CursorRec
<1>9. CASE RecClaim \/ PmSuspend  BY <1>0, <1>b, <1>9 DEF RecClaim, PmSuspend
<1>10. CASE RecHard
  <2>1. cx' = cx \/ cx' = Zeroed(cx, "cur") \/ cx' = Zeroed(cx, cx.based)
    BY <1>10 DEF RecHard
  <2> QED  BY <1>0, <1>a, <1>c, <2>1
<1>11. CASE RecSoft \/ RecResyncSlave
  <2>1. cx' = cx \/ cx' = [cx EXCEPT !.gen = NextGen]
    BY <1>11 DEF RecSoft, RecResyncSlave, Handshake
  <2> QED  BY <1>0, <1>d, <2>1
<1>12. CASE RecSoftAck  BY <1>0, <1>a, <1>c, <1>12 DEF RecSoftAck
<1>13. CASE RecReopen  BY <1>0, <1>b, <1>13 DEF RecReopen
<1>14. CASE RecSlaveDone \/ RecResyncOpen
  <2>1. \/ cx' = cx \/ cx' = [Baselined(cx) EXCEPT !.rxw = TRUE]
        \/ cx' = [cx EXCEPT !.rxw = TRUE]
    BY <1>14 DEF RecSlaveDone, RecResyncOpen
  <2> QED  BY <1>0, <1>a, <1>b, <1>c, <2>1
<1>15. CASE RecResyncLive
  <2>1. \/ cx' = [cx EXCEPT !.rxw = TRUE] \/ cx' = [cx EXCEPT !.buf = 0, !.rxw = TRUE]
    BY <1>15 DEF RecResyncLive
  <2> QED  BY <1>0, <2>1, CounterFacts DEF CursorRec
<1>16. CASE BootStart
  <2>1. \/ cx' = cx \/ cx' = [cx EXCEPT !.sleep = FALSE, !.buf = 0, !.rxw = FALSE]
    BY <1>16 DEF BootStart
  <2> QED  BY <1>0, <2>1, CounterFacts DEF CursorRec
<1>17. CASE BootReinit
  <2>1. cx' = cx \/ cx' = Baselined(cx)  BY <1>17 DEF BootReinit
  <2> QED  BY <1>0, <1>a, <1>c, <2>1
<1>18. CASE PmSleep \/ PmResume \/ PmTimeout
  <2>1. cx' = [cx EXCEPT !.gen = NextGen] \/ cx' = [cx EXCEPT !.sleep = FALSE]
    BY <1>18 DEF PmSleep, PmResume, PmTimeout, PmFails, Handshake
  <2> QED  BY <1>0, <1>b, <1>d, <2>1
<1>19. CASE PmAsleep
  <2>1. cx' = cx \/ cx' = [cx EXCEPT !.sleep = FALSE, !.gen = NextGen]
    BY <1>19 DEF PmAsleep
  <2> HIDE DEF NextGen
  <2> QED  BY <1>0, <1>d, <2>1 DEF CursorRec
<1>20. CASE PmBaseline
  <2>1. cx' = [Baselined(cx) EXCEPT !.sleep = FALSE] \/ cx' = [cx EXCEPT !.sleep = FALSE]
    BY <1>20 DEF PmBaseline, PmFails
  <2> QED  BY <1>0, <1>a, <1>b, <1>c, <2>1
<1>21. CASE RemoveEnd  BY <1>0, <1>a, <1>b, <1>c, <1>21 DEF RemoveEnd
<1>22. CASE Probe
  <2>1. \/ cx' = Zeroed(cx, "old")
        \/ cx' = [Zeroed(cx, "cur") EXCEPT !.tx = TxBase(fw.tok)]
    BY <1>22 DEF Probe
  <2> QED  BY <1>0, <1>a, <1>c, <2>1
<1>23. CASE FwInit \/ FwClose \/ FwOpen \/ FwBoot \/ FwReload \/ FwSend
  BY <1>1, <1>23 DEF FwInit, FwClose, FwOpen, FwBoot, FwReload, FwSend, Publish
<1>24. CASE \/ \E k \in Kinds : WritePacket(k)
            \/ CmdEnds \/ FlushTraffic \/ TxBuild \/ TxWriteError \/ IsrError
            \/ RestartRequest \/ RemoveStart
  BY ZenonT(60), <1>1, <1>24 DEF WritePacket, CmdEnds, FlushTraffic, TxBuild,
     TxWriteError, IsrError, RestartRequest, RemoveStart
<1>25. CASE \/ RecGate \/ RecExpire \/ RecBarrier \/ RecSoftTimeout \/ RecResyncDown
            \/ RecResyncRestart \/ RecLive \/ RecAbort
            \/ BootCommit \/ BootFinish \/ BootCallback \/ BootAbort \/ PmAwake
  BY <1>1, <1>25 DEF RecGate, RecExpire, RecBarrier, RecSoftTimeout, RecResyncDown,
     RecResyncRestart, RecLive, RecAbort, BootCommit, BootFinish, BootCallback,
     BootAbort, PmAwake
<1>26. CASE UNCHANGED vars  BY <1>1, <1>26 DEF vars
<1> QED
  BY <1>2, <1>3, <1>4, <1>5, <1>6, <1>7, <1>8, <1>9, <1>10, <1>11, <1>12, <1>13,
     <1>14, <1>15, <1>16, <1>17, <1>18, <1>19, <1>20, <1>21, <1>22, <1>23, <1>24,
     <1>25, <1>26
  DEF Next, Firmware, TxThread, RxWork, Recovery, BootHandler, PowerManagement, Environment

\* The slave holds no more packets than it has buffers, and its registers wrap.
LEMMA SlaveNext == TypeOK /\ [Next]_vars => fw' \in SlaveRec
<1> SUFFICES ASSUME TypeOK, [Next]_vars PROVE fw' \in SlaveRec
  OBVIOUS
<1>0. fw \in SlaveRec /\ cx \in CursorRec  BY DEF TypeOK
<1>a. \A f \in SlaveRec, B \in SUBSET FwBits :
          [f EXCEPT !.bits = @ \cup B] \in SlaveRec /\ [f EXCEPT !.bits = @ \ B] \in SlaveRec
  BY DEF SlaveRec
<1>b. MaxBuf - fw.held \in 0..MaxBuf /\ MaxBuf \in 0..(TxMax - 1)
  BY <1>0, CounterFacts DEF SlaveRec
<1>d. NextGen \in Gens  BY <1>0 DEF NextGen, Gens, CursorRec
<1>e. Restarted \in SlaveRec
  <2> DEFINE f == [fw EXCEPT !.run = "down", !.app = "wait", !.bits = {}, !.plen = 0]
             g == [f EXCEPT !.out = "none", !.irq = FALSE, !.tok = 0, !.held = 0]
             e == [g EXCEPT !.ps = FALSE, !.gen = 0, !.done = 0, !.fed = FALSE]
  <2>1. f \in SlaveRec  BY <1>0, CounterFacts DEF SlaveRec
  <2>2. Restarted = e  BY DEF Restarted
  <2> HIDE DEF f
  <2>3. g \in SlaveRec  BY <2>1, CounterFacts DEF SlaveRec
  <2> HIDE DEF g
  <2>4. e \in SlaveRec  BY <2>3 DEF SlaveRec
  <2> QED  BY <2>2, <2>4
<1>f. \A bit \in FwBits : Handshake(bit) => fw' \in SlaveRec
  <2> SUFFICES ASSUME NEW bit \in FwBits, Handshake(bit) PROVE fw' \in SlaveRec
    OBVIOUS
  <2>1. fw' = [fw EXCEPT !.gen = NextGen, !.done = 0, !.bits = @ \cup {bit}]
    BY DEF Handshake
  <2>2. fw.bits \cup {bit} \in SUBSET FwBits  BY <1>0 DEF SlaveRec
  <2> HIDE DEF NextGen
  <2> QED  BY <1>0, <1>d, <2>1, <2>2 DEF SlaveRec
<1>g. "CLOSE" \in FwBits /\ "RESET" \in FwBits /\ "OPEN" \in FwBits
      /\ "PSON" \in FwBits /\ "PSOFF" \in FwBits
  BY DEF FwBits
<1>h. \A a : RecOpened(a) => fw' \in SlaveRec
  BY ZenonT(60), <1>0, <1>a, <1>g DEF RecOpened
<1>i. ASSUME FwUp, Free > 0, fw' = [fw EXCEPT !.held = @ + 1, !.fed = TRUE]
      PROVE  fw' \in SlaveRec
  <2>1. fw.held + 1 \in 0..MaxBuf  BY <1>0, <1>i, CounterFacts DEF Free, SlaveRec
  <2> QED  BY <1>0, <1>i, <2>1 DEF SlaveRec
<1>1. CASE UNCHANGED fw  BY <1>0, <1>1
<1>2. CASE FwInit  BY <1>0, <1>b, <1>2 DEF FwInit, SlaveRec
<1>3. CASE FwClose
  <2>1. fw.gen \in Gens \cup {0}  BY <1>0 DEF SlaveRec
  <2> QED  BY <1>0, <1>3, <2>1 DEF FwClose, SlaveRec
<1>4. CASE FwRestart \/ FwReset \/ FwCrash  BY <1>e, <1>4 DEF FwRestart, FwReset, FwCrash
<1>5. ASSUME NEW bit \in {"PSON", "PSOFF"}, FwPowerSave(bit) PROVE fw' \in SlaveRec
  <2> DEFINE on == bit = "PSON"
             B == fw.bits \ {bit}
             f == [fw EXCEPT !.ps = on, !.bits = B]
             fr == MaxBuf - fw.held
             g == f.gen
  <2>1. fw' = [f EXCEPT !.plen = 0, !.out = "none", !.irq = FALSE, !.tok = fr, !.done = g]
    BY <1>5 DEF FwPowerSave, LinkReset, Free
  <2>2. B \in SUBSET FwBits /\ on \in BOOLEAN  BY <1>0 DEF SlaveRec
  <2> HIDE DEF on, B
  <2>3. f \in SlaveRec  BY <1>0, <2>2 DEF SlaveRec
  <2>4. fr \in 0..(TxMax - 1)  BY <1>b, CounterFacts
  <2> HIDE DEF f, fr
  <2>5. g \in Gens \cup {0}  BY <2>3 DEF SlaveRec
  <2> HIDE DEF g
  <2> QED  BY <2>1, <2>3, <2>4, <2>5, CounterFacts DEF SlaveRec
<1>6. CASE FwOpen  BY <1>0, <1>6 DEF FwOpen, SlaveRec
<1>7. CASE FwBoot \/ FwSend
  <2>1. PICK kind \in {"boot", "data"}, len \in 1..2 : Publish(kind, len)
    BY <1>7 DEF FwBoot, FwSend, BootLen, DataLen
  <2> DEFINE n == (fw.plen + len) % RxMax
             d == fw.fed /\ kind # "data"
  <2>2. fw' = [fw EXCEPT !.plen = n, !.out = kind, !.irq = TRUE, !.app = "active", !.fed = d]
    BY <2>1 DEF Publish
  <2>3. fw.plen + len \in Int  BY <1>0, CounterFacts DEF SlaveRec
  <2>4. n \in 0..(RxMax - 1) /\ d \in BOOLEAN  BY <1>0, <2>3, Wraps DEF SlaveRec
  <2> HIDE DEF n, d
  <2> QED  BY <1>0, <2>2, <2>4 DEF SlaveRec
<1>8. CASE FwReload
  <2> DEFINE n == (fw.tok + 1) % TxMax
             m == fw.held - 1
  <2>1. fw.held > 0 /\ fw' = [fw EXCEPT !.held = m, !.tok = n]  BY <1>8 DEF FwReload
  <2>2. fw.tok + 1 \in Int /\ m \in 0..MaxBuf
    BY <1>0, <2>1, CounterFacts DEF SlaveRec
  <2>3. n \in 0..(TxMax - 1)  BY <2>2, Wraps
  <2> HIDE DEF n, m
  <2> QED  BY <1>0, <2>1, <2>2, <2>3 DEF SlaveRec
<1>9. CASE TxWrite \/ TxWriteError
  BY <1>1, <1>9, <1>i DEF TxWrite, TxWriteError
<1>10. CASE Isr  BY <1>0, <1>10 DEF Isr, SlaveRec
<1>11. CASE ReadPacket
  <2>1. fw' = fw \/ fw' = [fw EXCEPT !.out = "none"]  BY <1>11 DEF ReadPacket
  <2> QED  BY <1>0, <2>1 DEF SlaveRec
<1>12. CASE RecHard
  <2>1. fw' = fw \/ fw' = Restarted  BY <1>12 DEF RecHard
  <2> QED  BY <1>0, <1>e, <2>1
<1>13. CASE RecSoft \/ RecResyncSlave
  <2>1. UNCHANGED fw \/ Handshake("CLOSE") \/ Handshake("RESET")
    BY <1>13 DEF RecSoft, RecResyncSlave
  <2> QED  BY <1>1, <1>f, <1>g, <2>1
<1>14. CASE RecReopen  BY <1>1, <1>h, <1>14 DEF RecReopen
<1>15. CASE RecSlaveDone
  <2>1. UNCHANGED fw \/ \E a : RecOpened(a)  BY <1>15 DEF RecSlaveDone
  <2> QED  BY <1>1, <1>h, <2>1
<1>16. CASE RecResyncOpen
  <2>1. \E a : RecOpened(a)  BY <1>16 DEF RecResyncOpen
  <2> QED  BY <1>h, <2>1
<1>17. CASE RecResyncLive
  <2>1. fw' = [fw EXCEPT !.bits = @ \cup {"OPEN"}]
    BY <1>17 DEF RecResyncLive, RecOpened
  <2> QED  BY <1>0, <1>a, <1>g, <2>1
<1>18. CASE PmSleep \/ PmResume \/ PmTimeout \/ PmBaseline
  <2>1. UNCHANGED fw \/ Handshake("PSON") \/ Handshake("PSOFF")
    BY <1>18 DEF PmSleep, PmResume, PmTimeout, PmBaseline
  <2> QED  BY <1>1, <1>f, <1>g, <2>1
<1>19. CASE PmAsleep
  <2>1. fw' = fw \/ fw' = [fw EXCEPT !.gen = NextGen, !.done = 0, !.bits = @ \cup {"PSOFF"}]
    BY <1>19 DEF PmAsleep
  <2>2. fw.bits \cup {"PSOFF"} \in SUBSET FwBits  BY <1>0, <1>g DEF SlaveRec
  <2> HIDE DEF NextGen
  <2> QED  BY ZenonT(60), <1>0, <1>d, <2>1, <2>2 DEF SlaveRec
<1>20. CASE RemoveEnd \/ Probe
  <2>1. \/ fw' = fw \/ fw' = [fw EXCEPT !.bits = @ \cup {"CLOSE"}]
        \/ fw' = [fw EXCEPT !.bits = @ \cup {"OPEN"}]
    BY <1>20 DEF RemoveEnd, Probe
  <2> QED  BY <1>0, <1>a, <1>g, <2>1
<1>21. CASE \/ \E k \in Kinds : WritePacket(k)
            \/ CmdEnds \/ FlushTraffic \/ TxBuild \/ TxCredit \/ TxCreditError
            \/ TxGiveUp \/ IsrError \/ RxLenError \/ RxReset \/ RxNothing \/ ReadError
            \/ RestartRequest \/ RemoveStart \/ PmSuspend
  BY ZenonT(60), <1>1, <1>21 DEF WritePacket, CmdEnds, FlushTraffic, TxBuild, TxCredit,
     TxCreditError, TxGiveUp, TxAbandon, IsrError, RxLenError, RxReset, RxNothing,
     ReadError, RestartRequest, RemoveStart, PmSuspend
<1>22. CASE \/ RecGate \/ RecExpire \/ RecClaim \/ RecBarrier \/ RecSoftAck
            \/ RecSoftTimeout \/ RecResyncDown \/ RecResyncRestart \/ RecLive
            \/ RecAbort \/ BootHandler \/ PmAwake
  BY <1>1, <1>22 DEF RecGate, RecExpire, RecClaim, RecBarrier, RecSoftAck,
     RecSoftTimeout, RecResyncDown, RecResyncRestart, RecLive, RecAbort, BootHandler,
     BootStart, BootReinit, BootCommit, BootFinish, BootCallback, BootAbort, PmAwake
<1>23. CASE UNCHANGED vars  BY <1>1, <1>23 DEF vars
<1> QED
  BY <1>2, <1>3, <1>4, <1>5, <1>6, <1>7, <1>8, <1>9, <1>10, <1>11, <1>12, <1>13,
     <1>14, <1>15, <1>16, <1>17, <1>18, <1>19, <1>20, <1>21, <1>22, <1>23
  DEF Next, Firmware, TxThread, RxWork, Recovery, PowerManagement, Environment

\* The TX thread keeps its shape, and never takes more frames than were queued.
LEMMA ThreadNext == TypeOK /\ [Next]_vars => tx' \in ThreadRec /\ q' \subseteq Kinds
<1> SUFFICES ASSUME TypeOK, [Next]_vars PROVE tx' \in ThreadRec /\ q' \subseteq Kinds
  OBVIOUS
<1>0. tx \in ThreadRec /\ q \subseteq Kinds /\ cx.based \in Rel
  BY DEF TypeOK, CursorRec
<1>a. \A t \in ThreadRec :
          /\ TxIdle(t) \in ThreadRec /\ NoEpoch(t) \in ThreadRec
          /\ [t EXCEPT !.for = "old"] \in ThreadRec
          /\ \A c \in {"off", "idle", "ready"} : [t EXCEPT !.pc = c] \in ThreadRec
          /\ [t EXCEPT !.valid = FALSE] \in ThreadRec
  <2> SUFFICES ASSUME NEW t \in ThreadRec
               PROVE  /\ TxIdle(t) \in ThreadRec /\ NoEpoch(t) \in ThreadRec
                      /\ [t EXCEPT !.for = "old"] \in ThreadRec
                      /\ \A c \in {"off", "idle", "ready"} : [t EXCEPT !.pc = c] \in ThreadRec
                      /\ [t EXCEPT !.valid = FALSE] \in ThreadRec
    BY ZenonT(60)
  <2>1. "old" \in Rel  BY DEF Rel
  <2>2. TxIdle(t) \in ThreadRec  BY <2>1 DEF TxIdle, ThreadRec
  <2>3. [t EXCEPT !.for = "old"] \in ThreadRec  BY <2>1 DEF ThreadRec
  <2>4. \A c \in {"off", "idle", "ready"} : [t EXCEPT !.pc = c] \in ThreadRec
    BY DEF ThreadRec
  <2>5. [t EXCEPT !.valid = FALSE] \in ThreadRec  BY DEF ThreadRec
  <2> QED  BY <2>2, <2>3, <2>4, <2>5 DEF NoEpoch
<1>1. CASE UNCHANGED <<tx, q>>  BY <1>0, <1>1
<1>2. CASE FwRestart \/ FwReset \/ FwCrash \/ \E b \in {"PSON", "PSOFF"} : FwPowerSave(b)
  BY <1>0, <1>a, <1>2 DEF FwRestart, FwReset, FwCrash, FwPowerSave, AgeAll
<1>3. ASSUME NEW k \in Kinds, WritePacket(k) PROVE tx' \in ThreadRec /\ q' \subseteq Kinds
  <2>1. tx.n < MaxFrames /\ tx' = [tx EXCEPT !.n = @ + 1] /\ q' = q \cup {k}
    BY <1>3 DEF WritePacket
  <2>2. tx.n + 1 \in 0..MaxFrames  BY <1>0, <2>1, BoundAssumption DEF ThreadRec
  <2> QED  BY <1>0, <2>1, <2>2 DEF ThreadRec
<1>4. CASE FlushTraffic  BY <1>0, <1>4 DEF FlushTraffic
<1>5. CASE TxBuild
  <2>1. PICK s \in Aggregates :
          /\ q' = q \ s
          /\ tx' \in {tx, [tx EXCEPT !.pc = "agg", !.set = s, !.valid = TRUE,
                                     !.for = cx.based]}
    BY ZenonT(60), <1>5 DEF TxBuild
  <2>2. s \in SUBSET Kinds  BY <1>0, <2>1 DEF Aggregates, Kinds
  <2> QED  BY ZenonT(60), <1>0, <2>1, <2>2 DEF ThreadRec
<1>6. CASE TxCredit
  <2>1. q' = q /\ tx' \in {[tx EXCEPT !.pc = "ready"],
                           [tx EXCEPT !.pc = "ready", !.resv = TRUE]}
    BY <1>6 DEF TxCredit
  <2> QED  BY <1>0, <2>1 DEF ThreadRec
<1>7. CASE TxCreditError \/ TxGiveUp \/ TxWrite \/ TxWriteError
  BY <1>0, <1>a, <1>7 DEF TxCreditError, TxGiveUp, TxAbandon, TxWrite, TxWriteError
<1>8. CASE RecBarrier  BY <1>0, <1>a, <1>8 DEF RecBarrier
<1>9. CASE RecHard
  <2>1. (tx' = tx \/ tx' = [tx EXCEPT !.for = "old"]) /\ (q' = q \/ q' = {})
    BY <1>9 DEF RecHard
  <2> QED  BY <1>0, <1>a, <2>1
<1>10. CASE RecSoftAck \/ RecSlaveDone \/ RecResyncOpen
  <2>1. (tx' = tx \/ tx' = NoEpoch(tx)) /\ (q' = q \/ q' = {})
    BY <1>10 DEF RecSoftAck, RecSlaveDone, RecResyncOpen
  <2> QED  BY <1>0, <1>a, <2>1
<1>11. CASE BootStart
  <2>1. (tx' = tx \/ tx' = [TxIdle(tx) EXCEPT !.pc = "off"]) /\ (q' = q \/ q' = {})
    BY <1>11 DEF BootStart
  <2> QED  BY <1>0, <1>a, <2>1
<1>12. CASE BootReinit
  <2>1. (tx' = tx \/ tx' = [NoEpoch(tx) EXCEPT !.pc = "idle"]) /\ q' = q
    BY <1>12 DEF BootReinit
  <2> QED  BY <1>0, <1>a, <2>1
<1>13. CASE PmBaseline  BY <1>0, <1>a, <1>13 DEF PmBaseline
<1>14. CASE RemoveEnd
  <2> DEFINE t == [TxIdle(tx) EXCEPT !.pc = "off"]
  <2>1. tx' = [t EXCEPT !.valid = FALSE] /\ q' = {}  BY <1>14 DEF RemoveEnd
  <2>2. t \in ThreadRec  BY <1>0, <1>a
  <2> HIDE DEF t
  <2> QED  BY <1>a, <2>1, <2>2
<1>15. CASE Probe  BY <1>0, <1>a, <1>15 DEF Probe
<1>16. CASE FwInit \/ FwClose \/ FwOpen \/ FwBoot \/ FwReload \/ FwSend
  BY <1>1, <1>16 DEF FwInit, FwClose, FwOpen, FwBoot, FwReload, FwSend, Publish
<1>17. CASE RxWork \/ CmdEnds \/ IsrError \/ ReadError \/ RestartRequest \/ RemoveStart
            \/ PmSuspend
  BY <1>1, <1>17 DEF RxWork, Isr, RxLenError, RxReset, RxNothing, ReadPacket, CmdEnds,
     IsrError, ReadError, RestartRequest, RemoveStart, PmSuspend
<1>18. CASE \/ RecGate \/ RecExpire \/ RecClaim \/ RecSoft \/ RecSoftTimeout
            \/ RecReopen \/ RecResyncDown \/ RecResyncRestart \/ RecResyncSlave
            \/ RecResyncLive \/ RecLive \/ RecAbort
  BY <1>1, <1>18 DEF RecGate, RecExpire, RecClaim, RecSoft, RecSoftTimeout, RecReopen,
     RecResyncDown, RecResyncRestart, RecResyncSlave, RecResyncLive, RecLive, RecAbort
<1>19. CASE \/ BootCommit \/ BootFinish \/ BootCallback \/ BootAbort
            \/ PmSleep \/ PmAsleep \/ PmResume \/ PmAwake \/ PmTimeout
  BY <1>1, <1>19 DEF BootCommit, BootFinish, BootCallback, BootAbort, PmSleep,
     PmAsleep, PmResume, PmAwake, PmTimeout
<1>20. CASE UNCHANGED vars  BY <1>1, <1>20 DEF vars
<1> QED
  BY <1>2, <1>3, <1>4, <1>5, <1>6, <1>7, <1>8, <1>9, <1>10, <1>11, <1>12, <1>13,
     <1>14, <1>15, <1>16, <1>17, <1>18, <1>19, <1>20
  DEF Next, Firmware, TxThread, Recovery, BootHandler, PowerManagement, Environment

\* Where the recovery worker, the boot-event handler and power management may
\* be, and the environment's count.
LEMMA RestNext ==
    TypeOK /\ [Next]_vars =>
        /\ rec' \in RecoveryRec /\ cmd' \in BOOLEAN /\ ev' \in BOOLEAN
        /\ hs' \in {"none", "rec", "pm"}
        /\ bt' \in {"idle", "reinit", "build", "publish", "callback"}
        /\ pm' \in {"awake", "drain", "onwait", "asleep", "offwait", "unwind", "baseline"}
        /\ faults' \in [n : 0..MaxFaults, silent : BOOLEAN]
<1> DEFINE Bts == {"idle", "reinit", "build", "publish", "callback"}
           Pms == {"awake", "drain", "onwait", "asleep", "offwait", "unwind", "baseline"}
           FaultRec == [n : 0..MaxFaults, silent : BOOLEAN]
<1> SUFFICES ASSUME TypeOK, [Next]_vars
             PROVE  /\ rec' \in RecoveryRec /\ cmd' \in BOOLEAN /\ ev' \in BOOLEAN
                    /\ hs' \in {"none", "rec", "pm"} /\ bt' \in Bts /\ pm' \in Pms
                    /\ faults' \in FaultRec
  OBVIOUS
<1>0. /\ rec \in RecoveryRec /\ cmd \in BOOLEAN /\ ev \in BOOLEAN
      /\ hs \in {"none", "rec", "pm"} /\ bt \in Bts /\ pm \in Pms
      /\ faults \in FaultRec
  BY DEF TypeOK
<1>a. \A k : Fault(k) => faults' \in FaultRec
  <2> SUFFICES ASSUME NEW k, Fault(k) PROVE faults' \in FaultRec
    OBVIOUS
  <2> DEFINE v == faults.silent \/ k = "crash"
  <2>1. faults.n + 1 \in 0..MaxFaults /\ v \in BOOLEAN
    BY <1>0, BoundAssumption DEF Fault
  <2>2. faults' = [n |-> faults.n + 1, silent |-> v]  BY DEF Fault
  <2> HIDE DEF v
  <2> QED  BY <2>1, <2>2
<1>b. faults' = faults => faults' \in FaultRec  BY <1>0
<1> HIDE DEF FaultRec
<1>c. CASE UNCHANGED <<rec, hs, bt, pm, ev, cmd>> /\ faults' \in FaultRec
  BY <1>0, <1>c
<1>d. CmdLeft \in BOOLEAN /\ Purged(cmd) \in BOOLEAN  BY <1>0 DEF CmdLeft, Purged
<1>e. [pc |-> "idle", claim |-> "none"] \in RecoveryRec  BY DEF RecoveryRec
<1>f. \A c \in {"lock", "reopen", "softwait", "reboot", "hard", "rstwait", "live"} :
          [rec EXCEPT !.pc = c] \in RecoveryRec
  BY <1>0 DEF RecoveryRec
<1>1. CASE UNCHANGED vars  BY <1>b, <1>c, <1>1 DEF vars
<1>2. CASE Firmware \/ FwSend \/ FwCrash
  BY <1>a, <1>b, <1>c, <1>2 DEF Firmware, FwInit, FwClose, FwRestart, FwReset, FwOpen,
     FwBoot, FwReload, FwPowerSave, FwSend, FwCrash, Publish
<1>3. CASE \/ FlushTraffic \/ IsrError \/ ReadError \/ RestartRequest \/ RemoveStart
           \/ TxBuild \/ TxCredit \/ Isr \/ RxLenError \/ RxReset \/ RxNothing \/ Probe
  BY ZenonT(60), <1>a, <1>b, <1>c, <1>3 DEF FlushTraffic, IsrError, ReadError, RestartRequest,
     RemoveStart, TxBuild, TxCredit, Isr, RxLenError, RxReset, RxNothing, Probe
<1>4. CASE (\E k \in Kinds : WritePacket(k)) \/ CmdEnds \/ RemoveEnd
  BY ZenonT(60), <1>0, <1>b, <1>4 DEF WritePacket, CmdEnds, RemoveEnd
<1>5. CASE TxCreditError \/ TxGiveUp \/ TxWrite \/ TxWriteError
  BY ZenonT(60), <1>0, <1>a, <1>b, <1>d, <1>5 DEF TxCreditError, TxGiveUp, TxAbandon, TxWrite,
     TxWriteError
<1>6. CASE ReadPacket
  <2>1. ev' \in BOOLEAN  BY <1>0, <1>6 DEF ReadPacket
  <2> QED  BY <1>0, <1>b, <1>6, <2>1 DEF ReadPacket
<1>7. CASE RecGate \/ RecExpire \/ RecLive \/ RecAbort \/ RecSoft
  BY <1>0, <1>a, <1>b, <1>e, <1>f, <1>7 DEF RecGate, RecExpire, RecLive, RecAbort,
     RecSoft, RecIdle, RecFails
<1>8. CASE RecClaim
  <2>1. Claim(h) \in {"none", "stale", "hard", "soft"}  BY DEF Claim
  <2>2. \/ rec' = [rec EXCEPT !.pc = "live"]
        \/ rec' = [rec EXCEPT !.pc = "barrier", !.claim = Claim(h)]
    BY <1>8 DEF RecClaim
  <2>3. rec' \in RecoveryRec
    <3> DEFINE c == Claim(h)
    <3> HIDE DEF c
    <3>1. /\ c \in {"none", "stale", "hard", "soft"}
          /\ \/ rec' = [rec EXCEPT !.pc = "live"]
             \/ rec' = [rec EXCEPT !.pc = "barrier", !.claim = c]
      BY <2>1, <2>2 DEF c
    <3> QED  BY <1>0, <3>1 DEF RecoveryRec
  <2>4. faults' \in FaultRec
    <3> DEFINE v == faults.silent \/ pm = "asleep"
    <3>1. v \in BOOLEAN /\ faults' = [faults EXCEPT !.silent = v]
      BY <1>0, <1>8 DEF RecClaim, FaultRec
    <3> HIDE DEF v
    <3> QED  BY <1>0, <3>1 DEF FaultRec
  <2> QED  BY <1>0, <1>8, <2>3, <2>4 DEF RecClaim
<1>9. CASE RecBarrier
  <2>1. \E c \in {"live", "hard", "soft", "resync"} : rec' = [pc |-> c, claim |-> "none"]
    BY <1>9 DEF RecBarrier
  <2>2. rec' \in RecoveryRec  BY <2>1 DEF RecoveryRec
  <2> QED  BY <1>0, <1>b, <1>9, <2>2 DEF RecBarrier
<1>10. CASE RecHard
  <2>1. rec' = [pc |-> "idle", claim |-> "none"] \/ rec' = [rec EXCEPT !.pc = "reopen"]
    BY <1>10 DEF RecHard, RecFails, RecIdle
  <2>2. cmd' \in {cmd, Purged(cmd)}  BY <1>10 DEF RecHard
  <2>3. hs' \in {hs, "none"}  BY <1>10 DEF RecHard, RecFails
  <2>4. faults' = faults \/ Fault("mmc")  BY <1>10 DEF RecHard
  <2>5. UNCHANGED <<ev, bt, pm>>  BY <1>10 DEF RecHard
  <2> QED  BY <1>0, <1>a, <1>b, <1>d, <1>e, <1>f, <2>1, <2>2, <2>3, <2>4, <2>5
<1>11. CASE RecSoftAck \/ RecSoftTimeout \/ RecReopen \/ RecResyncDown
            \/ RecResyncRestart \/ RecResyncSlave
  BY <1>0, <1>a, <1>b, <1>d, <1>e, <1>f, <1>11 DEF RecSoftAck, RecSoftTimeout, RecReopen,
     RecResyncDown, RecResyncRestart, RecResyncSlave, RecFails, RecIdle, RecOpened, RecTo
<1>12. CASE RecSlaveDone \/ RecResyncOpen \/ RecResyncLive
  BY <1>0, <1>b, <1>d, <1>e, <1>f, <1>12 DEF RecSlaveDone, RecResyncOpen, RecResyncLive,
     RecIdle, RecOpened, RecTo
<1>13. CASE BootHandler
  BY <1>0, <1>a, <1>b, <1>13 DEF BootHandler, BootStart, BootReinit, BootCommit,
     BootFinish, BootCallback, BootAbort, BootFails
<1>14. CASE PmSuspend \/ PmSleep \/ PmResume \/ PmAwake \/ PmBaseline \/ PmTimeout
  BY <1>0, <1>a, <1>b, <1>14 DEF PmSuspend, PmSleep, PmResume, PmAwake, PmBaseline,
     PmTimeout, PmFails
<1>15. CASE PmAsleep
  <2>1. faults' = faults \/ faults' = [faults EXCEPT !.silent = TRUE]
    BY <1>15 DEF PmAsleep
  <2>2. faults' \in FaultRec  BY <1>0, <2>1 DEF FaultRec
  <2> QED  BY <1>0, <1>15, <2>2 DEF PmAsleep
<1> QED
  BY <1>1, <1>2, <1>3, <1>4, <1>5, <1>6, <1>7, <1>8, <1>9, <1>10, <1>11, <1>12,
     <1>13, <1>14, <1>15
  DEF Next, TxThread, RxWork, Recovery, PowerManagement, Environment

\* Both initial firmwares, fresh and left over, have the shape.
LEMMA TypeInit == Init => TypeOK
<1> SUFFICES ASSUME Init PROVE TypeOK
  OBVIOUS
<1>1. h \in HostRec  BY CounterFacts DEF Init, HostRec
<1>2. cx \in CursorRec  BY CounterFacts DEF Init, CursorRec, Gens, Rel
<1>3. tx \in ThreadRec  BY BoundAssumption DEF Init, ThreadRec, Rel
<1>4. rec \in RecoveryRec  BY DEF Init, RecoveryRec
<1>5. fw \in SlaveRec
  <2>1. MaxBuf \in 0..(TxMax - 1) /\ TxMax - 1 \in 0..(TxMax - 1)
        /\ RxMax - 1 \in 0..(RxMax - 1)
    BY CounterFacts
  <2>2. CASE fw = [run |-> "up", app |-> "wait", bits |-> {}, plen |-> 0,
                   out |-> "none", irq |-> FALSE, tok |-> MaxBuf, held |-> 0,
                   ps |-> FALSE, gen |-> 0, done |-> 0, fed |-> FALSE]
    BY <2>1, <2>2, CounterFacts DEF SlaveRec
  <2>3. CASE fw = [run |-> "up", app |-> "active", bits |-> {}, plen |-> RxMax - 1,
                   out |-> "none", irq |-> FALSE, tok |-> TxMax - 1, held |-> 0,
                   ps |-> FALSE, gen |-> 0, done |-> 0, fed |-> FALSE]
    BY <2>1, <2>3, CounterFacts DEF SlaveRec
  <2> QED  BY <2>2, <2>3 DEF Init
<1>6. faults \in [n : 0..MaxFaults, silent : BOOLEAN]  BY BoundAssumption DEF Init
<1> QED  BY <1>1, <1>2, <1>3, <1>4, <1>5, <1>6 DEF Init, TypeOK

\* The link keeps its types: counters and tokens stay within their registers,
\* the slave never holds more than it has buffers for, and neither the boot
\* budget nor the CLOSE budget is overdrawn (esp_sdio.c, sdio_slave_api.c).
THEOREM LinkTypes == Spec => []TypeOK
<1>1. Init => TypeOK  BY TypeInit
<1>2. TypeOK /\ [Next]_vars => TypeOK'
  BY HostNext, CursorNext, SlaveNext, ThreadNext, RestNext DEF TypeOK
<1> QED  BY <1>1, <1>2, PTL DEF Spec

-----------------------------------------------------------------------------
(* The CLOSE handshake *)

\* What a step of anyone but the owner of the handshake leaves alone
Steady == UNCHANGED <<hs, rec, pm>> /\ fw'.gen = fw.gen /\ fw'.done = fw.done
          /\ fw'.run = fw.run /\ ("CLOSE" \in fw.bits => "CLOSE" \in fw'.bits)

\* A restart answers nothing and forgets its generation.
LEMMA RestartKeepsHandshake ==
    HandshakeInv /\ UNCHANGED <<hs, rec, pm>> /\ fw' = Restarted /\ fw \in SlaveRec
        => HandshakeInv'
  BY DEF HandshakeInv, AckMeansRestart, Restarted, SlaveRec

\* The inductive step: one handshake at a time, and only CLOSE's own answer.
LEMMA HandshakeNext == TypeOK /\ HandshakeInv /\ [Next]_vars => HandshakeInv'
<1> SUFFICES ASSUME TypeOK, HandshakeInv, [Next]_vars PROVE HandshakeInv'
  OBVIOUS
<1>0. fw \in SlaveRec /\ cx.gen \in Gens /\ rec \in RecoveryRec
  BY DEF TypeOK, CursorRec
<1>a. NextGen # 0  BY <1>0 DEF NextGen, Gens
<1>1. CASE Steady  BY <1>1 DEF Steady, HandshakeInv, AckMeansRestart
<1>2. CASE FwInit
  <2>1. fw' = [fw EXCEPT !.run = "up", !.tok = MaxBuf] /\ fw.run = "down"
        /\ UNCHANGED <<hs, rec, pm>>
    BY <1>2 DEF FwInit
  <2> QED  BY <1>0, <2>1 DEF HandshakeInv, AckMeansRestart, SlaveRec
<1>3. CASE FwClose
  <2>1. fw' = [fw EXCEPT !.run = "acked", !.done = fw.gen] /\ UNCHANGED <<hs, rec, pm>>
    BY <1>3 DEF FwClose
  <2> QED  BY <1>0, <2>1 DEF HandshakeInv, AckMeansRestart, SlaveRec
<1>4. CASE FwRestart \/ FwReset \/ FwCrash
  BY <1>0, <1>4, RestartKeepsHandshake DEF FwRestart, FwReset, FwCrash
<1>5. ASSUME NEW bit \in {"PSON", "PSOFF"}, FwPowerSave(bit) PROVE HandshakeInv'
  <2>1. /\ fw.run = "up" /\ "CLOSE" \notin fw.bits /\ UNCHANGED <<hs, rec, pm>>
        /\ fw' = LinkReset([fw EXCEPT !.ps = (bit = "PSON"), !.bits = @ \ {bit}])
    BY <1>5 DEF FwPowerSave
  <2>2. fw'.gen = fw.gen /\ fw'.done = fw.gen /\ fw'.run = fw.run
    BY <1>0, <2>1 DEF LinkReset, SlaveRec
  <2> QED  BY <2>1, <2>2 DEF HandshakeInv, AckMeansRestart
<1>6. CASE FwOpen
  <2>1. /\ fw.run = "up" /\ "CLOSE" \notin fw.bits /\ UNCHANGED <<hs, rec, pm>>
        /\ fw'.gen = fw.gen /\ fw'.done = fw.done /\ fw'.run = fw.run
    BY <1>0, <1>6 DEF FwOpen, SlaveRec
  <2> QED  BY <2>1 DEF HandshakeInv, AckMeansRestart
<1>7. CASE FwBoot \/ FwReload \/ FwSend
  BY ZenonT(60), <1>0, <1>1, <1>7 DEF FwBoot, FwReload, FwSend, Publish, Steady, SlaveRec
<1>8. CASE \/ TxWrite \/ TxWriteError \/ Isr \/ ReadPacket \/ RemoveEnd \/ Probe
  <2>1. UNCHANGED <<hs, rec, pm>>
    BY <1>8 DEF TxWrite, TxWriteError, Isr, ReadPacket, RemoveEnd, Probe
  <2>2. \/ fw' = fw \/ fw' = [fw EXCEPT !.held = @ + 1, !.fed = TRUE]
        \/ fw' = [fw EXCEPT !.irq = FALSE] \/ fw' = [fw EXCEPT !.out = "none"]
        \/ fw' = [fw EXCEPT !.bits = @ \cup {"CLOSE"}]
        \/ fw' = [fw EXCEPT !.bits = @ \cup {"OPEN"}]
    BY <1>8 DEF TxWrite, TxWriteError, Isr, ReadPacket, RemoveEnd, Probe
  <2> QED  BY ZenonT(60), <1>0, <1>1, <2>1, <2>2 DEF Steady, SlaveRec
<1>9. CASE \/ \E k \in Kinds : WritePacket(k)
           \/ CmdEnds \/ FlushTraffic \/ TxBuild \/ TxCredit \/ TxCreditError
           \/ TxGiveUp \/ IsrError \/ RxLenError \/ RxReset \/ RxNothing \/ ReadError
           \/ RestartRequest \/ RemoveStart \/ RecExpire
  BY ZenonT(60), <1>1, <1>9 DEF Steady, WritePacket, CmdEnds, FlushTraffic, TxBuild, TxCredit,
     TxCreditError, TxGiveUp, TxAbandon, IsrError, RxLenError, RxReset, RxNothing,
     ReadError, RestartRequest, RemoveStart, RecExpire
<1>10. CASE BootHandler
  BY <1>1, <1>10 DEF Steady, BootHandler, BootStart, BootReinit, BootCommit,
     BootFinish, BootCallback, BootAbort
<1>11. CASE RecGate \/ RecLive \/ RecAbort
  BY <1>0, <1>11 DEF RecGate, RecLive, RecAbort, RecIdle, HandshakeInv, AckMeansRestart,
     RecoveryRec
<1>12. CASE RecClaim
  BY <1>0, <1>12 DEF RecClaim, HandshakeInv, AckMeansRestart, RecoveryRec
<1>13. CASE RecBarrier
  <2>1. /\ UNCHANGED <<fw, pm>> /\ hs = "rec"
        /\ \/ rec'.pc = "live" /\ hs' = "none"
           \/ rec'.pc \in {"hard", "soft", "resync"} /\ UNCHANGED hs
    BY <1>13 DEF RecBarrier, HandshakeInv
  <2> QED  BY <2>1 DEF HandshakeInv, AckMeansRestart
<1>14. CASE RecHard
  <2>1. hs = "rec" /\ UNCHANGED pm  BY <1>14 DEF RecHard, HandshakeInv
  <2>2. \/ UNCHANGED fw /\ rec'.pc = "idle" /\ hs' = "none"
        \/ UNCHANGED hs /\ (fw' = Restarted \/ fw' = fw) /\ rec'.pc = "reopen"
    BY <1>0, <1>14 DEF RecHard, RecFails, RecIdle, RecoveryRec
  <2>3. fw' = Restarted => fw'.gen = 0 /\ fw'.done = 0
    BY <1>0 DEF Restarted, SlaveRec
  <2> QED  BY <2>1, <2>2, <2>3 DEF HandshakeInv, AckMeansRestart
<1>15. CASE RecSoft
  <2>1. hs = "rec" /\ UNCHANGED pm  BY <1>15 DEF RecSoft, HandshakeInv
  <2>2. \/ UNCHANGED fw /\ rec'.pc = "idle" /\ hs' = "none"
        \/ /\ UNCHANGED hs /\ rec'.pc = "softwait"
           /\ fw' = [fw EXCEPT !.gen = NextGen, !.done = 0, !.bits = @ \cup {"CLOSE"}]
    BY <1>0, <1>15 DEF RecSoft, RecFails, RecIdle, Handshake, RecoveryRec
  <2>3. CASE UNCHANGED fw /\ rec'.pc = "idle" /\ hs' = "none"
    BY <2>1, <2>3 DEF HandshakeInv, AckMeansRestart
  <2>4. CASE /\ UNCHANGED hs /\ rec'.pc = "softwait"
             /\ fw' = [fw EXCEPT !.gen = NextGen, !.done = 0, !.bits = @ \cup {"CLOSE"}]
    <3>1. fw'.done = 0 /\ "CLOSE" \in fw'.bits  BY <1>0, <2>4 DEF SlaveRec
    <3> QED  BY <2>1, <2>4, <3>1 DEF HandshakeInv, AckMeansRestart
  <2> QED  BY <2>2, <2>3, <2>4
<1>16. CASE RecSoftAck
  <2>1. /\ rec.pc = "softwait" /\ rec'.pc = "reboot" /\ UNCHANGED <<fw, hs, pm>>
        /\ fw.done = cx.gen
    BY <1>0, <1>16 DEF RecSoftAck, Acked, RecoveryRec
  <2>2. fw.done # 0  BY <1>0, <2>1 DEF Gens
  <2> QED  BY <2>1, <2>2 DEF HandshakeInv, AckMeansRestart
<1>17. CASE RecSoftTimeout \/ RecReopen \/ RecResyncRestart \/ RecResyncOpen
  <2>1. hs = "rec" /\ UNCHANGED pm /\ rec'.pc = "idle" /\ hs' = "none"
    BY <1>17 DEF RecSoftTimeout, RecReopen, RecResyncRestart, RecResyncOpen, RecFails,
       RecOpened, RecIdle, HandshakeInv
  <2>2. fw' = fw \/ fw' = [fw EXCEPT !.bits = @ \cup {"OPEN"}]
    BY <1>17 DEF RecSoftTimeout, RecReopen, RecResyncRestart, RecResyncOpen, RecOpened
  <2>3. fw'.gen = fw.gen /\ fw'.done = fw.done  BY <1>0, <2>2 DEF SlaveRec
  <2> QED  BY <2>1, <2>3 DEF HandshakeInv, AckMeansRestart
<1>18. CASE RecResyncDown
  BY <1>0, <1>18 DEF RecResyncDown, RecTo, HandshakeInv, AckMeansRestart, RecoveryRec
<1>19. CASE RecResyncSlave
  <2>1. hs = "rec" /\ UNCHANGED <<pm, hs>> /\ rec'.pc = "rstwait"
    BY <1>0, <1>19 DEF RecResyncSlave, RecTo, HandshakeInv, RecoveryRec
  <2>2. fw'.done = 0  BY <1>0, <1>19 DEF RecResyncSlave, Handshake, SlaveRec
  <2> QED  BY <2>1, <2>2 DEF HandshakeInv, AckMeansRestart
<1>20. CASE RecSlaveDone \/ RecResyncLive
  <2>1. hs = "rec" /\ UNCHANGED pm
    BY <1>20 DEF RecSlaveDone, RecResyncLive, HandshakeInv
  <2>2. \/ rec'.pc \in {"idle", "live"} /\ hs' = "none"
        \/ rec'.pc = "hard" /\ UNCHANGED hs
    BY <1>0, <1>20 DEF RecSlaveDone, RecResyncLive, RecTo, RecOpened, RecIdle, RecoveryRec
  <2>3. fw' = fw \/ fw' = [fw EXCEPT !.bits = @ \cup {"OPEN"}]
    BY <1>20 DEF RecSlaveDone, RecResyncLive, RecOpened
  <2>4. fw'.gen = fw.gen /\ fw'.done = fw.done  BY <1>0, <2>3 DEF SlaveRec
  <2> QED  BY <2>1, <2>2, <2>4 DEF HandshakeInv, AckMeansRestart
<1>21. CASE PmSuspend
  BY <1>21 DEF PmSuspend, HandshakeInv, AckMeansRestart
<1>22. CASE PmSleep \/ PmResume
  <2>1. /\ UNCHANGED rec /\ rec.pc \in {"idle", "lock", "live"}
        /\ \/ pm' \in {"onwait", "offwait"} /\ hs' = "pm"
           \/ pm' = "awake" /\ hs' = "none"
    BY <1>0, <1>22 DEF PmSleep, PmResume, PmFails, HandshakeInv, RecoveryRec
  <2>2. fw' = fw \/ fw'.done = 0
    BY <1>0, <1>22 DEF PmSleep, PmResume, Handshake, SlaveRec
  <2> QED  BY <2>1, <2>2 DEF HandshakeInv, AckMeansRestart
<1>23. CASE PmAsleep
  <2>1. /\ UNCHANGED rec /\ rec.pc \in {"idle", "lock", "live"}
        /\ \/ pm' = "asleep" /\ hs' = "none"
           \/ pm' = "unwind" /\ hs' = "pm"
    BY <1>0, <1>23 DEF PmAsleep, HandshakeInv, RecoveryRec
  <2>2. fw' = fw \/ fw'.done = 0
    BY <1>0, <1>23 DEF PmAsleep, SlaveRec
  <2> QED  BY <2>1, <2>2 DEF HandshakeInv, AckMeansRestart
<1>24. CASE PmAwake \/ PmBaseline \/ PmTimeout
  <2>1. /\ UNCHANGED <<rec, fw>> /\ rec.pc \in {"idle", "lock", "live"}
        /\ \/ pm' = "baseline" /\ hs' = "pm"
           \/ pm' = "awake" /\ hs' = "none"
    BY <1>0, <1>24 DEF PmAwake, PmBaseline, PmTimeout, PmFails, HandshakeInv, RecoveryRec
  <2> QED  BY <2>1 DEF HandshakeInv, AckMeansRestart
<1>25. CASE UNCHANGED vars  BY <1>1, <1>25 DEF vars, Steady
<1> QED
  BY <1>2, <1>3, <1>4, <1>5, <1>6, <1>7, <1>8, <1>9, <1>10, <1>11, <1>12, <1>13,
     <1>14, <1>15, <1>16, <1>17, <1>18, <1>19, <1>20, <1>21, <1>22, <1>23, <1>24, <1>25
  DEF Next, Firmware, TxThread, RxWork, Recovery, PowerManagement, Environment

\* An acknowledged CLOSE means a restart, whatever else runs: suspend and
\* resume, a boot event of the old session, requests, faults and removal
\* (esp_sdio_handshake_slave_reset, sdio_process_host_bits).
THEOREM AckedCloseRestarts == Spec => []AckMeansRestart
<1>1. Init => HandshakeInv
  BY DEF Init, HandshakeInv, AckMeansRestart
<1>2. TypeOK /\ HandshakeInv /\ [Next]_vars => HandshakeInv'  BY HandshakeNext
<1>3. HandshakeInv => AckMeansRestart  BY DEF HandshakeInv
<1> QED  BY <1>1, <1>2, <1>3, LinkTypes, PTL DEF Spec

-----------------------------------------------------------------------------
(* No reset of a healthy session *)

\* b is no healthier than a: it has no session a had not, and it keeps the
\* marks of a pending recovery and of an expected reset.
NoBetter(a, b) ==
    /\ Has(b, "INIT") => Has(a, "INIT")
    /\ Has(a, "PEND") => Has(b, "PEND")
    /\ Has(a, "EXP") => Has(b, "EXP")

\* Nothing the recovery policy or the reset intents do makes a session healthy.
LEMMA PolicyNoBetter ==
    ASSUME NEW a \in HostRec, NEW r \in BOOLEAN
    PROVE  /\ NoBetter(a, SchedRecovery(a, r)) /\ NoBetter(a, BudgetSync(a))
           /\ NoBetter(a, Arm(a)) /\ NoBetter(a, Quarantine(a))
           /\ NoBetter(a, BootRetry(a)) /\ NoBetter(a, Claimed(a))
           /\ NoBetter(a, CommitBudget(a)) /\ NoBetter(a, SlaveReset(a))
           /\ NoBetter(a, BaseFlags(a)) /\ NoBetter(a, Abandoned(a))
<1>1. \A b \in HostRec, s \in BOOLEAN :
          /\ NoBetter(b, SchedRecovery(b, s)) /\ NoBetter(b, BudgetSync(b))
          /\ NoBetter(b, Arm(b))
  <2> SUFFICES ASSUME NEW b \in HostRec, NEW s \in BOOLEAN
               PROVE  /\ NoBetter(b, SchedRecovery(b, s)) /\ NoBetter(b, BudgetSync(b))
                      /\ NoBetter(b, Arm(b))
    OBVIOUS
  <2>1. \/ SchedRecovery(b, s).fl = b.fl
        \/ SchedRecovery(b, s).fl = b.fl \cup {"PEND"} \cup (IF s THEN {"EXP"} ELSE {})
    BY DEF SchedRecovery, HostRec
  <2>2. BudgetSync(b).fl = b.fl  BY DEF BudgetSync, HostRec
  <2>3. BudgetSync(b) \in HostRec  BY PolicyFacts
  <2>4. Arm(b).fl = b.fl  BY <2>2, <2>3 DEF Arm, HostRec
  <2> QED  BY <2>1, <2>2, <2>4 DEF NoBetter, Has
<1>2. \A b, c, d : NoBetter(b, c) /\ NoBetter(c, d) => NoBetter(b, d)
  BY DEF NoBetter
<1>3. \A b \in HostRec : NoBetter(b, ResetTarget(b))
  <2> SUFFICES ASSUME NEW b \in HostRec PROVE NoBetter(b, ResetTarget(b))
    OBVIOUS
  <2> DEFINE c == BudgetSync(b)
             d == [c EXCEPT !.cur = TRUE, !.hard = TRUE]
  <2>1. c \in HostRec /\ NoBetter(b, c)  BY <1>1, PolicyFacts
  <2>2. d \in HostRec /\ d.fl = c.fl
    <3> HIDE DEF c
    <3> QED  BY <2>1 DEF HostRec
  <2>3. NoBetter(b, d)  BY <2>1, <2>2 DEF NoBetter, Has
  <2>4. Arm(b) \in HostRec /\ NoBetter(b, Arm(b))  BY <1>1, PolicyFacts
  <2>5. ResetTarget(b) \in {b, SchedRecovery(d, TRUE), SchedRecovery(Arm(b), TRUE), c}
    BY Zenon DEF ResetTarget
  <2>6. NoBetter(b, SchedRecovery(d, TRUE)) /\ NoBetter(b, SchedRecovery(Arm(b), TRUE))
    <3> HIDE DEF d
    <3> QED  BY <1>1, <1>2, <2>2, <2>3, <2>4
  <2>7. NoBetter(b, b)  BY DEF NoBetter
  <2> HIDE DEF c, d
  <2> QED  BY <2>1, <2>5, <2>6, <2>7
<1>4. \A b \in HostRec : NoBetter(b, RequestRestart(b))
  <2> SUFFICES ASSUME NEW b \in HostRec PROVE NoBetter(b, RequestRestart(b))
    OBVIOUS
  <2> DEFINE c == [b EXCEPT !.att = @ + 1, !.dl = TRUE, !.used = FALSE,
                            !.fl = @ \cup {"NEED"}]
             d == [b EXCEPT !.fl = @ \cup {"EXH"}]
  <2>1. d.fl = b.fl \cup {"EXH"} /\ c.fl = b.fl \cup {"NEED"}  BY DEF HostRec
  <2>2. NoBetter(b, b) /\ NoBetter(b, c) /\ NoBetter(b, d)
    BY <2>1 DEF NoBetter, Has
  <2>3. \/ RequestRestart(b) \in {b, d}
        \/ b.att < MaxAttempts /\ RequestRestart(b) = ResetTarget(c)
    BY CounterFacts DEF RequestRestart, HostRec
  <2>4. CASE b.att < MaxAttempts /\ RequestRestart(b) = ResetTarget(c)
    <3>1. c \in HostRec
      <4> DEFINE n == b.att + 1
                 f == b.fl \cup {"NEED"}
      <4>1. n \in 0..MaxAttempts /\ f \in SUBSET Flags
        BY <2>4, CounterFacts DEF HostRec, Flags
      <4>2. c = [b EXCEPT !.att = n, !.dl = TRUE, !.used = FALSE, !.fl = f]  OBVIOUS
      <4> HIDE DEF c, n, f
      <4> QED  BY ZenonT(60), <4>1, <4>2 DEF HostRec
    <3>2. NoBetter(c, ResetTarget(c))  BY <1>3, <3>1
    <3> QED  BY <1>2, <2>2, <2>4, <3>2
  <2> HIDE DEF c, d
  <2> QED  BY <2>2, <2>3, <2>4
<1>5. \A b \in HostRec : NoBetter(b, Quarantine(b))
  <2> SUFFICES ASSUME NEW b \in HostRec PROVE NoBetter(b, Quarantine(b))
    OBVIOUS
  <2>1. SchedRecovery(b, TRUE) \in HostRec /\ NoBetter(b, SchedRecovery(b, TRUE))
    BY <1>1, PolicyFacts
  <2> QED  BY <1>2, <1>4, <2>1 DEF Quarantine
<1>6. NoBetter(a, BootRetry(a))
  <2> DEFINE b == [a EXCEPT !.fl = @ \ {"CLEAN"}]
  <2>1. b \in HostRec /\ b.fl = a.fl \ {"CLEAN"}  BY DEF HostRec
  <2>2. NoBetter(a, a) /\ NoBetter(a, b)  BY <2>1 DEF NoBetter, Has
  <2>3. BootRetry(a) \in {a, Quarantine(b)}  BY DEF BootRetry
  <2> HIDE DEF b
  <2> QED  BY <1>2, <1>5, <2>1, <2>2, <2>3
<1>7. NoBetter(a, Claimed(a))
  <2>1. Claimed(a).fl = a.fl \/ Claimed(a).fl = a.fl \cup {"PEND", "EXP"}
    BY DEF Claimed, HostRec
  <2> QED  BY <2>1 DEF NoBetter, Has
<1>8. NoBetter(a, CommitBudget(a))
  <2>1. BudgetSync(a).fl = a.fl /\ BudgetSync(a) \in HostRec
    BY ZenonT(60), PolicyFacts DEF BudgetSync, HostRec
  <2>2. CommitBudget(a).fl = a.fl  BY <2>1 DEF CommitBudget, HostRec
  <2> QED  BY <2>2 DEF NoBetter, Has
<1>9. NoBetter(a, SlaveReset(a))
  <2> DEFINE b == [a EXCEPT !.rst = TRUE]
  <2>1. b \in HostRec /\ b.fl = a.fl  BY DEF HostRec
  <2>2. NoBetter(a, a) /\ NoBetter(a, b)  BY <2>1 DEF NoBetter, Has
  <2>3. SlaveReset(a) \in {a, SchedRecovery(b, FALSE)}  BY DEF SlaveReset
  <2> HIDE DEF b
  <2>4. NoBetter(b, SchedRecovery(b, FALSE))  BY <1>1, <2>1
  <2>5. NoBetter(a, SchedRecovery(b, FALSE))  BY <1>2, <2>2, <2>4, Zenon
  <2> QED  BY <2>2, <2>3, <2>5
<1>10. NoBetter(a, BaseFlags(a))  BY DEF BaseFlags, HostRec, NoBetter, Has
<1>11. NoBetter(a, Abandoned(a))
  <2>1. NoBetter(a, a)  BY DEF NoBetter
  <2> QED  BY <1>5, <2>1 DEF Abandoned
<1> QED  BY <1>1, <1>5, <1>6, <1>7, <1>8, <1>9, <1>10, <1>11

\* Only a commit, while the recovery worker is idle, and the end of a pass make
\* a session healthy.
LEMMA OnlyCommitHeals ==
    TypeOK /\ [Next]_vars =>
        \/ NoBetter(h, h') \/ ~Has(h', "INIT")
        \/ rec.pc = "idle" /\ UNCHANGED rec
        \/ RecLive
<1> SUFFICES ASSUME TypeOK, [Next]_vars,
                    ~(rec.pc = "idle" /\ UNCHANGED rec), ~RecLive
             PROVE  NoBetter(h, h') \/ ~Has(h', "INIT")
  OBVIOUS
<1>0. h \in HostRec  BY DEF TypeOK
<1>a. \A a \in HostRec, r \in BOOLEAN :
          /\ NoBetter(a, SchedRecovery(a, r)) /\ NoBetter(a, Quarantine(a))
          /\ NoBetter(a, Abandoned(a)) /\ NoBetter(a, SlaveReset(a))
          /\ NoBetter(a, BaseFlags(a)) /\ NoBetter(a, BudgetSync(a))
          /\ NoBetter(a, Arm(a)) /\ NoBetter(a, BootRetry(a))
          /\ NoBetter(a, CommitBudget(a)) /\ NoBetter(a, Claimed(a))
          /\ SchedRecovery(a, r) \in HostRec /\ BaseFlags(a) \in HostRec
          /\ Quarantine(a) \in HostRec /\ Arm(a) \in HostRec
          /\ BudgetSync(a) \in HostRec /\ Abandoned(a) \in HostRec
  BY PolicyNoBetter, PolicyFacts, IntentFacts
<1>b. \A b, c, d : NoBetter(b, c) /\ NoBetter(c, d) => NoBetter(b, d)
  BY DEF NoBetter
<1>c. \A b : NoBetter(b, b)  BY DEF NoBetter
<1>d. \A a, b \in HostRec : a.fl = b.fl => NoBetter(a, b)  BY DEF NoBetter, Has
<1>e. \A a \in HostRec : NoBetter(h, a) /\ RecFails(a) => NoBetter(h, h')
  <2> SUFFICES ASSUME NEW a \in HostRec, NoBetter(h, a), RecFails(a)
               PROVE  NoBetter(h, h')
    OBVIOUS
  <2>1. h'.fl = a.fl  BY DEF RecFails, HostRec
  <2> QED  BY <2>1 DEF NoBetter, Has
<1>f. \A a \in HostRec : NoBetter(h, a) /\ RecOpened(a) => NoBetter(h, h')
  <2> SUFFICES ASSUME NEW a \in HostRec, NoBetter(h, a), RecOpened(a)
               PROVE  NoBetter(h, h')
    OBVIOUS
  <2>1. h'.fl = a.fl  BY DEF RecOpened, HostRec
  <2> QED  BY <2>1 DEF NoBetter, Has
<1>g. \A a \in HostRec : NoBetter(h, a) /\ BootFails(a) => NoBetter(h, h')
  <2> SUFFICES ASSUME NEW a \in HostRec, NoBetter(h, a), BootFails(a)
               PROVE  NoBetter(h, h')
    OBVIOUS
  <2> DEFINE b == [a EXCEPT !.fl = @ \ {"RECON"}]
  <2>1. b \in HostRec /\ b.fl = a.fl \ {"RECON"}  BY DEF HostRec
  <2>2. NoBetter(a, b)  BY <2>1 DEF NoBetter, Has
  <2>3. h' = BootRetry(b)  BY DEF BootFails
  <2> HIDE DEF b
  <2> QED  BY <1>a, <1>b, <2>1, <2>2, <2>3
<1>1. CASE UNCHANGED h  BY <1>c, <1>1
<1>2. CASE TxWriteError
  <2> DEFINE a == [h EXCEPT !.rst = ~Closed(h) \/ @]
  <2>1. h' \in {Quarantine(h), Quarantine(a), SlaveReset(h)}
    BY <1>2 DEF TxWriteError
  <2>2. a \in HostRec
    <3> DEFINE v == ~Closed(h) \/ h.rst
    <3>1. v \in BOOLEAN /\ a = [h EXCEPT !.rst = v]  BY <1>0 DEF HostRec
    <3> HIDE DEF v, a
    <3> QED  BY <1>0, <3>1 DEF HostRec
  <2>3. a.fl = h.fl  BY <1>0 DEF HostRec
  <2> HIDE DEF a
  <2>4. NoBetter(h, a)  BY <1>0, <1>d, <2>2, <2>3
  <2>5. NoBetter(a, Quarantine(a))  BY <1>a, <2>2
  <2>6. NoBetter(h, Quarantine(a))  BY <1>b, <2>4, <2>5, Zenon
  <2>7. NoBetter(h, Quarantine(h)) /\ NoBetter(h, SlaveReset(h))  BY <1>0, <1>a
  <2> QED  BY <2>1, <2>6, <2>7
<1>3. CASE \/ FlushTraffic \/ TxCreditError \/ TxGiveUp \/ IsrError \/ RxLenError
           \/ RxReset \/ ReadPacket \/ ReadError \/ RestartRequest \/ RxNothing
  <2>1. \/ h' = h \/ h' = Quarantine(h) \/ h' = SchedRecovery(h, FALSE)
        \/ h' = SchedRecovery(h, TRUE) \/ h' = Abandoned(h)
        \/ h' = Abandoned(SchedRecovery(h, FALSE))
    BY <1>3 DEF FlushTraffic, TxCreditError, TxGiveUp, TxAbandon, IsrError, RxLenError,
       RxReset, ReadPacket, ReadError, RestartRequest, RxNothing
  <2> DEFINE b == SchedRecovery(h, FALSE)
  <2>2. b \in HostRec /\ NoBetter(h, b)  BY <1>0, <1>a
  <2> HIDE DEF b
  <2>3. NoBetter(b, Abandoned(b))  BY <1>a, <2>2
  <2>4. NoBetter(h, Abandoned(b))  BY <1>b, <2>2, <2>3, Zenon
  <2>5. /\ NoBetter(h, h) /\ NoBetter(h, Quarantine(h)) /\ NoBetter(h, Abandoned(h))
        /\ NoBetter(h, SchedRecovery(h, TRUE))
    BY <1>0, <1>a, <1>c
  <2> QED  BY <2>1, <2>2, <2>4, <2>5 DEF b
<1>4. CASE RecGate \/ RecBarrier \/ RecResyncSlave
  <2>1. h'.fl = h.fl  BY ZenonT(60), <1>0, <1>4 DEF RecGate, RecBarrier, RecResyncSlave, HostRec
  <2> QED  BY <2>1 DEF NoBetter, Has
<1>5. CASE RecExpire  BY <1>5 DEF RecExpire
<1>6. CASE RecClaim  BY <1>0, <1>a, <1>6 DEF RecClaim
<1>7. CASE RecSoft
  <2>1. CASE RecFails(h) \/ RecFails(BudgetSync(h))  BY <1>0, <1>a, <1>c, <1>e, <2>1
  <2>2. CASE h' = [BudgetSync(h) EXCEPT !.tries = @ + 1]
    <3>1. h'.fl = BudgetSync(h).fl  BY <1>0, <1>a, <2>2 DEF HostRec
    <3>2. NoBetter(h, BudgetSync(h))  BY <1>0, <1>a
    <3> QED  BY <3>1, <3>2 DEF NoBetter, Has
  <2> QED  BY <1>7, <2>1, <2>2 DEF RecSoft
<1>8. CASE RecSoftAck
  <2>1. h'.fl = (h.fl \ {"NEED"}) \cup {"EXP"}  BY <1>0, <1>8 DEF RecSoftAck, HostRec
  <2> QED  BY <2>1 DEF NoBetter, Has
<1>9. CASE RecSoftTimeout \/ RecReopen \/ RecResyncRestart
  BY <1>0, <1>a, <1>c, <1>e, <1>f, <1>9 DEF RecSoftTimeout, RecReopen, RecResyncRestart
<1>10. CASE RecSlaveDone
  <2> DEFINE b == BaseFlags(h)
  <2>1. b \in HostRec /\ NoBetter(h, b)  BY <1>0, <1>a
  <2>2. h' = h \/ h' = [b EXCEPT !.st = "RDY"] \/ RecOpened(b)
    BY <1>10 DEF RecSlaveDone, RecTo
  <2> HIDE DEF b
  <2>3. CASE h' = [b EXCEPT !.st = "RDY"]
    <3>1. h'.fl = b.fl  BY <2>1, <2>3 DEF HostRec
    <3> QED  BY <2>1, <3>1 DEF NoBetter, Has
  <2> QED  BY <1>c, <1>f, <2>1, <2>2, <2>3
<1>11. CASE RecResyncOpen
  <2> DEFINE b == [h EXCEPT !.fl = @ \cup {"EXP"}, !.rebase = FALSE, !.rst = FALSE]
  <2>1. b.fl = h.fl \cup {"EXP"} /\ RecOpened(b)  BY <1>0, <1>11 DEF RecResyncOpen, HostRec
  <2>2. b \in HostRec
    <3> DEFINE f == h.fl \cup {"EXP"}
    <3>1. f \in SUBSET Flags  BY <1>0 DEF HostRec, Flags
    <3>2. b = [h EXCEPT !.fl = f, !.rebase = FALSE, !.rst = FALSE]  OBVIOUS
    <3> HIDE DEF b, f
    <3> QED  BY <1>0, <3>1, <3>2 DEF HostRec
  <2> HIDE DEF b
  <2>3. NoBetter(h, b)  BY <2>1 DEF NoBetter, Has
  <2> QED  BY <1>f, <2>1, <2>2, <2>3
<1>12. CASE RecResyncLive
  <2> DEFINE f == IF RxDelta > Aggr THEN h.fl \cup {"EXP"} ELSE h.fl
             b == [h EXCEPT !.fl = f]
  <2>1. RecOpened(b) \/ h' = [h EXCEPT !.st = "RDY"]  BY <1>12 DEF RecResyncLive
  <2>2. f \in SUBSET Flags /\ h.fl \subseteq f /\ ("INIT" \in f => "INIT" \in h.fl)
    BY <1>0 DEF HostRec, Flags
  <2> HIDE DEF f
  <2>3. b \in HostRec /\ b.fl = f  BY <1>0, <2>2 DEF HostRec
  <2>4. NoBetter(h, b)  BY <2>2, <2>3 DEF NoBetter, Has
  <2>5. CASE h' = [h EXCEPT !.st = "RDY"]
    <3>1. h'.fl = h.fl  BY <1>0, <2>5 DEF HostRec
    <3> QED  BY <3>1 DEF NoBetter, Has
  <2> HIDE DEF b
  <2> QED  BY <1>f, <2>1, <2>3, <2>4, <2>5
<1>13. CASE RecHard
  <2> DEFINE a == [h EXCEPT !.fl = @ \cup {"EXP"}, !.rebase = TRUE, !.rst = FALSE,
                            !.used = @ \/ FullReset]
             needed(b) == [b EXCEPT !.fl = @ \cup {"NEED"}]
             fallback(b) == IF MayArm(b) THEN Arm(needed(b)) ELSE needed(b)
             done(b) == [b EXCEPT !.fl = @ \ {"NEED"}]
             fb == fallback(a)
  <2>1. a \in HostRec /\ a.fl = h.fl \cup {"EXP"}
    <3> DEFINE f == h.fl \cup {"EXP"}
               u == h.used \/ FullReset
               c == [h EXCEPT !.fl = f, !.rebase = TRUE]
    <3>1. f \in SUBSET Flags /\ u \in BOOLEAN  BY <1>0 DEF HostRec, Flags, FullReset
    <3>2. a = [c EXCEPT !.rst = FALSE, !.used = u]  OBVIOUS
    <3> HIDE DEF a, f, u
    <3>3. c \in HostRec /\ c.fl = f  BY <1>0, <3>1 DEF HostRec
    <3> HIDE DEF c
    <3>4. a \in HostRec /\ a.fl = c.fl  BY <3>1, <3>2, <3>3 DEF HostRec
    <3> QED  BY <3>3, <3>4 DEF f
  <2>2. \/ RecFails(Quarantine(h)) \/ RecFails([fb EXCEPT !.noHard = TRUE])
        \/ RecFails(fb) \/ h' = done(a)
    BY <1>13 DEF RecHard
  <2> HIDE DEF a
  <2>3. NoBetter(h, a)  BY <2>1 DEF NoBetter, Has
  <2>4. /\ needed(a) \in HostRec /\ needed(a).fl = a.fl \cup {"NEED"}
        /\ done(a) \in HostRec /\ done(a).fl = a.fl \ {"NEED"}
    <3>1. a.fl \cup {"NEED"} \in SUBSET Flags  BY <2>1 DEF HostRec, Flags
    <3> QED  BY <2>1, <3>1 DEF HostRec
  <2>5. NoBetter(h, needed(a)) /\ NoBetter(h, done(a))
    <3>1. NoBetter(a, needed(a)) /\ NoBetter(a, done(a))  BY <2>4 DEF NoBetter, Has
    <3> HIDE DEF needed, done
    <3> QED  BY <1>b, <2>3, <3>1
  <2>6. fb \in HostRec /\ NoBetter(h, fb)
    <3> HIDE DEF needed
    <3> QED  BY <1>a, <1>b, <2>4, <2>5
  <2> HIDE DEF fb, done
  <2>7. [fb EXCEPT !.noHard = TRUE] \in HostRec /\ [fb EXCEPT !.noHard = TRUE].fl = fb.fl
    BY <2>6 DEF HostRec
  <2>8. NoBetter(h, [fb EXCEPT !.noHard = TRUE])  BY <2>6, <2>7 DEF NoBetter, Has
  <2> QED  BY <1>0, <1>a, <1>e, <2>2, <2>5, <2>6, <2>7, <2>8
<1>14. CASE BootStart  BY <1>14 DEF BootStart
<1>15. CASE BootReinit
  <2> DEFINE b == BaseFlags(h)
  <2>1. b \in HostRec /\ NoBetter(h, b)  BY <1>0, <1>a
  <2>2. \/ BootFails(b) \/ h' = [b EXCEPT !.fl = @ \cup {"RECON"}, !.st = "RDY",
                                          !.dirty = @ \ {"bt"}]
    BY <1>15 DEF BootReinit
  <2> HIDE DEF b
  <2>3. CASE h' = [b EXCEPT !.fl = @ \cup {"RECON"}, !.st = "RDY", !.dirty = @ \ {"bt"}]
    <3>1. h'.fl = b.fl \cup {"RECON"}  BY <2>1, <2>3 DEF HostRec
    <3> QED  BY <2>1, <3>1 DEF NoBetter, Has
  <2> QED  BY <1>g, <2>1, <2>2, <2>3
<1>16. CASE BootCommit
  <2>1. BootFails(h)  BY <1>16 DEF BootCommit
  <2> QED  BY <1>0, <1>c, <1>g, <2>1
<1>17. CASE BootFinish
  <2> DEFINE a == [h EXCEPT !.fl = (@ \cup {"CLEAN"}) \ {"INIT"}]
             b == [h EXCEPT !.att = 0, !.dl = FALSE, !.fl = @ \ {"EXH"},
                            !.cur = FALSE, !.fresh = FALSE]
  <2>1. a.fl = (h.fl \cup {"CLEAN"}) \ {"INIT"} /\ b.fl = h.fl \ {"EXH"}
    BY <1>0 DEF HostRec
  <2>2. a \in HostRec
    <3> DEFINE f == (h.fl \cup {"CLEAN"}) \ {"INIT"}
    <3>1. f \in SUBSET Flags /\ a = [h EXCEPT !.fl = f]  BY <1>0 DEF HostRec, Flags
    <3> HIDE DEF a, f
    <3> QED  BY <1>0, <3>1 DEF HostRec
  <2>3. BootFails(a) \/ h' = b \/ h' = h  BY <1>17 DEF BootFinish
  <2> HIDE DEF a, b
  <2>4. NoBetter(h, a) /\ NoBetter(h, b)  BY <2>1 DEF NoBetter, Has
  <2> QED  BY <1>c, <1>g, <2>2, <2>3, <2>4
<1>18. CASE BootCallback \/ BootAbort
  BY <1>0, <1>a, <1>c, <1>18 DEF BootCallback, BootAbort
<1>19. CASE PmSleep \/ PmResume \/ PmBaseline \/ PmTimeout
  <2>1. h' = h \/ h' = Quarantine(h) \/ h' = BaseFlags(h)
    BY <1>19 DEF PmSleep, PmResume, PmBaseline, PmTimeout, PmFails
  <2> QED  BY <1>0, <1>a, <1>c, <2>1
<1>20. CASE RemoveStart
  <2>1. h'.fl = (h.fl \cup {"REMOVING", "CLEAN"}) \ {"INIT"}
    BY <1>0, <1>20 DEF RemoveStart, HostRec
  <2> QED  BY <2>1 DEF Has
<1>21. CASE RemoveEnd  BY <1>21 DEF RemoveEnd
<1>22. CASE Probe
  <2> DEFINE b == [h EXCEPT !.fl = @ \ {"REMOVING"}, !.st = "RX"]
  <2>1. Rebound(h).fl = h.fl \ {"REMOVING"} \/ Rebound(h).fl = {}
    BY <1>0 DEF Rebound, HostRec
  <2>2. Rebound(h) \in HostRec  BY <1>0, IntentFacts
  <2>3. NoBetter(h, Rebound(h)) \/ ~Has(Rebound(h), "INIT")
    BY <2>1 DEF NoBetter, Has
  <2>4. NoBetter(Rebound(h), h')
    <3>1. CASE h' = Quarantine(Rebound(h))  BY <1>a, <2>2, <3>1
    <3>2. CASE h' = [Rebound(h) EXCEPT !.work = TRUE]
      <4>1. h'.fl = Rebound(h).fl  BY <2>2, <3>2 DEF HostRec
      <4> QED  BY <4>1 DEF NoBetter, Has
    <3> QED  BY <1>22, <3>1, <3>2 DEF Probe
  <2> QED  BY <1>b, <2>3, <2>4 DEF NoBetter
<1>23. CASE Firmware \/ FwSend \/ FwCrash
  BY <1>1, <1>23 DEF Firmware, FwInit, FwClose, FwRestart, FwReset, FwOpen, FwBoot,
     FwReload, FwPowerSave, FwSend, FwCrash, Publish
<1>24. CASE \/ \E k \in Kinds : WritePacket(k)
            \/ CmdEnds \/ TxBuild \/ TxCredit \/ TxWrite \/ Isr
            \/ RecResyncDown \/ RecAbort \/ PmSuspend \/ PmAwake \/ PmAsleep
  BY ZenonT(60), <1>1, <1>24 DEF WritePacket, CmdEnds, TxBuild, TxCredit, TxWrite, Isr,
     RecResyncDown, RecAbort, PmSuspend, PmAwake, PmAsleep
<1>25. CASE UNCHANGED vars  BY <1>1, <1>25 DEF vars
<1> QED
  BY <1>2, <1>3, <1>4, <1>5, <1>6, <1>7, <1>8, <1>9, <1>10, <1>11, <1>12, <1>13,
     <1>14, <1>15, <1>16, <1>17, <1>18, <1>19, <1>20, <1>21, <1>22, <1>23, <1>24, <1>25
  DEF Next, TxThread, RxWork, Recovery, BootHandler, PowerManagement, Environment

\* What a step does to the recovery worker: nothing, or it begins a pass on a
\* session that is not healthy and leaves the flags alone, or it goes on with a
\* pass; a reset is claimed by RecClaim alone, for the current session.
LEMMA WorkerSteps ==
    TypeOK /\ PassInv /\ [Next]_vars =>
        \/ UNCHANGED rec
        \/ RecGate /\ ~Healthy(h) /\ h'.fl = h.fl /\ fw' = fw
           /\ rec'.pc = "lock" /\ rec'.claim = "none"
        \/ RecLive /\ rec' = [pc |-> "idle", claim |-> "none"]
        \/ RecClaim /\ rec.pc = "lock" /\ (rec'.claim \in {"hard", "soft"} => h.cur)
           /\ (rec'.pc # "barrier" => rec'.claim = "none")
        \/ rec.pc \notin {"idle", "live"} /\ rec'.claim = "none"
<1> SUFFICES ASSUME TypeOK, PassInv, [Next]_vars, rec' # rec
             PROVE
        \/ RecGate /\ ~Healthy(h) /\ h'.fl = h.fl /\ fw' = fw
           /\ rec'.pc = "lock" /\ rec'.claim = "none"
        \/ RecLive /\ rec' = [pc |-> "idle", claim |-> "none"]
        \/ RecClaim /\ rec.pc = "lock" /\ (rec'.claim \in {"hard", "soft"} => h.cur)
           /\ (rec'.pc # "barrier" => rec'.claim = "none")
        \/ rec.pc \notin {"idle", "live"} /\ rec'.claim = "none"
  OBVIOUS
<1>0. h \in HostRec /\ rec \in RecoveryRec  BY DEF TypeOK
<1>1. CASE RecGate
  <2>1. ~Healthy(h) /\ rec.pc = "idle" /\ rec' = [rec EXCEPT !.pc = "lock"] /\ fw' = fw
        /\ h' = [h EXCEPT !.work = FALSE, !.dirty = @ \ {"rec"}]
    BY <1>1 DEF RecGate
  <2>2. rec.claim = "none"  BY <2>1 DEF PassInv
  <2>3. rec'.pc = "lock" /\ rec'.claim = "none"  BY <1>0, <2>1, <2>2 DEF RecoveryRec
  <2>4. h'.fl = h.fl  BY <1>0, <2>1 DEF HostRec
  <2> QED  BY <1>1, <2>1, <2>3, <2>4
<1>2. CASE RecLive  BY <1>2 DEF RecLive, RecIdle
<1>3. CASE RecClaim
  <2>1. rec.pc = "lock" /\ rec.claim = "none"  BY <1>3 DEF RecClaim, PassInv
  <2>2. \/ rec' = [rec EXCEPT !.pc = "live"]
        \/ rec' = [rec EXCEPT !.pc = "barrier", !.claim = Claim(h)]
    BY <1>3 DEF RecClaim
  <2>3. Claim(h) \in {"hard", "soft"} => h.cur  BY <1>0 DEF Claim, HostRec
  <2>4. CASE rec' = [rec EXCEPT !.pc = "live"]
    BY <1>0, <1>3, <2>1, <2>4 DEF RecoveryRec
  <2>5. CASE rec' = [rec EXCEPT !.pc = "barrier", !.claim = Claim(h)]
    <3>1. rec'.pc = "barrier" /\ rec'.claim = Claim(h)  BY <1>0, <2>5 DEF RecoveryRec
    <3> QED  BY <1>3, <2>1, <2>3, <3>1
  <2> QED  BY <2>2, <2>4, <2>5
<1>4. CASE RecBarrier
  BY <1>4 DEF RecBarrier
<1>5. CASE \/ RecHard \/ RecSoft \/ RecSoftAck \/ RecSoftTimeout \/ RecReopen
           \/ RecResyncDown \/ RecResyncRestart \/ RecResyncSlave \/ RecSlaveDone
           \/ RecResyncOpen \/ RecResyncLive
  <2>1. rec.pc \notin {"idle", "live", "barrier"}
    BY <1>5 DEF RecHard, RecSoft, RecSoftAck, RecSoftTimeout, RecReopen, RecResyncDown,
       RecResyncRestart, RecResyncSlave, RecSlaveDone, RecResyncOpen, RecResyncLive
  <2>2. rec.claim = "none"  BY <2>1 DEF PassInv
  <2>3. \/ rec' = [pc |-> "idle", claim |-> "none"]
        \/ \E s \in {"hard", "softwait", "reboot", "reopen", "rstwait", "live"} :
              rec' = [rec EXCEPT !.pc = s]
    BY <1>5 DEF RecHard, RecSoft, RecSoftAck, RecSoftTimeout, RecReopen, RecResyncDown,
       RecResyncRestart, RecResyncSlave, RecSlaveDone, RecResyncOpen, RecResyncLive,
       RecFails, RecOpened, RecTo, RecIdle
  <2>4. rec'.claim = "none"  BY <1>0, <2>2, <2>3 DEF RecoveryRec
  <2> QED  BY <2>1, <2>4
<1>6. CASE RecAbort  BY <1>6 DEF RecAbort, RecIdle
<1>7. CASE RecExpire  BY <1>7 DEF RecExpire
<1>8. CASE Firmware \/ FwSend \/ FwCrash
  BY <1>8 DEF Firmware, FwInit, FwClose, FwRestart, FwReset, FwOpen, FwBoot,
     FwReload, FwPowerSave, FwSend, FwCrash, Publish
<1>9. CASE PowerManagement \/ RemoveEnd \/ Probe
  BY <1>9 DEF PowerManagement, PmSleep, PmAsleep, PmResume, PmAwake, PmBaseline,
     PmTimeout, PmFails, RemoveEnd, Probe
<1>10. CASE Environment
  BY <1>10 DEF Environment, WritePacket, CmdEnds, FlushTraffic, IsrError, ReadError,
     RestartRequest, PmSuspend, RemoveStart
<1>11. CASE TxThread \/ RxWork
  BY ZenonT(60), <1>11 DEF TxThread, TxBuild, TxCredit, TxCreditError, TxGiveUp, TxAbandon, TxWrite,
     TxWriteError, RxWork, Isr, RxLenError, RxReset, RxNothing, ReadPacket
<1>12. CASE BootHandler
  BY <1>12 DEF BootHandler, BootStart, BootReinit, BootCommit, BootFinish, BootCallback,
     BootAbort, BootFails
<1>13. CASE UNCHANGED vars  BY <1>13 DEF vars
<1> QED
  BY <1>1, <1>2, <1>3, <1>4, <1>5, <1>6, <1>7, <1>8, <1>9, <1>10, <1>11, <1>12, <1>13
  DEF Next, Recovery

\* PassInv is kept: nothing but the end of a pass, or a commit, which waits for
\* the worker to be idle, makes the session a pass works on healthy.
LEMMA PassNext == TypeOK /\ PassInv /\ [Next]_vars => PassInv'
<1> SUFFICES ASSUME TypeOK, PassInv, [Next]_vars  PROVE PassInv'
  OBVIOUS
<1>1. rec'.pc # "barrier" => rec'.claim = "none"
  <2>1. CASE UNCHANGED rec  BY <2>1 DEF PassInv
  <2> QED  BY <2>1, WorkerSteps
<1>2. ASSUME rec'.pc \notin {"idle", "live"}  PROVE ~Healthy(h)'
  <2>1. CASE RecGate /\ ~Healthy(h) /\ h'.fl = h.fl
    BY <2>1 DEF Healthy, Has
  <2>2. CASE rec.pc \notin {"idle", "live"} /\ ~RecLive
    <3>1. ~Healthy(h)  BY <2>2 DEF PassInv
    <3>2. NoBetter(h, h') \/ ~Has(h', "INIT")  BY <2>2, OnlyCommitHeals
    <3> QED  BY <3>1, <3>2 DEF NoBetter, Healthy, Has
  <2>3. ~RecLive
    BY <1>2 DEF RecLive, RecIdle
  <2>4. \/ RecGate /\ ~Healthy(h) /\ h'.fl = h.fl
        \/ rec.pc \notin {"idle", "live"}
    <3>1. CASE UNCHANGED rec  BY <1>2, <3>1
    <3> QED  BY <2>3, <3>1, WorkerSteps
  <2> QED  BY <2>1, <2>2, <2>3, <2>4
<1> QED  BY <1>1, <1>2 DEF PassInv

\* No step of the recovery worker resets a healthy session or the firmware
\* behind it, and the hard or soft reset it claims was asked for under the
\* commit epoch that still stands: whatever overlaps the pass, a reset requested
\* of an earlier session is dropped (esp_sdio_claim_reset_locked and
\* esp_sdio_recover_transport_inner behind esp_fw_recovery_work's gate).
THEOREM ResetsFresh == Spec => NoStaleReset
<1>1. Init => PassInv
  BY DEF Init, PassInv
<1>2. TypeOK /\ PassInv /\ [Next]_vars => PassInv'  BY PassNext
<1>3. ASSUME TypeOK, PassInv, [Next]_vars, rec' # rec
      PROVE  /\ Healthy(h) => Healthy(h') /\ (rec.pc \in {"hard", "soft"} => fw' = fw)
             /\ rec'.claim \in {"hard", "soft"} => h.cur
  <2>1. CASE rec.pc \notin {"idle", "live"}
    <3>1. ~Healthy(h)  BY <1>3, <2>1 DEF PassInv
    <3>2. rec'.claim \in {"hard", "soft"} => h.cur
      BY <1>3, <2>1, WorkerSteps
    <3> QED  BY <3>1, <3>2
  <2>2. CASE RecGate /\ ~Healthy(h) /\ rec'.claim = "none"  BY <2>2
  <2>3. CASE RecLive /\ rec' = [pc |-> "idle", claim |-> "none"]
    <3>1. h \in HostRec  BY <1>3 DEF TypeOK
    <3>2. h' \in {h, [h EXCEPT !.work = TRUE], [h EXCEPT !.fl = @ \ {"PEND"}]}
      BY <2>3 DEF RecLive
    <3>3. h'.fl = h.fl \/ h'.fl = h.fl \ {"PEND"}  BY <3>1, <3>2 DEF HostRec
    <3>4. Healthy(h) => Healthy(h')  BY <3>3 DEF Healthy, Has
    <3>5. rec.pc = "live"  BY <2>3 DEF RecLive
    <3> QED  BY <2>3, <3>4, <3>5
  <2> QED  BY <1>3, <2>1, <2>2, <2>3, WorkerSteps
<1>4. TypeOK /\ PassInv /\ [Next]_vars =>
        [rec' # rec =>
         /\ Healthy(h) => Healthy(h') /\ (rec.pc \in {"hard", "soft"} => fw' = fw)
         /\ rec'.claim \in {"hard", "soft"} => h.cur]_vars
  BY <1>3
<1> QED  BY <1>1, <1>2, <1>4, LinkTypes, PTL DEF Spec, NoStaleReset

-----------------------------------------------------------------------------
(* Credits and epochs *)

\* What the host may still write by its own count, and the buffer reserved for
\* the aggregate the TX thread holds
Window == (fw.tok + TxMax - cx.tx) % TxMax
Reserved == IF tx.resv /\ tx.valid THEN 1 ELSE 0

\* Every write the host's count allows has a free buffer of the slave, and the
\* cached and the reserved credits are among them; a firmware that is down has
\* no buffers, and the count starts at zero with it.
Backed ==
    IF FwUp THEN Window <= Free /\ cx.buf + Reserved <= Window
    ELSE cx.tx = 0 /\ cx.buf = 0 /\ Reserved = 0

\* Somebody knows that the count may be off: the reset that mends it is
\* expected, asked for, or under way, and a reconstruction under way will not
\* commit without seeing it.
Recorded ==
    \/ Has(h, "EXP") \/ rec.pc \in {"rstwait", "hard"}
    \/ h.rst /\ Has(h, "PEND") /\ (rec.pc = "live" => "rec" \in h.dirty)
Noted == Closed(h) \/ (Recorded /\ (Has(h, "RECON") => "bt" \in h.dirty))

\* The aggregate was built for another incarnation, or without a credit.
Stale == cx.based = "cur" /\ tx.valid /\ tx.for # "cur"
Unpaid == cx.based = "cur" /\ tx.pc = "ready" /\ tx.valid /\ ~tx.resv

StaleInv == Stale => Noted /\ h.st # "RDY"
CountInv ==
    /\ cx.based = "cur" => Backed \/ (Noted /\ (h.st = "RDY" => Has(h, "RECON")))
    /\ Unpaid => cx.sleep \/ (h.st # "RDY" /\ (Noted \/ rec.pc = "barrier"))

\* Nothing is bound: no thread of the driver runs, and the firmware has its
\* buffers or is about to restart.
OffInv ==
    h.st = "OFF" =>
        /\ tx.pc = "off" /\ tx.set = {} /\ q = {} /\ ~Has(h, "INIT")
        /\ "CLOSE" \in fw.bits \/ fw.held = 0
        /\ bt = "idle" /\ rec.pc = "idle" /\ ~ev /\ ~cx.rxw /\ pm = "awake"
        /\ Closed(h) \/ ~h.work

\* The TX thread reserves only for the write it is about to make, and is
\* stopped while the boot handler rebuilds the transport.
ThreadInv ==
    /\ tx.resv => tx.pc = "ready"
    /\ tx.pc = "off" => ~tx.valid
    /\ bt = "reinit" => tx.pc = "off"
    /\ fw.run = "down" => fw.held = 0 /\ fw.tok = 0

\* A removal closes everything, and suspends nothing.
RemoveInv == Closed(h) => h.st \in {"DIS", "OFF"} /\ ~Has(h, "INIT") /\ pm = "awake"

\* The boot handler and the recovery worker run together only when a reset is
\* expected, and the TX gate is open to a pass that may find a live session
\* only then.
OverlapInv ==
    /\ bt = "build" => Has(h, "RECON")
    /\ Has(h, "RECON") => bt = "build" \/ Closed(h) \/ Has(h, "EXP")
    /\ bt = "reinit" => Closed(h) \/ Has(h, "CLEAN") \/ Has(h, "EXP")
    /\ bt \in {"reinit", "build"} /\ rec.pc # "idle" => Has(h, "EXP") \/ Closed(h)
    /\ rec.pc = "resync" => h.st # "RDY" \/ Has(h, "EXP") \/ Closed(h)
    /\ rec.pc = "live" => Has(h, "INIT") \/ Has(h, "EXP") \/ Closed(h)

\* While host_sleep is set the system is suspending: no reconstruction and no
\* recovery pass runs, and TX is open to a healthy session only.
SleepInv ==
    cx.sleep =>
        /\ pm \notin {"awake", "unwind"} /\ rec.pc \in {"idle", "lock", "live"}
        /\ ~Has(h, "RECON") /\ bt # "reinit" /\ ~Closed(h) /\ h.st # "OFF"
        /\ {"INIT", "PEND", "EXP"} \cap h.fl # {}
        /\ Healthy(h) \/ h.st # "RDY"

\* The host is ahead of the firmware only from an acknowledged CLOSE to the
\* restart it announces.
NextInv ==
    cx.based = "next" =>
        fw.run = "acked" /\ (Closed(h) \/ (rec.pc = "reboot" /\ Has(h, "EXP")))

LinkInv == /\ OffInv /\ ThreadInv /\ RemoveInv /\ OverlapInv /\ SleepInv
           /\ NextInv

\* The host restarts its count under an open TX path: a power cycle, or the
\* restart a CLOSE announced, meets a reconstruction that the boot handler
\* began after the boot deadline expired on it.
ResetUnderTx ==
    /\ ~Closed(h) /\ (h.st = "RDY" \/ Has(h, "RECON"))
    /\ RecHard \/ (FwRestart /\ cx.based = "next")

\* Besides that, two steps count a buffer twice: a baseline of a resume, of a boot
\* event or of an acknowledged slave reset that credits the buffers the slave has
\* not loaded again, and a suspend undone for want of MMC_PM_KEEP_POWER, which a late
\* CLOSE had acknowledged and which lets the TX thread write what it did not
\* reserve.
InventsCredit ==
    \/ ResetUnderTx
    \/ fw.held > 0 /\ (((PmBaseline \/ BootReinit) /\ FwUp) \/ (RecSlaveDone /\ Acked))
    \/ PmAsleep /\ pm' = "unwind" /\ cx.based = "cur"

\* b is a with no mark taken away: the flags that say what is wrong stay, TX is
\* only ever closed, and it is closed when a mark is set, unless a
\* reconstruction holds it open.
Worse(a, b) ==
    /\ (Has(b, "INIT") <=> Has(a, "INIT")) /\ (Has(b, "RECON") <=> Has(a, "RECON"))
    /\ Closed(b) <=> Closed(a)
    /\ Has(a, "PEND") => Has(b, "PEND")
    /\ Has(a, "EXP") => Has(b, "EXP")
    /\ Has(a, "CLEAN") => Has(b, "CLEAN") \/ Has(b, "EXP")
    /\ a.dirty \subseteq b.dirty /\ (a.rst => b.rst)
    /\ b.st = a.st \/ (a.st = "RDY" /\ b.st = "RX" /\ Has(b, "PEND"))
    /\ b.st = "RDY" /\ ~Has(b, "RECON") =>
         (Has(b, "PEND") => Has(a, "PEND")) /\ (Has(b, "EXP") => Has(a, "EXP"))

\* In addition a recovery is pending, both snapshots are out of date, and TX is
\* closed.
Marked(a, b) ==
    /\ Worse(a, b)
    /\ ~Closed(a) => /\ Has(b, "PEND") /\ {"rec", "bt"} \subseteq b.dirty
                     /\ b.st = "RDY" => Has(b, "RECON")

\* In addition a firmware reset is expected.
Condemned(a, b) == Marked(a, b) /\ (~Closed(a) => Has(b, "EXP"))

\* Marks accumulate.
LEMMA WorseOrder ==
    /\ \A a : Worse(a, a)
    /\ \A a, b, c : Worse(a, b) /\ Worse(b, c) => Worse(a, c)
    /\ \A a, b, c : Marked(a, b) /\ Worse(b, c) => Marked(a, c)
    /\ \A a, b, c : Worse(a, b) /\ Marked(b, c) => Marked(a, c)
    /\ \A a, b, c : Condemned(a, b) /\ Worse(b, c) => Condemned(a, c)
    /\ \A a, b, c : Worse(a, b) /\ Condemned(b, c) => Condemned(a, c)
<1>1. \A a : Worse(a, a)  BY DEF Worse
<1>2. \A a, b, c : Worse(a, b) /\ Worse(b, c) => Worse(a, c)
  BY DEF Worse
<1>3. \A a, b, c : Marked(a, b) /\ Worse(b, c) => Marked(a, c)
  <2> SUFFICES ASSUME NEW a, NEW b, NEW c, Marked(a, b), Worse(b, c)
               PROVE  Marked(a, c)
    OBVIOUS
  <2>1. Worse(a, c)  BY <1>2 DEF Marked
  <2> QED  BY <2>1 DEF Marked, Worse
<1>4. \A a, b, c : Worse(a, b) /\ Marked(b, c) => Marked(a, c)
  <2> SUFFICES ASSUME NEW a, NEW b, NEW c, Worse(a, b), Marked(b, c)
               PROVE  Marked(a, c)
    OBVIOUS
  <2>1. Worse(a, c)  BY <1>2 DEF Marked
  <2> QED  BY <2>1 DEF Marked, Worse
<1>5. \A a, b, c : Condemned(a, b) /\ Worse(b, c) => Condemned(a, c)
  BY <1>3 DEF Condemned, Worse
<1>6. \A a, b, c : Worse(a, b) /\ Condemned(b, c) => Condemned(a, c)
  BY <1>4 DEF Condemned, Worse
<1> QED  BY <1>1, <1>2, <1>3, <1>4, <1>5, <1>6

\* Records that agree on what the credits depend on
LEMMA SameMarks ==
    ASSUME NEW a, NEW b, b.fl = a.fl, b.st = a.st, b.dirty = a.dirty, b.rst = a.rst
    PROVE  Worse(a, b)
  BY DEF Worse, Has, Closed

\* The shared recovery policy and the reset intents only ever add marks.
LEMMA PolicyWorse ==
    ASSUME NEW a \in HostRec, NEW r \in BOOLEAN
    PROVE  /\ Worse(a, BudgetSync(a)) /\ Worse(a, Arm(a)) /\ Worse(a, CommitBudget(a))
           /\ Marked(a, SchedRecovery(a, r)) /\ Condemned(a, SchedRecovery(a, TRUE))
           /\ Condemned(a, Quarantine(a)) /\ Worse(a, Abandoned(a))
           /\ Marked(a, SlaveReset(a)) /\ (~Closed(a) => SlaveReset(a).rst)
           /\ Condemned(a, BootRetry(a))
<1>1. \A b \in HostRec : Worse(b, BudgetSync(b)) /\ Worse(b, Arm(b))
  <2> SUFFICES ASSUME NEW b \in HostRec PROVE Worse(b, BudgetSync(b)) /\ Worse(b, Arm(b))
    OBVIOUS
  <2> DEFINE c == BudgetSync(b)
  <2>1. c \in HostRec  BY PolicyFacts
  <2>2. c.fl = b.fl /\ c.st = b.st /\ c.dirty = b.dirty /\ c.rst = b.rst
    BY DEF BudgetSync, HostRec
  <2> HIDE DEF c
  <2> DEFINE d == [c EXCEPT !.cur = TRUE, !.soft = TRUE]
  <2>3. d.fl = b.fl /\ d.st = b.st /\ d.dirty = b.dirty /\ d.rst = b.rst
    BY <2>1, <2>2 DEF HostRec
  <2>4. Arm(b) = d  BY DEF Arm, c
  <2> HIDE DEF d
  <2> QED  BY <2>2, <2>3, <2>4, SameMarks DEF c
<1>2. \A b \in HostRec, s \in BOOLEAN :
          Marked(b, SchedRecovery(b, s)) /\ (s => Condemned(b, SchedRecovery(b, s)))
  <2> SUFFICES ASSUME NEW b \in HostRec, NEW s \in BOOLEAN
               PROVE  /\ Marked(b, SchedRecovery(b, s))
                      /\ s => Condemned(b, SchedRecovery(b, s))
    OBVIOUS
  <2> DEFINE c == SchedRecovery(b, s)
  <2>1. CASE Closed(b)
    <3>1. c = b  BY <2>1 DEF SchedRecovery
    <3> HIDE DEF c
    <3> QED  BY <2>1, <3>1, WorseOrder DEF Marked, Condemned, c
  <2>2. CASE ~Closed(b)
    <3>1. /\ c.fl = b.fl \cup {"PEND"} \cup (IF s THEN {"EXP"} ELSE {})
          /\ c.dirty = {"rec", "bt"} /\ c.rst = b.rst
          /\ c.st = IF b.st = "RDY" /\ ~Has(b, "RECON") THEN "RX" ELSE b.st
      BY <2>2 DEF SchedRecovery, HostRec
    <3> HIDE DEF c
    <3>2. b.dirty \subseteq {"rec", "bt"}  BY DEF HostRec
    <3>3. Has(c, "PEND") /\ (s => Has(c, "EXP")) /\ (Has(c, "RECON") <=> Has(b, "RECON"))
          /\ (Has(c, "INIT") <=> Has(b, "INIT")) /\ (Closed(c) <=> Closed(b))
          /\ (Has(b, "EXP") => Has(c, "EXP")) /\ (Has(b, "CLEAN") => Has(c, "CLEAN"))
      BY <3>1 DEF Has, Closed
    <3>4. Worse(b, c)  BY <3>1, <3>2, <3>3 DEF Worse
    <3> QED  BY <3>1, <3>3, <3>4 DEF Marked, Condemned, c
  <2> QED  BY <2>1, <2>2
<1>3. \A b \in HostRec : Worse(b, ResetTarget(b))
  <2> SUFFICES ASSUME NEW b \in HostRec PROVE Worse(b, ResetTarget(b))
    OBVIOUS
  <2> DEFINE c == BudgetSync(b)
             d == [c EXCEPT !.cur = TRUE, !.hard = TRUE]
             e == Arm(b)
  <2>1. c \in HostRec /\ Worse(b, c) /\ e \in HostRec /\ Worse(b, e)
    BY <1>1, PolicyFacts
  <2>2. ResetTarget(b) \in {b, SchedRecovery(d, TRUE), SchedRecovery(e, TRUE), c}
    BY Zenon DEF ResetTarget
  <2> HIDE DEF c, e
  <2>3. d \in HostRec /\ d.fl = c.fl /\ d.st = c.st /\ d.dirty = c.dirty /\ d.rst = c.rst
    BY <2>1 DEF HostRec
  <2> HIDE DEF d
  <2>4. Worse(b, d)
    <3>1. Worse(c, d)  BY <2>3, SameMarks
    <3> QED  BY Zenon, <2>1, <3>1, WorseOrder
  <2>5. Worse(d, SchedRecovery(d, TRUE)) /\ Worse(e, SchedRecovery(e, TRUE))
    BY <1>2, <2>1, <2>3 DEF Marked
  <2>6. Worse(b, SchedRecovery(d, TRUE)) /\ Worse(b, SchedRecovery(e, TRUE))
    BY Zenon, <2>1, <2>4, <2>5, WorseOrder
  <2>7. Worse(b, b)  BY WorseOrder
  <2> QED  BY <2>1, <2>2, <2>6, <2>7
<1>4. \A b \in HostRec : Worse(b, RequestRestart(b))
  <2> SUFFICES ASSUME NEW b \in HostRec PROVE Worse(b, RequestRestart(b))
    OBVIOUS
  <2> DEFINE n == b.att + 1
             f == b.fl \cup {"NEED"}
             c == [b EXCEPT !.att = n, !.dl = TRUE, !.used = FALSE, !.fl = f]
             d == [b EXCEPT !.fl = @ \cup {"EXH"}]
  <2>1. /\ d.fl = b.fl \cup {"EXH"} /\ d.st = b.st /\ d.dirty = b.dirty /\ d.rst = b.rst
        /\ c.fl = b.fl \cup {"NEED"} /\ c.st = b.st /\ c.dirty = b.dirty /\ c.rst = b.rst
    BY DEF HostRec
  <2>2. \/ RequestRestart(b) \in {b, d}
        \/ b.att < MaxAttempts /\ RequestRestart(b) = ResetTarget(c)
    BY CounterFacts DEF RequestRestart, HostRec
  <2>3. b.att < MaxAttempts => c \in HostRec
    <3> SUFFICES ASSUME b.att < MaxAttempts PROVE c \in HostRec
      OBVIOUS
    <3>1. n \in 0..MaxAttempts /\ f \in SUBSET Flags
      BY CounterFacts DEF HostRec, Flags
    <3> HIDE DEF n, f
    <3> QED  BY ZenonT(60), <3>1 DEF HostRec
  <2> HIDE DEF c, d
  <2>4. Worse(b, b) /\ Worse(b, d) /\ Worse(b, c)
    BY <2>1, WorseOrder DEF Worse, Has, Closed
  <2>5. b.att < MaxAttempts => Worse(c, ResetTarget(c))  BY <1>3, <2>3
  <2>6. b.att < MaxAttempts => Worse(b, ResetTarget(c))
    BY Zenon, <2>4, <2>5, WorseOrder
  <2> QED  BY <2>2, <2>4, <2>6
<1>5. \A b \in HostRec : Condemned(b, Quarantine(b))
  <2> SUFFICES ASSUME NEW b \in HostRec PROVE Condemned(b, Quarantine(b))
    OBVIOUS
  <2> DEFINE c == SchedRecovery(b, TRUE)
  <2>1. c \in HostRec /\ Condemned(b, c)  BY <1>2, PolicyFacts
  <2>2. Quarantine(b) = RequestRestart(c)  BY DEF Quarantine
  <2> HIDE DEF c
  <2>3. Worse(c, RequestRestart(c))  BY <1>4, <2>1
  <2> QED  BY Zenon, <2>1, <2>2, <2>3, WorseOrder
<1>6. Worse(a, Abandoned(a))
  BY <1>5, WorseOrder DEF Abandoned, Condemned, Marked
<1>7. Worse(a, CommitBudget(a))
  <2> DEFINE b == BudgetSync(a)
             c == [b EXCEPT !.hard = FALSE, !.soft = FALSE]
  <2>1. b \in HostRec /\ Worse(a, b)  BY <1>1, PolicyFacts
  <2>2. CommitBudget(a) \in {b, c}  BY DEF CommitBudget
  <2> HIDE DEF b
  <2>3. c.fl = b.fl /\ c.st = b.st /\ c.dirty = b.dirty /\ c.rst = b.rst
    BY <2>1 DEF HostRec
  <2> HIDE DEF c
  <2>4. Worse(b, c)  BY <2>3, SameMarks
  <2>5. Worse(a, c)  BY Zenon, <2>1, <2>4, WorseOrder
  <2> QED  BY <2>1, <2>2, <2>5
<1>8. Marked(a, SlaveReset(a)) /\ (~Closed(a) => SlaveReset(a).rst)
  <2> DEFINE b == [a EXCEPT !.rst = TRUE]
  <2>1. CASE Closed(a)
    <3>1. SlaveReset(a) = a  BY <2>1 DEF SlaveReset
    <3> QED  BY <2>1, <3>1, WorseOrder DEF Marked
  <2>2. CASE ~Closed(a)
    <3>1. SlaveReset(a) = SchedRecovery(b, FALSE)  BY <2>2 DEF SlaveReset
    <3>2. b \in HostRec /\ b.fl = a.fl /\ b.st = a.st /\ b.dirty = a.dirty /\ b.rst
      BY DEF HostRec
    <3> HIDE DEF b
    <3>3. Worse(a, b)  BY <3>2 DEF Worse, Has, Closed
    <3>4. Marked(b, SchedRecovery(b, FALSE))  BY <1>2, <3>2
    <3>5. Marked(a, SchedRecovery(b, FALSE))  BY Zenon, <3>3, <3>4, WorseOrder
    <3>6. SchedRecovery(b, FALSE).rst  BY <3>2, <3>4 DEF Marked, Worse
    <3> QED  BY <3>1, <3>5, <3>6
  <2> QED  BY <2>1, <2>2
<1>9. Condemned(a, BootRetry(a))
  <2> DEFINE b == [a EXCEPT !.fl = @ \ {"CLEAN"}]
  <2>1. CASE Closed(a)
    <3>1. BootRetry(a) = a  BY <2>1 DEF BootRetry
    <3> QED  BY <2>1, <3>1, WorseOrder DEF Marked, Condemned
  <2>2. CASE ~Closed(a)
    <3>1. BootRetry(a) = Quarantine(b)  BY <2>2 DEF BootRetry
    <3>2. b \in HostRec /\ b.fl = a.fl \ {"CLEAN"} /\ b.st = a.st /\ b.dirty = a.dirty
          /\ b.rst = a.rst
      BY DEF HostRec
    <3> HIDE DEF b
    <3> DEFINE c == Quarantine(b)
    <3>3. Condemned(b, c) /\ ~Closed(b)  BY <1>5, <2>2, <3>2 DEF Has, Closed
    <3> HIDE DEF c
    <3>4. Has(c, "EXP") /\ Worse(b, c) /\ Marked(b, c)  BY <3>3 DEF Condemned, Marked
    <3>5. Worse(a, c)
      <4>1. /\ Has(b, "INIT") <=> Has(a, "INIT")
            /\ Has(b, "RECON") <=> Has(a, "RECON")
            /\ Closed(b) <=> Closed(a)
            /\ Has(b, "PEND") <=> Has(a, "PEND")
            /\ Has(b, "EXP") <=> Has(a, "EXP")
        BY <3>2 DEF Has, Closed
      <4> QED  BY <3>2, <3>4, <4>1 DEF Worse
    <3> QED  BY <2>2, <3>1, <3>3, <3>4, <3>5 DEF Condemned, Marked, c
  <2> QED  BY <2>1, <2>2
<1> QED  BY <1>1, <1>2, <1>5, <1>6, <1>7, <1>8, <1>9

\* What each step has to keep, and what it may do if it is one of the three
LinkKept ==
    /\ LinkInv'
    /\ StaleInv /\ ~ResetUnderTx => StaleInv'
    /\ StaleInv /\ CountInv /\ ~InventsCredit => CountInv'

\* The distance between two counters below the modulus
LEMMA Distance ==
    ASSUME NEW a \in 0..(TxMax - 1), NEW b \in 0..(TxMax - 1)
    PROVE  (a + TxMax - b) % TxMax = IF b <= a THEN a - b ELSE a + TxMax - b
<1> DEFINE x == a + TxMax - b
<1>1. x \in Nat /\ x < 2 * TxMax /\ TxMax \in Nat \ {0}  BY CounterFacts
<1>2. x % TxMax = IF x < TxMax THEN x ELSE x - TxMax
  <2> HIDE DEF x
  <2> QED  BY <1>1
<1> QED  BY <1>1, <1>2, CounterFacts

\* A reload widens the window by one, a counted write narrows it by one, and a
\* baseline opens it to no more than the slave has in all.
LEMMA WindowMoves ==
    ASSUME NEW a \in 0..(TxMax - 1), NEW b \in 0..(TxMax - 1),
           NEW w, w = (a + TxMax - b) % TxMax
    PROVE  /\ w \in 0..(TxMax - 1)
           /\ w < TxMax - 1 => (((a + 1) % TxMax) + TxMax - b) % TxMax = w + 1
           /\ w > 0 => (a + TxMax - ((b + 1) % TxMax)) % TxMax = w - 1
           /\ b = TxBase(a) => w <= MaxBuf
<1>1. w = IF b <= a THEN a - b ELSE a + TxMax - b  BY Distance
<1>2. ASSUME NEW n \in 0..(TxMax - 1)
      PROVE  (n + 1) % TxMax = IF n + 1 = TxMax THEN 0 ELSE n + 1
  <2> DEFINE y == n + 1
  <2>1. y \in Nat /\ y <= TxMax /\ TxMax \in Nat \ {0} /\ TxMax > 1  BY CounterFacts
  <2>2. y % TxMax = IF y = TxMax THEN 0 ELSE y
    <3> HIDE DEF y
    <3> QED  BY <2>1
  <2> QED  BY <2>2
<1>3. w < TxMax - 1 => (((a + 1) % TxMax) + TxMax - b) % TxMax = w + 1
  <2> DEFINE c == (a + 1) % TxMax
  <2>1. c = IF a + 1 = TxMax THEN 0 ELSE a + 1  BY <1>2
  <2>2. c \in 0..(TxMax - 1)  BY <2>1, CounterFacts
  <2> HIDE DEF c
  <2>3. (c + TxMax - b) % TxMax = IF b <= c THEN c - b ELSE c + TxMax - b
    BY <2>2, Distance
  <2> QED  BY <1>1, <2>1, <2>2, <2>3, CounterFacts DEF c
<1>4. w > 0 => (a + TxMax - ((b + 1) % TxMax)) % TxMax = w - 1
  <2> DEFINE c == (b + 1) % TxMax
  <2>1. c = IF b + 1 = TxMax THEN 0 ELSE b + 1  BY <1>2
  <2>2. c \in 0..(TxMax - 1)  BY <2>1, CounterFacts
  <2> HIDE DEF c
  <2>3. (a + TxMax - c) % TxMax = IF c <= a THEN a - c ELSE a + TxMax - c
    BY <2>2, Distance
  <2> QED  BY <1>1, <2>1, <2>2, <2>3, CounterFacts DEF c
<1>5. b = TxBase(a) => w <= MaxBuf  BY <1>1, CounterFacts DEF TxBase
<1> QED  BY <1>1, <1>3, <1>4, <1>5, CounterFacts

\* The fields the invariants speak of, with their types
FieldTypes ==
    /\ fw.tok \in 0..(TxMax - 1) /\ cx.tx \in 0..(TxMax - 1)
    /\ fw.held \in 0..MaxBuf /\ cx.buf \in 0..MaxBuf
    /\ fw.run \in {"up", "acked", "down"} /\ cx.based \in Rel
    /\ tx.valid \in BOOLEAN /\ tx.resv \in BOOLEAN
    /\ Window \in 0..(TxMax - 1) /\ MaxBuf \in Nat /\ TxMax \in Nat

\* They have these types in every state, and after every step.
LEMMA Fields == TypeOK => FieldTypes
<1> SUFFICES ASSUME TypeOK PROVE FieldTypes
  OBVIOUS
<1>1. fw \in SlaveRec /\ cx \in CursorRec /\ tx \in ThreadRec  BY DEF TypeOK
<1>2. fw.tok \in 0..(TxMax - 1) /\ fw.held \in 0..MaxBuf
      /\ fw.run \in {"up", "acked", "down"}
  BY <1>1 DEF SlaveRec
<1>3. cx.tx \in 0..(TxMax - 1) /\ cx.buf \in 0..MaxBuf /\ cx.based \in Rel
  BY <1>1 DEF CursorRec
<1>4. tx.valid \in BOOLEAN /\ tx.resv \in BOOLEAN  BY <1>1 DEF ThreadRec
<1>5. Window \in 0..(TxMax - 1)  BY <1>2, <1>3, WindowMoves DEF Window
<1> QED  BY <1>2, <1>3, <1>4, <1>5, CounterFacts DEF FieldTypes

\* The same, of the next state
LEMMA FieldsNext == TypeOK' => FieldTypes'
  BY Fields, PTL

\* The credits are what the properties say they are.
LEMMA CountGivesCredits ==
    TypeOK /\ RemoveInv /\ CountInv => CreditsReal
<1> SUFFICES ASSUME TypeOK, RemoveInv, CountInv, cx.based = "cur", h.st = "RDY",
                    ~(Has(h, "RECON") /\ "bt" \in h.dirty)
             PROVE  /\ cx.buf + (IF tx.resv /\ tx.valid /\ tx.for = "cur" THEN 1 ELSE 0)
                          <= Free
                    /\ fw.run = "up" => Credits(fw.tok, cx.tx) <= Free
  BY DEF CreditsReal
<1>1. Backed  BY DEF RemoveInv, CountInv, Noted
<1>2. FwUp => Window <= Free /\ cx.buf + Reserved <= Window  BY <1>1 DEF Backed
<1>3. ~FwUp => cx.buf = 0 /\ Reserved = 0  BY <1>1 DEF Backed
<1>4. Reserved \in {0, 1} /\ Free \in Nat
  BY Fields DEF FieldTypes, Reserved, Free
<1>5. (IF tx.resv /\ tx.valid /\ tx.for = "cur" THEN 1 ELSE 0) \in 0..Reserved
  BY Fields DEF FieldTypes, Reserved
<1>6. Credits(fw.tok, cx.tx) = IF Window > MaxBuf THEN MaxBuf ELSE Window
  BY DEF Credits, Window
<1> QED  BY <1>2, <1>3, <1>4, <1>5, <1>6, Fields DEF FieldTypes, FwUp

\* What a step may leave alone: the aggregate, or no more than the loss of it,
\* the host's count, or no more than its cached credits, and the slave
TxSame == /\ tx'.pc = tx.pc /\ tx'.valid = tx.valid /\ tx'.resv = tx.resv
          /\ tx'.for = tx.for /\ tx'.set = tx.set
TxDropped == tx.pc # "off" /\ tx'.pc = "idle" /\ ~tx'.valid /\ ~tx'.resv
CountSame == /\ cx'.tx = cx.tx /\ cx'.based = cx.based /\ cx'.sleep = cx.sleep
             /\ cx'.buf <= cx.buf
SlaveSame == /\ fw'.run = fw.run /\ fw'.tok = fw.tok /\ fw'.held = fw.held
             /\ "CLOSE" \in fw.bits => "CLOSE" \in fw'.bits

\* A count that is backed stays so when credits are dropped.
LEMMA DropKeepsBacked ==
    TypeOK /\ TypeOK' /\ (TxSame \/ ~tx'.valid) /\ SlaveSame
    /\ cx'.tx = cx.tx /\ cx'.buf <= cx.buf /\ Backed => Backed'
<1> SUFFICES ASSUME TypeOK, TypeOK', TxSame \/ ~tx'.valid, SlaveSame,
                    cx'.tx = cx.tx, cx'.buf <= cx.buf, Backed
             PROVE  Backed'
  OBVIOUS
<1>1. Reserved \in {0, 1} /\ Reserved' \in {0, 1} /\ Reserved' <= Reserved
  BY Fields, FieldsNext DEF FieldTypes, Reserved, TxSame
<1>2. Window' = Window /\ Free' = Free /\ (FwUp' <=> FwUp)
  BY DEF Window, Free, FwUp, SlaveSame
<1>3. cx.buf \in Nat /\ cx'.buf \in Nat /\ Window \in Nat /\ Free \in Nat
  BY Fields, FieldsNext DEF FieldTypes, Free
<1> HIDE DEF Window, Free, FwUp, Reserved
<1> QED  BY <1>1, <1>2, <1>3 DEF Backed

\* Noted, and an epoch already moved, survive what the policy does.
LEMMA NotedStays ==
    Worse(h, h') /\ UNCHANGED rec /\ Noted => Noted'
  BY DEF Worse, Noted, Recorded

\* A step that leaves the worker, the suspend, the counters of both ends and
\* the bindings alone, adds marks at most, and drops the aggregate at most
LEMMA PolicyStep ==
    ASSUME TypeOK, TypeOK', LinkInv, h.st # "OFF", Worse(h, h'), UNCHANGED <<rec, pm>>,
           bt' = bt \/ (bt' \in {"idle", "callback"} /\ (bt # "build" \/ Closed(h))),
           TxSame \/ TxDropped, CountSame, SlaveSame
    PROVE  LinkKept
<1>1. OffInv'  BY DEF OffInv, Worse
<1>2. ThreadInv'
  BY DEF LinkInv, ThreadInv, TxSame, TxDropped, SlaveSame
<1>3. RemoveInv'  BY DEF LinkInv, RemoveInv, Worse
<1>4. OverlapInv'  BY DEF LinkInv, OverlapInv, Worse
<1>5. SleepInv'
  <2> SUFFICES ASSUME cx'.sleep PROVE SleepInv'
    BY DEF SleepInv
  <2>1. cx.sleep  BY DEF CountSame
  <2>2. {"INIT", "PEND", "EXP"} \cap h.fl # {} => {"INIT", "PEND", "EXP"} \cap h'.fl # {}
    BY DEF Worse, Has
  <2>3. Healthy(h) => Healthy(h') \/ h'.st # "RDY"
    BY <2>1 DEF Worse, Healthy, Has, LinkInv, SleepInv
  <2> QED  BY <2>1, <2>2, <2>3 DEF LinkInv, SleepInv, Worse
<1>6. NextInv'  BY DEF LinkInv, NextInv, CountSame, SlaveSame, Worse
<1>7. Noted => Noted'  BY NotedStays
<1>8. h'.st = "RDY" => h.st = "RDY"  BY DEF Worse
<1>9. StaleInv => StaleInv'
  BY <1>7, <1>8 DEF StaleInv, Stale, TxSame, TxDropped, CountSame
<1>10. CountInv => CountInv'
  <2>1. Backed => Backed'  BY DropKeepsBacked DEF TxDropped, CountSame
  <2>2. Unpaid' => Unpaid  BY DEF Unpaid, TxSame, TxDropped, CountSame
  <2> QED  BY <1>7, <1>8, <2>1, <2>2 DEF CountInv, CountSame, Worse
<1> QED  BY <1>1, <1>2, <1>3, <1>4, <1>5, <1>6, <1>9, <1>10 DEF LinkKept, LinkInv

\* The host's control is left alone.
HostSame == UNCHANGED <<h, q, rec, bt, ev, pm>> /\ cx'.rxw = cx.rxw /\ cx'.sleep = cx.sleep

\* A step of the firmware that does not restart its counters
LEMMA SlaveStep ==
    ASSUME TypeOK, TypeOK', LinkInv, HostSame, TxSame, CountSame,
           fw'.run = fw.run \/ (fw.run = "up" /\ fw'.run = "acked"),
           fw'.tok = fw.tok, fw'.held = fw.held,
           "CLOSE" \in fw.bits => "CLOSE" \in fw'.bits
    PROVE  LinkKept
<1>1. OffInv'  BY DEF LinkInv, OffInv, HostSame, TxSame
<1>2. ThreadInv'  BY DEF LinkInv, ThreadInv, HostSame, TxSame
<1>3. RemoveInv' /\ OverlapInv' /\ SleepInv'
  BY DEF LinkInv, RemoveInv, OverlapInv, SleepInv, HostSame
<1>4. NextInv'  BY DEF LinkInv, NextInv, HostSame, CountSame
<1>5. (Noted' <=> Noted) /\ (Unpaid' <=> Unpaid) /\ (Stale' <=> Stale)
  BY DEF HostSame, CountSame, TxSame, Noted, Recorded, Unpaid, Stale
<1>6. Backed => Backed'
  <2>1. Reserved' = Reserved /\ Reserved \in {0, 1}
    BY Fields DEF FieldTypes, Reserved, TxSame
  <2>2. Window' = Window /\ Free' = Free /\ (FwUp' <=> FwUp)
    BY DEF Window, Free, FwUp, CountSame
  <2>3. cx.buf \in Nat /\ cx'.buf \in Nat /\ Window \in Nat /\ Free \in Nat
    BY Fields, FieldsNext DEF FieldTypes, Free
  <2> HIDE DEF Window, Free, FwUp, Reserved
  <2> QED  BY <2>1, <2>2, <2>3 DEF Backed, CountSame
<1>7. StaleInv => StaleInv'  BY <1>5 DEF StaleInv, HostSame
<1>8. CountInv => CountInv'
  BY <1>5, <1>6 DEF CountInv, HostSame, CountSame
<1> QED  BY <1>1, <1>2, <1>3, <1>4, <1>7, <1>8 DEF LinkKept, LinkInv

\* A restart of the counters the host did not announce leaves it on the old
\* ones; a restart it announced is the one to come.
LEMMA RestartStep ==
    ASSUME TypeOK, TypeOK', LinkInv, HostSame, fw.run # "down",
           cx'.tx = cx.tx, cx'.buf = cx.buf, cx'.based = Age(cx.based),
           tx'.pc = tx.pc, tx'.valid = tx.valid, tx'.resv = tx.resv, tx'.set = tx.set,
           \/ fw'.run = "up" /\ fw.run = "up" /\ fw'.held = fw.held
              /\ ("CLOSE" \in fw.bits => "CLOSE" \in fw'.bits)
           \/ fw'.run = "down" /\ fw'.held = 0 /\ fw'.tok = 0,
           cx.based = "next" => FwRestart
    PROVE  LinkKept
<1>0. cx'.based \in {"old", "cur"} /\ (cx'.based = "cur" => cx.based = "next")
  BY DEF Age
<1>1. OffInv'  BY DEF LinkInv, OffInv, HostSame
<1>2. ThreadInv'  BY DEF LinkInv, ThreadInv, HostSame
<1>3. RemoveInv' /\ OverlapInv' /\ SleepInv' /\ NextInv'
  BY <1>0 DEF LinkInv, RemoveInv, OverlapInv, SleepInv, NextInv, HostSame
<1>4. ASSUME cx'.based = "cur", ~ResetUnderTx
      PROVE  Noted' /\ h'.st # "RDY"
  <2>1. Closed(h) \/ (rec.pc = "reboot" /\ Has(h, "EXP"))
    BY <1>0, <1>4 DEF LinkInv, NextInv
  <2>2. CASE Closed(h)  BY <2>2 DEF LinkInv, RemoveInv, Noted, HostSame
  <2>3. CASE ~Closed(h)
    <3>1. FwRestart /\ cx.based = "next"  BY <1>0, <1>4, <2>3
    <3>2. h.st # "RDY" /\ ~Has(h, "RECON")  BY <1>4, <2>3, <3>1 DEF ResetUnderTx
    <3> QED  BY <2>1, <2>3, <3>2 DEF Noted, Recorded, HostSame
  <2> QED  BY <2>2, <2>3
<1>5. ~InventsCredit => ~ResetUnderTx  BY DEF InventsCredit
<1>6. ~ResetUnderTx => StaleInv'  BY <1>4 DEF StaleInv, Stale
<1>7. ~ResetUnderTx => CountInv'  BY <1>4 DEF CountInv, Unpaid
<1> QED  BY <1>1, <1>2, <1>3, <1>5, <1>6, <1>7 DEF LinkKept, LinkInv

\* The firmware: sdio_slave_api.c
LEMMA FirmwareKept ==
    TypeOK /\ TypeOK' /\ LinkInv /\ (Firmware \/ FwSend \/ FwCrash) => LinkKept
<1> SUFFICES ASSUME TypeOK, TypeOK', LinkInv, Firmware \/ FwSend \/ FwCrash
             PROVE  LinkKept
  OBVIOUS
<1>0. fw \in SlaveRec /\ cx \in CursorRec /\ tx \in ThreadRec  BY DEF TypeOK
<1>1. CASE FwInit
  <2>1. /\ fw.run = "down" /\ fw'.run = "up" /\ fw'.tok = MaxBuf
        /\ fw'.held = fw.held /\ fw'.bits = fw.bits
    BY <1>0, <1>1 DEF FwInit, SlaveRec
  <2>2. UNCHANGED <<h, cx, q, tx, rec, hs, ev, bt, pm>>  BY <1>1 DEF FwInit
  <2>3. fw.held = 0  BY <2>1 DEF LinkInv, ThreadInv
  <2>4. LinkInv'
    <3>1. OffInv' /\ ThreadInv'  BY <2>1, <2>2 DEF LinkInv, OffInv, ThreadInv
    <3>2. RemoveInv' /\ OverlapInv' /\ SleepInv' /\ NextInv'
      BY <2>1, <2>2 DEF LinkInv, RemoveInv, OverlapInv, SleepInv, NextInv
    <3> QED  BY <3>1, <3>2 DEF LinkInv
  <2>5. (Noted' <=> Noted) /\ (Unpaid' <=> Unpaid) /\ (Stale' <=> Stale)
    BY <2>2 DEF Noted, Recorded, Unpaid, Stale
  <2>6. Backed => Backed'
    <3> SUFFICES ASSUME Backed PROVE Backed'
      OBVIOUS
    <3>1. cx.tx = 0 /\ cx.buf = 0 /\ Reserved = 0  BY <2>1 DEF Backed, FwUp
    <3>2. Reserved' = 0 /\ cx'.tx = 0 /\ cx'.buf = 0  BY <2>2, <3>1 DEF Reserved
    <3>3. Window' = (MaxBuf + TxMax - 0) % TxMax  BY <2>1, <3>2 DEF Window
    <3>4. MaxBuf \in 0..(TxMax - 1)  BY CounterFacts
    <3>5. Window' = MaxBuf  BY <3>3, <3>4, Distance, CounterFacts
    <3>6. Free' = MaxBuf  BY <2>1, <2>3, CounterFacts DEF Free
    <3> QED  BY <2>1, <3>2, <3>5, <3>6, CounterFacts DEF Backed, FwUp
  <2>7. StaleInv => StaleInv'  BY <2>2, <2>5 DEF StaleInv
  <2>8. CountInv => CountInv'  BY <2>2, <2>5, <2>6 DEF CountInv
  <2> QED  BY <2>4, <2>7, <2>8 DEF LinkKept
<1>2. CASE FwClose \/ FwOpen \/ FwBoot \/ FwSend
  <2>1. UNCHANGED <<h, cx, q, tx, rec, ev, bt, pm>>
    BY <1>2 DEF FwClose, FwOpen, FwBoot, FwSend, Publish
  <2>2. /\ fw'.run = fw.run \/ (fw.run = "up" /\ fw'.run = "acked")
        /\ fw'.tok = fw.tok /\ fw'.held = fw.held
        /\ "CLOSE" \in fw.bits => "CLOSE" \in fw'.bits
    <3>1. CASE FwClose  BY <1>0, <3>1 DEF FwClose, SlaveRec
    <3>2. CASE FwOpen  BY <1>0, <3>2 DEF FwOpen, SlaveRec
    <3>3. CASE FwBoot \/ FwSend
      BY <1>0, <3>3 DEF FwBoot, FwSend, Publish, SlaveRec
    <3> QED  BY <1>2, <3>1, <3>2, <3>3
  <2>3. cx.buf <= cx.buf  BY Fields DEF FieldTypes
  <2>4. HostSame /\ TxSame /\ CountSame  BY <2>1, <2>3 DEF HostSame, TxSame, CountSame
  <2> QED  BY <2>2, <2>4, SlaveStep
<1>3. CASE FwReload
  <2>1. /\ fw.run = "up" /\ fw'.run = "up" /\ fw.held > 0 /\ fw'.held = fw.held - 1
        /\ fw'.tok = (fw.tok + 1) % TxMax /\ fw'.bits = fw.bits
    BY <1>0, <1>3 DEF FwReload, SlaveRec
  <2>2. UNCHANGED <<h, cx, q, tx, rec, hs, ev, bt, pm>>  BY <1>3 DEF FwReload
  <2>3. FieldTypes  BY Fields
  <2>4. LinkInv'
    <3>1. OffInv' /\ ThreadInv'
      BY <2>1, <2>2, <2>3 DEF LinkInv, OffInv, ThreadInv, FieldTypes
    <3>2. RemoveInv' /\ OverlapInv' /\ SleepInv' /\ NextInv'
      BY <2>1, <2>2 DEF LinkInv, RemoveInv, OverlapInv, SleepInv, NextInv
    <3> QED  BY <3>1, <3>2 DEF LinkInv
  <2>5. (Noted' <=> Noted) /\ (Unpaid' <=> Unpaid) /\ (Stale' <=> Stale)
    BY <2>2 DEF Noted, Recorded, Unpaid, Stale
  <2>6. Backed => Backed'
    <3> SUFFICES ASSUME Backed PROVE Backed'
      OBVIOUS
    <3>1. Window <= Free /\ cx.buf + Reserved <= Window  BY <2>1 DEF Backed, FwUp
    <3>2. Window < TxMax - 1
      BY <2>1, <2>3, <3>1, CounterFacts DEF FieldTypes, Free
    <3>3. Window' = Window + 1
      <4>1. Window' = (((fw.tok + 1) % TxMax) + TxMax - cx.tx) % TxMax
        BY <2>1, <2>2 DEF Window
      <4>2. Window = (fw.tok + TxMax - cx.tx) % TxMax  BY DEF Window
      <4>3. fw.tok \in 0..(TxMax - 1) /\ cx.tx \in 0..(TxMax - 1)  BY <2>3 DEF FieldTypes
      <4> HIDE DEF Window
      <4> QED  BY <3>2, <4>1, <4>2, <4>3, WindowMoves
    <3>4. Free' = Free + 1 /\ Free \in Nat  BY <2>1, <2>3 DEF Free, FieldTypes
    <3>5. Reserved' = Reserved /\ Reserved \in {0, 1} /\ cx'.buf = cx.buf
      BY <2>2 DEF Reserved
    <3> HIDE DEF Window, Free, Reserved
    <3> QED  BY <2>1, <2>3, <3>1, <3>3, <3>4, <3>5 DEF Backed, FwUp, FieldTypes
  <2>7. StaleInv => StaleInv'  BY <2>2, <2>5 DEF StaleInv
  <2>8. CountInv => CountInv'  BY <2>2, <2>5, <2>6 DEF CountInv
  <2> QED  BY <2>4, <2>7, <2>8 DEF LinkKept
<1>4. ASSUME NEW b \in {"PSON", "PSOFF"},
             FwRestart \/ FwReset \/ FwCrash \/ FwPowerSave(b)
      PROVE  LinkKept
  <2>1. UNCHANGED <<h, q, rec, ev, bt, pm>> /\ AgeAll
    BY <1>4 DEF FwRestart, FwReset, FwCrash, FwPowerSave
  <2>2. /\ cx'.tx = cx.tx /\ cx'.buf = cx.buf /\ cx'.based = Age(cx.based)
        /\ cx'.rxw = cx.rxw /\ cx'.sleep = cx.sleep
    BY <1>0, <2>1 DEF AgeAll, CursorRec
  <2>3. /\ tx'.pc = tx.pc /\ tx'.valid = tx.valid /\ tx'.resv = tx.resv
        /\ tx'.set = tx.set
    BY <1>0, <2>1 DEF AgeAll, ThreadRec
  <2>4. fw.run # "down"
    BY <1>4 DEF FwRestart, FwReset, FwCrash, FwPowerSave
  <2>5. \/ /\ fw'.run = "up" /\ fw.run = "up" /\ fw'.held = fw.held
           /\ "CLOSE" \in fw.bits => "CLOSE" \in fw'.bits
        \/ fw'.run = "down" /\ fw'.held = 0 /\ fw'.tok = 0
    <3>1. CASE FwRestart \/ FwReset \/ FwCrash
      <4>1. fw' = Restarted  BY <3>1 DEF FwRestart, FwReset, FwCrash
      <4> QED  BY <1>0, <4>1 DEF Restarted, SlaveRec
    <3>2. CASE FwPowerSave(b)
      <4>1. /\ fw.run = "up"
            /\ fw' = LinkReset([fw EXCEPT !.ps = (b = "PSON"), !.bits = @ \ {b}])
        BY <3>2 DEF FwPowerSave
      <4> QED  BY <1>0, <4>1 DEF LinkReset, SlaveRec
    <3> QED  BY <1>4, <3>1, <3>2
  <2>6. cx.based = "next" => FwRestart
    BY <1>4 DEF LinkInv, NextInv, FwReset, FwCrash, FwPowerSave
  <2>7. HostSame  BY <2>1, <2>2 DEF HostSame
  <2> QED  BY <2>2, <2>3, <2>4, <2>5, <2>6, <2>7, RestartStep
<1> QED  BY <1>1, <1>2, <1>3, <1>4 DEF Firmware

\* Whoever of these runs, something is bound.
BoundSteps ==
    \/ (\E k \in Kinds : WritePacket(k)) \/ CmdEnds \/ FlushTraffic \/ TxThread
    \/ RxWork \/ IsrError \/ ReadError \/ RestartRequest \/ RecExpire \/ RecGate
    \/ BootCallback \/ BootAbort

\* None of them runs without a bound device.
LEMMA Bound == LinkInv /\ BoundSteps => h.st # "OFF"
<1> SUFFICES ASSUME LinkInv, BoundSteps, h.st = "OFF" PROVE FALSE
  OBVIOUS
<1>1. OffInv  BY DEF LinkInv
<1>2. ~\E k \in Kinds : WritePacket(k)  BY DEF WritePacket
<1>3. ~CmdEnds /\ ~FlushTraffic  BY <1>1 DEF OffInv, CmdEnds, FlushTraffic
<1>4. ~TxThread
  BY <1>1 DEF OffInv, TxThread, TxBuild, TxCredit, TxCreditError, TxGiveUp, TxWrite,
     TxWriteError, MayWrite
<1>5. ~RxWork /\ ~IsrError /\ ~ReadError
  BY <1>1 DEF OffInv, RxWork, RxOpen, Isr, RxLenError, RxReset, RxNothing, ReadPacket,
     IsrError, ReadError
<1>6. ~RestartRequest  BY DEF RestartRequest
<1>7. ~RecExpire /\ ~RecGate  BY <1>1 DEF OffInv, RecExpire, RecGate
<1>8. ~BootCallback /\ ~BootAbort  BY <1>1 DEF OffInv, BootCallback, BootAbort
<1> QED  BY <1>2, <1>3, <1>4, <1>5, <1>6, <1>7, <1>8 DEF BoundSteps

\* The users, the interrupt and the receive worker, and the expiry of the boot
\* deadline: they add marks at most.
LEMMA PolicyKept ==
    ASSUME TypeOK, TypeOK', LinkInv,
           \/ (\E k \in Kinds : WritePacket(k)) \/ CmdEnds \/ FlushTraffic
           \/ TxCreditError \/ TxGiveUp \/ RxWork \/ IsrError \/ ReadError
           \/ RestartRequest \/ RecExpire \/ BootCallback \/ BootAbort
    PROVE  LinkKept
<1>0. h \in HostRec /\ fw \in SlaveRec /\ cx \in CursorRec /\ tx \in ThreadRec
  BY DEF TypeOK
<1>a. h.st # "OFF"  BY Bound DEF BoundSteps, TxThread
<1>b. cx.buf <= cx.buf /\ 0 <= cx.buf  BY Fields DEF FieldTypes
<1>c. UNCHANGED tx => TxSame  BY DEF TxSame
<1>d. UNCHANGED cx => CountSame  BY <1>b DEF CountSame
<1>e. UNCHANGED fw => SlaveSame  BY DEF SlaveSame
<1>f. Worse(h, h)  BY WorseOrder
<1>g. /\ Worse(h, Quarantine(h)) /\ Worse(h, SchedRecovery(h, FALSE))
      /\ Worse(h, SchedRecovery(h, TRUE)) /\ Worse(h, Abandoned(h))
      /\ Worse(h, CommitBudget(h))
  BY <1>0, PolicyWorse DEF Condemned, Marked
<1>h. Worse(h, Abandoned(SchedRecovery(h, FALSE)))
  <2> DEFINE a == SchedRecovery(h, FALSE)
  <2>1. a \in HostRec  BY <1>0, PolicyFacts
  <2>2. Worse(h, a)  BY <1>g
  <2> HIDE DEF a
  <2>3. Worse(a, Abandoned(a))  BY <2>1, PolicyWorse
  <2>4. Worse(h, Abandoned(a))  BY Zenon, <2>2, <2>3, WorseOrder
  <2> QED  BY <2>4 DEF a
<1>1. CASE (\E k \in Kinds : WritePacket(k)) \/ CmdEnds
  <2>1. UNCHANGED <<h, cx, rec, bt, pm, fw>>  BY <1>1 DEF WritePacket, CmdEnds
  <2>2. TxSame  BY <1>0, <1>1 DEF WritePacket, CmdEnds, TxSame, ThreadRec
  <2> QED  BY <1>a, <1>d, <1>e, <1>f, <2>1, <2>2, PolicyStep
<1>2. CASE FlushTraffic \/ IsrError \/ RestartRequest
  <2>1. UNCHANGED <<cx, tx, rec, bt, pm, fw>>
        /\ h' \in {h, Quarantine(h), SchedRecovery(h, FALSE)}
    BY <1>2 DEF FlushTraffic, IsrError, RestartRequest
  <2> QED  BY <1>a, <1>c, <1>d, <1>e, <1>f, <1>g, <2>1, PolicyStep
<1>3. CASE TxCreditError \/ TxGiveUp
  <2>1. /\ UNCHANGED <<rec, bt, pm, fw>> /\ tx.pc \in {"agg", "ready"} /\ tx' = TxIdle(tx)
        /\ cx' = [cx EXCEPT !.buf = 0]
        /\ h' \in {Abandoned(h), Abandoned(SchedRecovery(h, FALSE))}
    BY <1>3 DEF TxCreditError, TxGiveUp, TxAbandon
  <2>2. TxDropped  BY <1>0, <2>1 DEF TxDropped, TxIdle, ThreadRec
  <2>3. CountSame  BY <1>0, <1>b, <2>1 DEF CountSame, CursorRec
  <2> QED  BY <1>a, <1>e, <1>g, <1>h, <2>1, <2>2, <2>3, PolicyStep
<1>4. CASE RxWork \/ ReadError
  <2>1. /\ UNCHANGED <<tx, rec, bt, pm>>
        /\ h' \in {h, Quarantine(h), SchedRecovery(h, FALSE), SchedRecovery(h, TRUE)}
    BY <1>4 DEF RxWork, ReadError, Isr, RxLenError, RxReset, RxNothing, ReadPacket
  <2>2. CountSame
    <3>1. CASE RxNothing
      <4>1. \/ cx' = [cx EXCEPT !.retry = @ + 1]
            \/ cx' = [cx EXCEPT !.rxw = FALSE, !.pend = FALSE,
                                !.retry = IF cx.pend THEN 0 ELSE @]
        BY <3>1 DEF RxNothing
      <4> QED  BY <1>0, <1>b, <4>1 DEF CountSame, CursorRec
    <3>2. CASE Isr \/ RxLenError \/ RxReset \/ ReadPacket \/ ReadError
      <4>1. \/ cx' = [cx EXCEPT !.pend = TRUE, !.rxw = TRUE]
            \/ cx' = [cx EXCEPT !.rxw = FALSE, !.pend = FALSE]
            \/ cx' = [cx EXCEPT !.rx = fw.plen, !.pend = FALSE, !.retry = 0]
            \/ cx' = [cx EXCEPT !.pend = TRUE]
        BY <3>2 DEF Isr, RxLenError, RxReset, ReadPacket, ReadError
      <4> QED  BY <1>0, <1>b, <4>1 DEF CountSame, CursorRec
    <3> QED  BY <1>4, <3>1, <3>2 DEF RxWork
  <2>3. SlaveSame
    <3>1. \/ fw' = fw \/ fw' = [fw EXCEPT !.irq = FALSE] \/ fw' = [fw EXCEPT !.out = "none"]
      BY <1>4 DEF RxWork, ReadError, Isr, RxLenError, RxReset, RxNothing, ReadPacket
    <3> QED  BY <1>0, <3>1 DEF SlaveSame, SlaveRec
  <2> QED  BY <1>a, <1>c, <1>f, <1>g, <2>1, <2>2, <2>3, PolicyStep
<1>5. CASE RecExpire
  <2> DEFINE a == [h EXCEPT !.dl = FALSE, !.work = FALSE]
  <2>1. UNCHANGED <<cx, tx, rec, bt, pm, fw>> /\ h' = BootRetry(a)
    BY <1>5 DEF RecExpire
  <2>2. a \in HostRec /\ a.fl = h.fl /\ a.st = h.st /\ a.dirty = h.dirty /\ a.rst = h.rst
    BY <1>0 DEF HostRec
  <2> HIDE DEF a
  <2>3. Worse(h, a)  BY <2>2, SameMarks
  <2>4. Worse(a, BootRetry(a))  BY <2>2, PolicyWorse DEF Condemned, Marked
  <2>5. Worse(h, BootRetry(a))  BY Zenon, <2>3, <2>4, WorseOrder
  <2> QED  BY <1>a, <1>c, <1>d, <1>e, <2>1, <2>5, PolicyStep
<1>6. CASE BootCallback \/ BootAbort
  <2>1. /\ UNCHANGED <<cx, tx, rec, pm, fw>> /\ h' \in {h, CommitBudget(h)}
        /\ bt' = "idle" /\ (bt # "build" \/ Closed(h))
    BY <1>6 DEF BootCallback, BootAbort
  <2> QED  BY <1>a, <1>c, <1>d, <1>e, <1>f, <1>g, <2>1, PolicyStep
<1> QED  BY <1>1, <1>2, <1>3, <1>4, <1>5, <1>6

\* The TX thread builds an aggregate: of the epoch the host is in.
LEMMA BuildKept == ASSUME TypeOK, TypeOK', LinkInv, TxBuild PROVE LinkKept
<1>0. tx \in ThreadRec  BY DEF TypeOK
<1>1. UNCHANGED <<h, cx, rec, ev, bt, pm, fw>> /\ tx.pc = "idle" /\ h.st = "RDY"
  BY DEF TxBuild
<1>2. ~tx.resv /\ bt # "reinit"  BY <1>1 DEF LinkInv, ThreadInv
<1>3. \/ TxSame
      \/ tx'.pc = "agg" /\ tx'.valid /\ tx'.for = cx.based /\ tx'.resv = tx.resv
  <2>1. PICK s : tx' = IF s = {"cmd"} /\ ~cmd THEN tx
                       ELSE [tx EXCEPT !.pc = "agg", !.set = s, !.valid = TRUE,
                                       !.for = cx.based]
    BY DEF TxBuild
  <2> QED  BY <1>0, <2>1 DEF TxSame, ThreadRec
<1>4. cx.buf <= cx.buf  BY Fields DEF FieldTypes
<1>5. CASE TxSame
  <2>1. CountSame /\ SlaveSame /\ Worse(h, h)
    BY <1>1, <1>4, WorseOrder DEF CountSame, SlaveSame
  <2> QED  BY <1>1, <1>5, <2>1, PolicyStep
<1>6. CASE ~TxSame
  <2>1. tx'.pc = "agg" /\ tx'.valid /\ tx'.for = cx.based /\ ~tx'.resv
    BY <1>2, <1>3, <1>6
  <2>2. LinkInv'
    <3>1. OffInv' /\ ThreadInv'
      BY <1>1, <1>2, <2>1 DEF LinkInv, OffInv, ThreadInv
    <3>2. RemoveInv' /\ OverlapInv' /\ SleepInv' /\ NextInv'
      BY <1>1 DEF LinkInv, RemoveInv, OverlapInv, SleepInv, NextInv
    <3> QED  BY <3>1, <3>2 DEF LinkInv
  <2>3. StaleInv'  BY <1>1, <2>1 DEF StaleInv, Stale
  <2>4. Backed => Backed'
    <3>1. Reserved = 0 /\ Reserved' = 0  BY <1>2, <2>1 DEF Reserved
    <3>2. Window' = Window /\ Free' = Free /\ (FwUp' <=> FwUp)
      BY <1>1 DEF Window, Free, FwUp
    <3> QED  BY <1>1, <3>1, <3>2 DEF Backed
  <2>5. CountInv => CountInv'
    BY <1>1, <2>1, <2>4 DEF CountInv, Unpaid, Noted, Recorded
  <2> QED  BY <2>2, <2>3, <2>5 DEF LinkKept
<1> QED  BY <1>5, <1>6

\* The credit wait reserves one of the credits the count is backed for.
LEMMA CreditKept == ASSUME TypeOK, TypeOK', LinkInv, TxCredit PROVE LinkKept
<1>0. tx \in ThreadRec /\ cx \in CursorRec /\ FieldTypes /\ FieldTypes'
  BY Fields, FieldsNext DEF TypeOK
<1>1. UNCHANGED <<h, q, rec, ev, bt, pm, fw>> /\ tx.pc = "agg" /\ h.st = "RDY"
  BY DEF TxCredit
<1>2. ~tx.resv /\ bt # "reinit"  BY <1>1 DEF LinkInv, ThreadInv
<1>3. tx'.pc = "ready" /\ tx'.valid = tx.valid /\ tx'.for = tx.for
  BY <1>0 DEF TxCredit, ThreadRec
<1>4. cx'.tx = cx.tx /\ cx'.based = cx.based /\ cx'.sleep = cx.sleep
  BY <1>0 DEF TxCredit, CursorRec
<1>5. \/ cx.sleep /\ UNCHANGED cx /\ ~tx'.resv
      \/ /\ tx'.resv
         /\ \/ cx.buf > 0 /\ cx'.buf = cx.buf - 1
            \/ cx.buf = 0 /\ FwUp /\ Credits(fw.tok, cx.tx) > 0
               /\ cx'.buf = Credits(fw.tok, cx.tx) - 1
  <2>1. CASE cx.sleep  BY <1>0, <1>2, <2>1 DEF TxCredit, ThreadRec
  <2>2. CASE ~cx.sleep
    <3> DEFINE c == IF cx.buf > 0 THEN cx.buf ELSE Credits(fw.tok, cx.tx)
    <3>1. (cx.buf > 0 \/ FwUp) /\ c > 0 /\ tx'.resv /\ cx' = [cx EXCEPT !.buf = c - 1]
      BY <1>0, <2>2 DEF TxCredit, ThreadRec
    <3>2. cx'.buf = c - 1
      <4> HIDE DEF c
      <4> QED  BY <1>0, <3>1 DEF CursorRec
    <3>3. cx.buf > 0 \/ cx.buf = 0  BY <1>0 DEF FieldTypes
    <3> QED  BY <3>1, <3>2, <3>3
  <2> QED  BY <2>1, <2>2
<1>6. LinkInv'
  <2>1. OffInv' /\ ThreadInv'  BY <1>1, <1>2, <1>3 DEF LinkInv, OffInv, ThreadInv
  <2>2. RemoveInv' /\ OverlapInv' /\ SleepInv' /\ NextInv'
    BY <1>1, <1>4 DEF LinkInv, RemoveInv, OverlapInv, SleepInv, NextInv
  <2> QED  BY <2>1, <2>2 DEF LinkInv
<1>7. Noted' <=> Noted  BY <1>1 DEF Noted, Recorded
<1>8. StaleInv => StaleInv'  BY <1>1, <1>3, <1>4, <1>7 DEF StaleInv, Stale
<1>9. Backed => Backed'
  <2> SUFFICES ASSUME Backed PROVE Backed'
    OBVIOUS
  <2>1. Window' = Window /\ Free' = Free /\ (FwUp' <=> FwUp)
    BY <1>1, <1>4 DEF Window, Free, FwUp
  <2>2. Reserved = 0 /\ Reserved' \in {0, 1} /\ (~tx'.resv => Reserved' = 0)
    BY <1>2 DEF Reserved
  <2>3. Credits(fw.tok, cx.tx) = IF Window > MaxBuf THEN MaxBuf ELSE Window
    BY DEF Credits, Window
  <2>4. FwUp => Window <= Free /\ cx.buf + Reserved <= Window  BY DEF Backed
  <2>5. ~FwUp => cx.tx = 0 /\ cx.buf = 0 /\ Reserved = 0  BY DEF Backed
  <2>6. cx.buf \in Nat /\ Window \in Nat /\ MaxBuf \in Nat /\ Free \in Int
    BY <1>0 DEF FieldTypes, Free
  <2> DEFINE n == Credits(fw.tok, cx.tx)
  <2> HIDE DEF Window, Free, Reserved, n
  <2>7. n = IF Window > MaxBuf THEN MaxBuf ELSE Window  BY <2>3 DEF n
  <2>8. CASE FwUp
    <3>1. cx'.buf + Reserved' <= Window
      BY <1>5, <2>2, <2>4, <2>6, <2>7, <2>8 DEF n
    <3> QED  BY <2>1, <2>4, <2>8, <3>1 DEF Backed
  <2>9. CASE ~FwUp
    <3>1. cx'.buf = 0 /\ ~tx'.resv  BY <1>5, <2>5, <2>6, <2>9
    <3> QED  BY <1>4, <2>1, <2>2, <2>5, <2>9, <3>1 DEF Backed
  <2> QED  BY <2>8, <2>9
<1>10. CountInv => CountInv'
  BY <1>1, <1>3, <1>4, <1>5, <1>7, <1>9 DEF CountInv, Unpaid
<1> QED  BY <1>6, <1>8, <1>10 DEF LinkKept

\* The write spends the credit it reserved, and reaches the epoch it was built
\* for.
LEMMA WriteKept ==
    ASSUME TypeOK, TypeOK', LinkInv, TxWrite
    PROVE  LinkKept
<1>0. tx \in ThreadRec /\ cx \in CursorRec /\ fw \in SlaveRec /\ FieldTypes /\ FieldTypes'
  BY Fields, FieldsNext DEF TypeOK
<1>1. /\ UNCHANGED <<h, q, rec, ev, bt, pm>> /\ tx.pc = "ready" /\ h.st = "RDY"
      /\ ~cx.sleep /\ tx.valid /\ FwUp /\ Free > 0
  BY DEF TxWrite, MayWrite
<1>2. ~tx'.valid /\ tx'.pc = "idle" /\ ~tx'.resv
  BY <1>0 DEF TxWrite, TxIdle, ThreadRec
<1>3. /\ cx'.tx = (cx.tx + 1) % TxMax /\ cx'.buf = cx.buf /\ cx'.based = cx.based
      /\ cx'.sleep = cx.sleep
  BY <1>0 DEF TxWrite, CursorRec
<1>4. fw'.run = fw.run /\ fw'.tok = fw.tok /\ fw'.held = fw.held + 1 /\ fw'.bits = fw.bits
  BY <1>0 DEF TxWrite, SlaveRec
<1>5. LinkInv'
  <2>1. fw.run # "down" /\ bt # "reinit"  BY <1>1 DEF FwUp, LinkInv, ThreadInv
  <2>2. OffInv' /\ ThreadInv'  BY <1>1, <1>2, <1>4, <2>1 DEF LinkInv, OffInv, ThreadInv
  <2>3. RemoveInv' /\ OverlapInv' /\ SleepInv' /\ NextInv'
    BY <1>1, <1>3, <1>4 DEF LinkInv, RemoveInv, OverlapInv, SleepInv, NextInv
  <2> QED  BY <2>2, <2>3 DEF LinkInv
<1>6. StaleInv'  BY <1>2 DEF StaleInv, Stale
<1>7. CountInv => CountInv'
  <2> SUFFICES ASSUME CountInv PROVE CountInv'
    OBVIOUS
  <2>1. (Noted' <=> Noted) /\ ~Unpaid'  BY <1>1, <1>2 DEF Noted, Recorded, Unpaid
  <2>2. cx.based = "cur" => Reserved = 1
    BY <1>1, <1>0 DEF CountInv, Unpaid, Reserved, FieldTypes
  <2>3. ASSUME cx.based = "cur", Backed PROVE Backed'
    <3>1. Window <= Free /\ cx.buf + 1 <= Window  BY <1>1, <2>2, <2>3 DEF Backed
    <3>2. Window > 0  BY <1>0, <3>1 DEF FieldTypes
    <3>3. Window' = Window - 1
      <4>1. Window' = (fw.tok + TxMax - ((cx.tx + 1) % TxMax)) % TxMax
        BY <1>3, <1>4 DEF Window
      <4>2. Window = (fw.tok + TxMax - cx.tx) % TxMax  BY DEF Window
      <4>3. fw.tok \in 0..(TxMax - 1) /\ cx.tx \in 0..(TxMax - 1)  BY <1>0 DEF FieldTypes
      <4> HIDE DEF Window
      <4> QED  BY <3>2, <4>1, <4>2, <4>3, WindowMoves
    <3>4. Free' = Free - 1 /\ Free \in Nat  BY <1>0, <1>4 DEF Free, FieldTypes
    <3>5. Reserved' = 0 /\ cx'.buf = cx.buf /\ FwUp'
      BY <1>1, <1>2, <1>3, <1>4 DEF Reserved, FwUp
    <3>6. cx.buf \in Nat /\ Window \in Nat  BY <1>0 DEF FieldTypes
    <3> HIDE DEF Window, Free, Reserved
    <3> QED  BY <3>1, <3>3, <3>4, <3>5, <3>6 DEF Backed
  <2> QED  BY <1>1, <1>3, <2>1, <2>3 DEF CountInv
<1> QED  BY <1>5, <1>6, <1>7 DEF LinkKept

\* A write of unknown outcome is recorded, and closes TX or dooms the
\* reconstruction that keeps it open.
LEMMA WriteErrorKept ==
    ASSUME TypeOK, TypeOK', LinkInv, TxWriteError
    PROVE  LinkKept
<1>0. /\ tx \in ThreadRec /\ cx \in CursorRec /\ fw \in SlaveRec /\ h \in HostRec
      /\ FieldTypes
  BY Fields DEF TypeOK
<1>1. /\ UNCHANGED <<cx, q, rec, ev, bt, pm>> /\ tx.pc = "ready" /\ h.st = "RDY"
      /\ ~Closed(h) /\ tx.valid
  BY DEF TxWriteError, MayWrite
<1>2. ~tx'.valid /\ tx'.pc = "idle" /\ ~tx'.resv
  BY <1>0 DEF TxWriteError, TxIdle, ThreadRec
<1>3. /\ fw'.run = fw.run /\ fw'.bits = fw.bits /\ fw'.tok = fw.tok
      /\ fw'.held = fw.held \/ FwUp
  <2>1. fw' = fw \/ (FwUp /\ fw' = [fw EXCEPT !.held = @ + 1, !.fed = TRUE])
    BY DEF TxWriteError
  <2> QED  BY <1>0, <2>1 DEF SlaveRec
<1>4. Marked(h, h') /\ (Has(h', "EXP") \/ h'.rst)
  <2> DEFINE v == ~Closed(h) \/ h.rst
             a == [h EXCEPT !.rst = v]
  <2>1. v \in BOOLEAN /\ v  BY <1>0, <1>1 DEF HostRec
  <2>2. h' \in {Quarantine(h), Quarantine(a), SlaveReset(h)}  BY DEF TxWriteError
  <2> HIDE DEF v
  <2>3. a \in HostRec /\ a.fl = h.fl /\ a.st = h.st /\ a.dirty = h.dirty /\ a.rst
    BY <1>0, <2>1 DEF HostRec
  <2> HIDE DEF a
  <2>4. Worse(h, a) /\ ~Closed(a)  BY <1>1, <2>3 DEF Worse, Has, Closed
  <2>5. Condemned(h, Quarantine(h)) /\ Marked(h, SlaveReset(h)) /\ SlaveReset(h).rst
    BY <1>0, <1>1, PolicyWorse
  <2>6. Condemned(a, Quarantine(a))  BY <2>3, PolicyWorse
  <2>7. Condemned(h, Quarantine(a))  BY Zenon, <2>4, <2>6, WorseOrder
  <2> QED  BY <1>1, <2>2, <2>5, <2>7 DEF Condemned
<1>5. /\ Worse(h, h') /\ Has(h', "PEND") /\ {"rec", "bt"} \subseteq h'.dirty
      /\ h'.st = "RDY" => Has(h', "RECON")
  BY <1>1, <1>4 DEF Marked
<1>6. LinkInv'
  <2>1. fw'.run = "down" => fw'.held = fw.held /\ fw'.tok = fw.tok
    BY <1>3 DEF FwUp
  <2>2. bt # "reinit" /\ h'.st # "OFF"  BY <1>1, <1>5 DEF LinkInv, ThreadInv, Worse
  <2>3. OffInv' /\ ThreadInv'
    BY <1>1, <1>2, <1>3, <2>1, <2>2 DEF LinkInv, OffInv, ThreadInv
  <2>4. RemoveInv' /\ OverlapInv' /\ NextInv'
    BY <1>1, <1>3, <1>5 DEF LinkInv, RemoveInv, OverlapInv, NextInv, Worse
  <2>5. SleepInv'  BY DEF TxWriteError, MayWrite, SleepInv
  <2> QED  BY <2>3, <2>4, <2>5 DEF LinkInv
<1>7. Noted'  BY <1>4, <1>5 DEF Noted, Recorded
<1>8. StaleInv' /\ CountInv'  BY <1>2, <1>5, <1>7 DEF StaleInv, Stale, CountInv, Unpaid
<1> QED  BY <1>6, <1>8 DEF LinkKept

\* What reaches the slave was built for the incarnation it is in.
LEMMA WritesCurrent ==
    TypeOK /\ TypeOK' /\ StaleInv /\ [Next]_vars
        => (fw'.held > fw.held => tx.for = "cur" \/ cx.based # "cur")
<1> SUFFICES ASSUME TypeOK, TypeOK', StaleInv, [Next]_vars, fw'.held > fw.held,
                    cx.based = "cur"
             PROVE  tx.for = "cur"
  OBVIOUS
<1>0. fw \in SlaveRec /\ fw.held \in Nat /\ fw'.held \in Nat
  BY Fields, FieldsNext DEF FieldTypes, TypeOK
<1>1. MayWrite => tx.for = "cur"  BY DEF MayWrite, StaleInv, Stale
<1>a. fw'.held # fw.held /\ fw'.held # 0  BY <1>0
<1>b. fw' # fw /\ fw' # Restarted
  <2>1. Restarted.held = 0  BY <1>0 DEF Restarted, SlaveRec
  <2> QED  BY <1>a, <2>1
<1>c. \A b : fw' # [fw EXCEPT !.bits = @ \cup {b}] /\ ~Handshake(b)
  <2> SUFFICES ASSUME NEW b
               PROVE  fw' # [fw EXCEPT !.bits = @ \cup {b}] /\ ~Handshake(b)
    OBVIOUS
  <2>1. /\ [fw EXCEPT !.bits = @ \cup {b}].held = fw.held
        /\ [fw EXCEPT !.gen = NextGen, !.done = 0, !.bits = @ \cup {b}].held = fw.held
    BY <1>0 DEF SlaveRec
  <2> QED  BY <1>a, <2>1 DEF Handshake
<1>2. CASE TxWrite \/ TxWriteError  BY <1>1, <1>2 DEF TxWrite, TxWriteError
<1>3. CASE Firmware \/ FwSend \/ FwCrash
  <2>1. CASE FwInit \/ FwClose \/ FwOpen
    <3>1. fw'.held = fw.held  BY <1>0, <2>1 DEF FwInit, FwClose, FwOpen, SlaveRec
    <3> QED  BY <1>a, <3>1
  <2>2. CASE FwRestart \/ FwReset \/ FwCrash
    BY <1>b, <2>2 DEF FwRestart, FwReset, FwCrash
  <2>3. CASE FwBoot \/ FwSend
    <3>1. fw'.held = fw.held  BY <1>0, <2>3 DEF FwBoot, FwSend, Publish, SlaveRec
    <3> QED  BY <1>a, <3>1
  <2>4. CASE FwReload
    <3>1. fw'.held = fw.held - 1  BY <1>0, <2>4 DEF FwReload, SlaveRec
    <3> QED  BY <1>0, <3>1
  <2>5. ASSUME NEW b \in {"PSON", "PSOFF"}, FwPowerSave(b) PROVE FALSE
    <3>1. fw' = LinkReset([fw EXCEPT !.ps = (b = "PSON"), !.bits = @ \ {b}])
      BY <2>5 DEF FwPowerSave
    <3>2. fw'.held = fw.held  BY <1>0, <3>1 DEF LinkReset, SlaveRec
    <3> QED  BY <1>a, <3>2
  <2> QED  BY <1>3, <2>1, <2>2, <2>3, <2>4, <2>5 DEF Firmware
<1>4. CASE Isr \/ ReadPacket
  <2>1. fw' = fw \/ fw' = [fw EXCEPT !.irq = FALSE] \/ fw' = [fw EXCEPT !.out = "none"]
    BY <1>4 DEF Isr, ReadPacket
  <2>2. fw'.held = fw.held  BY <1>0, <2>1 DEF SlaveRec
  <2> QED  BY <1>a, <2>2
<1>5. CASE RemoveEnd \/ Probe
  BY <1>b, <1>c, <1>5 DEF RemoveEnd, Probe
<1>6. CASE Recovery
  <2>1. ~RecHard  BY <1>b DEF RecHard
  <2>2. ~RecSoft /\ ~RecResyncSlave  BY <1>b, <1>c DEF RecSoft, RecResyncSlave
  <2>3. \A a : ~RecOpened(a)  BY <1>c DEF RecOpened
  <2>4. ~RecReopen /\ ~RecResyncOpen /\ ~RecResyncLive
    BY <1>b, <1>c, <2>3 DEF RecReopen, RecResyncOpen, RecResyncLive
  <2>5. ~RecSlaveDone  BY <1>b, <2>3 DEF RecSlaveDone
  <2> QED
    BY <1>6, <1>b, <2>1, <2>2, <2>4, <2>5 DEF Recovery, RecGate, RecExpire, RecClaim,
       RecBarrier, RecSoftAck, RecSoftTimeout, RecResyncDown, RecResyncRestart, RecLive,
       RecAbort
<1>7. CASE PowerManagement
  <2>1. ~PmAsleep
    <3>1. [fw EXCEPT !.gen = NextGen, !.done = 0, !.bits = @ \cup {"PSOFF"}].held = fw.held
      BY <1>0 DEF SlaveRec
    <3> QED  BY <1>a, <1>b, <3>1 DEF PmAsleep
  <2>2. ~PmSleep /\ ~PmResume  BY <1>b, <1>c DEF PmSleep, PmResume
  <2> QED
    BY <1>7, <1>b, <2>1, <2>2 DEF PowerManagement, PmAwake, PmBaseline, PmTimeout
<1>8. CASE \/ Environment \/ TxBuild \/ TxCredit \/ TxCreditError \/ TxGiveUp
           \/ RxLenError \/ RxReset \/ RxNothing \/ BootHandler \/ UNCHANGED vars
  BY <1>b, <1>8 DEF Environment, WritePacket, CmdEnds, FlushTraffic, IsrError, ReadError,
     RestartRequest, PmSuspend, RemoveStart, TxBuild, TxCredit, TxCreditError, TxGiveUp,
     TxAbandon, RxLenError, RxReset, RxNothing, BootHandler, BootStart, BootReinit,
     BootCommit, BootFinish, BootCallback, BootAbort, vars
<1> QED
  BY <1>2, <1>3, <1>4, <1>5, <1>6, <1>7, <1>8 DEF Next, TxThread, RxWork

\* b differs from a in marks only, as far as the structure of the link goes.
Alike(a, b) ==
    /\ (Has(b, "INIT") <=> Has(a, "INIT")) /\ (Has(b, "RECON") <=> Has(a, "RECON"))
    /\ Closed(b) <=> Closed(a)
    /\ Has(a, "EXP") => Has(b, "EXP")
    /\ Has(a, "CLEAN") => Has(b, "CLEAN") \/ Has(b, "EXP")
    /\ b.st = "OFF" => a.st = "OFF"

\* The policy changes marks only, and never opens TX.
LEMMA WorseIsAlike ==
    \A a, b : Worse(a, b) => Alike(a, b) /\ (b.st = "RDY" => a.st = "RDY")
  BY DEF Worse, Alike

\* A step inside a recovery pass keeps the structure of the link.
LEMMA PassLink ==
    ASSUME LinkInv, ~Closed(h), Alike(h, h'), UNCHANGED <<bt, pm>>,
           tx'.pc = tx.pc, tx'.resv = tx.resv, tx'.valid => tx.valid,
           ~cx'.sleep, cx'.based # "next",
           rec.pc # "idle", rec'.pc = "resync" => h'.st # "RDY",
           rec'.pc = "live" => Has(h', "INIT"),
           fw'.run = fw.run \/ fw'.run = "down",
           fw'.run = "down" => fw'.held = 0 /\ fw'.tok = 0
    PROVE  LinkInv'
<1>1. OffInv' /\ ThreadInv' /\ SleepInv' /\ NextInv'
  BY DEF LinkInv, OffInv, ThreadInv, SleepInv, NextInv, Alike
<1>2. RemoveInv' /\ OverlapInv'
  BY DEF LinkInv, RemoveInv, OverlapInv, Alike
<1> QED  BY <1>1, <1>2 DEF LinkInv

\* Inside a pass the system is awake, the binding is up, and the host is not
\* ahead of the firmware, unless it waits for the restart it announced.
LEMMA PassFacts ==
    ASSUME LinkInv, ~Closed(h), rec.pc \notin {"idle", "lock", "live"}
    PROVE  ~cx.sleep /\ h.st # "OFF" /\ (cx.based = "next" => rec.pc = "reboot")
  BY DEF LinkInv, SleepInv, OffInv, NextInv

\* A step of a pass that leaves the counters alone and forgets nothing
LEMMA PassStep ==
    ASSUME TypeOK, TypeOK', LinkInv, ~Closed(h), Alike(h, h'), UNCHANGED <<bt, pm>>,
           TxSame, CountSame, SlaveSame, cx.based # "next",
           rec.pc \notin {"idle", "lock", "live", "barrier"},
           rec'.pc \notin {"resync", "live"}, h'.st = "RDY" => h.st = "RDY",
           Noted => Noted'
    PROVE  LinkKept
<1>1. ~cx.sleep /\ h.st # "OFF"  BY PassFacts
<1>2. LinkInv'
  <2>1. fw'.run = "down" => fw'.held = 0 /\ fw'.tok = 0
    BY DEF LinkInv, ThreadInv, SlaveSame
  <2> QED  BY <1>1, <2>1, PassLink DEF TxSame, CountSame, SlaveSame
<1>4. Backed => Backed'  BY DropKeepsBacked DEF CountSame
<1>5. (Unpaid' => Unpaid) /\ (Stale' => Stale)
  BY DEF Unpaid, Stale, TxSame, CountSame
<1>6. StaleInv => StaleInv'  BY <1>5 DEF StaleInv
<1>7. CountInv => CountInv'
  BY <1>1, <1>4, <1>5 DEF CountInv, CountSame, Alike
<1> QED  BY <1>2, <1>6, <1>7 DEF LinkKept

\* Records that agree on what a pass looks at
LEMMA SameNoted ==
    ASSUME Worse(h, h'), rec.pc \notin {"rstwait", "hard"} \/ rec'.pc \in {"rstwait", "hard"},
           rec'.pc # "live"
    PROVE  Noted => Noted'
  BY DEF Worse, Noted, Recorded

\* The steps of a pass that only move it on, or end it
LEMMA MovesKept ==
    ASSUME TypeOK, TypeOK', LinkInv,
           \/ RecSoft \/ RecSoftTimeout \/ RecReopen \/ RecResyncDown
           \/ RecResyncRestart \/ RecResyncSlave
    PROVE  LinkKept
<1>0. h \in HostRec /\ fw \in SlaveRec /\ cx \in CursorRec /\ tx \in ThreadRec
      /\ rec \in RecoveryRec /\ FieldTypes
  BY Fields DEF TypeOK
<1>a. UNCHANGED <<tx, bt, pm>> /\ ~Closed(h)
  BY DEF RecSoft, RecSoftTimeout, RecReopen, RecResyncDown, RecResyncRestart,
     RecResyncSlave
<1>b. TxSame  BY <1>a DEF TxSame
<1>c. cx.buf <= cx.buf  BY <1>0 DEF FieldTypes
<1>d. /\ UNCHANGED cx => CountSame
      /\ cx' = [cx EXCEPT !.rxw = TRUE] => CountSame
      /\ cx' = [cx EXCEPT !.gen = NextGen] => CountSame
  BY <1>0, <1>c DEF CountSame, CursorRec
<1>e. /\ UNCHANGED fw => SlaveSame
      /\ fw' = [fw EXCEPT !.bits = @ \cup {"OPEN"}] => SlaveSame
      /\ \A b : fw' = [fw EXCEPT !.gen = NextGen, !.done = 0, !.bits = @ \cup {b}]
                  => SlaveSame
  <2>1. UNCHANGED fw => SlaveSame  BY DEF SlaveSame
  <2>2. fw' = [fw EXCEPT !.bits = @ \cup {"OPEN"}] => SlaveSame
    BY <1>0 DEF SlaveSame, SlaveRec
  <2>3. ASSUME NEW b, fw' = [fw EXCEPT !.gen = NextGen, !.done = 0, !.bits = @ \cup {b}]
        PROVE  SlaveSame
    BY <1>0, <2>3 DEF SlaveSame, SlaveRec
  <2> QED  BY <2>1, <2>2, <2>3
<1>f. \A a \in HostRec : Worse(h, a) /\ RecFails(a) => Worse(h, h') /\ rec'.pc = "idle"
  <2> SUFFICES ASSUME NEW a \in HostRec, Worse(h, a), RecFails(a)
               PROVE  Worse(h, h') /\ rec'.pc = "idle"
    OBVIOUS
  <2>1. h'.fl = a.fl /\ h'.st = a.st /\ h'.dirty = a.dirty /\ h'.rst = a.rst
    BY DEF RecFails, HostRec
  <2>2. Worse(a, h')  BY <2>1, SameMarks
  <2>3. Worse(h, h')  BY Zenon, <2>2, WorseOrder
  <2> QED  BY <2>3 DEF RecFails, RecIdle
<1>g. \A a \in HostRec : Worse(h, a) /\ RecOpened(a) => Worse(h, h') /\ rec'.pc = "idle"
  <2> SUFFICES ASSUME NEW a \in HostRec, Worse(h, a), RecOpened(a)
               PROVE  Worse(h, h') /\ rec'.pc = "idle"
    OBVIOUS
  <2>1. h'.fl = a.fl /\ h'.st = a.st /\ h'.dirty = a.dirty /\ h'.rst = a.rst
    BY DEF RecOpened, HostRec
  <2>2. Worse(a, h')  BY <2>1, SameMarks
  <2>3. Worse(h, h')  BY Zenon, <2>2, WorseOrder
  <2> QED  BY <2>3 DEF RecOpened, RecIdle
<1>h. /\ Worse(h, h) /\ BudgetSync(h) \in HostRec /\ Worse(h, BudgetSync(h))
      /\ Arm(h) \in HostRec /\ Worse(h, Arm(h))
  BY <1>0, PolicyFacts, PolicyWorse, WorseOrder
<1>1. CASE RecSoft
  <2>1. CountSame /\ SlaveSame /\ Worse(h, h') /\ rec'.pc \in {"idle", "softwait"}
        /\ rec.pc = "soft"
    <3>1. CASE RecFails(h) /\ UNCHANGED <<cx, fw>>
      BY <1>0, <1>1, <1>d, <1>e, <1>f, <1>h, <3>1 DEF RecSoft
    <3>2. CASE RecFails(BudgetSync(h)) /\ UNCHANGED <<cx, fw>>
      BY <1>0, <1>1, <1>d, <1>e, <1>f, <1>h, <3>2 DEF RecSoft
    <3>3. CASE Handshake("CLOSE") /\ h' = [BudgetSync(h) EXCEPT !.tries = @ + 1]
               /\ rec' = [rec EXCEPT !.pc = "softwait"]
      <4> DEFINE a == BudgetSync(h)
      <4>1. a \in HostRec /\ Worse(h, a) /\ h' = [a EXCEPT !.tries = @ + 1]
        BY <1>h, <3>3
      <4> HIDE DEF a
      <4>2. h'.fl = a.fl /\ h'.st = a.st /\ h'.dirty = a.dirty /\ h'.rst = a.rst
        BY <4>1 DEF HostRec
      <4>3. Worse(a, h')  BY <4>2, SameMarks
      <4>4. Worse(h, h')  BY Zenon, <4>1, <4>3, WorseOrder
      <4>5. rec'.pc = "softwait"  BY <1>0, <3>3 DEF RecoveryRec
      <4> QED  BY <1>1, <1>d, <1>e, <3>3, <4>4, <4>5 DEF Handshake, RecSoft
    <3> QED  BY <1>1, <3>1, <3>2, <3>3 DEF RecSoft
  <2>2. cx.based # "next"  BY <1>a, <2>1, PassFacts
  <2>3. Noted => Noted'  BY <2>1, SameNoted
  <2>4. Alike(h, h') /\ (h'.st = "RDY" => h.st = "RDY")  BY <2>1, WorseIsAlike
  <2> QED  BY <1>a, <1>b, <2>1, <2>2, <2>3, <2>4, PassStep
<1>2. CASE RecSoftTimeout \/ RecResyncRestart
  <2>1. CountSame /\ SlaveSame /\ Worse(h, h') /\ rec'.pc = "idle"
        /\ rec.pc \in {"softwait", "resync"}
    <3>1. UNCHANGED <<cx, fw>> /\ rec.pc \in {"softwait", "resync"}
          /\ (RecFails(h) \/ RecFails(Arm(h)) \/ RecFails(BudgetSync(h)))
      BY <1>2 DEF RecSoftTimeout, RecResyncRestart
    <3> QED  BY <1>0, <1>d, <1>e, <1>f, <1>h, <3>1
  <2>2. cx.based # "next"  BY <1>a, <2>1, PassFacts
  <2>3. Noted => Noted'  BY <2>1, SameNoted
  <2>4. Alike(h, h') /\ (h'.st = "RDY" => h.st = "RDY")  BY <2>1, WorseIsAlike
  <2> QED  BY <1>a, <1>b, <2>1, <2>2, <2>3, <2>4, PassStep
<1>3. CASE RecReopen
  <2>1. CountSame /\ SlaveSame /\ Worse(h, h') /\ rec'.pc = "idle"
        /\ rec.pc \in {"reboot", "reopen"} /\ fw.run # "acked"
    <3>1. rec.pc \in {"reboot", "reopen"}  BY <1>3 DEF RecReopen
    <3>2. CASE RecFails(h) /\ UNCHANGED <<cx, fw>> /\ fw.run # "acked"
      BY <1>0, <1>d, <1>e, <1>f, <1>h, <3>1, <3>2
    <3>3. CASE RecOpened(h) /\ cx' = [cx EXCEPT !.rxw = TRUE] /\ fw.run = "up"
      BY <1>0, <1>d, <1>e, <1>g, <1>h, <3>1, <3>3 DEF RecOpened
    <3> QED  BY <1>3, <3>2, <3>3 DEF RecReopen
  <2>2. cx.based # "next"  BY <2>1 DEF LinkInv, NextInv
  <2>3. Noted => Noted'  BY <2>1, SameNoted
  <2>4. Alike(h, h') /\ (h'.st = "RDY" => h.st = "RDY")  BY <2>1, WorseIsAlike
  <2> QED  BY <1>a, <1>b, <2>1, <2>2, <2>3, <2>4, PassStep
<1>4. CASE RecResyncDown
  <2>1. CountSame /\ SlaveSame /\ Worse(h, h') /\ rec'.pc = "hard" /\ rec.pc = "resync"
    BY <1>0, <1>4, <1>d, <1>e, <1>h DEF RecResyncDown, RecTo, RecoveryRec
  <2>2. cx.based # "next"  BY <1>a, <2>1, PassFacts
  <2>3. Noted => Noted'  BY <2>1, SameNoted
  <2>4. Alike(h, h') /\ (h'.st = "RDY" => h.st = "RDY")  BY <2>1, WorseIsAlike
  <2> QED  BY <1>a, <1>b, <2>1, <2>2, <2>3, <2>4, PassStep
<1>5. CASE RecResyncSlave
  <2>1. CountSame /\ SlaveSame /\ rec'.pc = "rstwait" /\ rec.pc = "resync"
    BY <1>0, <1>5, <1>d, <1>e DEF RecResyncSlave, RecTo, Handshake, RecoveryRec
  <2>2. h'.fl = h.fl /\ h'.st = h.st /\ h'.dirty = h.dirty
    BY <1>0, <1>5 DEF RecResyncSlave, HostRec
  <2>3. cx.based # "next"  BY <1>a, <2>1, PassFacts
  <2>4. Noted => Noted'  BY <2>1, <2>2 DEF Noted, Recorded, Has, Closed
  <2>5. Alike(h, h')  BY <2>2 DEF Alike, Has, Closed
  <2> QED  BY <1>a, <1>b, <2>1, <2>2, <2>3, <2>4, <2>5, PassStep
<1> QED  BY <1>1, <1>2, <1>3, <1>4, <1>5

\* A baseline is backed when the slave has all its buffers loaded.
LEMMA BaselineBacked ==
    ASSUME TypeOK', cx'.tx = TxBase(fw'.tok), cx'.buf = 0, ~tx'.valid, FwUp', fw'.held = 0
    PROVE  Backed'
<1>1. FieldTypes'  BY FieldsNext
<1>2. fw'.tok \in 0..(TxMax - 1) /\ cx'.tx \in 0..(TxMax - 1) /\ Window' \in Nat
  BY <1>1 DEF FieldTypes
<1>3. Window' = (fw'.tok + TxMax - cx'.tx) % TxMax  BY DEF Window
<1>4. Window' <= MaxBuf  BY <1>2, <1>3, WindowMoves
<1>5. Free' = MaxBuf /\ Reserved' = 0  BY CounterFacts DEF Free, Reserved
<1> QED  BY <1>2, <1>4, <1>5 DEF Backed

\* The worker is let in, and claims.
LEMMA GateKept ==
    ASSUME TypeOK, TypeOK', LinkInv, PassInv, RecGate \/ RecClaim
    PROVE  LinkKept
<1>0. h \in HostRec /\ cx \in CursorRec /\ rec \in RecoveryRec /\ FieldTypes
  BY Fields DEF TypeOK
<1>a. cx.buf <= cx.buf  BY <1>0 DEF FieldTypes
<1>1. CASE RecGate
  <2>1. UNCHANGED <<cx, q, tx, ev, bt, pm, fw>> /\ rec.pc = "idle" /\ ~Closed(h)
    BY <1>1 DEF RecGate
  <2>2. h.st # "OFF"  BY <1>1, Bound DEF BoundSteps
  <2>3. TxSame /\ CountSame /\ SlaveSame
    BY <1>a, <2>1 DEF TxSame, CountSame, SlaveSame
  <2>4. CASE UNCHANGED rec
    <3>1. h' = [h EXCEPT !.work = FALSE]
      BY <1>0, <1>1, <2>1, <2>4 DEF RecGate, RecoveryRec
    <3>2. h'.fl = h.fl /\ h'.st = h.st /\ h'.dirty = h.dirty /\ h'.rst = h.rst
      BY <1>0, <3>1 DEF HostRec
    <3>3. Worse(h, h')  BY <3>2, SameMarks
    <3> QED  BY <2>1, <2>2, <2>3, <2>4, <3>3, PolicyStep
  <2>5. CASE ~UNCHANGED rec
    <3>1. /\ {"CLEAN", "RECON"} \cap h.fl = {}
          /\ h' = [h EXCEPT !.work = FALSE, !.dirty = @ \ {"rec"}]
          /\ rec' = [rec EXCEPT !.pc = "lock"]
      BY <1>1, <2>5 DEF RecGate
    <3>2. /\ h'.fl = h.fl /\ h'.st = h.st /\ h'.rst = h.rst /\ rec'.pc = "lock"
          /\ "bt" \in h.dirty => "bt" \in h'.dirty
      BY <1>0, <3>1 DEF HostRec, RecoveryRec
    <3>3. ~Has(h, "CLEAN") /\ ~Has(h, "RECON")  BY <3>1 DEF Has
    <3>4. \A f : Has(h', f) <=> Has(h, f)  BY <3>2 DEF Has
    <3>5. (Closed(h') <=> Closed(h)) /\ (Healthy(h') <=> Healthy(h))
      BY <3>2 DEF Closed, Healthy, Has
    <3>6. OffInv' /\ ThreadInv' /\ RemoveInv'
      BY <2>1, <2>2, <3>2, <3>4, <3>5 DEF LinkInv, OffInv, ThreadInv, RemoveInv
    <3>7. OverlapInv'
      BY <2>1, <3>2, <3>3, <3>4, <3>5 DEF LinkInv, OverlapInv
    <3>8. SleepInv' /\ NextInv'
      BY <2>1, <3>2, <3>4, <3>5 DEF LinkInv, SleepInv, NextInv
    <3>9. Noted => Noted'
      BY <2>1, <3>2, <3>4, <3>5 DEF Noted, Recorded
    <3>10. Backed => Backed'
      BY <2>3, DropKeepsBacked DEF CountSame
    <3>11. (Unpaid' => Unpaid) /\ (Stale' => Stale)
      BY <2>1 DEF Unpaid, Stale
    <3>12. StaleInv => StaleInv'  BY <3>2, <3>9, <3>11 DEF StaleInv
    <3>13. CountInv => CountInv'
      BY <2>1, <3>2, <3>4, <3>9, <3>10, <3>11 DEF CountInv
    <3> QED  BY <3>6, <3>7, <3>8, <3>12, <3>13 DEF LinkKept, LinkInv
  <2> QED  BY <2>4, <2>5
<1>2. CASE RecClaim
  <2>1. UNCHANGED <<q, tx, ev, bt, pm, fw>> /\ rec.pc = "lock" /\ ~Closed(h)
    BY <1>2 DEF RecClaim
  <2>2. ~Healthy(h)  BY <2>1 DEF PassInv
  <2>3. rec'.pc = "barrier"  BY <1>0, <1>2, <2>2 DEF RecClaim, RecoveryRec
  <2>4. /\ cx'.tx = cx.tx /\ cx'.buf = cx.buf /\ cx'.based = cx.based /\ ~cx'.sleep
    BY <1>0, <1>2 DEF RecClaim, CursorRec
  <2>5. /\ h'.fl = h.fl \/ h'.fl = h.fl \cup {"PEND", "EXP"}
        /\ h'.st = h.st /\ h'.rst = h.rst /\ h.dirty \subseteq h'.dirty
    <3>1. h' = Claimed(h)  BY <1>2 DEF RecClaim
    <3> DEFINE b == [h EXCEPT !.hard = FALSE, !.soft = FALSE]
    <3>2. /\ b \in HostRec /\ b.fl = h.fl /\ b.st = h.st /\ b.rst = h.rst
          /\ b.dirty = h.dirty
      BY <1>0 DEF HostRec
    <3>3. h' \in {b, [b EXCEPT !.fl = @ \cup {"PEND", "EXP"}, !.dirty = {"rec", "bt"}]}
      BY Zenon, <3>1 DEF Claimed
    <3> HIDE DEF b
    <3>4. CASE h' = b  BY <3>2, <3>4
    <3>5. CASE h' = [b EXCEPT !.fl = @ \cup {"PEND", "EXP"}, !.dirty = {"rec", "bt"}]
      <4>1. h'.fl = b.fl \cup {"PEND", "EXP"} /\ h'.st = b.st /\ h'.rst = b.rst
            /\ h'.dirty = {"rec", "bt"}
        BY <3>2, <3>5 DEF HostRec
      <4>2. h.dirty \subseteq {"rec", "bt"}  BY <1>0 DEF HostRec
      <4> QED  BY <3>2, <4>1, <4>2
    <3> QED  BY <3>3, <3>4, <3>5
  <2>6. Alike(h, h') /\ (Has(h, "PEND") => Has(h', "PEND"))
    BY <2>5 DEF Alike, Has, Closed
  <2>7. cx.based # "next"  BY <2>1 DEF LinkInv, NextInv
  <2>8. LinkInv'
    <3>1. fw'.run = "down" => fw'.held = 0 /\ fw'.tok = 0
      BY <2>1 DEF LinkInv, ThreadInv
    <3> QED  BY <2>1, <2>3, <2>4, <2>6, <2>7, <3>1, PassLink
  <2>9. Noted => Noted'
    BY <2>1, <2>3, <2>5, <2>6 DEF Noted, Recorded, Alike
  <2>10. Backed => Backed'
    <3>1. TxSame /\ SlaveSame /\ cx'.buf <= cx.buf  BY <1>a, <2>1, <2>4 DEF TxSame, SlaveSame
    <3> QED  BY <2>4, <3>1, DropKeepsBacked
  <2>11. (Unpaid' => Unpaid) /\ (Stale' => Stale)
    BY <2>1, <2>4 DEF Unpaid, Stale
  <2>12. StaleInv => StaleInv'  BY <2>5, <2>9, <2>11 DEF StaleInv
  <2>13. cx.sleep => h.st # "RDY"  BY <2>2 DEF LinkInv, SleepInv
  <2>14. CountInv => CountInv'
    BY <2>3, <2>4, <2>5, <2>6, <2>9, <2>10, <2>11, <2>13 DEF CountInv, Alike
  <2> QED  BY <2>8, <2>12, <2>14 DEF LinkKept
<1> QED  BY <1>1, <1>2

\* The barrier: TX is closed and the epoch moved.
LEMMA BarrierKept ==
    ASSUME TypeOK, TypeOK', LinkInv, PassInv, RecBarrier
    PROVE  LinkKept
<1>0. h \in HostRec /\ tx \in ThreadRec /\ rec \in RecoveryRec /\ FieldTypes
  BY Fields DEF TypeOK
<1>1. UNCHANGED <<cx, q, ev, bt, pm, fw>> /\ rec.pc = "barrier" /\ ~Closed(h)
  BY DEF RecBarrier
<1>2. ~Healthy(h)  BY <1>1 DEF PassInv
<1>3. h' = [h EXCEPT !.st = "RX"] /\ rec'.pc \in {"hard", "soft", "resync"}
  BY <1>2 DEF RecBarrier
<1>4. h'.fl = h.fl /\ h'.st = "RX" /\ h'.rst = h.rst /\ h'.dirty = h.dirty
  BY <1>0, <1>3 DEF HostRec
<1>5. ~tx'.valid /\ tx'.pc = tx.pc /\ tx'.resv = tx.resv
  BY <1>0 DEF RecBarrier, NoEpoch, ThreadRec
<1>6. Alike(h, h')  BY <1>4 DEF Alike, Has, Closed
<1>7. ~cx.sleep /\ cx.based # "next"  BY <1>1, PassFacts
<1>8. LinkInv'
  <2>1. fw'.run = "down" => fw'.held = 0 /\ fw'.tok = 0
    BY <1>1 DEF LinkInv, ThreadInv
  <2> QED  BY <1>1, <1>3, <1>4, <1>5, <1>6, <1>7, <2>1, PassLink
<1>9. StaleInv'  BY <1>5 DEF StaleInv, Stale
<1>10. CountInv => CountInv'
  <2>1. Noted => Noted'  BY <1>1, <1>3, <1>4 DEF Noted, Recorded, Has, Closed
  <2>2. Backed => Backed'
    <3>1. SlaveSame /\ cx'.buf <= cx.buf  BY <1>0, <1>1 DEF SlaveSame, FieldTypes
    <3> QED  BY <1>1, <1>5, <3>1, DropKeepsBacked
  <2> QED  BY <1>1, <1>4, <1>5, <2>1, <2>2 DEF CountInv, Unpaid
<1> QED  BY <1>8, <1>9, <1>10 DEF LinkKept

\* The power cycle, and what stands in for it: a reset is expected, and TX is
\* closed unless a reconstruction is under way.
LEMMA HardKept ==
    ASSUME TypeOK, TypeOK', LinkInv, RecHard
    PROVE  LinkKept
<1>0. /\ h \in HostRec /\ tx \in ThreadRec /\ rec \in RecoveryRec /\ cx \in CursorRec
      /\ fw \in SlaveRec /\ FieldTypes
  BY Fields DEF TypeOK
<1>1. UNCHANGED <<bt, pm>> /\ rec.pc = "hard" /\ ~Closed(h)
  BY DEF RecHard
<1>2. ~cx.sleep /\ cx.based # "next"  BY <1>1, PassFacts
<1>3. /\ rec'.pc \in {"idle", "reopen"}
      /\ tx'.pc = tx.pc /\ tx'.valid = tx.valid /\ tx'.resv = tx.resv
      /\ fw' = fw \/ fw' = Restarted
      /\ cx' = cx \/ cx' = Zeroed(cx, "cur") \/ cx' = Zeroed(cx, cx.based)
  BY <1>0 DEF RecHard, RecFails, RecIdle, RecoveryRec, ThreadRec
<1>4. ~cx'.sleep /\ cx'.based # "next"
  BY <1>0, <1>2, <1>3 DEF Zeroed, CursorRec
<1>5. /\ fw'.run = fw.run \/ fw'.run = "down"
      /\ fw'.run = "down" => fw'.held = 0 /\ fw'.tok = 0
  <2>1. Restarted.run = "down" /\ Restarted.held = 0 /\ Restarted.tok = 0
    BY <1>0 DEF Restarted, SlaveRec
  <2> QED  BY <1>3, <2>1 DEF LinkInv, ThreadInv
<1>6. Alike(h, h') /\ Has(h', "EXP")
      /\ (h'.st = h.st \/ (h'.st # "RDY" \/ Has(h', "RECON")))
  <2> DEFINE fl == h.fl \cup {"EXP"}
             us == h.used \/ FullReset
             a == [h EXCEPT !.fl = fl, !.rebase = TRUE, !.rst = FALSE, !.used = us]
             needed(b) == [b EXCEPT !.fl = @ \cup {"NEED"}]
             fallback(b) == IF MayArm(b) THEN Arm(needed(b)) ELSE needed(b)
             done(b) == [b EXCEPT !.fl = @ \ {"NEED"}]
             n == needed(a)
             r == Arm(n)
  <2>1. fl \in SUBSET Flags /\ us \in BOOLEAN
    BY <1>0 DEF HostRec, Flags, FullReset
  <2>2. a \in HostRec /\ a.fl = fl /\ a.st = h.st
    <3> HIDE DEF fl, us
    <3> DEFINE c == [h EXCEPT !.fl = fl, !.rebase = TRUE]
    <3>1. c \in HostRec /\ c.fl = fl /\ c.st = h.st  BY <1>0, <2>1 DEF HostRec
    <3>2. a = [c EXCEPT !.rst = FALSE, !.used = us]  OBVIOUS
    <3> HIDE DEF a, c
    <3> QED  BY <2>1, <3>1, <3>2 DEF HostRec
  <2>3. \/ RecFails(Quarantine(h)) \/ RecFails([r EXCEPT !.noHard = TRUE])
        \/ RecFails([n EXCEPT !.noHard = TRUE]) \/ RecFails(r) \/ RecFails(n)
        \/ h' = done(a)
    BY DEF RecHard
  <2>4. Alike(h, a) /\ Has(a, "EXP")  BY <2>2 DEF Alike, Has, Closed
  <2> HIDE DEF a
  <2>5. n \in HostRec /\ n.fl = a.fl \cup {"NEED"} /\ n.st = a.st
    <3>1. a.fl \cup {"NEED"} \in SUBSET Flags  BY <2>2 DEF HostRec, Flags
    <3> QED  BY <2>2, <3>1 DEF HostRec
  <2>6. done(a).fl = a.fl \ {"NEED"} /\ done(a).st = a.st  BY <2>2 DEF HostRec
  <2> HIDE DEF n
  <2>7. r \in HostRec /\ r.fl = n.fl /\ r.st = n.st
    <3> DEFINE c == BudgetSync(n)
    <3>1. c \in HostRec /\ c.fl = n.fl /\ c.st = n.st
      BY <2>5, PolicyFacts DEF BudgetSync, HostRec
    <3>2. r = [c EXCEPT !.cur = TRUE, !.soft = TRUE]  BY DEF Arm
    <3> HIDE DEF c, r
    <3>3. r.fl = c.fl /\ r.st = c.st  BY <3>1, <3>2 DEF HostRec
    <3>4. r \in HostRec  BY <2>5, PolicyFacts DEF r
    <3> QED  BY <3>1, <3>3, <3>4
  <2> HIDE DEF r, done, fl
  <2>8. CASE RecFails(Quarantine(h))
    <3> DEFINE c == Quarantine(h)
    <3>1. c \in HostRec /\ Condemned(h, c)  BY <1>0, PolicyFacts, PolicyWorse
    <3>2. h' = [c EXCEPT !.work = TRUE]  BY <2>8 DEF RecFails
    <3> HIDE DEF c
    <3>3. h'.fl = c.fl /\ h'.st = c.st  BY <3>1, <3>2 DEF HostRec
    <3>4. Alike(h, c) /\ Has(c, "EXP") /\ (c.st = "RDY" => Has(c, "RECON"))
      BY <1>1, <3>1, WorseIsAlike DEF Condemned, Marked
    <3> QED  BY <3>3, <3>4 DEF Alike, Has, Closed
  <2>9. CASE ~RecFails(Quarantine(h))
    <3>1. h'.st = a.st /\ (h'.fl = a.fl \cup {"NEED"} \/ h'.fl = a.fl \ {"NEED"})
      <4>1. \A b \in HostRec :
              RecFails(b) \/ RecFails([b EXCEPT !.noHard = TRUE])
                => h'.fl = b.fl /\ h'.st = b.st
        BY DEF RecFails, HostRec
      <4> QED  BY <2>3, <2>5, <2>6, <2>7, <2>9, <4>1
    <3> QED  BY <2>2, <2>4, <3>1 DEF Alike, Has, Closed
  <2> QED  BY <2>8, <2>9
<1>7. LinkInv'  BY <1>1, <1>3, <1>4, <1>5, <1>6, PassLink
<1>8. ~ResetUnderTx => Noted' /\ h'.st # "RDY"
  <2> SUFFICES ASSUME ~ResetUnderTx PROVE Noted' /\ h'.st # "RDY"
    OBVIOUS
  <2>1. h.st # "RDY" /\ ~Has(h, "RECON")  BY <1>1 DEF ResetUnderTx
  <2> QED  BY <1>6, <2>1 DEF Alike, Noted, Recorded
<1>9. ~ResetUnderTx => StaleInv' /\ CountInv'
  BY <1>8 DEF StaleInv, CountInv
<1> QED  BY <1>7, <1>9 DEF LinkKept, InventsCredit

\* An acknowledged CLOSE: the host is ahead of the firmware.
LEMMA SoftAckKept ==
    ASSUME TypeOK, TypeOK', LinkInv, HandshakeInv, RecSoftAck
    PROVE  LinkKept
<1>0. h \in HostRec /\ rec \in RecoveryRec /\ cx \in CursorRec  BY DEF TypeOK
<1>1. /\ UNCHANGED <<tx, ev, bt, pm, fw>> /\ rec.pc = "softwait" /\ ~Closed(h)
      /\ rec'.pc = "reboot"
  BY <1>0 DEF RecSoftAck, RecoveryRec
<1>2. fw.run = "acked"
  <2>1. fw.done = cx.gen /\ cx.gen # 0  BY <1>0 DEF RecSoftAck, Acked, CursorRec, Gens
  <2> QED  BY <1>1, <2>1 DEF HandshakeInv
<1>3. cx'.based = "next" /\ cx'.sleep = cx.sleep
  BY <1>0 DEF RecSoftAck, Zeroed, CursorRec
<1>4. h'.fl = (h.fl \ {"NEED"}) \cup {"EXP"} /\ h'.st = h.st
  BY <1>0 DEF RecSoftAck, HostRec
<1>5. Alike(h, h') /\ Has(h', "EXP")  BY <1>4 DEF Alike, Has, Closed
<1>6. ~cx.sleep /\ h.st # "OFF"  BY <1>1, PassFacts
<1>7. OffInv' /\ ThreadInv' /\ SleepInv' /\ NextInv'
  BY <1>1, <1>2, <1>3, <1>4, <1>5, <1>6
     DEF LinkInv, OffInv, ThreadInv, SleepInv, NextInv
<1>8. RemoveInv' /\ OverlapInv'
  BY <1>1, <1>4, <1>5 DEF LinkInv, RemoveInv, OverlapInv, Alike
<1>9. StaleInv' /\ CountInv'  BY <1>3 DEF StaleInv, Stale, CountInv, Unpaid
<1> QED  BY <1>7, <1>8, <1>9 DEF LinkKept, LinkInv

\* The end of a slave reset: a baseline, on a slave that has loaded its buffers
LEMMA SlaveDoneKept ==
    ASSUME TypeOK, TypeOK', LinkInv, RecSlaveDone
    PROVE  LinkKept
<1>0. /\ h \in HostRec /\ rec \in RecoveryRec /\ cx \in CursorRec /\ tx \in ThreadRec
      /\ fw \in SlaveRec /\ FieldTypes
  BY Fields DEF TypeOK
<1>1. UNCHANGED <<ev, bt, pm>> /\ rec.pc = "rstwait" /\ ~Closed(h)
  BY DEF RecSlaveDone
<1>2. ~cx.sleep /\ cx.based # "next"  BY <1>1, PassFacts
<1>3. CASE Acked
  <2>1. tx'.pc = tx.pc /\ tx'.resv = tx.resv /\ ~tx'.valid
    BY <1>0, <1>3 DEF RecSlaveDone, NoEpoch, ThreadRec
  <2>2. cx'.tx = TxBase(fw.tok) /\ cx'.buf = 0 /\ cx'.based = "cur" /\ cx'.sleep = cx.sleep
    BY <1>0, <1>3 DEF RecSlaveDone, Baselined, CursorRec
  <2>3. fw'.run = fw.run /\ fw'.tok = fw.tok /\ fw'.held = fw.held
    <3>1. fw' = fw \/ fw' = [fw EXCEPT !.bits = @ \cup {"OPEN"}]
      BY <1>3 DEF RecSlaveDone, RecOpened
    <3> QED  BY <1>0, <3>1 DEF SlaveRec
  <2>4. /\ h'.fl = h.fl /\ h'.st # "OFF"
        /\ rec'.pc = "idle" \/ (rec'.pc = "live" /\ Has(h, "INIT"))
    <3> DEFINE b == BaseFlags(h)
    <3>1. b \in HostRec /\ b.fl = h.fl /\ b.st = h.st
      BY <1>0 DEF BaseFlags, HostRec
    <3>2. \/ /\ h' = [b EXCEPT !.st = "RDY"] /\ rec' = [rec EXCEPT !.pc = "live"]
             /\ Has(h, "INIT")
          \/ RecOpened(b)
      BY <1>3 DEF RecSlaveDone
    <3> HIDE DEF b
    <3>3. h.st # "OFF"  BY <1>1, PassFacts
    <3>4. CASE RecOpened(b)
      BY <3>1, <3>3, <3>4 DEF RecOpened, RecIdle, HostRec
    <3>5. CASE ~RecOpened(b)
      BY <1>0, <3>1, <3>2, <3>5 DEF HostRec, RecoveryRec
    <3> QED  BY <3>4, <3>5
  <2>5. Alike(h, h') /\ (rec'.pc = "live" => Has(h', "INIT"))
    BY <2>4 DEF Alike, Has, Closed
  <2>6. LinkInv'
    <3>1. fw'.run = "down" => fw'.held = 0 /\ fw'.tok = 0
      BY <2>3 DEF LinkInv, ThreadInv
    <3> QED  BY <1>1, <1>2, <2>1, <2>2, <2>3, <2>4, <2>5, <3>1, PassLink
  <2>7. StaleInv'  BY <2>1 DEF StaleInv, Stale
  <2>8. ~InventsCredit => CountInv'
    <3> SUFFICES ASSUME ~InventsCredit PROVE CountInv'
      OBVIOUS
    <3>1. fw.held = 0  BY <1>0, <1>3 DEF InventsCredit, FieldTypes
    <3>2. FwUp'  BY <1>3, <2>3 DEF Acked, FwUp
    <3>3. Backed'  BY <2>1, <2>2, <2>3, <3>1, <3>2, BaselineBacked
    <3> QED  BY <2>1, <3>3 DEF CountInv, Unpaid
  <2> QED  BY <2>6, <2>7, <2>8 DEF LinkKept
<1>4. CASE ~Acked
  <2>1. UNCHANGED <<h, cx, tx, fw>> /\ rec'.pc = "hard"
    BY <1>0, <1>4 DEF RecSlaveDone, RecTo, RecoveryRec
  <2>2. cx.buf <= cx.buf  BY <1>0 DEF FieldTypes
  <2>3. TxSame /\ CountSame /\ SlaveSame  BY <2>1, <2>2 DEF TxSame, CountSame, SlaveSame
  <2>4. Noted => Noted'  BY <2>1 DEF Noted, Recorded
  <2>5. Alike(h, h')  BY <2>1 DEF Alike
  <2> QED  BY <1>1, <1>2, <2>1, <2>3, <2>4, <2>5, PassStep
<1> QED  BY <1>3, <1>4

\* A restart is expected: the counters may move, but it is on record and TX is
\* closed.
LEMMA OpenKept ==
    ASSUME TypeOK, TypeOK', LinkInv, RecResyncOpen
    PROVE  LinkKept
<1>0. /\ h \in HostRec /\ rec \in RecoveryRec /\ cx \in CursorRec /\ tx \in ThreadRec
      /\ fw \in SlaveRec /\ FieldTypes
  BY Fields DEF TypeOK
<1>1. UNCHANGED <<ev, bt, pm>> /\ rec.pc = "resync" /\ ~Closed(h) /\ rec'.pc = "idle"
  BY DEF RecResyncOpen, RecOpened, RecIdle
<1>2. ~cx.sleep /\ cx.based # "next"  BY <1>1, PassFacts
<1>3. fw'.run = fw.run /\ fw'.tok = fw.tok /\ fw'.held = fw.held
      /\ ("CLOSE" \in fw.bits => "CLOSE" \in fw'.bits)
  BY <1>0 DEF RecResyncOpen, RecOpened, SlaveRec
<1>4. h'.fl = h.fl \cup {"EXP"} /\ h'.st = h.st /\ h'.dirty = h.dirty
  <2> DEFINE b == [h EXCEPT !.fl = @ \cup {"EXP"}, !.rebase = FALSE, !.rst = FALSE]
  <2>1. h' = [b EXCEPT !.work = @ \/ Has(b, "EXP") \/ ~Has(b, "INIT")]
    BY DEF RecResyncOpen, RecOpened
  <2>2. b.fl = h.fl \cup {"EXP"} /\ b.st = h.st /\ b.dirty = h.dirty
        /\ DOMAIN b = DOMAIN h
    BY <1>0 DEF HostRec
  <2> HIDE DEF b
  <2> QED  BY <1>0, <2>1, <2>2 DEF HostRec
<1>5. Alike(h, h') /\ Has(h', "EXP")  BY <1>4 DEF Alike, Has, Closed
<1>6. CASE Has(h, "EXP")
  <2>1. UNCHANGED tx /\ cx' = [cx EXCEPT !.rxw = TRUE]  BY <1>6 DEF RecResyncOpen
  <2>2. TxSame /\ SlaveSame  BY <1>3, <2>1 DEF TxSame, SlaveSame
  <2>3. CountSame  BY <1>0, <2>1 DEF CountSame, CursorRec, FieldTypes
  <2>4. Noted => Noted'  BY <1>4, <1>5 DEF Noted, Recorded, Alike
  <2> QED  BY <1>1, <1>2, <1>4, <1>5, <2>2, <2>3, <2>4, PassStep
<1>7. CASE ~Has(h, "EXP")
  <2>1. tx'.pc = tx.pc /\ tx'.resv = tx.resv /\ ~tx'.valid
    BY <1>0, <1>7 DEF RecResyncOpen, NoEpoch, ThreadRec
  <2>2. cx'.based = "cur" /\ cx'.sleep = cx.sleep
    BY <1>0, <1>7 DEF RecResyncOpen, Baselined, CursorRec
  <2>3. LinkInv'
    <3>1. fw'.run = "down" => fw'.held = 0 /\ fw'.tok = 0
      BY <1>3 DEF LinkInv, ThreadInv
    <3> QED  BY <1>1, <1>2, <1>3, <1>5, <2>1, <2>2, <3>1, PassLink
  <2>4. h.st # "RDY" /\ ~Has(h, "RECON")
    BY <1>1, <1>7 DEF LinkInv, OverlapInv
  <2>5. Noted' /\ h'.st # "RDY"
    BY <1>4, <1>5, <2>4 DEF Noted, Recorded, Alike
  <2>6. StaleInv' /\ CountInv'  BY <2>5 DEF StaleInv, CountInv
  <2> QED  BY <2>3, <2>6 DEF LinkKept
<1> QED  BY <1>6, <1>7

\* The session is found alive: then nothing was on record, the count is backed
\* and no aggregate is stale or unpaid.
LEMMA LiveKept ==
    ASSUME TypeOK, TypeOK', LinkInv, RecResyncLive
    PROVE  LinkKept
<1>0. /\ h \in HostRec /\ rec \in RecoveryRec /\ cx \in CursorRec /\ fw \in SlaveRec
      /\ FieldTypes
  BY Fields DEF TypeOK
<1>1. /\ UNCHANGED <<tx, ev, bt, pm>> /\ rec.pc = "resync" /\ ~Closed(h)
      /\ {"NEED", "EXP"} \cap h.fl = {} /\ ~h.rst
  BY DEF RecResyncLive
<1>2. ~cx.sleep /\ cx.based # "next" /\ h.st # "OFF"  BY <1>1, PassFacts
<1>3. fw'.run = fw.run /\ fw'.tok = fw.tok /\ fw'.held = fw.held
      /\ ("CLOSE" \in fw.bits => "CLOSE" \in fw'.bits)
  BY <1>0 DEF RecResyncLive, RecOpened, SlaveRec
<1>4. ~Noted
  <2>1. ~Has(h, "EXP")  BY <1>1 DEF Has
  <2> QED  BY <1>1, <2>1 DEF Noted, Recorded
<1>5. TxSame /\ SlaveSame  BY <1>1, <1>3 DEF TxSame, SlaveSame
<1>6. CountSame
  <2>1. cx.buf <= cx.buf /\ 0 <= cx.buf  BY <1>0 DEF FieldTypes
  <2>2. CASE cx' = [cx EXCEPT !.rxw = TRUE]
    BY <1>0, <2>1, <2>2 DEF CountSame, CursorRec
  <2>3. CASE cx' = [cx EXCEPT !.buf = 0, !.rxw = TRUE]
    BY <1>0, <2>1, <2>3 DEF CountSame, CursorRec
  <2> QED  BY <2>2, <2>3 DEF RecResyncLive
<1>7. CASE RxDelta > Aggr \/ ~Has(h, "INIT")
  <2> DEFINE fl == IF RxDelta > Aggr THEN h.fl \cup {"EXP"} ELSE h.fl
             b == [h EXCEPT !.fl = fl]
  <2>1. rec'.pc = "idle" /\ h' = [b EXCEPT !.work = @ \/ Has(b, "EXP") \/ ~Has(b, "INIT")]
    BY <1>7 DEF RecResyncLive, RecOpened, RecIdle
  <2>2. h.fl \subseteq fl /\ fl \subseteq h.fl \cup {"EXP"}  OBVIOUS
  <2> HIDE DEF fl
  <2>3. b.fl = fl /\ b.st = h.st /\ DOMAIN b = DOMAIN h  BY <1>0 DEF HostRec
  <2> HIDE DEF b
  <2>4. h'.fl = fl /\ h'.st = h.st  BY <1>0, <2>1, <2>3 DEF HostRec
  <2>5. Alike(h, h')  BY <2>2, <2>4 DEF Alike, Has, Closed
  <2> QED  BY <1>1, <1>2, <1>4, <1>5, <1>6, <2>1, <2>4, <2>5, PassStep
<1>8. CASE ~(RxDelta > Aggr \/ ~Has(h, "INIT"))
  <2>1. rec'.pc = "live" /\ h' = [h EXCEPT !.st = "RDY"]
    BY <1>0, <1>8 DEF RecResyncLive, RecoveryRec
  <2>2. h'.fl = h.fl /\ h'.st = "RDY"  BY <1>0, <2>1 DEF HostRec
  <2>3. Alike(h, h') /\ Has(h', "INIT")  BY <1>8, <2>2 DEF Alike, Has, Closed
  <2>4. LinkInv'
    <3>1. fw'.run = "down" => fw'.held = 0 /\ fw'.tok = 0
      BY <1>3 DEF LinkInv, ThreadInv
    <3> QED
      BY <1>1, <1>2, <1>3, <1>5, <1>6, <2>1, <2>3, <3>1, PassLink DEF TxSame, CountSame
  <2>5. (Unpaid' => Unpaid) /\ (Stale' => Stale)
    BY <1>5, <1>6 DEF Unpaid, Stale, TxSame, CountSame
  <2>6. StaleInv => StaleInv'  BY <1>4, <2>5 DEF StaleInv
  <2>7. CountInv => CountInv'
    <3>1. Backed => Backed'  BY <1>5, <1>6, DropKeepsBacked DEF CountSame
    <3> QED  BY <1>1, <1>2, <1>4, <1>6, <2>5, <3>1 DEF CountInv, CountSame
  <2> QED  BY <2>4, <2>6, <2>7 DEF LinkKept
<1> QED  BY <1>7, <1>8

\* The end of a pass on a live session takes the mark away only if nothing was
\* recorded since its gate.
LEMMA EndKept ==
    ASSUME TypeOK, TypeOK', LinkInv, RecLive \/ RecAbort
    PROVE  LinkKept
<1>0. h \in HostRec /\ FieldTypes  BY Fields DEF TypeOK
<1>1. UNCHANGED <<cx, q, tx, ev, bt, pm, fw>> /\ rec'.pc = "idle" /\ rec.pc # "idle"
  BY DEF RecLive, RecAbort, RecIdle
<1>2. h.st # "OFF"  BY <1>1 DEF LinkInv, OffInv
<1>3. \/ RecAbort /\ Closed(h) /\ h' = h
      \/ rec.pc = "live" /\ h'.fl = h.fl
      \/ /\ rec.pc = "live" /\ h'.fl = h.fl \ {"PEND"}
         /\ "rec" \notin h.dirty /\ ~Has(h, "EXP")
  <2>1. CASE RecAbort  BY <2>1 DEF RecAbort
  <2>2. CASE RecLive
    <3>1. \/ h' = h \/ h' = [h EXCEPT !.work = TRUE]
          \/ /\ h' = [h EXCEPT !.fl = @ \ {"PEND"}]
             /\ "rec" \notin h.dirty /\ ~Has(h, "EXP")
      BY <2>2 DEF RecLive
    <3> QED  BY <1>0, <2>2, <3>1 DEF RecLive, HostRec
  <2> QED  BY <2>1, <2>2
<1>4. h'.st = h.st /\ h'.dirty = h.dirty /\ h'.rst = h.rst
  <2>1. \/ h' = h \/ h' = [h EXCEPT !.work = TRUE] \/ h' = [h EXCEPT !.fl = @ \ {"PEND"}]
    BY DEF RecLive, RecAbort
  <2> QED  BY <1>0, <2>1 DEF HostRec
<1>5. \A f \in {"INIT", "EXP", "RECON", "CLEAN", "REMOVING"} : Has(h', f) <=> Has(h, f)
  BY <1>3 DEF Has
<1>6. Closed(h') <=> Closed(h)  BY <1>5 DEF Closed
<1>7. OffInv' /\ ThreadInv' /\ RemoveInv' /\ OverlapInv'
  BY <1>1, <1>2, <1>4, <1>5, <1>6 DEF LinkInv, OffInv, ThreadInv, RemoveInv, OverlapInv
<1>8. NextInv'
  <2>1. cx.based = "next" => Closed(h)
    BY <1>1, <1>3 DEF LinkInv, NextInv
  <2> QED  BY <1>1, <1>6, <2>1 DEF LinkInv, NextInv
<1>9. SleepInv'
  <2> SUFFICES ASSUME cx.sleep PROVE SleepInv'
    BY <1>1 DEF SleepInv
  <2>1. ~Closed(h) /\ rec.pc = "live"  BY <1>3 DEF LinkInv, SleepInv
  <2>2. Has(h, "INIT") \/ Has(h, "EXP")  BY <2>1 DEF LinkInv, OverlapInv
  <2>3. {"INIT", "PEND", "EXP"} \cap h'.fl # {}
    BY <1>3, <2>2 DEF Has
  <2>4. Healthy(h) => Healthy(h')  BY <1>3 DEF Healthy, Has
  <2> QED  BY <1>1, <1>4, <1>5, <1>6, <2>3, <2>4 DEF LinkInv, SleepInv
<1>10. Noted => Noted'
  <2>1. CASE Closed(h)  BY <1>6, <2>1 DEF Noted
  <2>2. CASE ~Closed(h)
    <3>1. rec.pc = "live"  BY <1>3, <2>2
    <3>2. Noted => Recorded /\ (Has(h, "RECON") => "bt" \in h.dirty)
      BY <2>2 DEF Noted
    <3>3. Recorded => Has(h, "EXP") \/ (h.rst /\ Has(h, "PEND") /\ "rec" \in h.dirty)
      BY <3>1 DEF Recorded
    <3>4. "rec" \in h.dirty /\ Has(h, "PEND") => Has(h', "PEND")
      BY <1>3, <2>2 DEF Has
    <3> QED  BY <1>1, <1>4, <1>5, <3>2, <3>3, <3>4 DEF Noted, Recorded
  <2> QED  BY <2>1, <2>2
<1>11. (Unpaid' => Unpaid) /\ (Stale' => Stale)  BY <1>1 DEF Unpaid, Stale
<1>12. StaleInv => StaleInv'  BY <1>4, <1>10, <1>11 DEF StaleInv
<1>13. CountInv => CountInv'
  <2>1. Backed => Backed'
    <3>1. TxSame /\ SlaveSame /\ cx'.buf <= cx.buf
      BY <1>0, <1>1 DEF TxSame, SlaveSame, FieldTypes
    <3> QED  BY <1>1, <3>1, DropKeepsBacked
  <2>2. rec.pc = "barrier" => Noted'  BY <1>3, <1>6 DEF Noted
  <2> QED  BY <1>1, <1>4, <1>5, <1>10, <1>11, <2>1, <2>2 DEF CountInv
<1> QED  BY <1>7, <1>8, <1>9, <1>12, <1>13 DEF LinkKept, LinkInv

\* The recovery worker
LEMMA RecoveryKept ==
    TypeOK /\ TypeOK' /\ LinkInv /\ PassInv /\ HandshakeInv /\ Recovery => LinkKept
  BY GateKept, BarrierKept, HardKept, SoftAckKept, SlaveDoneKept, OpenKept, LiveKept,
     EndKept, MovesKept, PolicyKept DEF Recovery

\* The handler gives up: a restart of the firmware is expected, and TX closed.
LEMMA BootFailKept ==
    ASSUME TypeOK, TypeOK', LinkInv, ~Closed(h), h.st # "OFF",
           NEW a \in HostRec, ~Closed(a), a.st = h.st, BootFails(a), UNCHANGED <<cx, tx, rec, pm, fw>>
    PROVE  LinkKept
<1> DEFINE b == [a EXCEPT !.fl = @ \ {"RECON"}]
<1>1. b \in HostRec /\ b.fl = a.fl \ {"RECON"} /\ b.st = a.st  BY DEF HostRec
<1>2. h' = BootRetry(b) /\ bt' = "idle"  BY DEF BootFails
<1> HIDE DEF b
<1>3. Condemned(b, h')  BY <1>1, <1>2, PolicyWorse
<1>4. ~Closed(b) /\ ~Has(b, "RECON")  BY <1>1 DEF Closed, Has
<1>5. /\ Has(h', "EXP") /\ ~Has(h', "RECON") /\ ~Closed(h')
      /\ h'.st # "RDY" /\ h'.st # "OFF"
  BY <1>1, <1>3, <1>4 DEF Condemned, Marked, Worse
<1>6. Noted'  BY <1>5 DEF Noted, Recorded
<1>7. OffInv' /\ ThreadInv' /\ RemoveInv' /\ OverlapInv'
  BY <1>2, <1>5 DEF LinkInv, OffInv, ThreadInv, RemoveInv, OverlapInv
<1>8. SleepInv' /\ NextInv'
  <2>1. {"INIT", "PEND", "EXP"} \cap h'.fl # {}  BY <1>5 DEF Has
  <2> QED  BY <1>2, <1>5, <2>1 DEF LinkInv, SleepInv, NextInv
<1>9. StaleInv' /\ CountInv'  BY <1>5, <1>6 DEF StaleInv, CountInv
<1> QED  BY <1>7, <1>8, <1>9 DEF LinkKept, LinkInv

\* A boot event stops the TX thread, or begins the first reconstruction.
LEMMA BootStartKept ==
    ASSUME TypeOK, TypeOK', LinkInv, BootStart
    PROVE  LinkKept
<1>0. h \in HostRec /\ cx \in CursorRec /\ tx \in ThreadRec /\ FieldTypes
  BY Fields DEF TypeOK
<1>1. UNCHANGED <<rec, pm, fw>> /\ bt = "idle" /\ ev /\ rec.pc = "idle" /\ ~Closed(h)
  BY DEF BootStart
<1>2. cx.based # "next" /\ h.st # "OFF"  BY <1>1 DEF LinkInv, NextInv, OffInv
<1> DEFINE a == [h EXCEPT !.work = FALSE, !.fl = @ \ {"INIT", "NEED"}]
           s == [a EXCEPT !.fl = @ \cup {"PEND", "CLEAN"}, !.st = "DIS"]
<1>3. /\ a \in HostRec /\ a.fl = h.fl \ {"INIT", "NEED"} /\ a.dirty = h.dirty
      /\ a.rst = h.rst
  BY <1>0 DEF HostRec
<1>4. CASE {"INIT", "PEND", "EXP"} \cap h.fl # {}
  <2>1. /\ h' = s \/ h' = Abandoned(s)
        /\ tx' = [TxIdle(tx) EXCEPT !.pc = "off"]
        /\ cx' = [cx EXCEPT !.sleep = FALSE, !.buf = 0, !.rxw = FALSE]
        /\ bt' = "reinit"
    BY <1>4 DEF BootStart
  <2> HIDE DEF a
  <2>2. /\ s \in HostRec /\ s.fl = (h.fl \ {"INIT", "NEED"}) \cup {"PEND", "CLEAN"}
        /\ s.dirty = h.dirty /\ s.rst = h.rst /\ s.st = "DIS"
    <3>1. s.fl = a.fl \cup {"PEND", "CLEAN"} /\ s.dirty = a.dirty /\ s.rst = a.rst
          /\ s.st = "DIS"
      BY <1>3 DEF HostRec
    <3>2. s \in HostRec  BY <1>3 DEF HostRec, Flags
    <3> QED  BY <1>3, <3>1, <3>2
  <2> HIDE DEF s
  <2>3. Worse(s, h')
    <3>1. Worse(s, s) /\ Worse(s, Abandoned(s))  BY <2>2, PolicyWorse, WorseOrder
    <3> QED  BY <2>1, <3>1
  <2>4. /\ Has(s, "PEND") /\ Has(s, "CLEAN") /\ ~Closed(s)
        /\ Has(s, "EXP") <=> Has(h, "EXP")
        /\ Has(s, "RECON") <=> Has(h, "RECON")
    BY <1>1, <2>2 DEF Has, Closed
  <2>5. /\ Has(h', "PEND") /\ (Has(h', "CLEAN") \/ Has(h', "EXP")) /\ ~Closed(h')
        /\ Has(h, "EXP") => Has(h', "EXP")
        /\ Has(h', "RECON") <=> Has(h, "RECON")
        /\ h'.st = "DIS" /\ h.dirty \subseteq h'.dirty /\ (h.rst => h'.rst)
    BY <2>2, <2>3, <2>4 DEF Worse
  <2>6. tx'.pc = "off" /\ ~tx'.valid /\ ~tx'.resv
    BY <1>0, <2>1 DEF TxIdle, ThreadRec
  <2>7. cx'.tx = cx.tx /\ cx'.buf = 0 /\ cx'.based = cx.based /\ ~cx'.sleep
    BY <1>0, <2>1 DEF CursorRec
  <2>8. OffInv' /\ ThreadInv' /\ RemoveInv'
    BY <1>1, <2>1, <2>5, <2>6 DEF LinkInv, OffInv, ThreadInv, RemoveInv
  <2>9. OverlapInv' /\ SleepInv' /\ NextInv'
    BY <1>1, <1>2, <2>1, <2>5, <2>7 DEF LinkInv, OverlapInv, SleepInv, NextInv
  <2>10. Noted => Noted'
    BY <1>1, <2>5 DEF Noted, Recorded
  <2>11. Backed => Backed'
    <3>1. SlaveSame /\ cx'.buf <= cx.buf
      BY <1>0, <1>1, <2>7 DEF SlaveSame, FieldTypes
    <3> QED  BY <2>6, <2>7, <3>1, DropKeepsBacked
  <2>12. ~Unpaid' /\ ~Stale'  BY <2>6 DEF Unpaid, Stale
  <2>13. StaleInv'  BY <2>12 DEF StaleInv
  <2>14. CountInv => CountInv'
    BY <2>5, <2>7, <2>10, <2>11, <2>12 DEF CountInv
  <2> QED  BY <2>8, <2>9, <2>13, <2>14 DEF LinkKept, LinkInv
<1>5. CASE {"INIT", "PEND", "EXP"} \cap h.fl = {}
  <2>1. /\ h' = [a EXCEPT !.fl = @ \cup {"RECON"}, !.st = "RDY", !.dirty = @ \ {"bt"}]
        /\ UNCHANGED <<tx, cx>> /\ bt' = "build"
    BY <1>5 DEF BootStart
  <2> HIDE DEF a
  <2>2. h'.fl = (h.fl \ {"INIT", "NEED"}) \cup {"RECON"} /\ h'.st = "RDY"
    BY <1>3, <2>1 DEF HostRec
  <2>3. Has(h', "RECON") /\ ~Closed(h')  BY <1>1, <2>2 DEF Has, Closed
  <2>4. ~Has(h, "EXP") /\ ~Has(h, "PEND")  BY <1>5 DEF Has
  <2>5. ~cx.sleep  BY <1>5 DEF LinkInv, SleepInv
  <2>6. ~Noted  BY <1>1, <2>4 DEF Noted, Recorded
  <2>7. OffInv' /\ ThreadInv' /\ RemoveInv'
    BY <1>1, <2>1, <2>2, <2>3 DEF LinkInv, OffInv, ThreadInv, RemoveInv
  <2>8. OverlapInv' /\ SleepInv' /\ NextInv'
    BY <1>1, <1>2, <2>1, <2>3, <2>5 DEF LinkInv, OverlapInv, SleepInv, NextInv
  <2>9. (Unpaid' <=> Unpaid) /\ (Stale' <=> Stale) /\ (Backed' <=> Backed)
    BY <1>1, <2>1 DEF Unpaid, Stale, Backed, Window, Free, FwUp, Reserved
  <2>10. StaleInv => StaleInv'  BY <2>6, <2>9 DEF StaleInv
  <2>11. CountInv => CountInv'
    BY <1>1, <2>1, <2>5, <2>6, <2>9 DEF CountInv
  <2> QED  BY <2>7, <2>8, <2>10, <2>11 DEF LinkKept, LinkInv
<1> QED  BY <1>4, <1>5

\* The transport is set up again: the count is what the slave has loaded.
LEMMA BootReinitKept ==
    ASSUME TypeOK, TypeOK', LinkInv, BootReinit
    PROVE  LinkKept
<1>0. h \in HostRec /\ cx \in CursorRec /\ tx \in ThreadRec /\ FieldTypes
  BY Fields DEF TypeOK
<1>1. UNCHANGED <<rec, pm, fw>> /\ bt = "reinit" /\ ~Closed(h)
  BY DEF BootReinit
<1>2. h.st # "OFF" /\ tx.pc = "off" /\ ~tx.resv /\ ~cx.sleep
  BY <1>1 DEF LinkInv, OffInv, ThreadInv, SleepInv
<1> DEFINE a == BaseFlags(h)
<1>3. a \in HostRec /\ a.fl = h.fl /\ a.st = h.st /\ ~Closed(a)
  BY <1>0, <1>1 DEF BaseFlags, HostRec, Closed, Has
<1>4. CASE BootFails(a) /\ UNCHANGED <<cx, tx>>
  <2> HIDE DEF a
  <2> QED  BY <1>1, <1>2, <1>3, <1>4, BootFailKept
<1>5. CASE /\ FwUp /\ cx' = Baselined(cx)
           /\ tx' = [NoEpoch(tx) EXCEPT !.pc = "idle"]
           /\ h' = [a EXCEPT !.fl = @ \cup {"RECON"}, !.st = "RDY", !.dirty = @ \ {"bt"}]
           /\ bt' = "build"
  <2> HIDE DEF a
  <2>1. h'.fl = h.fl \cup {"RECON"} /\ h'.st = "RDY"
    BY <1>3, <1>5 DEF HostRec
  <2>2. /\ Has(h', "RECON") /\ ~Closed(h') /\ (Has(h, "EXP") => Has(h', "EXP"))
    BY <1>1, <2>1 DEF Has, Closed
  <2>3. cx'.tx = TxBase(fw.tok) /\ cx'.buf = 0 /\ cx'.based = "cur" /\ ~cx'.sleep
    BY <1>0, <1>2, <1>5 DEF Baselined, CursorRec
  <2>4. tx'.pc = "idle" /\ ~tx'.valid /\ ~tx'.resv
    BY <1>0, <1>2, <1>5 DEF NoEpoch, ThreadRec
  <2>5. OffInv' /\ ThreadInv' /\ RemoveInv'
    BY <1>1, <1>5, <2>1, <2>2, <2>4 DEF LinkInv, OffInv, ThreadInv, RemoveInv
  <2>6. OverlapInv' /\ SleepInv' /\ NextInv'
    BY <1>1, <1>5, <2>2, <2>3 DEF LinkInv, OverlapInv, SleepInv, NextInv
  <2>7. ~InventsCredit => Backed'
    <3>1. ~InventsCredit => fw.held = 0
      BY <1>0, <1>5 DEF InventsCredit, FieldTypes
    <3> QED  BY <1>1, <1>5, <2>3, <2>4, <3>1, BaselineBacked DEF FwUp
  <2>8. StaleInv' /\ (~InventsCredit => CountInv')
    BY <2>4, <2>7 DEF StaleInv, Stale, CountInv, Unpaid
  <2> QED  BY <2>5, <2>6, <2>8 DEF LinkKept, LinkInv
<1> QED  BY <1>4, <1>5 DEF BootReinit

\* The commit opens TX for good only if nothing was recorded since the
\* reconstruction began, and the count is backed then.
LEMMA BootCommitKept ==
    ASSUME TypeOK, TypeOK', LinkInv, BootCommit
    PROVE  LinkKept
<1>0. h \in HostRec  BY DEF TypeOK
<1>1. UNCHANGED <<cx, tx, rec, pm, fw>> /\ bt = "build" /\ ~Closed(h)
  BY DEF BootCommit
<1>2. h.st # "OFF" /\ ~cx.sleep /\ Has(h, "RECON")
  BY <1>1 DEF LinkInv, OffInv, OverlapInv, SleepInv
<1>3. CASE BootFails(h)  BY <1>0, <1>1, <1>2, <1>3, BootFailKept
<1>4. CASE ~BootFails(h)
  <2> DEFINE a == [h EXCEPT !.work = FALSE,
                            !.fl = (@ \cup {"INIT"}) \ {"RECON", "CLEAN"}]
  <2>1. /\ rec.pc = "idle" /\ bt' = "publish"
        /\ h' = IF "bt" \in h.dirty
                THEN [a EXCEPT !.st = "RX", !.work = TRUE]
                ELSE [a EXCEPT !.fl = @ \ {"PEND", "EXP", "NEED"}, !.st = "RDY"]
    BY <1>4 DEF BootCommit
  <2>2. /\ a \in HostRec /\ a.fl = (h.fl \cup {"INIT"}) \ {"RECON", "CLEAN"}
        /\ a.dirty = h.dirty /\ a.rst = h.rst
    BY <1>0 DEF HostRec, Flags
  <2> HIDE DEF a
  <2>3. /\ h'.st # "OFF" /\ ~Has(h', "RECON") /\ ~Closed(h')
        /\ "bt" \in h.dirty => /\ h'.fl = (h.fl \cup {"INIT"}) \ {"RECON", "CLEAN"}
                               /\ h'.st = "RX" /\ h'.dirty = h.dirty /\ h'.rst = h.rst
    <3>1. CASE "bt" \in h.dirty
      BY <1>1, <2>1, <2>2, <3>1 DEF HostRec, Has, Closed
    <3>2. CASE "bt" \notin h.dirty
      BY <1>1, <2>1, <2>2, <3>2 DEF HostRec, Has, Closed
    <3> QED  BY <3>1, <3>2
  <2>4. cx.based # "next"  BY <1>1, <2>1 DEF LinkInv, NextInv
  <2>5. OffInv' /\ ThreadInv' /\ RemoveInv'
    BY <1>1, <2>1, <2>3 DEF LinkInv, OffInv, ThreadInv, RemoveInv
  <2>6. OverlapInv' /\ SleepInv' /\ NextInv'
    BY <1>1, <1>2, <2>1, <2>3, <2>4 DEF LinkInv, OverlapInv, SleepInv, NextInv
  <2>7. (Unpaid' <=> Unpaid) /\ (Stale' <=> Stale) /\ (Backed' <=> Backed)
    BY <1>1 DEF Unpaid, Stale, Backed, Window, Free, FwUp, Reserved
  <2>8. Noted => Noted' /\ h'.st # "RDY"
    <3> SUFFICES ASSUME Noted PROVE Noted' /\ h'.st # "RDY"
      OBVIOUS
    <3>1. Recorded /\ "bt" \in h.dirty  BY <1>1, <1>2 DEF Noted
    <3>2. (Has(h, "EXP") => Has(h', "EXP")) /\ (Has(h, "PEND") => Has(h', "PEND"))
      BY <2>3, <3>1 DEF Has
    <3> QED  BY <1>1, <2>1, <2>3, <3>1, <3>2 DEF Noted, Recorded
  <2>9. StaleInv => StaleInv'  BY <2>7, <2>8 DEF StaleInv
  <2>10. CountInv => CountInv'
    BY <1>1, <1>2, <2>1, <2>7, <2>8 DEF CountInv
  <2> QED  BY <2>5, <2>6, <2>9, <2>10 DEF LinkKept, LinkInv
<1> QED  BY <1>3, <1>4

\* The end of a reconstruction touches no counter, and may still fail.
LEMMA BootFinishKept ==
    ASSUME TypeOK, TypeOK', LinkInv, BootFinish
    PROVE  LinkKept
<1>0. h \in HostRec /\ FieldTypes  BY Fields DEF TypeOK
<1>1. UNCHANGED <<cx, q, tx, rec, ev, pm, fw>> /\ bt = "publish" /\ ~Closed(h)
  BY DEF BootFinish
<1>2. h.st # "OFF"  BY <1>1 DEF LinkInv, OffInv
<1> DEFINE a == [h EXCEPT !.fl = (@ \cup {"CLEAN"}) \ {"INIT"}]
<1>3. CASE BootFails(a)
  <2>1. a \in HostRec /\ a.fl = (h.fl \cup {"CLEAN"}) \ {"INIT"} /\ a.st = h.st
    BY <1>0 DEF HostRec, Flags
  <2> HIDE DEF a
  <2>2. ~Closed(a)  BY <1>1, <2>1 DEF Closed, Has
  <2> QED  BY <1>1, <1>2, <1>3, <2>1, <2>2, BootFailKept
<1>4. CASE ~BootFails(a)
  <2>1. \/ UNCHANGED h /\ bt' = "idle"
        \/ /\ h' = [h EXCEPT !.att = 0, !.dl = FALSE, !.fl = @ \ {"EXH"},
                             !.cur = FALSE, !.fresh = FALSE]
           /\ bt' = "callback"
    BY <1>4 DEF BootFinish
  <2>2. /\ bt' \in {"idle", "callback"} /\ (h'.fl = h.fl \/ h'.fl = h.fl \ {"EXH"})
        /\ h'.st = h.st /\ h'.dirty = h.dirty /\ h'.rst = h.rst
    BY <1>0, <2>1 DEF HostRec
  <2>3. Worse(h, h')  BY <2>2 DEF Worse, Has, Closed
  <2>4. cx.buf <= cx.buf  BY <1>0 DEF FieldTypes
  <2>5. TxSame /\ CountSame /\ SlaveSame  BY <1>1, <2>4 DEF TxSame, CountSame, SlaveSame
  <2> QED  BY <1>1, <1>2, <2>2, <2>3, <2>5, PolicyStep
<1> QED  BY <1>3, <1>4

\* The boot handler
LEMMA BootKept ==
    TypeOK /\ TypeOK' /\ LinkInv /\ BootHandler => LinkKept
  BY BootStartKept, BootReinitKept, BootCommitKept, BootFinishKept, PolicyKept
     DEF BootHandler

\* A suspend that fails quarantines the firmware.
LEMMA PmFailKept ==
    ASSUME TypeOK, TypeOK', LinkInv, pm # "awake", PmFails, UNCHANGED <<rec, bt, fw>>,
           tx'.pc = tx.pc, tx'.resv = tx.resv, tx'.for = tx.for, tx'.valid => tx.valid
    PROVE  LinkKept
<1>0. h \in HostRec /\ cx \in CursorRec  BY DEF TypeOK
<1>1. ~Closed(h) /\ h.st # "OFF"  BY DEF LinkInv, RemoveInv, OffInv
<1>2. h' = Quarantine(h)  BY DEF PmFails
<1>3. Condemned(h, h')  BY <1>0, <1>2, PolicyWorse
<1>4. /\ Worse(h, h') /\ Has(h', "EXP") /\ "bt" \in h'.dirty /\ ~Closed(h')
      /\ h'.st = "RDY" => Has(h, "RECON") /\ h.st = "RDY"
      /\ Has(h', "RECON") <=> Has(h, "RECON")
  BY <1>1, <1>3 DEF Condemned, Marked, Worse
<1>5. ~cx'.sleep /\ cx'.based = cx.based /\ pm' = "awake"
  BY <1>0 DEF PmFails, CursorRec
<1>6. OffInv' /\ ThreadInv' /\ RemoveInv'
  BY <1>1, <1>4 DEF LinkInv, OffInv, ThreadInv, RemoveInv, Worse
<1>7. OverlapInv' /\ SleepInv' /\ NextInv'
  BY <1>1, <1>4, <1>5 DEF LinkInv, OverlapInv, SleepInv, NextInv, Worse
<1>8. Noted'  BY <1>4 DEF Noted, Recorded
<1>9. (Unpaid' => Unpaid) /\ (Stale' => Stale)  BY <1>5 DEF Unpaid, Stale
<1>10. StaleInv => StaleInv'  BY <1>4, <1>8, <1>9 DEF StaleInv
<1>11. CountInv => CountInv'
  <2>1. h'.st = "RDY" => ~cx.sleep  BY <1>4 DEF LinkInv, SleepInv
  <2> QED  BY <1>4, <1>8, <1>9, <2>1 DEF CountInv
<1> QED  BY <1>6, <1>7, <1>10, <1>11 DEF LinkKept, LinkInv

\* A step of a suspend or resume that only asks or waits
LEMMA PmMoveKept ==
    ASSUME TypeOK, TypeOK', LinkInv, pm # "awake", UNCHANGED <<h, tx, rec, bt>>,
           CountSame, SlaveSame, pm' \in {"awake", "unwind"} => ~cx.sleep
    PROVE  LinkKept
<1>1. ~Closed(h) /\ h.st # "OFF"  BY DEF LinkInv, RemoveInv, OffInv
<1>2. OffInv' /\ ThreadInv' /\ RemoveInv'
  BY <1>1 DEF LinkInv, OffInv, ThreadInv, RemoveInv, SlaveSame
<1>3. OverlapInv' /\ SleepInv' /\ NextInv'
  BY <1>1 DEF LinkInv, OverlapInv, SleepInv, NextInv, CountSame, SlaveSame
<1>4. (Noted' <=> Noted) /\ (Unpaid' <=> Unpaid) /\ (Stale' <=> Stale)
  BY DEF Noted, Recorded, Unpaid, Stale, CountSame
<1>5. Backed => Backed'
  <2>1. TxSame  BY DEF TxSame
  <2> QED  BY <2>1, DropKeepsBacked DEF CountSame
<1>6. StaleInv => StaleInv'  BY <1>4 DEF StaleInv
<1>7. CountInv => CountInv'  BY <1>4, <1>5 DEF CountInv, CountSame
<1> QED  BY <1>2, <1>3, <1>6, <1>7 DEF LinkKept, LinkInv

\* A suspend begins on a healthy session and between recovery passes.
LEMMA SuspendKept ==
    ASSUME TypeOK, TypeOK', LinkInv, HandshakeInv, PmSuspend
    PROVE  LinkKept
<1>0. cx \in CursorRec /\ FieldTypes  BY Fields DEF TypeOK
<1>1. /\ UNCHANGED <<h, q, tx, rec, ev, bt, fw>> /\ pm = "awake" /\ hs = "none"
      /\ Healthy(h) /\ bt = "idle" /\ pm' = "drain"
  BY DEF PmSuspend
<1>2. cx'.tx = cx.tx /\ cx'.buf = cx.buf /\ cx'.based = cx.based /\ cx'.sleep
  BY <1>0 DEF PmSuspend, CursorRec
<1>3. Has(h, "INIT") /\ ~Has(h, "EXP")  BY <1>1 DEF Healthy, Has
<1>4. ~Closed(h) /\ h.st # "OFF" /\ ~Has(h, "RECON")
  BY <1>1, <1>3 DEF LinkInv, RemoveInv, OffInv, OverlapInv
<1>5. rec.pc \in {"idle", "lock", "live"}  BY <1>1 DEF HandshakeInv
<1>6. OffInv' /\ ThreadInv' /\ RemoveInv'
  BY <1>1, <1>4 DEF LinkInv, OffInv, ThreadInv, RemoveInv
<1>7. OverlapInv' /\ NextInv'  BY <1>1, <1>2 DEF LinkInv, OverlapInv, NextInv
<1>8. SleepInv'
  <2>1. {"INIT", "PEND", "EXP"} \cap h.fl # {}  BY <1>3 DEF Has
  <2> QED  BY <1>1, <1>4, <1>5, <2>1 DEF SleepInv
<1>9. (Noted' <=> Noted) /\ (Stale' <=> Stale)
  BY <1>1, <1>2 DEF Noted, Recorded, Stale
<1>10. Backed => Backed'
  BY <1>1, <1>2 DEF Backed, Window, Free, FwUp, Reserved
<1>11. StaleInv => StaleInv'  BY <1>1, <1>9 DEF StaleInv
<1>12. CountInv => CountInv'  BY <1>1, <1>2, <1>9, <1>10 DEF CountInv
<1> QED  BY <1>6, <1>7, <1>8, <1>11, <1>12 DEF LinkKept, LinkInv

\* Suspend and resume
LEMMA PowerKept ==
    ASSUME TypeOK, TypeOK', LinkInv, PowerManagement
    PROVE  LinkKept
<1>0. /\ h \in HostRec /\ cx \in CursorRec /\ fw \in SlaveRec /\ tx \in ThreadRec
      /\ FieldTypes
  BY Fields DEF TypeOK
<1>1. UNCHANGED <<rec, bt>> /\ pm # "awake"
  BY DEF PowerManagement, PmSleep, PmAsleep, PmResume, PmAwake, PmBaseline, PmTimeout
<1>2. ~Closed(h) /\ h.st # "OFF"  BY <1>1 DEF LinkInv, RemoveInv, OffInv
<1>3. cx.buf <= cx.buf  BY <1>0 DEF FieldTypes
<1>4. CASE PmFails /\ UNCHANGED <<fw, tx>>  BY <1>1, <1>4, PmFailKept
<1>5. ASSUME NEW b, Handshake(b), UNCHANGED <<h, tx>>, pm' \in {"onwait", "offwait"}
      PROVE  LinkKept
  <2>1. CountSame  BY <1>0, <1>3, <1>5 DEF Handshake, CountSame, CursorRec
  <2>2. SlaveSame  BY <1>0, <1>5 DEF Handshake, SlaveSame, SlaveRec
  <2> QED  BY <1>1, <1>5, <2>1, <2>2, PmMoveKept
<1>6. CASE (PmAsleep /\ pm' = "asleep") \/ PmAwake
  <2>1. UNCHANGED <<h, tx, cx, fw>>  BY <1>6 DEF PmAsleep, PmAwake
  <2>2. CountSame /\ SlaveSame  BY <1>3, <2>1 DEF CountSame, SlaveSame
  <2>3. pm' \in {"awake", "unwind"} => ~cx.sleep
    BY <1>6 DEF PmAwake, LinkInv, SleepInv
  <2> QED  BY <1>1, <2>1, <2>2, <2>3, PmMoveKept
<1>7. CASE PmAsleep /\ pm' = "unwind"
  <2>1. /\ UNCHANGED <<h, tx>>
        /\ cx' = [cx EXCEPT !.sleep = FALSE, !.gen = NextGen]
        /\ fw' = [fw EXCEPT !.gen = NextGen, !.done = 0, !.bits = @ \cup {"PSOFF"}]
    BY <1>7 DEF PmAsleep
  <2>2. cx'.based = cx.based /\ ~cx'.sleep  BY <1>0, <2>1 DEF CursorRec
  <2>3. fw'.run = fw.run /\ fw'.tok = fw.tok /\ fw'.held = fw.held
    BY <1>0, <2>1 DEF SlaveRec
  <2>4. OffInv' /\ ThreadInv' /\ RemoveInv'
    BY <1>1, <1>2, <2>1, <2>3 DEF LinkInv, OffInv, ThreadInv, RemoveInv
  <2>5. OverlapInv' /\ SleepInv' /\ NextInv'
    BY <1>1, <2>1, <2>2, <2>3 DEF LinkInv, OverlapInv, SleepInv, NextInv
  <2>6. StaleInv => StaleInv'
    BY <1>1, <2>1, <2>2 DEF StaleInv, Stale, Noted, Recorded
  <2>7. ~InventsCredit => CountInv'
    BY <1>7, <2>2 DEF InventsCredit, CountInv, Unpaid
  <2> QED  BY <2>4, <2>5, <2>6, <2>7 DEF LinkKept, LinkInv
<1>8. CASE PmBaseline
  <2>1. tx' = NoEpoch(tx) /\ UNCHANGED fw  BY <1>8 DEF PmBaseline
  <2>2. tx'.pc = tx.pc /\ tx'.resv = tx.resv /\ tx'.for = tx.for /\ ~tx'.valid
    BY <1>0, <2>1 DEF NoEpoch, ThreadRec
  <2>3. CASE ~FwUp  BY <1>1, <1>8, <2>1, <2>2, <2>3, PmFailKept DEF PmBaseline
  <2>4. CASE FwUp
    <3>1. /\ cx' = [Baselined(cx) EXCEPT !.sleep = FALSE] /\ h' = BaseFlags(h)
          /\ pm' = "awake"
      BY <1>8, <2>4 DEF PmBaseline
    <3>2. cx'.tx = TxBase(fw.tok) /\ cx'.buf = 0 /\ cx'.based = "cur" /\ ~cx'.sleep
      BY <1>0, <3>1 DEF Baselined, CursorRec
    <3>3. h'.fl = h.fl /\ h'.st = h.st  BY <1>0, <3>1 DEF BaseFlags, HostRec
    <3>4. (\A f : Has(h', f) <=> Has(h, f)) /\ (Closed(h') <=> Closed(h))
      BY <3>3 DEF Has, Closed
    <3>5. OffInv' /\ ThreadInv' /\ RemoveInv'
      BY <1>1, <1>2, <2>1, <2>2, <3>3, <3>4 DEF LinkInv, OffInv, ThreadInv, RemoveInv
    <3>6. OverlapInv' /\ SleepInv' /\ NextInv'
      BY <1>1, <3>2, <3>3, <3>4 DEF LinkInv, OverlapInv, SleepInv, NextInv
    <3>7. ~InventsCredit => fw.held = 0
      BY <1>0, <1>8, <2>4 DEF InventsCredit, FieldTypes
    <3>8. ~InventsCredit => Backed'
      BY <2>1, <2>2, <2>4, <3>2, <3>7, BaselineBacked DEF FwUp
    <3>9. StaleInv' /\ (~InventsCredit => CountInv')
      BY <2>2, <3>8 DEF StaleInv, Stale, CountInv, Unpaid
    <3> QED  BY <3>5, <3>6, <3>9 DEF LinkKept, LinkInv
  <2> QED  BY <2>3, <2>4
<1>9. CASE PmSleep \/ PmResume \/ PmTimeout
  BY <1>4, <1>5, <1>9 DEF PmSleep, PmResume, PmTimeout
<1>10. PmAsleep => pm' \in {"asleep", "unwind"}  BY DEF PmAsleep
<1> QED  BY <1>6, <1>7, <1>8, <1>9, <1>10 DEF PowerManagement

\* A removal closes TX before anything else happens.
LEMMA RemoveStartKept ==
    ASSUME TypeOK, TypeOK', LinkInv, RemoveStart
    PROVE  LinkKept
<1>0. h \in HostRec  BY DEF TypeOK
<1>1. UNCHANGED <<cx, q, tx, rec, ev, bt, pm, fw>> /\ pm = "awake"
  BY DEF RemoveStart
<1>2. h'.fl = (h.fl \cup {"REMOVING", "CLEAN"}) \ {"INIT"} /\ h'.st = "DIS"
  BY <1>0 DEF RemoveStart, HostRec
<1>3. Closed(h') /\ ~Has(h', "INIT") /\ (Has(h', "RECON") <=> Has(h, "RECON"))
  BY <1>2 DEF Closed, Has
<1>4. ~cx.sleep  BY <1>1 DEF LinkInv, SleepInv
<1>5. OffInv' /\ ThreadInv' /\ RemoveInv'
  BY <1>1, <1>2, <1>3 DEF LinkInv, OffInv, ThreadInv, RemoveInv
<1>6. OverlapInv' /\ SleepInv' /\ NextInv'
  BY <1>1, <1>3, <1>4 DEF LinkInv, OverlapInv, SleepInv, NextInv
<1>7. StaleInv' /\ CountInv'
  BY <1>2, <1>3 DEF StaleInv, CountInv, Noted
<1> QED  BY <1>5, <1>6, <1>7 DEF LinkKept, LinkInv

\* It ends with the firmware told to restart.
LEMMA RemoveEndKept ==
    ASSUME TypeOK, TypeOK', LinkInv, RemoveEnd
    PROVE  LinkKept
<1>0. h \in HostRec /\ cx \in CursorRec /\ fw \in SlaveRec /\ tx \in ThreadRec
  BY DEF TypeOK
<1>1. /\ UNCHANGED <<rec, ev, bt, pm>> /\ Closed(h) /\ h.st = "DIS"
      /\ rec.pc = "idle" /\ bt = "idle" /\ ~ev /\ q' = {}
      /\ tx' = [TxIdle(tx) EXCEPT !.pc = "off", !.valid = FALSE]
      /\ cx' = [Zeroed(cx, "old") EXCEPT !.rxw = FALSE]
      /\ fw' = IF FwUp THEN [fw EXCEPT !.bits = @ \cup {"CLOSE"}] ELSE fw
  BY DEF RemoveEnd
<1>2. pm = "awake" /\ ~Has(h, "INIT") /\ ~cx.sleep
  BY <1>1 DEF LinkInv, RemoveInv, SleepInv
<1>3. h'.st = "OFF" /\ Closed(h') /\ ~Has(h', "INIT")
  <2> DEFINE a == IF tx.pc \in {"agg", "ready"} THEN Abandoned(h) ELSE h
  <2>1. h' = [a EXCEPT !.st = "OFF", !.rebase = FALSE, !.rst = FALSE,
                       !.hard = FALSE, !.soft = FALSE, !.noHard = FALSE,
                       !.fresh = FALSE, !.tries = 0, !.work = FALSE]
    BY DEF RemoveEnd
  <2>2. a \in HostRec  BY <1>0, PolicyFacts DEF Abandoned
  <2>3. Worse(h, h) /\ Worse(h, Abandoned(h))  BY <1>0, PolicyWorse, WorseOrder
  <2>4. Worse(h, a)  BY <2>3
  <2> HIDE DEF a
  <2>5. h'.fl = a.fl /\ h'.st = "OFF"  BY <2>1, <2>2 DEF HostRec
  <2> QED  BY <1>1, <1>2, <2>4, <2>5 DEF Worse, Has, Closed
<1>4. tx'.pc = "off" /\ ~tx'.valid /\ ~tx'.resv /\ tx'.set = {}
  BY <1>0, <1>1 DEF TxIdle, ThreadRec
<1>5. cx'.based = "old" /\ cx'.sleep = cx.sleep /\ ~cx'.rxw
  BY <1>0, <1>1 DEF Zeroed, CursorRec
<1>6. /\ fw'.run = fw.run /\ fw'.held = fw.held /\ fw'.tok = fw.tok
      /\ FwUp => "CLOSE" \in fw'.bits
  BY <1>0, <1>1 DEF SlaveRec
<1>7. ~FwUp => fw.held = 0  BY <1>0 DEF LinkInv, ThreadInv, FwUp, SlaveRec
<1>8. OffInv'
  BY <1>1, <1>2, <1>3, <1>4, <1>5, <1>6, <1>7 DEF OffInv
<1>9. ThreadInv' /\ RemoveInv'
  BY <1>1, <1>2, <1>3, <1>4, <1>6 DEF LinkInv, ThreadInv, RemoveInv
<1>10. OverlapInv' /\ SleepInv' /\ NextInv'
  BY <1>1, <1>2, <1>3, <1>5 DEF OverlapInv, SleepInv, NextInv
<1>11. StaleInv' /\ CountInv'
  BY <1>5 DEF StaleInv, Stale, CountInv, Unpaid
<1> QED  BY <1>8, <1>9, <1>10, <1>11 DEF LinkKept, LinkInv

\* A probe finds a firmware that holds nothing of an earlier binding.
LEMMA ProbeKept ==
    ASSUME TypeOK, TypeOK', LinkInv, Probe
    PROVE  LinkKept
<1>0. h \in HostRec /\ cx \in CursorRec /\ fw \in SlaveRec /\ tx \in ThreadRec
  BY DEF TypeOK
<1>1. /\ UNCHANGED <<q, rec, ev, bt, pm>> /\ h.st = "OFF" /\ fw.run = "up"
      /\ "CLOSE" \notin fw.bits /\ tx' = [tx EXCEPT !.pc = "idle"]
  BY DEF Probe
<1>2. /\ fw.held = 0 /\ tx.pc = "off" /\ ~tx.valid /\ ~tx.resv
      /\ rec.pc = "idle" /\ bt = "idle" /\ pm = "awake" /\ ~cx.sleep
  BY <1>1 DEF LinkInv, OffInv, ThreadInv, SleepInv
<1> DEFINE r == Rebound(h)
<1>3. r \in HostRec  BY <1>0, IntentFacts
<1>4. r.st = "RX" /\ ~Closed(r) /\ (Has(r, "RECON") => Has(r, "EXP"))
  <2> DEFINE b == [h EXCEPT !.fl = @ \ {"REMOVING"}, !.st = "RX"]
  <2>1. b \in HostRec /\ b.fl = h.fl \ {"REMOVING"} /\ b.st = "RX"
    BY <1>0 DEF HostRec
  <2>2. \/ r = b /\ Has(h, "EXP")
        \/ r = [b EXCEPT !.att = 0, !.dl = FALSE, !.fl = {}]
    BY DEF Rebound
  <2> HIDE DEF b, r
  <2>3. CASE r = b /\ Has(h, "EXP")  BY <2>1, <2>3 DEF Has, Closed
  <2>4. CASE r = [b EXCEPT !.att = 0, !.dl = FALSE, !.fl = {}]
    <3>1. r.fl = {} /\ r.st = "RX"  BY <2>1, <2>4 DEF HostRec
    <3> QED  BY <3>1 DEF Has, Closed
  <2> QED  BY <2>2, <2>3, <2>4
<1>5. tx'.pc = "idle" /\ ~tx'.valid /\ ~tx'.resv  BY <1>0, <1>1, <1>2 DEF ThreadRec
<1>6. ASSUME h'.st = "RX", ~Closed(h'), Has(h', "RECON") => Has(h', "EXP"),
             fw'.run = fw.run, ~cx'.sleep, cx'.based # "next"
      PROVE  LinkInv'
  <2>1. OffInv' /\ ThreadInv' /\ RemoveInv'
    BY <1>1, <1>2, <1>5, <1>6 DEF LinkInv, OffInv, ThreadInv, RemoveInv
  <2>2. OverlapInv' /\ SleepInv' /\ NextInv'
    BY <1>1, <1>2, <1>6 DEF OverlapInv, SleepInv, NextInv
  <2> QED  BY <2>1, <2>2 DEF LinkInv
<1>7. CASE cx' = Zeroed(cx, "old") /\ h' = Quarantine(r) /\ UNCHANGED fw
  <2> HIDE DEF r
  <2>1. Worse(r, h')  BY <1>3, <1>7, PolicyWorse DEF Condemned, Marked
  <2>2. h'.st = "RX" /\ ~Closed(h') /\ (Has(h', "RECON") => Has(h', "EXP"))
    BY <1>4, <2>1 DEF Worse
  <2>3. cx'.based = "old" /\ ~cx'.sleep
    BY <1>0, <1>2, <1>7 DEF Zeroed, CursorRec
  <2>4. LinkInv'  BY <1>6, <1>7, <2>2, <2>3
  <2>5. StaleInv' /\ CountInv'
    BY <2>3 DEF StaleInv, Stale, CountInv, Unpaid
  <2> QED  BY <2>4, <2>5 DEF LinkKept
<1>8. CASE /\ cx' = [Zeroed(cx, "cur") EXCEPT !.tx = TxBase(fw.tok)]
           /\ h' = [r EXCEPT !.work = TRUE]
           /\ fw' = [fw EXCEPT !.bits = @ \cup {"OPEN"}]
  <2> HIDE DEF r
  <2>1. h'.fl = r.fl /\ h'.st = "RX"  BY <1>3, <1>4, <1>8 DEF HostRec
  <2>2. ~Closed(h') /\ (Has(h', "RECON") => Has(h', "EXP"))
    BY <1>4, <2>1 DEF Has, Closed
  <2>3. fw'.run = "up" /\ fw'.held = 0 /\ fw'.tok = fw.tok
    BY <1>0, <1>1, <1>2, <1>8 DEF SlaveRec
  <2>4. cx'.tx = TxBase(fw.tok) /\ cx'.buf = 0 /\ cx'.based = "cur" /\ ~cx'.sleep
    BY <1>0, <1>2, <1>8 DEF Zeroed, CursorRec
  <2>5. LinkInv'  BY <1>1, <1>6, <2>1, <2>2, <2>3, <2>4
  <2>6. Backed'  BY <1>5, <2>3, <2>4, BaselineBacked DEF FwUp
  <2>7. StaleInv' /\ CountInv'
    BY <1>5, <2>6 DEF StaleInv, Stale, CountInv, Unpaid
  <2> QED  BY <2>5, <2>7 DEF LinkKept
<1> QED  BY <1>7, <1>8 DEF Probe

\* Nothing is bound at first.
LEMMA LinkInit == Init => LinkInv /\ StaleInv /\ CountInv
<1> SUFFICES ASSUME Init PROVE LinkInv /\ StaleInv /\ CountInv
  OBVIOUS
<1>1. /\ h.st = "OFF" /\ h.fl = {} /\ ~h.work /\ cx.based = "old" /\ ~cx.sleep /\ ~cx.rxw
      /\ tx.pc = "off" /\ tx.set = {} /\ ~tx.valid /\ ~tx.resv /\ q = {}
      /\ rec.pc = "idle" /\ bt = "idle" /\ ~ev /\ pm = "awake"
      /\ fw.run = "up" /\ fw.held = 0
  BY DEF Init
<1>2. \A f : ~Has(h, f)  BY <1>1 DEF Has
<1>3. OffInv /\ ThreadInv /\ RemoveInv
  BY <1>1, <1>2 DEF OffInv, ThreadInv, RemoveInv, Closed
<1>4. OverlapInv /\ SleepInv /\ NextInv
  BY <1>1, <1>2 DEF OverlapInv, SleepInv, NextInv
<1>5. StaleInv /\ CountInv  BY <1>1 DEF StaleInv, Stale, CountInv, Unpaid
<1> QED  BY <1>3, <1>4, <1>5 DEF LinkInv

\* Every step keeps the structure of the link, and all but the named ones the
\* count and the epochs.
LEMMA LinkNext ==
    TypeOK /\ TypeOK' /\ PassInv /\ HandshakeInv /\ LinkInv /\ [Next]_vars => LinkKept
<1> SUFFICES ASSUME TypeOK, TypeOK', PassInv, HandshakeInv, LinkInv, [Next]_vars
             PROVE  LinkKept
  OBVIOUS
<1>1. CASE UNCHANGED vars
  <2>1. (OffInv' <=> OffInv) /\ (ThreadInv' <=> ThreadInv) /\ (RemoveInv' <=> RemoveInv)
    BY <1>1 DEF vars, OffInv, ThreadInv, RemoveInv
  <2>2. (OverlapInv' <=> OverlapInv) /\ (SleepInv' <=> SleepInv) /\ (NextInv' <=> NextInv)
    BY <1>1 DEF vars, OverlapInv, SleepInv, NextInv
  <2>3. (Noted' <=> Noted) /\ (Unpaid' <=> Unpaid) /\ (Stale' <=> Stale)
        /\ (Backed' <=> Backed)
    BY <1>1 DEF vars, Noted, Recorded, Unpaid, Stale, Backed, Window, Free, FwUp, Reserved
  <2>4. (StaleInv' <=> StaleInv) /\ (CountInv' <=> CountInv)
    BY <1>1, <2>3 DEF vars, StaleInv, CountInv
  <2> QED  BY <2>1, <2>2, <2>4 DEF LinkKept, LinkInv
<1>2. CASE Firmware \/ FwSend \/ FwCrash  BY <1>2, FirmwareKept
<1>3. CASE TxThread
  BY <1>3, BuildKept, CreditKept, WriteKept, WriteErrorKept, PolicyKept DEF TxThread
<1>4. CASE RxWork  BY <1>4, PolicyKept
<1>5. CASE Recovery  BY <1>5, RecoveryKept
<1>6. CASE BootHandler  BY <1>6, BootKept
<1>7. CASE PowerManagement  BY <1>7, PowerKept
<1>8. CASE RemoveEnd \/ Probe  BY <1>8, RemoveEndKept, ProbeKept
<1>9. CASE Environment
  BY <1>9, PolicyKept, SuspendKept, RemoveStartKept DEF Environment
<1> QED  BY <1>1, <1>2, <1>3, <1>4, <1>5, <1>6, <1>7, <1>8, <1>9 DEF Next

\* A frame handed over in one firmware session never reaches the next one once
\* the host has based its counters on it, unless the counters restart under a
\* TX path that a reconstruction holds open (ResetUnderTx): every other step
\* that bases the counters anew either moves tx_epoch or finds TX closed, with
\* the reset that will invalidate the aggregate on record (tx_process,
\* esp_sdio_recover_transport_inner, esp_sdio_reinit_after_fw_reset).
THEOREM StaleFramesStopped == Spec /\ [][~ResetUnderTx]_vars => NoStaleTx
<1> DEFINE Inv == PassInv /\ HandshakeInv /\ LinkInv /\ StaleInv
<1>1. Init => Inv
  <2>1. Init => PassInv /\ HandshakeInv
    BY DEF Init, PassInv, HandshakeInv, AckMeansRestart
  <2> QED  BY <2>1, LinkInit
<1>2. TypeOK /\ TypeOK' /\ Inv /\ [Next]_vars /\ [~ResetUnderTx]_vars => Inv'
  <2> SUFFICES ASSUME TypeOK, TypeOK', Inv, [Next]_vars, [~ResetUnderTx]_vars
               PROVE  Inv'
    OBVIOUS
  <2>1. PassInv' /\ HandshakeInv' /\ LinkKept  BY PassNext, HandshakeNext, LinkNext
  <2>2. CASE ~ResetUnderTx  BY <2>1, <2>2 DEF LinkKept
  <2>3. CASE UNCHANGED vars
    <3>1. StaleInv'
      BY <2>3 DEF vars, StaleInv, Stale, Noted, Recorded
    <3> QED  BY <2>1, <3>1 DEF LinkKept
  <2> QED  BY <2>2, <2>3
<1>3. TypeOK /\ TypeOK' /\ Inv /\ [Next]_vars =>
        [fw'.held > fw.held => tx.for = "cur" \/ cx.based # "cur"]_vars
  BY WritesCurrent
<1> QED  BY <1>1, <1>2, <1>3, LinkTypes, PTL DEF Spec, NoStaleTx

\* While TX is open the credits the host holds, or would read from TOKEN next,
\* are buffers the slave has free, for every number of buffers and every
\* modulus, unless one of the steps of InventsCredit counts a buffer twice:
\* no other baseline, failed write, give-up, resynchronisation, restart or
\* removal of esp_sdio.c and sdio_slave_api.c does.
THEOREM CreditsKept == Spec /\ [][~InventsCredit]_vars => []CreditsReal
<1> DEFINE Inv == PassInv /\ HandshakeInv /\ LinkInv /\ StaleInv /\ CountInv
<1>1. Init => Inv
  <2>1. Init => PassInv /\ HandshakeInv
    BY DEF Init, PassInv, HandshakeInv, AckMeansRestart
  <2> QED  BY <2>1, LinkInit
<1>2. TypeOK /\ TypeOK' /\ Inv /\ [Next]_vars /\ [~InventsCredit]_vars => Inv'
  <2> SUFFICES ASSUME TypeOK, TypeOK', Inv, [Next]_vars, [~InventsCredit]_vars
               PROVE  Inv'
    OBVIOUS
  <2>1. PassInv' /\ HandshakeInv' /\ LinkKept  BY PassNext, HandshakeNext, LinkNext
  <2>2. CASE ~InventsCredit  BY <2>1, <2>2 DEF LinkKept, InventsCredit
  <2>3. CASE UNCHANGED vars
    <3>1. StaleInv' /\ CountInv'
      BY <2>3 DEF vars, StaleInv, CountInv, Stale, Noted, Recorded, Unpaid, Backed,
         Window, Free, FwUp, Reserved
    <3> QED  BY <2>1, <3>1 DEF LinkKept
  <2> QED  BY <2>2, <2>3
<1>3. TypeOK /\ Inv => CreditsReal  BY CountGivesCredits DEF LinkInv
<1> QED  BY <1>1, <1>2, <1>3, LinkTypes, PTL DEF Spec

=============================================================================
