-------------------------- MODULE FwRecoveryProofs --------------------------
(***************************************************************************)
(* Proofs about FwRecovery for every set of failure contexts, every retry  *)
(* cap, every fault bound and every configuration. Liveness stays with TLC.*)
(***************************************************************************)
EXTENDS FwRecovery, SequenceTheorems, TLAPS

USE MaxAttemptsAssumption, BoundsAssumption, SwitchAssumption
USE DEF vars, recVars, ctlVars, Outside, gens, budget, locals, resetVars,
        spiBudget, spiVars, fwVars, radioVars, sesVars, Goto, Call, Return,
        Fault

-----------------------------------------------------------------------------
(* Facts the leaves cite *)

\* The three named works are contexts of the model.
LEMMA ThreadFacts == {"rec", "ev", "radio"} \subseteq Threads
                     /\ Errs \subseteq Threads
  BY DEF Threads
USE ThreadFacts

\* What purging, dequeuing, appending and ageing do to a queue of frames.
LEMMA QueueFacts ==
    /\ <<>> \in Seq(BOOLEAN)
    /\ \A q \in Seq(BOOLEAN) :
         /\ q # <<>> => Head(q) \in BOOLEAN /\ Tail(q) \in Seq(BOOLEAN)
         /\ \A b \in BOOLEAN : Append(q, b) \in Seq(BOOLEAN)
         /\ [i \in DOMAIN q |-> FALSE] \in Seq(BOOLEAN)
<1>1. <<>> \in Seq(BOOLEAN)  OBVIOUS
<1> SUFFICES ASSUME NEW q \in Seq(BOOLEAN)
             PROVE  /\ q # <<>> => Head(q) \in BOOLEAN
                                   /\ Tail(q) \in Seq(BOOLEAN)
                    /\ \A b \in BOOLEAN : Append(q, b) \in Seq(BOOLEAN)
                    /\ [i \in DOMAIN q |-> FALSE] \in Seq(BOOLEAN)
  BY <1>1
<1>2. q # <<>> => Head(q) \in BOOLEAN /\ Tail(q) \in Seq(BOOLEAN)  OBVIOUS
<1>3. \A b \in BOOLEAN : Append(q, b) \in Seq(BOOLEAN)  OBVIOUS
<1>4. [i \in DOMAIN q |-> FALSE] \in Seq(BOOLEAN)
  <2>1. Len(q) \in Nat /\ DOMAIN q = 1..Len(q)  OBVIOUS
  <2>2. [i \in DOMAIN q |-> FALSE] \in [1..Len(q) -> BOOLEAN]  BY <2>1
  <2> QED  BY <2>1, <2>2, SeqDef
<1> QED  BY <1>2, <1>3, <1>4

\* No endpoints, or those of any selection, are a legal publication.
LEMMA RadioFacts == -1 \in -1..MaxWrites /\ 0..MaxWrites \subseteq -1..MaxWrites
  OBVIOUS

-----------------------------------------------------------------------------
(* The type invariant *)

\* Every step keeps the types of the recovery state.
LEMMA RecTypes == TypeOK /\ Next => TypeRec'
<1> SUFFICES ASSUME TypeOK, Next PROVE TypeRec'  OBVIOUS
<1> USE DEF TypeOK
<1>1. ASSUME NEW t \in Threads, Retry(t) PROVE TypeRec'
  BY <1>1 DEF Retry, TypeRec, Flags
<1>2. ASSUME NEW t \in Threads, Schedule(t) PROVE TypeRec'
  <2>1. CASE Stopping
    BY <1>2, <2>1 DEF Schedule, TypeRec
  <2>2. CASE ~Stopping
    <3>1. reconStale' = ("RECONSTRUCT" \in flags)
          /\ recStale' = (pc["rec"] \in RecGenLive)
      BY <1>2, <2>2 DEF Schedule
    <3>2. flags' \subseteq Flags
      BY <1>2, <2>2 DEF Schedule, TypeRec, Flags
    <3>3. state' \in {"DISABLED", "RX_READY", "READY"}
      BY <1>2, <2>2 DEF Schedule, TypeRec, DropTx
    <3>4. UNCHANGED <<attempts, deadline, timer, overtaken>>
      BY <1>2, <2>2 DEF Schedule
    <3> QED  BY <3>1, <3>2, <3>3, <3>4 DEF TypeRec
  <2> QED  BY <2>1, <2>2
<1>3. ASSUME NEW t \in Threads, Arm(t) PROVE TypeRec'
  BY <1>3 DEF Arm, TypeRec, Flags
<1>4. ASSUME NEW t \in Threads, Request(t) PROVE TypeRec'
  <2>1. flags' \subseteq Flags
    BY <1>4 DEF Request, TypeRec, Flags
  <2>2. attempts' \in 0..MaxAttempts
    BY <1>4 DEF Request, TypeRec, BudgetLeft
  <2>3. deadline' \in {"none", "armed", "expired"}
    BY <1>4 DEF Request, TypeRec
  <2>4. UNCHANGED <<state, reconStale, recStale, overtaken, timer>>
    BY <1>4 DEF Request
  <2> QED  BY <2>1, <2>2, <2>3, <2>4 DEF TypeRec
<1>5. ASSUME NEW t \in Threads, ResetQueue(t) PROVE TypeRec'
  BY <1>5 DEF ResetQueue, TypeRec, Flags, DropTx
<1>6. ASSUME NEW t \in Threads, Finish(t) PROVE TypeRec'
  <2>1. flags' \subseteq Flags
    BY <1>6 DEF Finish, TypeRec, Flags, Healed
  <2>2. attempts' \in 0..MaxAttempts
    BY <1>6 DEF Finish, TypeRec
  <2>3. deadline' \in {"none", "armed", "expired"}
    BY <1>6 DEF Finish, TypeRec
  <2>4. UNCHANGED <<state, reconStale, recStale, overtaken, timer>>
    BY <1>6 DEF Finish
  <2> QED  BY <2>1, <2>2, <2>3, <2>4 DEF TypeRec
<1>7. ASSUME NEW t \in Threads, ResetTarget(t) \/ CommitCallback(t) \/
            BusError(t) \/ StatefulError(t)
     PROVE  TypeRec'
  BY <1>7 DEF ResetTarget, CommitCallback, BusError, StatefulError, TypeRec
<1>8. CASE RecStart \/ RecCheck \/ RecRecover \/ RecProbe \/ RecLive \/
            RecSettle0 \/ RecSettle1 \/ RecRearm
  BY ZenonT(60), <1>8 DEF RecStart, TypeRec, Flags, RecCheck, RecRecover, RecProbe,
     RecLive, RecSettle0, RecSettle1, RecRearm
<1>9. CASE EvSync \/ EvBegin \/ EvQuiesce \/ EvReinit \/ EvRecon \/ EvAddCard
            \/ EvOta \/ EvInitDone \/ EvCancel \/ EvMismatch \/ EvPublish \/
            EvFailPub \/ EvFail
  <2>1. CASE EvSync \/ EvBegin \/ EvQuiesce \/ EvReinit
    BY ZenonT(60), <2>1 DEF EvSync, EvBegin, EvQuiesce, EvReinit, TypeRec, Flags
  <2>2. CASE EvRecon    BY <2>2 DEF EvRecon, TypeRec, Flags
  <2>3. CASE EvAddCard  BY <2>3 DEF EvAddCard, CardOpened, TypeRec
  <2>4. CASE EvOta      BY <2>4 DEF EvOta, TypeRec
  <2>5. CASE EvInitDone \/ EvCancel \/ EvMismatch
    BY ZenonT(60), <2>5 DEF EvInitDone, EvCancel, EvMismatch, TypeRec, Flags
  <2>6. CASE EvPublish \/ EvFailPub \/ EvFail
    BY ZenonT(60), <2>6 DEF EvPublish, EvFailPub, EvFail, TypeRec, Flags
  <2> QED  BY <1>9, <2>1, <2>2, <2>3, <2>4, <2>5, <2>6
<1>10. CASE RadioLatest
  BY <1>10 DEF RadioLatest, TypeRec, Flags
<1>11. CASE RstFlag \/ RstPath \/ RstArm
  BY ZenonT(60), <1>11 DEF RstFlag, TypeRec, Flags, RstPath, RstArm
<1>12. CASE ExitBegin \/ ExitCancelRecovery \/ ExitRemoving \/ ExitFree
  BY ZenonT(60), <1>12 DEF ExitBegin, TypeRec, Flags, ExitCancelRecovery, ExitRemoving,
     ExitFree
<1>13. CASE DeadlinePasses
  BY <1>13 DEF DeadlinePasses, TypeRec, Flags
<1>14. CASE RecOpen \/ EvTake \/ EvBoot \/ EvRemove \/ EvParse \/ EvOtaFail
            \/ EvFailRemove \/ RadioStart
  BY <1>14 DEF RecOpen, EvTake, EvBoot, EvRemove, EvParse, EvOtaFail,
     EvFailRemove, RadioStart, TypeRec
<1>15. CASE RadioGate \/ RadioCmd \/ RadioFail \/ RadioUnpublish \/
            RadioEndpoints \/ RstKeepBoot \/ RstHwReset \/ RstSoftReboot
  BY <1>15 DEF RadioGate, RadioCmd, RadioFail, RadioUnpublish,
     RadioEndpoints, RstKeepBoot, RstHwReset, RstSoftReboot, TypeRec
<1>16. CASE RstClear \/ ExitCancelEvents \/ ExitCancelReset \/ ExitRemoveCard
            \/ ExitTransport \/ FwCrash \/ FwHang \/ FwLoseBoot \/ UserSelect
            \/ FwBoot \/ FwReboot \/ RxBoot \/ RxDispatch
  BY ZenonT(60), <1>16 DEF RstClear, ExitCancelEvents, ExitCancelReset, ExitRemoveCard,
     ExitTransport, FwCrash, FwHang, FwLoseBoot, UserSelect, FwBoot,
     FwReboot, RxBoot, RxDispatch, TypeRec
<1>17. CASE EvCommit
  <2>1. overtaken' \in BOOLEAN  BY <1>17 DEF EvCommit, TypeRec
  <2>2. flags' \subseteq Flags  BY <1>17 DEF EvCommit, TypeRec, Committed
  <2>3. state' \in {"RX_READY", "READY"} /\ reconStale' = FALSE
    BY <1>17 DEF EvCommit
  <2>4. UNCHANGED <<recStale, attempts, deadline, timer>>
    BY <1>17 DEF EvCommit
  <2> QED  BY <2>1, <2>2, <2>3, <2>4 DEF TypeRec
<1> QED  BY <1>1, <1>2, <1>3, <1>4, <1>5, <1>6, <1>7, <1>8, <1>9, <1>10,
    <1>11, <1>12, <1>13, <1>14, <1>15, <1>16, <1>17 DEF Next, RecWork, EvWork,
    RadioWork, ResetWork, ExitWork, ReportWork, Environment, CallChain

\* Every step keeps the types of the control state.
LEMMA CtlTypes == TypeOK /\ Next => TypeCtl'
<1> SUFFICES ASSUME TypeOK, Next PROVE TypeCtl'  OBVIOUS
<1> USE DEF TypeOK
<1>1. ASSUME NEW t \in Threads, Retry(t) PROVE TypeCtl'
  BY <1>1 DEF Retry, TypeCtl, Labels, ReturnPoints, Goto, Call
<1>2. ASSUME NEW t \in Threads, Schedule(t) PROVE TypeCtl'
  BY <1>2 DEF Schedule, TypeCtl, Labels, ReturnPoints, Goto, Return
<1>3. ASSUME NEW t \in Threads, Arm(t) PROVE TypeCtl'
  BY <1>3 DEF Arm, TypeCtl, Labels, ReturnPoints, Goto, Return
<1>4. ASSUME NEW t \in Threads, Request(t) PROVE TypeCtl'
  BY <1>4 DEF Request, TypeCtl, Labels, ReturnPoints, Goto, Return
<1>5. ASSUME NEW t \in Threads, ResetTarget(t) PROVE TypeCtl'
  BY <1>5 DEF ResetTarget, TypeCtl, Labels, ReturnPoints, Goto, Return
<1>6. ASSUME NEW t \in Threads, ResetQueue(t) PROVE TypeCtl'
  BY <1>6 DEF ResetQueue, TypeCtl, Labels, ReturnPoints, Return
<1>7. ASSUME NEW t \in Threads, Finish(t) PROVE TypeCtl'
  BY <1>7 DEF Finish, TypeCtl, Labels, ReturnPoints, Goto
<1>8. ASSUME NEW t \in Threads, CommitCallback(t) PROVE TypeCtl'
  BY <1>8 DEF CommitCallback, TypeCtl, Labels, ReturnPoints, Goto
<1>9. ASSUME NEW t \in Threads, BusError(t) PROVE TypeCtl'
  BY <1>9 DEF BusError, TypeCtl, Labels, ReturnPoints, Call
<1>10. ASSUME NEW t \in Threads, StatefulError(t) PROVE TypeCtl'
  BY <1>10 DEF StatefulError, TypeCtl, Labels, ReturnPoints, Call
<1>11. CASE RecStart
  BY <1>11 DEF RecStart, TypeCtl, Labels, ReturnPoints, Goto
<1>12. CASE RecCheck
  BY <1>12 DEF RecCheck, TypeCtl, Labels, ReturnPoints, RecDecision, Goto
<1>13. CASE RecRecover
  BY <1>13 DEF RecRecover, TypeCtl, Labels, ReturnPoints, Goto, Call
<1>14. CASE RecProbe
  BY <1>14 DEF RecProbe, TypeCtl, Labels, ReturnPoints, Goto
<1>15. CASE RecOpen
  BY <1>15 DEF RecOpen, TypeCtl, Labels, ReturnPoints, Goto
<1>16. CASE RecLive
  BY <1>16 DEF RecLive, TypeCtl, Labels, ReturnPoints, Goto
<1>17. CASE RecSettle0
  BY <1>17 DEF RecSettle0, TypeCtl, Labels, ReturnPoints, Goto
<1>18. CASE RecSettle1
  BY <1>18 DEF RecSettle1, TypeCtl, Labels, ReturnPoints, Goto
<1>19. CASE RecRearm
  BY <1>19 DEF RecRearm, TypeCtl, Labels, ReturnPoints, Goto
<1>20. CASE EvTake
  <2>1. evFresh' \in BOOLEAN
    BY <1>20, QueueFacts DEF EvTake, TypeCtl, TypeFw
  <2>2. pc' \in [Threads -> Labels] /\ ret' \in [Threads -> ReturnPoints]
    BY ZenonT(60), <1>20, QueueFacts DEF EvTake, TypeCtl, Labels, ReturnPoints
  <2>3. UNCHANGED <<reinit, want>>
    BY <1>20, QueueFacts DEF EvTake
  <2> QED  BY <2>1, <2>2, <2>3 DEF TypeCtl
<1>21. CASE EvBoot
  BY <1>21 DEF EvBoot, TypeCtl, Labels, ReturnPoints, Goto
<1>22. CASE EvSync
  BY <1>22 DEF EvSync, TypeCtl, Labels, ReturnPoints, Goto
<1>23. CASE EvBegin
  BY <1>23 DEF EvBegin, TypeCtl, Labels, ReturnPoints, Goto
<1>24. CASE EvQuiesce
  BY <1>24 DEF EvQuiesce, TypeCtl, Labels, ReturnPoints, Goto
<1>25. CASE EvRemove
  BY <1>25 DEF EvRemove, TypeCtl, Labels, ReturnPoints, Goto
<1>26. CASE EvParse
  <2>1. pc' \in [Threads -> Labels]
    BY <1>26 DEF EvParse, TypeCtl, Labels
  <2>2. evFresh' \in BOOLEAN /\ reinit' \in BOOLEAN
    BY <1>26 DEF EvParse
  <2>3. UNCHANGED <<ret, want>>
    BY <1>26 DEF EvParse
  <2> QED  BY <2>1, <2>2, <2>3 DEF TypeCtl
<1>27. CASE EvReinit
  BY <1>27 DEF EvReinit, TypeCtl, Labels, ReturnPoints, Goto
<1>28. CASE EvRecon
  BY <1>28 DEF EvRecon, TypeCtl, Labels, ReturnPoints, Goto
<1>29. CASE EvAddCard
  BY <1>29 DEF EvAddCard, TypeCtl, Labels, ReturnPoints, Goto
<1>30. CASE EvOta
  BY <1>30 DEF EvOta, TypeCtl, Labels, ReturnPoints, Goto, Call
<1>31. CASE EvOtaFail
  BY <1>31 DEF EvOtaFail, TypeCtl, Labels, ReturnPoints, Goto
<1>32. CASE EvInitDone
  BY <1>32 DEF EvInitDone, TypeCtl, Labels, ReturnPoints, Goto
<1>33. CASE EvCancel
  BY <1>33 DEF EvCancel, TypeCtl, Labels, ReturnPoints, Goto
<1>34. CASE EvCommit
  BY <1>34 DEF EvCommit, TypeCtl, Labels, ReturnPoints, Goto
<1>35. CASE EvMismatch
  BY <1>35 DEF EvMismatch, TypeCtl, Labels, ReturnPoints, Goto
<1>36. CASE EvPublish
  BY <1>36 DEF EvPublish, TypeCtl, Labels, ReturnPoints, Goto
<1>37. CASE EvFailPub
  BY <1>37 DEF EvFailPub, TypeCtl, Labels, ReturnPoints, Goto
<1>38. CASE EvFailRemove
  BY <1>38 DEF EvFailRemove, TypeCtl, Labels, ReturnPoints, Goto
<1>39. CASE EvFail
  BY <1>39 DEF EvFail, TypeCtl, Labels, ReturnPoints, Goto
<1>40. CASE RadioStart
  BY <1>40 DEF RadioStart, TypeCtl, Labels, ReturnPoints, Goto
<1>41. CASE RadioGate
  BY <1>41 DEF RadioGate, TypeCtl, Labels, ReturnPoints, Goto, TypeSes
<1>42. CASE RadioCmd
  BY <1>42 DEF RadioCmd, TypeCtl, Labels, ReturnPoints, Goto, Call
<1>43. CASE RadioFail
  BY <1>43 DEF RadioFail, TypeCtl, Labels, ReturnPoints, Goto, Call
<1>44. CASE RadioUnpublish
  BY <1>44 DEF RadioUnpublish, TypeCtl, Labels, ReturnPoints, Call
<1>45. CASE RadioEndpoints
  BY <1>45 DEF RadioEndpoints, TypeCtl, Labels, ReturnPoints, Goto, Call
<1>46. CASE RadioLatest
  BY <1>46 DEF RadioLatest, TypeCtl, Labels, ReturnPoints, Goto
<1>47. CASE RstHwReset
  BY <1>47 DEF RstHwReset, TypeCtl, Labels, ReturnPoints, Restarted
<1>48. CASE FwCrash \/ FwReboot
  BY <1>48 DEF FwCrash, TypeCtl, Labels, ReturnPoints, Restarted, FwReboot
<1>49. CASE RstKeepBoot \/ RstSoftReboot \/ RstFlag \/ RstClear \/ RstPath \/
            RstArm \/ ExitBegin \/ ExitCancelRecovery \/ ExitCancelEvents \/
            ExitRemoving \/ ExitCancelReset \/ ExitRemoveCard \/
            ExitTransport \/ ExitFree \/ FwHang \/ FwLoseBoot \/ UserSelect
            \/ FwBoot \/ RxBoot \/ RxDispatch \/ DeadlinePasses
  BY <1>49 DEF RstKeepBoot, RstSoftReboot, RstFlag, RstClear, RstPath,
     RstArm, ExitBegin, ExitCancelRecovery, ExitCancelEvents, ExitRemoving,
     ExitCancelReset, ExitRemoveCard, ExitTransport, ExitFree, FwHang,
     FwLoseBoot, UserSelect, FwBoot, RxBoot, RxDispatch, DeadlinePasses,
     TypeCtl
<1> QED  BY <1>1, <1>2, <1>3, <1>4, <1>5, <1>6, <1>7, <1>8, <1>9, <1>10,
    <1>11, <1>12, <1>13, <1>14, <1>15, <1>16, <1>17, <1>18, <1>19, <1>20,
    <1>21, <1>22, <1>23, <1>24, <1>25, <1>26, <1>27, <1>28, <1>29, <1>30,
    <1>31, <1>32, <1>33, <1>34, <1>35, <1>36, <1>37, <1>38, <1>39, <1>40,
    <1>41, <1>42, <1>43, <1>44, <1>45, <1>46, <1>47, <1>48, <1>49 DEF Next,
    RecWork, EvWork, RadioWork, ResetWork, ExitWork, ReportWork, Environment,
    CallChain

\* Every step keeps the types of the SPI state.
LEMMA SpiTypes == TypeOK /\ Next => TypeSpi'
<1> SUFFICES ASSUME TypeOK, Next PROVE TypeSpi'  OBVIOUS
<1> USE DEF TypeOK
<1>1. ASSUME NEW t \in Threads, ResetTarget(t) PROVE TypeSpi'
  <2>1. soft' \in 0..MaxAttempts
    BY <1>1 DEF ResetTarget, TypeSpi, SoftNow, ResetRefused
  <2>2. synced' \in BOOLEAN /\ resetting' \in BOOLEAN
    BY <1>1 DEF ResetTarget, TypeSpi
  <2>3. UNCHANGED <<dataPath, rstQ, rst, rstRet, rstFresh, rescue>>
    BY <1>1 DEF ResetTarget
  <2> QED  BY <2>1, <2>2, <2>3 DEF TypeSpi
<1>2. ASSUME NEW t \in Threads, ResetQueue(t) PROVE TypeSpi'
  BY <1>2 DEF ResetQueue, TypeSpi
<1>3. ASSUME NEW t \in Threads, Finish(t) PROVE TypeSpi'
  BY ZenonT(60), <1>3 DEF Finish, TypeSpi
<1>4. ASSUME NEW t \in Threads, CommitCallback(t) PROVE TypeSpi'
  <2>1. soft' \in 0..MaxAttempts
    BY <1>4 DEF CommitCallback, TypeSpi, SoftNow
  <2>2. synced' \in BOOLEAN /\ rescue' \in BOOLEAN
    BY <1>4 DEF CommitCallback, TypeSpi
  <2>3. UNCHANGED <<dataPath, resetting, rstQ, rst, rstRet, rstFresh>>
    BY <1>4 DEF CommitCallback
  <2> QED  BY <2>1, <2>2, <2>3 DEF TypeSpi
<1>5. ASSUME NEW t \in Threads, BusError(t) PROVE TypeSpi'
  BY <1>5 DEF BusError, TypeSpi
<1>6. ASSUME NEW t \in Threads, Retry(t) \/ Schedule(t) \/ Arm(t) \/
            Request(t) \/ StatefulError(t)
     PROVE  TypeSpi'
  BY <1>6 DEF Retry, Schedule, Arm, Request, StatefulError, TypeSpi
<1>7. CASE RecOpen \/ RecLive
  BY ZenonT(60), <1>7 DEF RecOpen, TypeSpi, RecLive
<1>8. CASE EvQuiesce \/ EvReinit
  BY ZenonT(60), <1>8 DEF EvQuiesce, TypeSpi, EvReinit
<1>9. CASE RstKeepBoot \/ RstHwReset \/ RstSoftReboot \/ RstFlag \/ RstClear
            \/ RstPath \/ RstArm
  <2>1. CASE RstKeepBoot    BY <2>1 DEF RstKeepBoot, TypeSpi
  <2>2. CASE RstHwReset     BY <2>2 DEF RstHwReset, TypeSpi, Restarted
  <2>3. CASE RstSoftReboot  BY <2>3 DEF RstSoftReboot, TypeSpi, Restarted
  <2>4. CASE RstFlag \/ RstClear \/ RstPath \/ RstArm
    BY ZenonT(60), <2>4 DEF RstFlag, RstClear, RstPath, RstArm, TypeSpi
  <2> QED  BY <1>9, <2>1, <2>2, <2>3, <2>4
<1>10. CASE ExitCancelReset \/ ExitTransport
  BY ZenonT(60), <1>10 DEF ExitCancelReset, TypeSpi, ExitTransport
<1>11. CASE FwCrash \/ FwReboot \/ RxBoot
  <2>1. CASE FwCrash   BY <2>1 DEF FwCrash, TypeSpi, Restarted
  <2>2. CASE FwReboot  BY <2>2 DEF FwReboot, TypeSpi, Restarted
  <2>3. CASE RxBoot    BY <2>3 DEF RxBoot, TypeSpi
  <2> QED  BY <1>11, <2>1, <2>2, <2>3
<1>12. CASE RecStart \/ RecCheck \/ RecRecover \/ RecProbe \/ RecSettle0 \/
            RecSettle1 \/ RecRearm \/ EvTake \/ EvBoot \/ EvSync \/ EvBegin
            \/ EvRemove \/ EvParse \/ EvRecon \/ EvAddCard \/ EvOta \/
            EvOtaFail \/ EvInitDone \/ EvCancel \/ EvCommit \/ EvMismatch \/
            EvPublish \/ EvFailPub \/ EvFailRemove \/ EvFail \/ RadioStart \/
            RadioGate \/ RadioCmd \/ RadioFail \/ RadioUnpublish \/
            RadioEndpoints \/ RadioLatest \/ ExitBegin \/ ExitCancelRecovery
            \/ ExitCancelEvents \/ ExitRemoving \/ ExitRemoveCard \/ ExitFree
            \/ FwHang \/ FwLoseBoot \/ UserSelect \/ FwBoot \/ RxDispatch \/
            DeadlinePasses
  BY <1>12 DEF RecStart, RecCheck, RecRecover, RecProbe, RecSettle0,
     RecSettle1, RecRearm, EvTake, EvBoot, EvSync, EvBegin, EvRemove,
     EvParse, EvRecon, EvAddCard, EvOta, EvOtaFail, EvInitDone, EvCancel,
     EvCommit, EvMismatch, EvPublish, EvFailPub, EvFailRemove, EvFail,
     RadioStart, RadioGate, RadioCmd, RadioFail, RadioUnpublish,
     RadioEndpoints, RadioLatest, ExitBegin, ExitCancelRecovery,
     ExitCancelEvents, ExitRemoving, ExitRemoveCard, ExitFree, FwHang,
     FwLoseBoot, UserSelect, FwBoot, RxDispatch, DeadlinePasses, TypeSpi
<1> QED  BY <1>1, <1>2, <1>3, <1>4, <1>5, <1>6, <1>7, <1>8, <1>9, <1>10,
    <1>11, <1>12 DEF Next, RecWork, EvWork, RadioWork, ResetWork, ExitWork,
    ReportWork, Environment, CallChain

\* Every step keeps the types of the firmware and the queues.
LEMMA FwTypes == TypeOK /\ Next => TypeFw'
<1> SUFFICES ASSUME TypeOK, Next PROVE TypeFw'  OBVIOUS
<1> USE DEF TypeOK
<1>1. ASSUME NEW t \in Threads, Retry(t) \/ Schedule(t) \/ Arm(t) \/
            Request(t) \/ ResetTarget(t) \/ ResetQueue(t) \/ Finish(t) \/
            CommitCallback(t) \/ BusError(t) \/ StatefulError(t)
     PROVE  TypeFw'
  BY <1>1 DEF Retry, Schedule, Arm, Request, ResetTarget, ResetQueue, Finish,
     CommitCallback, BusError, StatefulError, TypeFw
<1>2. CASE RecProbe
  BY <1>2, QueueFacts DEF RecProbe, TypeFw
<1>3. CASE EvTake \/ EvBegin \/ EvQuiesce \/ EvOta
  BY <1>3, QueueFacts DEF EvTake, TypeFw, EvBegin, EvQuiesce, EvOta
<1>4. CASE RstKeepBoot \/ RstHwReset \/ RstSoftReboot \/ RstPath
  BY <1>4, QueueFacts DEF RstKeepBoot, TypeFw, RstHwReset, Restarted,
     RstSoftReboot, RstPath, TypeSpi
<1>5. CASE ExitCancelEvents \/ ExitRemoving \/ ExitRemoveCard \/ ExitFree
  BY <1>5, QueueFacts DEF ExitCancelEvents, TypeFw, ExitRemoving,
     ExitRemoveCard, ExitFree
<1>6. CASE FwCrash \/ FwHang \/ FwLoseBoot \/ FwBoot \/ FwReboot \/ RxBoot \/
            RxDispatch
  BY <1>6, QueueFacts DEF FwCrash, TypeFw, Restarted, FwHang, FwLoseBoot,
     FwBoot, FwReboot, RxBoot, RxDispatch
<1>7. CASE RecStart \/ RecCheck \/ RecRecover \/ RecOpen \/ RecLive \/
            RecSettle0 \/ RecSettle1 \/ RecRearm \/ EvBoot \/ EvSync \/
            EvRemove \/ EvParse \/ EvReinit \/ EvRecon \/ EvAddCard \/
            EvOtaFail \/ EvInitDone \/ EvCancel \/ EvCommit \/ EvMismatch \/
            EvPublish \/ EvFailPub \/ EvFailRemove \/ EvFail \/ RadioStart \/
            RadioGate \/ RadioCmd \/ RadioFail \/ RadioUnpublish \/
            RadioEndpoints \/ RadioLatest \/ RstFlag \/ RstClear \/ RstArm \/
            ExitBegin \/ ExitCancelRecovery \/ ExitCancelReset \/
            ExitTransport \/ UserSelect \/ DeadlinePasses
  BY <1>7 DEF RecStart, RecCheck, RecRecover, RecOpen, RecLive, RecSettle0,
     RecSettle1, RecRearm, EvBoot, EvSync, EvRemove, EvParse, EvReinit,
     EvRecon, EvAddCard, EvOtaFail, EvInitDone, EvCancel, EvCommit,
     EvMismatch, EvPublish, EvFailPub, EvFailRemove, EvFail, RadioStart,
     RadioGate, RadioCmd, RadioFail, RadioUnpublish, RadioEndpoints,
     RadioLatest, RstFlag, RstClear, RstArm, ExitBegin, ExitCancelRecovery,
     ExitCancelReset, ExitTransport, UserSelect, DeadlinePasses, TypeFw
<1> QED  BY <1>1, <1>2, <1>3, <1>4, <1>5, <1>6, <1>7 DEF Next, RecWork,
    EvWork, RadioWork, ResetWork, ExitWork, ReportWork, Environment,
    CallChain

\* Every step keeps the types of the session.
LEMMA SesTypes == TypeOK /\ Next => TypeSes'
<1> SUFFICES ASSUME TypeOK, Next PROVE TypeSes'  OBVIOUS
<1> USE DEF TypeOK
<1>1. ASSUME NEW t \in Threads, BusError(t) PROVE TypeSes'
  BY <1>1 DEF BusError, TypeSes, ExitLabels, Fault
<1>2. ASSUME NEW t \in Threads, StatefulError(t) PROVE TypeSes'
  BY <1>2 DEF StatefulError, TypeSes, ExitLabels, Fault
<1>3. ASSUME NEW t \in Threads, Retry(t) \/ Schedule(t) \/ Arm(t) \/
            Request(t) \/ ResetTarget(t) \/ ResetQueue(t) \/ Finish(t) \/
            CommitCallback(t)
     PROVE  TypeSes'
  BY <1>3 DEF Retry, Schedule, Arm, Request, ResetTarget, ResetQueue, Finish,
     CommitCallback, TypeSes
<1>4. CASE EvTake
  BY <1>4 DEF EvTake, TypeSes, ExitLabels, Fault
<1>5. CASE EvBegin
  BY <1>5 DEF EvBegin, TypeSes, ExitLabels
<1>6. CASE EvRemove
  BY <1>6, RadioFacts DEF EvRemove, TypeSes, ExitLabels
<1>7. CASE EvParse
  BY <1>7 DEF EvParse, TypeSes, ExitLabels, Fault
<1>8. CASE EvAddCard
  BY <1>8 DEF EvAddCard, TypeSes, ExitLabels, Fault
<1>9. CASE EvOta
  <2>1. faults' \in 0..MaxFaults
    BY <1>9 DEF EvOta, TypeSes
  <2>2. otaFile' \in BOOLEAN
    BY <1>9 DEF EvOta
  <2>3. UNCHANGED <<meta, applied, desired, radioQ, exitPc>>
    BY <1>9 DEF EvOta
  <2> QED  BY <2>1, <2>2, <2>3 DEF TypeSes
<1>10. CASE EvPublish
  <2>1. faults' \in 0..MaxFaults
    BY <1>10, RadioFacts DEF EvPublish, TypeSes
  <2>2. applied' \in -1..MaxWrites
    BY <1>10, RadioFacts DEF EvPublish, TypeSes
  <2>3. radioQ' \in BOOLEAN
    BY <1>10, RadioFacts DEF EvPublish, TypeSes
  <2>4. UNCHANGED <<meta, otaFile, desired, exitPc>>
    BY <1>10, RadioFacts DEF EvPublish
  <2> QED  BY <2>1, <2>2, <2>3, <2>4 DEF TypeSes
<1>11. CASE EvFailRemove
  BY <1>11, RadioFacts DEF EvFailRemove, TypeSes, ExitLabels
<1>12. CASE RadioStart
  BY <1>12 DEF RadioStart, TypeSes, ExitLabels
<1>13. CASE RadioCmd
  BY <1>13 DEF RadioCmd, TypeSes, ExitLabels, Fault
<1>14. CASE RadioUnpublish
  BY <1>14, RadioFacts DEF RadioUnpublish, TypeSes, ExitLabels
<1>15. CASE RadioEndpoints
  BY <1>15, RadioFacts DEF RadioEndpoints, TypeSes, ExitLabels, Fault,
     TypeCtl
<1>16. CASE RstHwReset
  BY <1>16 DEF RstHwReset, TypeSes, ExitLabels, Restarted, Fault
<1>17. CASE RstSoftReboot
  BY <1>17 DEF RstSoftReboot, TypeSes, ExitLabels, Fault
<1>18. CASE RstPath
  <2>1. faults' = faults \/ (faults < MaxFaults /\ faults' = faults + 1)
    BY <1>18 DEF RstPath
  <2>2. UNCHANGED <<meta, otaFile, applied, desired, radioQ, exitPc>>
    BY <1>18 DEF RstPath
  <2> QED  BY <2>1, <2>2 DEF TypeSes, ExitLabels
<1>19. CASE ExitBegin \/ ExitCancelRecovery \/ ExitCancelEvents \/
            ExitRemoving \/ ExitCancelReset \/ ExitRemoveCard \/
            ExitTransport \/ ExitFree
  BY <1>19, RadioFacts DEF ExitBegin, TypeSes, ExitLabels,
     ExitCancelRecovery, ExitCancelEvents, ExitRemoving, ExitCancelReset,
     ExitRemoveCard, ExitTransport, ExitFree
<1>20. CASE FwCrash
  BY <1>20 DEF FwCrash, TypeSes, ExitLabels, Restarted, Fault
<1>21. CASE FwHang
  BY <1>21 DEF FwHang, TypeSes, ExitLabels, Fault
<1>22. CASE FwLoseBoot
  BY <1>22 DEF FwLoseBoot, TypeSes, ExitLabels, Fault
<1>23. CASE UserSelect
  BY <1>23 DEF UserSelect, TypeSes, ExitLabels, SelectQueues
<1>24. CASE FwReboot
  BY <1>24 DEF FwReboot, TypeSes, ExitLabels, Restarted
<1>25. CASE RecStart \/ RecCheck \/ RecRecover \/ RecProbe \/ RecOpen \/
            RecLive \/ RecSettle0 \/ RecSettle1 \/ RecRearm \/ EvBoot \/
            EvSync \/ EvQuiesce \/ EvReinit \/ EvRecon \/ EvOtaFail \/
            EvInitDone \/ EvCancel \/ EvCommit \/ EvMismatch \/ EvFailPub \/
            EvFail \/ RadioGate \/ RadioFail \/ RadioLatest \/ RstKeepBoot \/
            RstFlag \/ RstClear \/ RstArm \/ FwBoot \/ RxBoot \/ RxDispatch
            \/ DeadlinePasses
  BY ZenonT(60), <1>25 DEF RecStart, RecCheck, RecRecover, RecProbe, RecOpen, RecLive,
     RecSettle0, RecSettle1, RecRearm, EvBoot, EvSync, EvQuiesce, EvReinit,
     EvRecon, EvOtaFail, EvInitDone, EvCancel, EvCommit, EvMismatch,
     EvFailPub, EvFail, RadioGate, RadioFail, RadioLatest, RstKeepBoot,
     RstFlag, RstClear, RstArm, FwBoot, RxBoot, RxDispatch, DeadlinePasses,
     TypeSes
<1> QED  BY <1>1, <1>2, <1>3, <1>4, <1>5, <1>6, <1>7, <1>8, <1>9, <1>10,
    <1>11, <1>12, <1>13, <1>14, <1>15, <1>16, <1>17, <1>18, <1>19, <1>20,
    <1>21, <1>22, <1>23, <1>24, <1>25 DEF Next, RecWork, EvWork, RadioWork,
    ResetWork, ExitWork, ReportWork, Environment, CallChain
\* A freshly probed binding is well typed.
LEMMA TypeInit == Init => TypeOK
<1> SUFFICES ASSUME Init PROVE TypeOK  OBVIOUS
<1>0. 0 \in 0..MaxAttempts /\ 0 \in 0..MaxWrites /\ 0 \in 0..MaxFaults
  OBVIOUS
<1>1. TypeRec  BY <1>0, Zenon DEF Init, TypeRec
<1>2. TypeCtl
  <2>1. pc \in [Threads -> Labels] /\ ret \in [Threads -> ReturnPoints]
    BY DEF Init, Labels, ReturnPoints
  <2> QED  BY <1>0, <2>1, Zenon DEF Init, TypeCtl
<1>3. TypeSpi  BY <1>0, Zenon DEF Init, TypeSpi
<1>4. TypeFw   BY QueueFacts DEF Init, TypeFw
<1>5. TypeSes
  <2>1. otaFile \in BOOLEAN /\ applied \in -1..MaxWrites
    BY RadioFacts DEF Init
  <2> QED  BY <1>0, <2>1, Zenon DEF Init, TypeSes, ExitLabels
<1> QED  BY <1>1, <1>2, <1>3, <1>4, <1>5 DEF TypeOK

\* No step leaves the types.
LEMMA TypeNext == TypeOK /\ [Next]_vars => TypeOK'
<1> SUFFICES ASSUME TypeOK, [Next]_vars PROVE TypeOK'  OBVIOUS
<1>1. CASE UNCHANGED vars
  BY <1>1 DEF TypeOK, TypeRec, TypeCtl, TypeSpi, TypeFw, TypeSes
<1>2. CASE Next
  BY <1>2, RecTypes, CtlTypes, SpiTypes, FwTypes, SesTypes DEF TypeOK
<1> QED  BY <1>1, <1>2

\* Every variable keeps its type, and the retry counters their caps: the
\* reset attempts of esp_request_firmware_restart and the soft reboots of
\* esp_spi_reset_target never pass MaxAttempts.
THEOREM TypeCorrect == Spec => []TypeOK
  BY TypeInit, TypeNext, PTL DEF Spec
-----------------------------------------------------------------------------
(* The reset budget *)

\* What all but four actions leave alone.
BudgetKept == /\ UNCHANGED <<attempts, deadline>>
              /\ "EXHAUSTED" \in flags' => "EXHAUSTED" \in flags

\* Only the request, the finish, the worker's check and the clock touch it.
LEMMA BudgetNext == TypeOK /\ BudgetInv /\ [Next]_vars => BudgetInv'
<1> SUFFICES ASSUME TypeOK, BudgetInv, [Next]_vars PROVE BudgetInv'
  OBVIOUS
<1>1. ASSUME BudgetKept PROVE BudgetInv'
  BY <1>1 DEF BudgetKept, BudgetInv
<1>2. CASE UNCHANGED vars
  BY <1>2 DEF BudgetInv
<1>3. ASSUME NEW t \in Threads, Request(t) PROVE BudgetInv'
  BY <1>3 DEF Request, BudgetInv, BudgetLeft, TypeOK, TypeRec
<1>4. ASSUME NEW t \in Threads, Finish(t) PROVE BudgetInv'
  BY <1>4 DEF Finish, BudgetInv, Healed
<1>5. CASE RecCheck
  BY <1>5 DEF RecCheck, BudgetInv
<1>6. CASE DeadlinePasses
  BY <1>6 DEF DeadlinePasses, BudgetInv
<1>7. ASSUME NEW t \in Threads,
             Retry(t) \/ Schedule(t) \/ Arm(t) \/ ResetTarget(t)
               \/ ResetQueue(t) \/ CommitCallback(t) \/ BusError(t)
               \/ StatefulError(t)
      PROVE  BudgetKept
  BY <1>7 DEF BudgetKept, Retry, Schedule, Arm, ResetTarget, ResetQueue,
     CommitCallback, BusError, StatefulError
<1>8. RecStart \/ RecRecover \/ RecProbe \/ RecOpen \/ RecLive \/ RecSettle0
       \/ RecSettle1 \/ RecRearm => BudgetKept
  BY DEF BudgetKept, RecStart, RecRecover, RecProbe, RecOpen, RecLive,
     RecSettle0, RecSettle1, RecRearm
<1>9. EvTake \/ EvBoot \/ EvSync \/ EvBegin \/ EvQuiesce \/ EvRemove \/
       EvParse \/ EvReinit \/ EvRecon \/ EvAddCard \/ EvOta \/ EvOtaFail \/
       EvInitDone \/ EvCancel \/ EvCommit \/ EvMismatch \/ EvPublish \/
       EvFailPub \/ EvFailRemove \/ EvFail => BudgetKept
  BY DEF BudgetKept, EvTake, EvBoot, EvSync, EvBegin, EvQuiesce, EvRemove,
     EvParse, EvReinit, EvRecon, EvAddCard, EvOta, EvOtaFail, EvInitDone,
     EvCancel, EvCommit, EvMismatch, EvPublish, EvFailPub, EvFailRemove,
     EvFail, CardOpened, Committed
<1>10. RadioStart \/ RadioGate \/ RadioCmd \/ RadioFail \/ RadioUnpublish \/
       RadioEndpoints \/ RadioLatest => BudgetKept
  BY DEF BudgetKept, RadioStart, RadioGate, RadioCmd, RadioFail,
     RadioUnpublish, RadioEndpoints, RadioLatest
<1>11. RstKeepBoot \/ RstHwReset \/ RstSoftReboot \/ RstFlag \/ RstClear \/
       RstPath \/ RstArm => BudgetKept
  BY DEF BudgetKept, RstKeepBoot, RstHwReset, RstSoftReboot, RstFlag,
     RstClear, RstPath, RstArm, Restarted
<1>12. ExitBegin \/ ExitCancelRecovery \/ ExitCancelEvents \/ ExitRemoving \/
       ExitCancelReset \/ ExitRemoveCard \/ ExitTransport \/ ExitFree =>
       BudgetKept
  BY DEF BudgetKept, ExitBegin, ExitCancelRecovery, ExitCancelEvents,
     ExitRemoving, ExitCancelReset, ExitRemoveCard, ExitTransport, ExitFree
<1>13. FwCrash \/ FwHang \/ FwLoseBoot \/ UserSelect \/ FwBoot \/ FwReboot \/
       RxBoot \/ RxDispatch => BudgetKept
  BY DEF BudgetKept, FwCrash, FwHang, FwLoseBoot, UserSelect, FwBoot,
     FwReboot, RxBoot, RxDispatch, Restarted
<1> QED  BY <1>1, <1>2, <1>3, <1>4, <1>5, <1>6, <1>7, <1>8, <1>9, <1>10,
    <1>11, <1>12, <1>13 DEF Next, RecWork, EvWork, RadioWork, ResetWork,
    ExitWork, ReportWork, Environment, CallChain

\* The reset budget holds in every configuration: esp_request_firmware_restart
\* never passes the cap, a running boot deadline is always paid for, and
\* EXHAUSTED is set only when the whole budget is spent.
THEOREM BudgetSafe == Spec => []BudgetInv
<1>1. Init => BudgetInv  BY DEF Init, BudgetInv
<1> QED  BY <1>1, BudgetNext, TypeCorrect, PTL DEF Spec

-----------------------------------------------------------------------------
(* Reset serialisation *)

\* Nothing ever clears ESP_DRIVER_UNLOADING once esp_exit has set it.
LEMMA MarkedNext == ExitMarked /\ [Next]_vars => ExitMarked'
<1> SUFFICES ASSUME ExitMarked, [Next]_vars PROVE ExitMarked'  OBVIOUS
<1> USE DEF ExitMarked
<1>1. CASE UNCHANGED vars
  BY <1>1
<1>2. ASSUME NEW t \in Threads,
             Retry(t) \/ Schedule(t) \/ Arm(t) \/ Request(t)
               \/ ResetTarget(t) \/ ResetQueue(t) \/ Finish(t)
               \/ CommitCallback(t) \/ BusError(t) \/ StatefulError(t)
      PROVE  ExitMarked'
  BY <1>2 DEF Retry, Schedule, Arm, Request, ResetTarget, ResetQueue, Finish,
     CommitCallback, BusError, StatefulError, Healed
<1>3. CASE RecStart \/ RecCheck \/ RecRecover \/ RecProbe \/ RecOpen \/
            RecLive \/ RecSettle0 \/ RecSettle1 \/ RecRearm
  BY <1>3 DEF RecStart, RecCheck, RecRecover, RecProbe, RecOpen, RecLive,
     RecSettle0, RecSettle1, RecRearm
<1>4. CASE EvTake \/ EvBoot \/ EvSync \/ EvBegin \/ EvQuiesce \/ EvRemove \/
            EvParse \/ EvReinit \/ EvRecon \/ EvAddCard \/ EvOta \/ EvOtaFail
            \/ EvInitDone \/ EvCancel \/ EvCommit \/ EvMismatch \/ EvPublish
            \/ EvFailPub \/ EvFailRemove \/ EvFail
  BY <1>4 DEF EvTake, EvBoot, EvSync, EvBegin, EvQuiesce, EvRemove, EvParse,
     EvReinit, EvRecon, EvAddCard, EvOta, EvOtaFail, EvInitDone, EvCancel,
     EvCommit, EvMismatch, EvPublish, EvFailPub, EvFailRemove, EvFail,
     CardOpened, Committed
<1>5. CASE RadioStart \/ RadioGate \/ RadioCmd \/ RadioFail \/ RadioUnpublish
            \/ RadioEndpoints \/ RadioLatest
  BY <1>5 DEF RadioStart, RadioGate, RadioCmd, RadioFail, RadioUnpublish,
     RadioEndpoints, RadioLatest
<1>6. CASE RstKeepBoot \/ RstHwReset \/ RstSoftReboot \/ RstFlag \/ RstClear
            \/ RstPath \/ RstArm
  BY <1>6 DEF RstKeepBoot, RstHwReset, RstSoftReboot, RstFlag, RstClear,
     RstPath, RstArm, Restarted
<1>7. CASE ExitBegin \/ ExitCancelRecovery \/ ExitCancelEvents \/
            ExitRemoving \/ ExitCancelReset \/ ExitRemoveCard \/
            ExitTransport \/ ExitFree
  BY <1>7 DEF ExitBegin, ExitCancelRecovery, ExitCancelEvents, ExitRemoving,
     ExitCancelReset, ExitRemoveCard, ExitTransport, ExitFree
<1>8. CASE FwCrash \/ FwHang \/ FwLoseBoot \/ UserSelect \/ FwBoot \/
            FwReboot \/ RxBoot \/ RxDispatch \/ DeadlinePasses
  BY <1>8 DEF FwCrash, FwHang, FwLoseBoot, UserSelect, FwBoot, FwReboot,
     RxBoot, RxDispatch, DeadlinePasses, Restarted
<1> QED  BY <1>1, <1>2, <1>3, <1>4, <1>5, <1>6, <1>7, <1>8 DEF Next, RecWork,
    EvWork, RadioWork, ResetWork, ExitWork, ReportWork, Environment,
    CallChain
\* What every action outside reset_target, reset_work and removal keeps.
ResetKept == /\ UNCHANGED <<rstQ, rst, resetting>>
             /\ exitPc \in PastReset => exitPc' \in PastReset
             /\ \A t \in Threads : pc'[t] = "queue" => pc[t] = "queue"

\* The holder of ESP_SPI_RESETTING is unique at every step.
LEMMA ResetNext == TypeOK /\ ResetInv /\ [Next]_vars => ResetInv'
<1> SUFFICES ASSUME TypeOK, ResetInv, [Next]_vars PROVE ResetInv'
  OBVIOUS
<1> USE DEF TypeOK, ResetInv, ResetSerialised, PastReset
<1>1. ExitMarked'
  BY MarkedNext
<1>2. ASSUME ResetKept PROVE ResetInv'
  BY <1>1, <1>2 DEF ResetKept
<1>3. CASE UNCHANGED vars
  BY <1>3, <1>2 DEF ResetKept
<1>4. ASSUME NEW t \in Threads, ResetTarget(t) PROVE ResetInv'
  <2>1. CASE pc'[t] = "queue"
    <3>1. ~Stopping /\ ~resetting /\ resetting'
      BY <1>4, <2>1 DEF ResetTarget, ResetRefused, TypeCtl, ReturnPoints
    <3>2. exitPc \notin PastReset
      BY <3>1 DEF ExitMarked, Stopping
    <3>3. ~rstQ /\ rst \notin {"flag", "clear"}
          /\ \A u \in Threads : pc[u] # "queue"
      BY <3>1, <3>2
    <3>4. UNCHANGED <<rstQ, rst, exitPc>>
          /\ \A u \in Threads \ {t} : pc'[u] = pc[u]
      BY <1>4 DEF ResetTarget, TypeCtl
    <3> QED  BY <1>1, <3>1, <3>3, <3>4
  <2>2. CASE pc'[t] # "queue"
    <3>1. ResetKept
      BY <1>4, <2>2 DEF ResetTarget, ResetKept, TypeCtl
    <3> QED  BY <3>1, <1>2
  <2> QED  BY <2>1, <2>2
<1>5. ASSUME NEW t \in Threads, ResetQueue(t) PROVE ResetInv'
  <2>1. pc[t] = "queue" /\ rstQ' /\ UNCHANGED <<rst, resetting, exitPc>>
    BY <1>5 DEF ResetQueue
  <2>2. \A u \in Threads : pc'[u] # "queue"
    BY <1>5, <2>1 DEF ResetQueue, TypeCtl, ReturnPoints
  <2> QED  BY <1>1, <2>1, <2>2
<1>6. ASSUME NEW t \in Threads,
             Retry(t) \/ Schedule(t) \/ Arm(t) \/ Request(t) \/ Finish(t)
               \/ CommitCallback(t) \/ BusError(t) \/ StatefulError(t)
      PROVE  ResetKept
  <2>1. UNCHANGED <<rstQ, rst, resetting, exitPc>>
    BY <1>6 DEF Retry, Schedule, Arm, Request, Finish, CommitCallback,
       BusError, StatefulError
  <2>2. \A u \in Threads : pc'[u] = "queue" => pc[u] = "queue"
    BY <1>6 DEF Retry, Schedule, Arm, Request, Finish, CommitCallback,
       BusError, StatefulError, TypeCtl, ReturnPoints
  <2> QED  BY <2>1, <2>2 DEF ResetKept
<1>7. CASE RstKeepBoot \/ RstHwReset \/ RstSoftReboot
  BY <1>1, <1>7 DEF RstKeepBoot, RstHwReset, RstSoftReboot
<1>8. CASE RstFlag \/ RstClear \/ RstPath \/ RstArm
  <2>1. CASE RstFlag  BY <1>1, <2>1 DEF RstFlag
  <2>2. CASE RstClear
    <3>1. ~rstQ /\ \A t \in Threads : pc[t] # "queue"
      BY <2>2 DEF RstClear
    <3> QED  BY <1>1, <2>2, <3>1 DEF RstClear
  <2>3. CASE RstPath  BY <1>1, <2>3 DEF RstPath
  <2>4. CASE RstArm   BY <1>1, <2>4 DEF RstArm
  <2> QED  BY <1>8, <2>1, <2>2, <2>3, <2>4
<1>9. CASE ExitCancelReset \/ ExitTransport
  BY <1>1, <1>9 DEF ExitCancelReset, ExitTransport
<1>10. CASE RecStart \/ RecCheck \/ RecRecover \/ RecProbe \/ RecOpen \/
            RecLive \/ RecSettle0 \/ RecSettle1 \/ RecRearm
  <2>1. ResetKept
    BY <1>10 DEF ResetKept, TypeCtl, RecStart, RecCheck, RecRecover,
       RecProbe, RecOpen, RecLive, RecSettle0, RecSettle1, RecRearm,
       RecDecision
  <2> QED  BY <2>1, <1>2
<1>11. CASE EvTake \/ EvBoot \/ EvSync \/ EvBegin \/ EvQuiesce \/ EvRemove \/
            EvParse \/ EvReinit \/ EvRecon \/ EvAddCard \/ EvOta \/ EvOtaFail
            \/ EvInitDone \/ EvCancel \/ EvCommit \/ EvMismatch \/ EvPublish
            \/ EvFailPub \/ EvFailRemove \/ EvFail
  <2>1. ResetKept
    BY <1>11 DEF ResetKept, TypeCtl, EvTake, EvBoot, EvSync, EvBegin,
       EvQuiesce, EvRemove, EvParse, EvReinit, EvRecon, EvAddCard, EvOta,
       EvOtaFail, EvInitDone, EvCancel, EvCommit, EvMismatch, EvPublish,
       EvFailPub, EvFailRemove, EvFail
  <2> QED  BY <2>1, <1>2
<1>12. CASE RadioStart \/ RadioGate \/ RadioCmd \/ RadioFail \/
            RadioUnpublish \/ RadioEndpoints \/ RadioLatest
  <2>1. ResetKept
    BY <1>12 DEF ResetKept, TypeCtl, RadioStart, RadioGate, RadioCmd,
       RadioFail, RadioUnpublish, RadioEndpoints, RadioLatest
  <2> QED  BY <2>1, <1>2
<1>13. CASE ExitBegin \/ ExitCancelRecovery \/ ExitCancelEvents \/
            ExitRemoving \/ ExitRemoveCard \/ ExitFree
  <2>1. ResetKept
    BY <1>13 DEF ResetKept, ExitBegin, ExitCancelRecovery, ExitCancelEvents,
       ExitRemoving, ExitRemoveCard, ExitFree
  <2> QED  BY <2>1, <1>2
<1>14. CASE FwCrash \/ FwHang \/ FwLoseBoot \/ UserSelect \/ FwBoot \/
            FwReboot \/ RxBoot \/ RxDispatch \/ DeadlinePasses
  <2>1. ResetKept
    BY <1>14 DEF ResetKept, FwCrash, FwHang, FwLoseBoot, UserSelect, FwBoot,
       FwReboot, RxBoot, RxDispatch, DeadlinePasses, Restarted
  <2> QED  BY <2>1, <1>2
<1> QED  BY <1>2, <1>3, <1>4, <1>5, <1>6, <1>7, <1>8, <1>9, <1>10, <1>11,
    <1>12, <1>13, <1>14 DEF Next, RecWork, EvWork, RadioWork, ResetWork,
    ExitWork, ReportWork, Environment, CallChain

\* ESP_SPI_RESETTING really serialises resets, with any number of failure
\* contexts and through module removal: queue_work in esp_spi_reset_target
\* never finds reset_work pending, so its -EBUSY rollback cannot be reached.
THEOREM ResetsSerialised == Spec => []ResetSerialised
<1>1. Init => ResetInv
  BY DEF Init, ResetInv, ResetSerialised, ExitMarked
<1>2. ResetInv => ResetSerialised
  BY DEF ResetInv
<1> QED  BY <1>1, <1>2, ResetNext, TypeCorrect, PTL DEF Spec
-----------------------------------------------------------------------------
(* An owed recovery always has somebody to perform it *)

\* While a live resync may still clear PENDING, the session it restores is
\* initialised or the event worker is rebuilding it.
LEMMA LiveResyncNext == TypeOK /\ RecoveryInv /\ [Next]_vars => LiveResyncBacked'
<1> SUFFICES ASSUME TypeOK, RecoveryInv, [Next]_vars PROVE LiveResyncBacked'
  OBVIOUS
<1> USE ErrsAssumption DEF TypeOK, TypeCtl, RecoveryInv, Stopping,
        LiveResyncBacked, EvRebuild
<1>1. CASE UNCHANGED vars
  BY <1>1
<1>2. ASSUME NEW t \in Threads, Retry(t) \/ Schedule(t) \/ Arm(t) \/
             Request(t) \/ ResetTarget(t) \/ ResetQueue(t) \/ Finish(t) \/
             CommitCallback(t)
     PROVE  LiveResyncBacked'
  BY ZenonT(60), <1>2 DEF Retry, Schedule, Arm, Request, ResetTarget, ResetQueue, Finish,
     CommitCallback, Healed, ReturnPoints, RecGenLive
<1>3. ASSUME NEW t \in Errs, BusError(t) \/ StatefulError(t)
     PROVE  LiveResyncBacked'
  BY <1>3 DEF BusError, StatefulError
<1>4. CASE RecStart \/ RecCheck \/ RecRecover \/ RecProbe \/ RecOpen \/
            RecLive \/ RecSettle0 \/ RecSettle1 \/ RecRearm
  BY <1>4 DEF RecStart, RecCheck, RecRecover, RecProbe, RecOpen, RecLive,
     RecSettle0, RecSettle1, RecRearm, RecDecision, BootAwaited, Settled
<1>5. CASE EvTake \/ EvBoot \/ EvSync \/ EvBegin \/ EvQuiesce \/ EvRemove \/
            EvParse \/ EvReinit \/ EvRecon \/ EvAddCard \/ EvOta \/ EvOtaFail
            \/ EvInitDone \/ EvCancel \/ EvCommit \/ EvMismatch \/ EvPublish
            \/ EvFailPub \/ EvFailRemove \/ EvFail
  BY <1>5 DEF EvTake, EvBoot, EvSync, EvBegin, EvQuiesce, EvRemove, EvParse,
     EvReinit, EvRecon, EvAddCard, EvOta, EvOtaFail, EvInitDone, EvCancel,
     EvCommit, EvMismatch, EvPublish, EvFailPub, EvFailRemove, EvFail,
     CardOpened, Committed
<1>6. CASE RadioStart \/ RadioGate \/ RadioCmd \/ RadioFail \/ RadioUnpublish
            \/ RadioEndpoints \/ RadioLatest
  BY <1>6 DEF RadioStart, RadioGate, RadioCmd, RadioFail, RadioUnpublish,
     RadioEndpoints, RadioLatest, Settled
<1>7. CASE RstKeepBoot \/ RstHwReset \/ RstSoftReboot \/ RstFlag \/ RstClear
            \/ RstPath \/ RstArm
  BY <1>7 DEF RstKeepBoot, RstHwReset, RstSoftReboot, RstFlag, RstClear,
     RstPath, RstArm, Restarted
<1>8. CASE ExitBegin \/ ExitCancelRecovery \/ ExitCancelEvents \/
            ExitRemoving \/ ExitCancelReset \/ ExitRemoveCard \/
            ExitTransport \/ ExitFree
  BY <1>8 DEF ExitMarked, ExitBegin, ExitCancelRecovery, ExitCancelEvents,
     ExitRemoving, ExitCancelReset, ExitRemoveCard, ExitTransport, ExitFree
<1>9. CASE FwCrash \/ FwHang \/ FwLoseBoot \/ UserSelect \/ FwBoot \/
            FwReboot \/ RxBoot \/ RxDispatch \/ DeadlinePasses
  BY <1>9 DEF FwCrash, FwHang, FwLoseBoot, UserSelect, FwBoot, FwReboot,
     RxBoot, RxDispatch, DeadlinePasses, Restarted
<1> QED  BY <1>1, <1>2, <1>3, <1>4, <1>5, <1>6, <1>7, <1>8, <1>9 DEF Next,
    RecWork, EvWork, RadioWork, ResetWork, ExitWork, ReportWork, Environment,
    CallChain

\* INIT_DONE survives from its publication to the commit.
LEMMA CommitInitNext == TypeOK /\ RecoveryInv /\ [Next]_vars => CommitInitialised'
<1> SUFFICES ASSUME TypeOK, RecoveryInv, [Next]_vars PROVE CommitInitialised'
  OBVIOUS
<1> USE ErrsAssumption DEF TypeOK, TypeCtl, RecoveryInv, Stopping,
        CommitInitialised
<1>1. CASE UNCHANGED vars
  BY <1>1
<1>2. ASSUME NEW t \in Threads, Retry(t) \/ Schedule(t) \/ Arm(t) \/
             Request(t) \/ ResetTarget(t) \/ ResetQueue(t) \/ Finish(t) \/
             CommitCallback(t)
     PROVE  CommitInitialised'
  BY <1>2 DEF Retry, Schedule, Arm, Request, ResetTarget, ResetQueue, Finish,
     CommitCallback, Healed, ReturnPoints, RecGenLive
<1>3. ASSUME NEW t \in Errs, BusError(t) \/ StatefulError(t)
     PROVE  CommitInitialised'
  BY <1>3 DEF BusError, StatefulError
<1>4. CASE RecStart \/ RecCheck \/ RecRecover \/ RecProbe \/ RecOpen \/
            RecLive \/ RecSettle0 \/ RecSettle1 \/ RecRearm
  BY <1>4 DEF RecStart, RecCheck, RecRecover, RecProbe, RecOpen, RecLive,
     RecSettle0, RecSettle1, RecRearm, RecDecision, BootAwaited, Settled
<1>5. CASE EvTake \/ EvBoot \/ EvSync \/ EvBegin \/ EvQuiesce \/ EvRemove \/
            EvParse \/ EvReinit \/ EvRecon \/ EvAddCard \/ EvOta \/ EvOtaFail
            \/ EvInitDone \/ EvCancel \/ EvCommit \/ EvMismatch \/ EvPublish
            \/ EvFailPub \/ EvFailRemove \/ EvFail
  BY <1>5 DEF EvTake, EvBoot, EvSync, EvBegin, EvQuiesce, EvRemove, EvParse,
     EvReinit, EvRecon, EvAddCard, EvOta, EvOtaFail, EvInitDone, EvCancel,
     EvCommit, EvMismatch, EvPublish, EvFailPub, EvFailRemove, EvFail,
     CardOpened, Committed
<1>6. CASE RadioStart \/ RadioGate \/ RadioCmd \/ RadioFail \/ RadioUnpublish
            \/ RadioEndpoints \/ RadioLatest
  BY <1>6 DEF RadioStart, RadioGate, RadioCmd, RadioFail, RadioUnpublish,
     RadioEndpoints, RadioLatest, Settled
<1>7. CASE RstKeepBoot \/ RstHwReset \/ RstSoftReboot \/ RstFlag \/ RstClear
            \/ RstPath \/ RstArm
  BY <1>7 DEF RstKeepBoot, RstHwReset, RstSoftReboot, RstFlag, RstClear,
     RstPath, RstArm, Restarted
<1>8. CASE ExitBegin \/ ExitCancelRecovery \/ ExitCancelEvents \/
            ExitRemoving \/ ExitCancelReset \/ ExitRemoveCard \/
            ExitTransport \/ ExitFree
  BY <1>8 DEF ExitMarked, ExitBegin, ExitCancelRecovery, ExitCancelEvents,
     ExitRemoving, ExitCancelReset, ExitRemoveCard, ExitTransport, ExitFree
<1>9. CASE FwCrash \/ FwHang \/ FwLoseBoot \/ UserSelect \/ FwBoot \/
            FwReboot \/ RxBoot \/ RxDispatch \/ DeadlinePasses
  BY <1>9 DEF FwCrash, FwHang, FwLoseBoot, UserSelect, FwBoot, FwReboot,
     RxBoot, RxDispatch, DeadlinePasses, Restarted
<1> QED  BY <1>1, <1>2, <1>3, <1>4, <1>5, <1>6, <1>7, <1>8, <1>9 DEF Next,
    RecWork, EvWork, RadioWork, ResetWork, ExitWork, ReportWork, Environment,
    CallChain

\* Whoever consumes or cancels the watchdog arms it again or settles.
LEMMA OwedNext == TypeOK /\ RecoveryInv /\ [Next]_vars => OwedIsBacked'
<1> SUFFICES ASSUME TypeOK, RecoveryInv, [Next]_vars PROVE OwedIsBacked'
  OBVIOUS
<1> USE ErrsAssumption DEF TypeOK, TypeCtl, RecoveryInv, Stopping,
        OwedIsBacked, Owed, Settled, Arming, RecArms, EvArms, EvRebuild,
        RecGenLive
<1>1. CASE UNCHANGED vars
  BY <1>1
<1>2. ASSUME NEW t \in Threads, Retry(t) PROVE OwedIsBacked'
  BY <1>2 DEF Retry, ReturnPoints
<1>3. ASSUME NEW t \in Threads, Schedule(t) PROVE OwedIsBacked'
  BY <1>3 DEF Schedule, ReturnPoints, RecGenLive
<1>4. ASSUME NEW t \in Threads, Arm(t) PROVE OwedIsBacked'
  BY <1>4 DEF Arm, ReturnPoints
<1>5. ASSUME NEW t \in Threads, Request(t) PROVE OwedIsBacked'
  BY <1>5 DEF Request, ReturnPoints
<1>6. ASSUME NEW t \in Threads, ResetTarget(t) PROVE OwedIsBacked'
  BY <1>6 DEF ResetTarget, ReturnPoints
<1>7. ASSUME NEW t \in Threads, ResetQueue(t) PROVE OwedIsBacked'
  BY <1>7 DEF ResetQueue, ReturnPoints
<1>8. ASSUME NEW t \in Threads, Finish(t) PROVE OwedIsBacked'
  BY <1>8 DEF Finish, ReturnPoints, Healed
<1>9. ASSUME NEW t \in Threads, CommitCallback(t) PROVE OwedIsBacked'
  BY <1>9 DEF CommitCallback, ReturnPoints
<1>10. ASSUME NEW t \in Errs, BusError(t) PROVE OwedIsBacked'
  BY <1>10 DEF BusError, ReturnPoints
<1>11. ASSUME NEW t \in Errs, StatefulError(t) PROVE OwedIsBacked'
  BY <1>11 DEF StatefulError, ReturnPoints
<1>12. CASE RecStart
  BY <1>12 DEF RecStart
<1>13. CASE RecCheck
  BY <1>13 DEF RecCheck, RecDecision, Settled
<1>14. CASE RecRecover
  BY <1>14 DEF RecRecover
<1>15. CASE RecProbe
  BY <1>15 DEF RecProbe, Settled
<1>16. CASE RecOpen
  BY <1>16 DEF RecOpen
<1>17. CASE RecLive
  BY <1>17 DEF RecLive
<1>18. CASE RecSettle0
  BY <1>18 DEF RecSettle0, BootAwaited
<1>19. CASE RecSettle1
  <2>1. CASE recStale \/ "RESET_EXPECTED" \in flags
    BY <1>19, <2>1 DEF RecSettle1
  <2>2. CASE ~recStale /\ "RESET_EXPECTED" \notin flags
    <3>1. flags' = flags \ {"PENDING"} /\ UNCHANGED <<timer, pc["ev"]>>
      BY <1>19, <2>2 DEF RecSettle1
    <3>2. Stopping \/ "INIT_DONE" \in flags
          \/ pc["ev"] \in EvRebuild \cup {"schedF", "schedR"}
      BY <1>19, <2>2 DEF RecSettle1, LiveResyncBacked
    <3>3. CASE Stopping \/ "INIT_DONE" \in flags
      BY <2>2, <3>1, <3>3
    <3>4. CASE pc["ev"] \in EvRebuild \cup {"schedF", "schedR"}
      BY <3>1, <3>4
    <3> QED  BY <3>2, <3>3, <3>4
  <2> QED  BY <2>1, <2>2
<1>20. CASE RecRearm
  BY <1>20 DEF RecRearm
<1>21. CASE EvTake
  BY <1>21 DEF EvTake
<1>22. CASE EvBoot
  BY <1>22 DEF EvBoot
<1>23. CASE EvSync
  BY <1>23 DEF EvSync
<1>24. CASE EvBegin
  BY <1>24 DEF EvBegin
<1>25. CASE EvQuiesce
  BY <1>25 DEF EvQuiesce
<1>26. CASE EvRemove
  BY <1>26 DEF EvRemove
<1>27. CASE EvParse
  BY <1>27 DEF EvParse
<1>28. CASE EvReinit
  BY <1>28 DEF EvReinit
<1>29. CASE EvRecon
  BY <1>29 DEF EvRecon
<1>30. CASE EvAddCard
  BY <1>30 DEF EvAddCard, CardOpened
<1>31. CASE EvOta
  BY <1>31 DEF EvOta
<1>32. CASE EvOtaFail
  BY <1>32 DEF EvOtaFail
<1>33. CASE EvInitDone
  BY <1>33 DEF EvInitDone
<1>34. CASE EvCancel
  BY <1>34 DEF EvCancel
<1>35. CASE EvCommit
  <2>1. CASE reconStale  BY <1>35, <2>1 DEF EvCommit
  <2>2. CASE ~reconStale
    <3>1. ~Owed'  BY <1>35, <2>2 DEF EvCommit, Committed, CommitInitialised
    <3> QED  BY <3>1
  <2> QED  BY <2>1, <2>2
<1>36. CASE EvMismatch
  BY <1>36 DEF EvMismatch
<1>37. CASE EvPublish
  BY <1>37 DEF EvPublish
<1>38. CASE EvFailPub
  BY <1>38 DEF EvFailPub
<1>39. CASE EvFailRemove
  BY <1>39 DEF EvFailRemove
<1>40. CASE EvFail
  BY <1>40 DEF EvFail
<1>41. CASE RadioStart \/ RadioGate \/ RadioCmd \/ RadioFail \/
            RadioUnpublish \/ RadioEndpoints \/ RadioLatest
  BY <1>41 DEF RadioStart, RadioGate, RadioCmd, RadioFail, RadioUnpublish,
     RadioEndpoints, RadioLatest, Settled
<1>42. CASE RstKeepBoot
  BY <1>42 DEF RstKeepBoot
<1>43. CASE RstHwReset
  BY <1>43 DEF RstHwReset, Restarted
<1>44. CASE RstSoftReboot
  BY <1>44 DEF RstSoftReboot
<1>45. CASE RstFlag
  BY <1>45 DEF RstFlag
<1>46. CASE RstClear
  BY <1>46 DEF RstClear
<1>47. CASE RstPath
  <2>1. UNCHANGED <<timer, pc, ret, recStale>>
    BY <1>47 DEF RstPath
  <2>2. flags' = flags \/ flags' = flags \cup {"RESTART_NEEDED"}
    BY <1>47 DEF RstPath
  <2> QED  BY <2>1, <2>2
<1>48. CASE RstArm
  BY <1>48 DEF RstArm
<1>49. CASE ExitBegin \/ ExitCancelRecovery \/ ExitCancelEvents \/
            ExitRemoving \/ ExitCancelReset \/ ExitRemoveCard \/
            ExitTransport \/ ExitFree
  BY <1>49 DEF ExitMarked, ExitBegin, ExitCancelRecovery, ExitCancelEvents,
     ExitRemoving, ExitCancelReset, ExitRemoveCard, ExitTransport, ExitFree
<1>50. CASE FwCrash \/ FwHang \/ FwLoseBoot \/ UserSelect \/ FwBoot \/
            FwReboot \/ RxBoot \/ RxDispatch \/ DeadlinePasses
  BY ZenonT(60), <1>50 DEF FwCrash, FwHang, FwLoseBoot, UserSelect, FwBoot, FwReboot,
     RxBoot, RxDispatch, DeadlinePasses, Restarted
<1> QED  BY <1>1, <1>2, <1>3, <1>4, <1>5, <1>6, <1>7, <1>8, <1>9, <1>10,
    <1>11, <1>12, <1>13, <1>14, <1>15, <1>16, <1>17, <1>18, <1>19, <1>20,
    <1>21, <1>22, <1>23, <1>24, <1>25, <1>26, <1>27, <1>28, <1>29, <1>30,
    <1>31, <1>32, <1>33, <1>34, <1>35, <1>36, <1>37, <1>38, <1>39, <1>40,
    <1>41, <1>42, <1>43, <1>44, <1>45, <1>46, <1>47, <1>48, <1>49, <1>50 DEF
    Next, RecWork, EvWork, RadioWork, ResetWork, ExitWork, ReportWork,
    Environment, CallChain

\* Whatever the failures and their order, an owed recovery has the watchdog or
\* a context bound to arm it, and esp_commit_reconstruction really settles.
THEOREM RecoveryBacked == Spec => []RecoveryInv
<1>1. Init => RecoveryInv
  BY DEF Init, RecoveryInv, OwedIsBacked, LiveResyncBacked,
     CommitInitialised, ExitMarked
<1>2. TypeOK /\ RecoveryInv /\ [Next]_vars => RecoveryInv'
  BY OwedNext, LiveResyncNext, CommitInitNext, MarkedNext DEF RecoveryInv
<1> QED  BY <1>1, <1>2, TypeCorrect, PTL DEF Spec

\* A recovery that is owed is never forgotten, with any number of failure
\* contexts and any sequence of faults: when no context is inside the
\* recovery code, fw_recovery_work is pending.
THEOREM RecoveryNeverForgotten == Spec => []WatchdogArmed
<1>1. RecoveryInv => WatchdogArmed
  <2> SUFFICES ASSUME RecoveryInv, Owed, Quiet PROVE timer
    BY DEF WatchdogArmed
  <2>1. pc["rec"] = "idle" /\ pc["ev"] = "idle"
    BY DEF Quiet
  <2>2. ~RecArms  BY <2>1 DEF RecArms, RecGenLive
  <2>3. ~EvArms   BY <2>1 DEF EvArms, EvRebuild
  <2>4. ~Arming   BY DEF Arming, Quiet
  <2> QED  BY <2>2, <2>3, <2>4 DEF RecoveryInv, OwedIsBacked
<1> QED  BY <1>1, RecoveryBacked, PTL

-----------------------------------------------------------------------------
(* A committed session *)

\* A restart that is wanted or in flight keeps RESET_EXPECTED until a commit.
LEMMA IntentNext == TypeOK /\ IntentInv /\ [Next]_vars => IntentInv'
<1> SUFFICES ASSUME TypeOK, IntentInv, [Next]_vars PROVE IntentInv'
  OBVIOUS
<1> USE ErrsAssumption DEF TypeOK, TypeCtl, IntentInv, Stopping, RestartInFlight,
        ResetUnderWay
<1>1. CASE UNCHANGED vars
  BY <1>1
<1>2. ASSUME NEW t \in Threads, Retry(t) PROVE IntentInv'
  BY <1>2 DEF Retry, ReturnPoints
<1>3. ASSUME NEW t \in Threads, Schedule(t) PROVE IntentInv'
  <2>1. CASE Stopping   BY <1>3, <2>1 DEF Schedule, ReturnPoints
  <2>2. CASE ~Stopping /\ pc[t] = "schedT"
    BY <1>3, <2>2 DEF Schedule
  <2>3. CASE ~Stopping /\ pc[t] # "schedT"
    BY <1>3, <2>3 DEF Schedule
  <2> QED  BY <2>1, <2>2, <2>3
<1>4. ASSUME NEW t \in Threads, Arm(t) PROVE IntentInv'
  BY <1>4 DEF Arm, ReturnPoints
<1>5. ASSUME NEW t \in Threads, Request(t) PROVE IntentInv'
  BY <1>5 DEF Request, ReturnPoints
<1>6. ASSUME NEW t \in Threads, ResetTarget(t) PROVE IntentInv'
  BY <1>6 DEF ResetTarget, ReturnPoints
<1>7. ASSUME NEW t \in Threads, ResetQueue(t) PROVE IntentInv'
  BY <1>7 DEF ResetQueue, ReturnPoints
<1>8. ASSUME NEW t \in Threads, Finish(t) PROVE IntentInv'
  BY <1>8 DEF Finish, Healed
<1>9. ASSUME NEW t \in Threads, CommitCallback(t) PROVE IntentInv'
  BY <1>9 DEF CommitCallback
<1>10. ASSUME NEW t \in Errs, BusError(t) \/ StatefulError(t)
      PROVE  IntentInv'
  BY <1>10 DEF BusError, StatefulError
<1>11. CASE RecStart \/ RecCheck \/ RecRecover \/ RecProbe \/ RecOpen \/
            RecLive \/ RecSettle0 \/ RecSettle1 \/ RecRearm
  BY <1>11 DEF RecStart, RecCheck, RecRecover, RecProbe, RecOpen, RecLive,
     RecSettle0, RecSettle1, RecRearm, RecDecision
<1>12. CASE EvTake \/ EvBoot \/ EvSync \/ EvBegin \/ EvQuiesce \/ EvRemove \/
            EvParse \/ EvReinit \/ EvRecon \/ EvAddCard
  BY <1>12 DEF EvTake, EvBoot, EvSync, EvBegin, EvQuiesce, EvRemove, EvParse,
     EvReinit, EvRecon, EvAddCard, CardOpened
<1>13. CASE EvOta \/ EvOtaFail \/ EvInitDone \/ EvCancel \/ EvMismatch \/ EvPublish \/ EvFailPub \/ EvFailRemove \/ EvFail
  BY <1>13 DEF EvOta, EvOtaFail, EvInitDone, EvCancel, EvMismatch, EvPublish,
     EvFailPub, EvFailRemove, EvFail
<1>14. CASE RadioStart \/ RadioGate \/ RadioCmd \/ RadioFail \/
            RadioUnpublish \/ RadioEndpoints \/ RadioLatest
  BY <1>14 DEF RadioStart, RadioGate, RadioCmd, RadioFail, RadioUnpublish,
     RadioEndpoints, RadioLatest
<1>15. CASE RstKeepBoot \/ RstHwReset \/ RstSoftReboot \/ RstFlag \/ RstClear
            \/ RstPath \/ RstArm
  <2>1. /\ UNCHANGED <<overtaken, pc, ret>>
        /\ \/ flags' = flags
           \/ flags' = flags \cup {"RESTART_NEEDED"}
           \/ flags' = flags \ {"RESTART_NEEDED"}
    BY <1>15 DEF RstKeepBoot, RstHwReset, RstSoftReboot, RstFlag, RstClear,
       RstPath, RstArm
  <2>2. \/ ResetUnderWay
        \/ /\ ~ResetUnderWay'
           /\ "RESTART_NEEDED" \in flags' => "RESTART_NEEDED" \in flags
    BY <1>15 DEF RstKeepBoot, RstHwReset, RstSoftReboot, RstFlag, RstClear,
       RstPath, RstArm
  <2>3. CASE ResetUnderWay   BY <2>1, <2>3
  <2>4. CASE ~ResetUnderWay  BY <2>1, <2>2, <2>4
  <2> QED  BY <2>3, <2>4
<1>16. CASE ExitBegin \/ ExitCancelRecovery \/ ExitCancelEvents \/
            ExitRemoving \/ ExitCancelReset \/ ExitRemoveCard \/
            ExitTransport \/ ExitFree
  BY <1>16 DEF ExitBegin, ExitCancelRecovery, ExitCancelEvents, ExitRemoving,
     ExitCancelReset, ExitRemoveCard, ExitTransport, ExitFree
<1>17. CASE FwCrash \/ FwHang \/ FwLoseBoot \/ UserSelect \/ FwBoot \/
            FwReboot \/ RxBoot \/ RxDispatch \/ DeadlinePasses
  <2>1. UNCHANGED <<flags, overtaken, pc, ret, rstQ, rst, rstRet>>
    BY <1>17 DEF FwCrash, FwHang, FwLoseBoot, UserSelect, FwBoot, FwReboot,
       RxBoot, RxDispatch, DeadlinePasses, Restarted
  <2> QED  BY <2>1
<1>18. CASE EvCommit
  <2>1. CASE reconStale   BY <1>18, <2>1 DEF EvCommit
  <2>2. CASE ~reconStale
    <3>1. overtaken' = (~Stopping /\ (overtaken \/ RestartInFlight))
          /\ flags' = Committed(flags)
      BY <1>18, <2>2 DEF EvCommit
    <3>2. CASE RestartInFlight
      BY <1>18, <3>1, <3>2 DEF EvCommit, Committed
    <3>3. CASE ~RestartInFlight
      BY <1>18, <2>2, <3>1, <3>3 DEF EvCommit, Committed
    <3> QED  BY <3>2, <3>3
  <2> QED  BY <2>1, <2>2
<1> QED  BY <1>1, <1>2, <1>3, <1>4, <1>5, <1>6, <1>7, <1>8, <1>9, <1>10,
    <1>11, <1>12, <1>13, <1>14, <1>15, <1>16, <1>17, <1>18 DEF Next, RecWork,
    EvWork, RadioWork, ResetWork, ExitWork, ReportWork, Environment,
    CallChain

\* The gates CLEANUP and RECONSTRUCT are the event worker's alone.
LEMMA UsableNext == TypeOK /\ UsableInv /\ ExitInv /\ [Next]_vars => UsableInv'
<1> SUFFICES ASSUME TypeOK, UsableInv, ExitInv, [Next]_vars PROVE UsableInv'
  OBVIOUS
<1> USE ErrsAssumption DEF TypeOK, TypeCtl, UsableInv, ExitInv, Reopened, Stopping
<1>1. CASE UNCHANGED vars
  BY <1>1
<1>2. ASSUME NEW t \in Threads, Retry(t) PROVE UsableInv'
  BY <1>2 DEF Retry, ReturnPoints
<1>3. ASSUME NEW t \in Threads, Schedule(t) PROVE UsableInv'
  BY <1>3 DEF Schedule, ReturnPoints
<1>4. ASSUME NEW t \in Threads, Arm(t) PROVE UsableInv'
  BY <1>4 DEF Arm, ReturnPoints
<1>5. ASSUME NEW t \in Threads, Request(t) PROVE UsableInv'
  BY <1>5 DEF Request, ReturnPoints
<1>6. ASSUME NEW t \in Threads, ResetTarget(t) PROVE UsableInv'
  BY <1>6 DEF ResetTarget, ReturnPoints
<1>7. ASSUME NEW t \in Threads, ResetQueue(t) PROVE UsableInv'
  BY <1>7 DEF ResetQueue, ReturnPoints
<1>8. ASSUME NEW t \in Threads, Finish(t) PROVE UsableInv'
  BY <1>8 DEF Finish, Healed
<1>9. ASSUME NEW t \in Threads, CommitCallback(t) PROVE UsableInv'
  BY <1>9 DEF CommitCallback
<1>10. ASSUME NEW t \in Errs, BusError(t) \/ StatefulError(t)
      PROVE  UsableInv'
  BY <1>10 DEF BusError, StatefulError
<1>11. CASE RecStart \/ RecCheck \/ RecRecover \/ RecProbe \/ RecOpen \/
            RecLive \/ RecSettle0 \/ RecSettle1 \/ RecRearm
  BY <1>11 DEF RecStart, RecCheck, RecRecover, RecProbe, RecOpen, RecLive,
     RecSettle0, RecSettle1, RecRearm, RecDecision
<1>12. CASE EvTake \/ EvBoot \/ EvSync \/ EvBegin \/ EvQuiesce \/ EvRemove \/
            EvParse \/ EvReinit \/ EvRecon \/ EvAddCard
  BY <1>12 DEF EvTake, EvBoot, EvSync, EvBegin, EvQuiesce, EvRemove, EvParse,
     EvReinit, EvRecon, EvAddCard, CardOpened
<1>13. CASE EvOta \/ EvOtaFail \/ EvInitDone \/ EvCancel \/ EvCommit \/
            EvMismatch \/ EvPublish \/ EvFailPub \/ EvFailRemove \/ EvFail
  BY <1>13 DEF EvOta, EvOtaFail, EvInitDone, EvCancel, EvCommit, EvMismatch,
     EvPublish, EvFailPub, EvFailRemove, EvFail, Committed
<1>14. CASE RadioStart \/ RadioGate \/ RadioCmd \/ RadioFail \/
            RadioUnpublish \/ RadioEndpoints \/ RadioLatest
  BY <1>14 DEF RadioStart, RadioGate, RadioCmd, RadioFail, RadioUnpublish,
     RadioEndpoints, RadioLatest
<1>15. CASE RstKeepBoot \/ RstHwReset \/ RstSoftReboot \/ RstFlag \/ RstClear
            \/ RstPath \/ RstArm
  BY <1>15 DEF RstKeepBoot, RstHwReset, RstSoftReboot, RstFlag, RstClear,
     RstPath, RstArm, Restarted
<1>16. CASE ExitBegin \/ ExitCancelRecovery \/ ExitCancelEvents \/
            ExitRemoving \/ ExitCancelReset \/ ExitRemoveCard \/
            ExitTransport \/ ExitFree
  BY <1>16 DEF ExitBegin, ExitCancelRecovery, ExitCancelEvents, ExitRemoving,
     ExitCancelReset, ExitRemoveCard, ExitTransport, ExitFree
<1>17. CASE FwCrash \/ FwHang \/ FwLoseBoot \/ UserSelect \/ FwBoot \/
            FwReboot \/ RxBoot \/ RxDispatch \/ DeadlinePasses
  BY <1>17 DEF FwCrash, FwHang, FwLoseBoot, UserSelect, FwBoot, FwReboot,
     RxBoot, RxDispatch, DeadlinePasses, Restarted
<1> QED  BY <1>1, <1>2, <1>3, <1>4, <1>5, <1>6, <1>7, <1>8, <1>9, <1>10,
    <1>11, <1>12, <1>13, <1>14, <1>15, <1>16, <1>17 DEF Next, RecWork,
    EvWork, RadioWork, ResetWork, ExitWork, ReportWork, Environment,
    CallChain

\* Without a charged attempt nobody can have used a soft reboot.
LEMMA SoftNext == TypeOK /\ IntentInv /\ SoftInv /\ [Next]_vars => SoftInv'
<1> SUFFICES ASSUME TypeOK, IntentInv, SoftInv, [Next]_vars PROVE SoftInv'
  OBVIOUS
<1> USE ErrsAssumption DEF TypeOK, TypeCtl, TypeRec, IntentInv, SoftInv, Stopping,
        RestartInFlight, ResetUnderWay, SoftNow, Settled
<1>1. CASE UNCHANGED vars
  BY <1>1
<1>2. ASSUME NEW t \in Threads, Retry(t) PROVE SoftInv'
  BY <1>2 DEF Retry, ReturnPoints
<1>3. ASSUME NEW t \in Threads, Schedule(t) PROVE SoftInv'
  BY <1>3 DEF Schedule, ReturnPoints
<1>4. ASSUME NEW t \in Threads, Arm(t) PROVE SoftInv'
  BY <1>4 DEF Arm, ReturnPoints
<1>5. ASSUME NEW t \in Threads, Request(t) PROVE SoftInv'
  BY <1>5 DEF Request, ReturnPoints
<1>6. ASSUME NEW t \in Threads, ResetTarget(t) PROVE SoftInv'
  BY <1>6 DEF ResetTarget, ReturnPoints
<1>7. ASSUME NEW t \in Threads, ResetQueue(t) PROVE SoftInv'
  BY <1>7 DEF ResetQueue, ReturnPoints
<1>8. ASSUME NEW t \in Threads, Finish(t) PROVE SoftInv'
  BY <1>8 DEF Finish, Healed
<1>9. ASSUME NEW t \in Threads, CommitCallback(t) PROVE SoftInv'
  BY <1>9 DEF CommitCallback
<1>10. ASSUME NEW t \in Errs, BusError(t) \/ StatefulError(t)
      PROVE  SoftInv'
  BY <1>10 DEF BusError, StatefulError
<1>11. CASE RecStart \/ RecCheck \/ RecRecover \/ RecProbe \/ RecOpen \/
            RecLive \/ RecSettle0 \/ RecSettle1 \/ RecRearm
  BY <1>11 DEF RecStart, RecCheck, RecRecover, RecProbe, RecOpen, RecLive,
     RecSettle0, RecSettle1, RecRearm, RecDecision
<1>12. CASE EvTake \/ EvBoot \/ EvSync \/ EvBegin \/ EvQuiesce \/ EvRemove \/
            EvParse \/ EvReinit \/ EvRecon \/ EvAddCard
  BY <1>12 DEF EvTake, EvBoot, EvSync, EvBegin, EvQuiesce, EvRemove, EvParse,
     EvReinit, EvRecon, EvAddCard, CardOpened
<1>13. CASE EvOta \/ EvOtaFail \/ EvInitDone \/ EvCancel \/ EvCommit \/
            EvMismatch \/ EvPublish \/ EvFailPub \/ EvFailRemove \/ EvFail
  BY <1>13 DEF EvOta, EvOtaFail, EvInitDone, EvCancel, EvCommit, EvMismatch,
     EvPublish, EvFailPub, EvFailRemove, EvFail, Committed
<1>14. CASE RadioStart \/ RadioGate \/ RadioCmd \/ RadioFail \/
            RadioUnpublish \/ RadioEndpoints \/ RadioLatest
  BY <1>14 DEF RadioStart, RadioGate, RadioCmd, RadioFail, RadioUnpublish,
     RadioEndpoints, RadioLatest
<1>15. CASE RstKeepBoot \/ RstHwReset \/ RstSoftReboot \/ RstFlag \/ RstClear
            \/ RstPath \/ RstArm
  <2>1. UNCHANGED <<soft, synced, attempts, overtaken, pc>>
        /\ Stopping' = Stopping
    BY <1>15 DEF RstKeepBoot, RstHwReset, RstSoftReboot, RstFlag, RstClear,
       RstPath, RstArm
  <2>2. \/ ResetUnderWay
        \/ /\ ~ResetUnderWay'
           /\ "RESTART_NEEDED" \in flags' => "RESTART_NEEDED" \in flags
    BY <1>15 DEF RstKeepBoot, RstHwReset, RstSoftReboot, RstFlag, RstClear,
       RstPath, RstArm
  <2>3. CASE ResetUnderWay   BY <2>1, <2>3
  <2>4. CASE ~ResetUnderWay  BY <2>1, <2>2, <2>4
  <2> QED  BY <2>3, <2>4
<1>16. CASE ExitBegin \/ ExitCancelRecovery \/ ExitCancelEvents \/
            ExitRemoving \/ ExitCancelReset \/ ExitRemoveCard \/
            ExitTransport \/ ExitFree
  BY SMTT(60), <1>16 DEF ExitBegin, ExitCancelRecovery, ExitCancelEvents, ExitRemoving,
     ExitCancelReset, ExitRemoveCard, ExitTransport, ExitFree
<1>17. CASE FwCrash \/ FwHang \/ FwLoseBoot \/ UserSelect \/ FwBoot \/
            FwReboot \/ RxBoot \/ RxDispatch \/ DeadlinePasses
  <2>1. UNCHANGED <<flags, soft, synced, attempts, overtaken, pc, rstRet,
                    rstQ, rst>>
    BY <1>17 DEF FwCrash, FwHang, FwLoseBoot, UserSelect, FwBoot, FwReboot,
       RxBoot, RxDispatch, DeadlinePasses, Restarted
  <2> QED  BY <2>1
<1> QED  BY <1>1, <1>2, <1>3, <1>4, <1>5, <1>6, <1>7, <1>8, <1>9, <1>10,
    <1>11, <1>12, <1>13, <1>14, <1>15, <1>16, <1>17 DEF Next, RecWork,
    EvWork, RadioWork, ResetWork, ExitWork, ReportWork, Environment,
    CallChain

\* What esp_exit cancelled stays cancelled.
LEMMA ExitNext == TypeOK /\ ExitInv /\ [Next]_vars => ExitInv'
<1> SUFFICES ASSUME TypeOK, ExitInv, [Next]_vars PROVE ExitInv'
  OBVIOUS
<1> USE ErrsAssumption DEF TypeOK, TypeCtl, ExitInv, ExitMarked, Stopping,
        PastRec, PastWorks, PastCard, ExitLabels
<1>1. CASE UNCHANGED vars
  BY <1>1
<1>2. ASSUME NEW t \in Threads, Retry(t) PROVE ExitInv'
  BY <1>2 DEF Retry, ReturnPoints
<1>3. ASSUME NEW t \in Threads, Schedule(t) PROVE ExitInv'
  BY <1>3 DEF Schedule, ReturnPoints
<1>4. ASSUME NEW t \in Threads, Arm(t) PROVE ExitInv'
  <2>1. exitPc \notin PastCard  BY <1>4 DEF Arm, Threads
  <2> QED  BY <1>4, <2>1 DEF Arm, ReturnPoints
<1>5. ASSUME NEW t \in Threads, Request(t) PROVE ExitInv'
  BY <1>5 DEF Request, ReturnPoints
<1>6. ASSUME NEW t \in Threads, ResetTarget(t) PROVE ExitInv'
  BY <1>6 DEF ResetTarget, ReturnPoints
<1>7. ASSUME NEW t \in Threads, ResetQueue(t) PROVE ExitInv'
  <2>1. exitPc \notin PastCard  BY <1>7 DEF ResetQueue, Threads
  <2> QED  BY <1>7, <2>1 DEF ResetQueue, ReturnPoints
<1>8. ASSUME NEW t \in Threads, Finish(t) PROVE ExitInv'
  BY <1>8 DEF Finish, Healed
<1>9. ASSUME NEW t \in Threads, CommitCallback(t) PROVE ExitInv'
  BY <1>9 DEF CommitCallback
<1>10. ASSUME NEW t \in Errs, BusError(t) \/ StatefulError(t)
      PROVE  ExitInv'
  BY <1>10 DEF BusError, StatefulError
<1>11. CASE RecStart \/ RecCheck \/ RecRecover \/ RecProbe \/ RecOpen \/
            RecLive \/ RecSettle0 \/ RecSettle1 \/ RecRearm
  BY <1>11 DEF RecStart, RecCheck, RecRecover, RecProbe, RecOpen, RecLive,
     RecSettle0, RecSettle1, RecRearm, RecDecision
<1>12. CASE EvTake \/ EvBoot \/ EvSync \/ EvBegin \/ EvQuiesce \/ EvRemove \/
            EvParse \/ EvReinit \/ EvRecon \/ EvAddCard
  BY <1>12 DEF EvTake, EvBoot, EvSync, EvBegin, EvQuiesce, EvRemove, EvParse,
     EvReinit, EvRecon, EvAddCard, CardOpened
<1>13. CASE EvOta \/ EvOtaFail \/ EvInitDone \/ EvCancel \/ EvCommit \/
            EvMismatch \/ EvPublish \/ EvFailPub \/ EvFailRemove \/ EvFail
  BY <1>13 DEF EvOta, EvOtaFail, EvInitDone, EvCancel, EvCommit, EvMismatch,
     EvPublish, EvFailPub, EvFailRemove, EvFail, Committed
<1>14. CASE RadioStart \/ RadioGate \/ RadioCmd \/ RadioFail \/
            RadioUnpublish \/ RadioEndpoints \/ RadioLatest
  BY <1>14 DEF RadioStart, RadioGate, RadioCmd, RadioFail, RadioUnpublish,
     RadioEndpoints, RadioLatest
<1>15. CASE RstKeepBoot \/ RstHwReset \/ RstSoftReboot \/ RstFlag \/ RstClear
            \/ RstPath \/ RstArm
  <2>1. UNCHANGED <<exitPc, pc, radioQ>>
    BY <1>15 DEF RstKeepBoot, RstHwReset, RstSoftReboot, RstFlag, RstClear,
       RstPath, RstArm
  <2>2. exitPc \notin {"drained", "gone"}
    BY <1>15 DEF RstKeepBoot, RstHwReset, RstSoftReboot, RstFlag, RstClear,
       RstPath, RstArm
  <2>3. "UNLOADING" \in flags => "UNLOADING" \in flags'
    BY <1>15 DEF RstKeepBoot, RstHwReset, RstSoftReboot, RstFlag, RstClear,
       RstPath, RstArm
  <2> QED  BY <2>1, <2>2, <2>3
<1>16. CASE ExitBegin \/ ExitCancelRecovery \/ ExitCancelEvents \/
            ExitRemoving \/ ExitCancelReset \/ ExitRemoveCard \/
            ExitTransport \/ ExitFree
  BY <1>16 DEF ExitBegin, ExitCancelRecovery, ExitCancelEvents, ExitRemoving,
     ExitCancelReset, ExitRemoveCard, ExitTransport, ExitFree
<1>17. CASE FwCrash \/ FwHang \/ FwLoseBoot \/ UserSelect \/ FwBoot \/
            FwReboot \/ RxBoot \/ RxDispatch \/ DeadlinePasses
  <2>1. UNCHANGED <<exitPc, flags, pc, rst, rstQ, timer>>
    BY <1>17 DEF FwCrash, FwHang, FwLoseBoot, UserSelect, FwBoot, FwReboot,
       RxBoot, RxDispatch, DeadlinePasses, Restarted
  <2>2. exitPc # "none" => radioQ' = radioQ
    BY <1>17 DEF FwCrash, FwHang, FwLoseBoot, UserSelect, SelectQueues,
       FwBoot, FwReboot, RxBoot, RxDispatch, DeadlinePasses, TypeSes
  <2>3. exitPc = "gone" => evq' = <<>>
    <3>1. CASE FwCrash \/ FwReboot
      BY <3>1 DEF FwCrash, FwReboot, Restarted
    <3>2. CASE ~(FwCrash \/ FwReboot)
      BY <1>17, <3>2 DEF FwHang, FwLoseBoot, UserSelect, FwBoot, RxBoot,
         RxDispatch, DeadlinePasses
    <3> QED  BY <3>1, <3>2
  <2> QED  BY <2>1, <2>2, <2>3
<1> QED  BY <1>1, <1>2, <1>3, <1>4, <1>5, <1>6, <1>7, <1>8, <1>9, <1>10,
    <1>11, <1>12, <1>13, <1>14, <1>15, <1>16, <1>17 DEF Next, RecWork,
    EvWork, RadioWork, ResetWork, ExitWork, ReportWork, Environment,
    CallChain

-----------------------------------------------------------------------------
(* The theorems about committed sessions and module removal *)

\* What esp_exit has cancelled stays cancelled.
LEMMA ExitInvariant == Spec => []ExitInv
<1>1. Init => ExitInv
  BY DEF Init, ExitInv, ExitMarked, PastRec, PastWorks, PastCard, ExitLabels
<1> QED  BY <1>1, ExitNext, TypeCorrect, PTL DEF Spec

\* After esp_exit nothing of the driver can run again, with any number of
\* failure contexts caught at any point of the recovery code.
THEOREM ExitLeavesNothing == Spec => []ExitQuiescent
<1>1. ExitInv => ExitQuiescent
  BY DEF ExitInv, ExitQuiescent, Quiet, Threads, PastRec, PastWorks, PastCard,
     ExitLabels
<1> QED  BY <1>1, ExitInvariant, PTL

\* A settled session whose contexts have all left is open for commands, and has
\* the metadata of a boot event: each of the exits of process_event_esp_bootup
\* gives CLEANUP and RECONSTRUCT back, and none commits without metadata.
THEOREM SessionsUsable == Spec => []SessionUsable
<1>1. Init => UsableInv
  BY DEF Init, UsableInv, Reopened
<1>2. UsableInv => SessionUsable
  BY DEF UsableInv, SessionUsable, Reopened, Quiet, Settled
<1> QED  BY <1>1, <1>2, UsableNext, ExitInvariant, TypeCorrect, PTL DEF Spec

\* Restart intents belong to an expected reset.
LEMMA IntentInvariant == Spec => []IntentInv
<1>1. Init => IntentInv
  BY DEF Init, IntentInv, RestartInFlight, ResetUnderWay
<1> QED  BY <1>1, IntentNext, TypeCorrect, PTL DEF Spec

\* A committed session has neither a left-over RESTART_NEEDED nor a reset on
\* its way, unless its commit overtook a restart that was already in flight.
THEOREM IntentSettles == Spec => []RestartIntentSettles
<1>1. IntentInv => RestartIntentSettles
  BY DEF IntentInv, RestartIntentSettles, Settled
<1> QED  BY <1>1, IntentInvariant, PTL

\* However late esp_spi_commit_fw_recovery runs, a recovery that has not
\* charged an attempt yet counts its soft reboots from zero.
THEOREM SoftBudgetRefilled == Spec => []SoftRebootLeft
<1>1. Init => SoftInv
  BY DEF Init, SoftInv, SoftNow, ResetUnderWay
<1>2. TypeOK /\ SoftInv => SoftRebootLeft
  BY DEF SoftInv, SoftRebootLeft, TypeOK, TypeRec
<1> QED  BY <1>1, <1>2, SoftNext, IntentInvariant, TypeCorrect, PTL DEF Spec

=============================================================================
