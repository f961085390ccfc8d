--------------------------- MODULE FwEventProofs ---------------------------
(***************************************************************************)
(* The event loop of the firmware's command processor: hosted_wifi_stop is *)
(* a barrier no event crosses, and a scan completion belongs to the scan   *)
(* that owns it.                                                           *)
(***************************************************************************)
EXTENDS FwCommandProofs

USE DEF At, Goto, Respond, Return, Call, Outcome, CanFail

-----------------------------------------------------------------------------
(* The event queue *)

\* Events that neither acknowledge a stop nor complete a scan.
PlainKinds == {"STA_START", "AP_START", "CONNECTED", "DISCONNECTED", "AP_STOP"}

\* r is q with plain events of the present incarnation behind it.
Extends(q, r) ==
    /\ r \in Seq(Events) /\ Len(r) >= Len(q)
    /\ \A i \in 1..Len(q) : r[i] = q[i]
    /\ \A i \in 1..Len(r) :
         i > Len(q) => r[i].k \in PlainKinds /\ r[i].inc = lib.inc

\* A queue extends itself by nothing.
LEMMA ExtendsSame ==
    ASSUME NEW q \in Seq(Events)
    PROVE  Extends(q, q)
  BY DEF Extends

\* Posting one event (esp_event_post) keeps what is before it.
LEMMA PostFacts ==
    ASSUME NEW q \in Seq(Events), NEW e \in Events
    PROVE  /\ Append(q, e) \in Seq(Events) /\ Len(q) \in Nat
           /\ Len(Append(q, e)) = Len(q) + 1 /\ Append(q, e)[Len(q) + 1] = e
           /\ \A i \in 1..Len(q) : Append(q, e)[i] = q[i]
           /\ q = <<>> <=> Len(q) = 0
  OBVIOUS

\* Dispatching one event moves the others up.
LEMMA PopFacts ==
    ASSUME NEW q \in Seq(Events), q # <<>>
    PROVE  /\ Tail(q) \in Seq(Events) /\ Len(q) \in Nat /\ Len(q) > 0
           /\ Len(Tail(q)) = Len(q) - 1 /\ Head(q) = q[1]
           /\ \A i \in 1..Len(Tail(q)) : Tail(q)[i] = q[i + 1] /\ i + 1 \in 1..Len(q)
           /\ Len(q) = 1 => Tail(q) = <<>>
<1>1. /\ Tail(q) \in Seq(Events) /\ Len(q) \in Nat /\ Len(q) > 0
      /\ Len(Tail(q)) = Len(q) - 1 /\ Head(q) = q[1]
      /\ \A i \in 1..Len(Tail(q)) : Tail(q)[i] = q[i + 1]
  BY HeadTailProperties, LenProperties
<1>2. Len(q) = 1 => Tail(q) = <<>>
  <2>1. Tail(q) # <<>> => Len(Tail(q)) \in Nat \ {0}
    BY <1>1, EmptySeq
  <2>2. QED
    BY <1>1, <2>1
<1>3. QED
  BY <1>1, <1>2

\* A plain event behind a queue that was extended extends it further.
LEMMA ExtendsMore ==
    ASSUME NEW q \in Seq(Events), NEW r, Extends(q, r), NEW e \in Events,
           e.k \in PlainKinds, e.inc = lib.inc
    PROVE  Extends(q, Append(r, e))
<1>1. r \in Seq(Events) /\ Len(q) \in Nat
  BY PostFacts DEF Extends
<1>2. /\ Append(r, e) \in Seq(Events) /\ Len(r) \in Nat
      /\ Len(Append(r, e)) = Len(r) + 1 /\ Append(r, e)[Len(r) + 1] = e
      /\ \A i \in 1..Len(r) : Append(r, e)[i] = r[i]
  BY <1>1, PostFacts
<1>3. QED
  BY <1>1, <1>2 DEF Extends

\* The library's own events of a lost or left connection are plain.
LEMMA PlainEvents ==
    ASSUME LibType
    PROVE  \A k \in PlainKinds : /\ Event(k, NoSeq) \in Events
                                 /\ Event(k, NoSeq).k = k
                                 /\ Event(k, NoSeq).inc = lib.inc
<1>1. \A k \in PlainKinds : Event(k, NoSeq) \in Events
  BY EventFacts, SeqFacts DEF PlainKinds
<1>2. QED
  BY <1>1 DEF Event

\* esp_wifi_disconnect, and the mode change of a running Wi-Fi, extend the
\* queue by plain events.
LEMMA LeavingExtends ==
    ASSUME LibType, NEW q \in Seq(Events)
    PROVE  /\ Extends(q, LeftEvents(lib, q))
           /\ Extends(q, Append(q, Event("AP_START", NoSeq)))
           /\ Extends(q, Append(LeftEvents(lib, q), Event("AP_START", NoSeq)))
           /\ Extends(q, Append(q, Event("CONNECTED", NoSeq)))
<1>1. "DISCONNECTED" \in PlainKinds /\ "AP_START" \in PlainKinds /\ "CONNECTED" \in PlainKinds
  BY DEF PlainKinds
<1>2. Extends(q, q)
  BY ExtendsSame
<1>3. Extends(q, LeftEvents(lib, q))
  <2>1. Extends(q, Append(q, Event("DISCONNECTED", NoSeq)))
    BY <1>1, <1>2, PlainEvents, ExtendsMore
  <2>2. QED
    BY <1>2, <2>1 DEF LeftEvents
<1>4. QED
  BY <1>1, <1>2, <1>3, PlainEvents, ExtendsMore

-----------------------------------------------------------------------------
(* Steps that leave the barrier and the scan alone *)

CmdRec ==
    [pc : Pcs, seq : 0..MaxCmds, r : Requests \union {NoRequest},
     k : Seq(Labels), err : BOOLEAN, was : BOOLEAN, cb : BOOLEAN, old : WifiModes]
FlagRec ==
    [started : BOOLEAN, stopping : BOOLEAN, ackPend : BOOLEAN, ack : BOOLEAN,
     cb : BOOLEAN, apUp : BOOLEAN, staInit : BOOLEAN, mon : BOOLEAN]
ScanRec == [run : BOOLEAN, drain : BOOLEAN, auth : BOOLEAN, owner : 0..MaxCmds]

\* The records of the state, in the form the steps below use.
LEMMA Records ==
    TypeOK => /\ cmd \in CmdRec /\ w \in FlagRec /\ sc \in ScanRec
              /\ lib \in LibRec /\ LibType /\ evq \in Seq(Events) /\ up \in BOOLEAN
  BY DEF TypeOK, CmdType, FlagType, LibType, CmdRec, FlagRec, ScanRec, LibRec,
         Labels

\* Steps of the command task between two calls of hosted_wifi_stop and
\* hosted_wifi_start, and outside a scan request.
CalmPcs == Pcs \ {"esp_wifi_stop", "stopAck", "fence", "fenceAck", "started",
                  "startFailed", "scanStart", "connect"}
Stays ==
    \/ cmd' = cmd
    \/ cmd.pc \notin StopPcs \union StartPcs \union {"authLookup"} /\ cmd'.pc \in CalmPcs
    \/ cmd.pc = "startFailed" /\ cmd'.pc \in StartCallers /\ cmd'.err

LibKept ==
    /\ lib'.on = lib.on /\ lib'.inited = lib.inited /\ lib'.inc = lib.inc
    /\ lib'.scan = lib.scan /\ lib'.staStop = lib.staStop
    /\ ~lib.on => lib'.conn = "idle"
FlagsKept == w'.started = w.started /\ w'.ack = w.ack /\ w'.ackPend = w.ackPend
QueueKept == Extends(evq, evq') /\ (~lib.on => evq' = evq)

Calm == Stays /\ LibKept /\ FlagsKept /\ QueueKept /\ sc' = sc

\* The steps that are not calm.
BarrierStep ==
    \/ hosted_wifi_stop \/ StopReturns \/ StaStopAcked \/ PostFence \/ FenceAcked
    \/ hosted_wifi_start \/ StartReturns \/ deinitialize_wifi \/ LibStaStop
ScanStep ==
    \/ process_start_scan \/ ScanStart \/ AuthSend \/ AuthConnect \/ LibScanDone
    \/ LibLookupDone

\* Outside the barrier and the scan requests the command task makes calm moves.
LEMMA StaysSteps ==
    ASSUME TypeOK, ControlInv, Next, ~BarrierStep, ~ScanStep
    PROVE  Stays
<1>a. cmd \in CmdRec
  BY Records
<1>b. /\ {"resp", "idle", "stop", "start", "authBss", "authSend", "authDone", "retire",
          "rebuild", "deinit", "mode", "modeCb", "modeDone", "rollback", "rolledBack",
          "mgmtSend", "mgmtAccept", "mgmtTimer", "mgmtUntimed", "mgmtAccepted", "mgmtStatus",
          "lgSend"} \subseteq CalmPcs
      /\ Commands \subseteq CalmPcs /\ CmdIdle.pc = "idle"
  BY DEF CalmPcs, Pcs, Commands, StopPcs, StartPcs, StopCallers, StartCallers,
         AfterAnswer, CmdIdle
<1>c. {"resp", "idle", "authBss", "authSend", "authDone", "retire", "connect",
       "rebuild", "deinit", "mode", "modeCb", "modeDone", "rollback", "rolledBack",
       "mgmtSend", "mgmtAccept", "mgmtTimer", "mgmtUntimed", "mgmtAccepted", "mgmtStatus",
       "lgSend"} \union Commands
      \subseteq Pcs \ (StopPcs \union StartPcs \union {"authLookup"})
  BY DEF Pcs, Commands, StopPcs, StartPcs, StopCallers, StartCallers, AfterAnswer
<1>1. CASE esp_cmd_dispatch
  <2>1. PICK r \in Requests :
            cmd' = [CmdIdle EXCEPT !.pc = r.c, !.r = r, !.seq = host.n + 1]
    BY ZenonT(60), <1>1 DEF esp_cmd_dispatch
  <2>2. cmd'.pc \in Commands
    BY <2>1, RequestFacts DEF CmdIdle
  <2>3. QED
    BY <1>1, <1>b, <1>c, <2>2 DEF Stays, esp_cmd_dispatch
<1>2. CASE send_command_resp
  <2>1. cmd.pc = "resp" /\ cmd'.pc \in CalmPcs
    BY <1>2, <1>a, <1>b DEF send_command_resp, CmdRec
  <2>2. QED
    BY <1>c, <2>1 DEF Stays, Commands
<1>3. CASE StartFailed
  <2>1. PICK c \in StartCallers : cmd.k = <<c>>
    BY <1>3 DEF StartFailed, ControlInv, StartPcs
  <2>2. Head(cmd.k) = c
    BY <2>1, SubFacts, StackFacts
  <2>3. cmd'.pc = c /\ cmd'.err
    BY <1>3, <1>a, <2>2 DEF StartFailed, CmdRec
  <2>4. QED
    BY <1>3, <2>3 DEF Stays, StartFailed
<1>4. CASE process_monitor_config
  <2>1. cmd.pc = "MONITOR" /\ cmd'.pc \in CalmPcs
    BY <1>4, <1>a, <1>b DEF process_monitor_config, CmdRec
  <2>2. QED
    BY <1>c, <2>1 DEF Stays, Commands
<1>5. CASE process_auth_request
  <2>1. cmd.pc = "AUTH" /\ cmd'.pc \in CalmPcs
    BY <1>5, <1>a, <1>b DEF process_auth_request, CmdRec
  <2>2. QED
    BY <1>c, <2>1 DEF Stays, Commands
<1>6. CASE AuthBssid
  <2>1. cmd.pc = "authBss" /\ cmd'.pc \in CalmPcs
    BY <1>6, <1>a, <1>b DEF AuthBssid, CmdRec
  <2>2. QED
    BY <1>c, <2>1 DEF Stays, Commands
<1>7. CASE AuthDone
  <2>1. cmd.pc = "authDone" /\ cmd'.pc \in CalmPcs
    BY <1>7, <1>a, <1>b DEF AuthDone, CmdRec
  <2>2. QED
    BY <1>c, <2>1 DEF Stays, Commands
<1>8. CASE process_assoc_request
  <2>1. cmd.pc = "ASSOC" /\ cmd'.pc \in CalmPcs
    BY <1>8, <1>a, <1>b DEF process_assoc_request, CmdRec
  <2>2. QED
    BY <1>c, <2>1 DEF Stays, Commands
<1>9. CASE process_sta_connect
  <2>1. cmd.pc = "CONNECT" /\ cmd'.pc \in CalmPcs
    BY <1>9, <1>a, <1>b DEF process_sta_connect, CmdRec
  <2>2. QED
    BY <1>c, <2>1 DEF Stays, Commands
<1>10. CASE ConnectStarted
  <2>1. cmd.pc = "connect" /\ cmd'.pc \in CalmPcs
    BY <1>10, <1>a, <1>b DEF ConnectStarted, CmdRec
  <2>2. QED
    BY <1>c, <2>1 DEF Stays, Commands
<1>11. CASE process_disconnect
  <2>1. cmd.pc = "DISCONNECT" /\ cmd'.pc \in CalmPcs
    BY <1>11, <1>a, <1>b DEF process_disconnect, CmdRec
  <2>2. QED
    BY <1>c, <2>1 DEF Stays, Commands
<1>12. CASE process_init_interface
  <2>1. cmd.pc = "INIT" /\ cmd'.pc \in CalmPcs
    BY <1>12, <1>a, <1>b DEF process_init_interface, CmdRec
  <2>2. QED
    BY <1>c, <2>1 DEF Stays, Commands
<1>13. CASE process_deinit_interface
  <2>1. cmd.pc = "DEINIT" /\ cmd'.pc \in CalmPcs
    BY <1>13, <1>a, <1>b DEF process_deinit_interface, CmdRec
  <2>2. QED
    BY <1>c, <2>1 DEF Stays, Commands
<1>14. CASE DeinitRetires
  <2>1. cmd.pc = "retire" /\ cmd'.pc \in CalmPcs
    BY <1>14, <1>a, <1>b DEF DeinitRetires, CmdRec
  <2>2. QED
    BY <1>c, <2>1 DEF Stays, Commands
<1>15. CASE MonitorRebuild
  <2>1. cmd.pc = "rebuild" /\ cmd'.pc \in CalmPcs
    BY <1>15, <1>a, <1>b DEF MonitorRebuild, CmdRec
  <2>2. QED
    BY <1>c, <2>1 DEF Stays, Commands
<1>16. CASE DeinitDone
  <2>1. cmd.pc = "deinit" /\ cmd'.pc \in CalmPcs
    BY <1>16, <1>a, <1>b DEF DeinitDone, CmdRec
  <2>2. QED
    BY <1>c, <2>1 DEF Stays, Commands
<1>17. CASE process_set_mode
  <2>1. cmd.pc = "SET_MODE" /\ cmd'.pc \in CalmPcs
    BY <1>17, <1>a, <1>b DEF process_set_mode, Target, Snapshot, CmdRec
  <2>2. QED
    BY <1>c, <2>1 DEF Stays, Commands
<1>18. CASE process_set_ap_config
  <2>1. cmd.pc = "AP_CONFIG" /\ cmd'.pc \in CalmPcs
    BY <1>18, <1>a, <1>b DEF process_set_ap_config, Snapshot, CmdRec
  <2>2. QED
    BY <1>c, <2>1 DEF Stays, Commands
<1>19. CASE ModeStopped
  <2>1. cmd.pc = "mode" /\ cmd'.pc \in CalmPcs
    BY <1>19, <1>a, <1>b DEF ModeStopped, Target, CmdRec
  <2>2. QED
    BY <1>c, <2>1 DEF Stays, Commands
<1>20. CASE ModeCallback
  <2>1. cmd.pc = "modeCb" /\ cmd'.pc \in CalmPcs
    BY <1>20, <1>a, <1>b DEF ModeCallback, Target, CmdRec
  <2>2. QED
    BY <1>c, <2>1 DEF Stays, Commands
<1>21. CASE ModeDone
  <2>1. cmd.pc = "modeDone" /\ cmd'.pc \in CalmPcs
    BY <1>21, <1>a, <1>b DEF ModeDone, CmdRec
  <2>2. QED
    BY <1>c, <2>1 DEF Stays, Commands
<1>22. CASE ModeRollback
  <2>1. cmd.pc = "rollback" /\ cmd'.pc \in CalmPcs
    BY <1>22, <1>a, <1>b DEF ModeRollback, CmdRec
  <2>2. QED
    BY <1>c, <2>1 DEF Stays, Commands
<1>23. CASE ModeRolledBack
  <2>1. cmd.pc = "rolledBack" /\ cmd'.pc \in CalmPcs
    BY <1>23, <1>a, <1>b DEF ModeRolledBack, CmdRec
  <2>2. QED
    BY <1>c, <2>1 DEF Stays, Commands
<1>24. CASE process_mgmt_tx
  <2>1. cmd.pc = "MGMT_TX" /\ cmd'.pc \in CalmPcs
    BY <1>24, <1>a, <1>b DEF process_mgmt_tx, CmdRec
  <2>2. QED
    BY <1>c, <2>1 DEF Stays, Commands
<1>25. CASE MgmtSend
  <2>1. cmd.pc = "mgmtSend" /\ cmd'.pc \in CalmPcs
    BY <1>25, <1>a, <1>b DEF MgmtSend, CmdRec
  <2>2. QED
    BY <1>c, <2>1 DEF Stays, Commands
<1>26. CASE hosted_send_mgmt_accept
  <2>1. cmd.pc = "mgmtAccept" /\ cmd'.pc \in CalmPcs
    BY <1>26, <1>a, <1>b DEF hosted_send_mgmt_accept, CmdRec
  <2>2. QED
    BY <1>c, <2>1 DEF Stays, Commands
<1>27. CASE MgmtTimer \/ MgmtUntimed
  <2>1. cmd.pc \in AfterAnswer /\ cmd'.pc \in CalmPcs
    BY <1>27, <1>a, <1>b DEF MgmtTimer, MgmtUntimed, CmdRec, AfterAnswer
  <2>2. QED
    BY <1>c, <2>1 DEF Stays, Commands, AfterAnswer
<1>28. CASE hosted_mgmt_mark_accepted
  <2>1. cmd.pc = "mgmtAccepted" /\ cmd'.pc \in CalmPcs
    BY <1>28, <1>a, <1>b DEF hosted_mgmt_mark_accepted, CmdRec
  <2>2. QED
    BY <1>c, <2>1 DEF Stays, Commands
<1>29. CASE MgmtStatus
  <2>1. cmd.pc = "mgmtStatus" /\ cmd'.pc \in CalmPcs
    BY <1>29, <1>a, <1>b DEF MgmtStatus, CmdRec
  <2>2. QED
    BY <1>c, <2>1 DEF Stays, Commands
<1>30. CASE process_mgmt_tx_unmarked
  <2>1. cmd.pc = "MGMT_TX" /\ cmd'.pc \in CalmPcs
    BY <1>30, <1>a, <1>b DEF process_mgmt_tx_unmarked, mgmt_tx_inflight_begin,
         CmdRec
  <2>2. QED
    BY <1>c, <2>1 DEF Stays, Commands
<1>31. CASE UnmarkedSend
  <2>1. cmd.pc = "lgSend" /\ cmd'.pc \in CalmPcs
    BY <1>31, <1>a, <1>b DEF UnmarkedSend, CmdRec
  <2>2. QED
    BY <1>c, <2>1 DEF Stays, Commands
<1>32. CASE HostGivesUp \/ OnStart \/ OnConnected \/ OnDisconnected \/ OnScanDone \/
          OnApStop \/ OnStaStop \/ hosted_scan_fence_handler \/ mgmt_txcb \/
          sta_rx_auth \/ AssocResponse \/ LibConnected \/ LibDisconnected \/
          LibScanDone \/ LibLookupDone \/ LibStaStop \/
          TimerTask \/ hosted_mgmt_finish_owned
  <2>1. cmd' = cmd
    BY ZenonT(60), <1>32 DEF HostGivesUp, OnStart, OnConnected, OnDisconnected,
         OnScanDone, OnApStop, OnStaStop, hosted_scan_fence_handler, mgmt_txcb,
         sta_rx_auth, AssocResponse, LibConnected, LibDisconnected, LibScanDone,
         LibLookupDone, LibStaStop, TimerTask, hosted_mgmt_timeout_cb,
         hosted_mgmt_finish_owned
  <2>2. QED
    BY <2>1 DEF Stays
<1>33. QED
  BY <1>1, <1>2, <1>3, <1>4, <1>5, <1>6, <1>7, <1>8, <1>9, <1>10, <1>11, <1>12,
     <1>13, <1>14, <1>15, <1>16, <1>17, <1>18, <1>19, <1>20, <1>21, <1>22, <1>23,
     <1>24, <1>25, <1>26, <1>27, <1>28, <1>29, <1>30, <1>31, <1>32
  DEF BarrierStep, ScanStep, Next, WifiStop, WifiStart, Scan, Auth, Session,
      Interface, Mode, Mgmt, CommandTask, EventLoop, WifiTask

\* Such a step keeps the library running or stopped, and a stopped one idle.
LEMMA LibKeptSteps ==
    ASSUME TypeOK, ControlInv, RadioInv, Next, ~BarrierStep, ~ScanStep
    PROVE  LibKept
<1>a. lib \in LibRec /\ (~lib.on => lib.conn = "idle")
  BY Records DEF RadioInv
<1>1. CASE process_assoc_request
  BY <1>1, <1>a DEF process_assoc_request, LibKept, LibRec
<1>2. CASE process_sta_connect
  BY <1>2, <1>a DEF process_sta_connect, LibKept, LibRec
<1>3. CASE ConnectStarted
  BY <1>3, <1>a DEF ConnectStarted, RadioInv, LibKept, LibRec
<1>4. CASE process_disconnect
  BY <1>4, <1>a DEF process_disconnect, Left, LibKept, LibRec
<1>5. CASE process_init_interface
  BY <1>5, <1>a DEF process_init_interface, ModeOf, Left, LibKept, LibRec
<1>6. CASE DeinitRetires
  BY <1>6, <1>a DEF DeinitRetires, ModeOf, Left, LibKept, LibRec
<1>7. CASE MonitorRebuild
  BY <1>7, <1>a DEF MonitorRebuild, SetMode, LibKept, LibRec
<1>8. CASE ModeStopped
  BY <1>8, <1>a DEF ModeStopped, SetMode, ModeOf, LibKept, LibRec
<1>9. CASE ModeRollback
  BY <1>9, <1>a DEF ModeRollback, SetMode, LibKept, LibRec
<1>10. CASE MgmtSend
  BY <1>10, <1>a DEF MgmtSend, Transmit, LibKept, LibRec
<1>11. CASE UnmarkedSend
  BY <1>11, <1>a DEF UnmarkedSend, Transmit, LibKept, LibRec
<1>12. CASE mgmt_txcb
  BY <1>12, <1>a DEF mgmt_txcb, LibKept, LibRec
<1>13. CASE AssocResponse
  BY <1>13, <1>a DEF AssocResponse, Left, LibKept, LibRec
<1>14. CASE LibConnected
  BY <1>14, <1>a DEF LibConnected, LibKept, LibRec
<1>15. CASE LibDisconnected
  BY <1>15, <1>a DEF LibDisconnected, Left, LibKept, LibRec
<1>16. CASE esp_cmd_dispatch \/ HostGivesUp \/ send_command_resp \/ StaStopAcked \/
          PostFence \/ FenceAcked \/ StartReturns \/ StartFailed \/
          process_start_scan \/ process_monitor_config \/
          process_auth_request \/ AuthBssid \/ AuthSend \/ AuthDone \/
          process_deinit_interface \/ DeinitDone \/ process_set_mode \/
          process_set_ap_config \/ ModeCallback \/ ModeDone \/
          ModeRolledBack \/ process_mgmt_tx \/ hosted_send_mgmt_accept \/
          MgmtTimer \/ MgmtUntimed \/ hosted_mgmt_mark_accepted \/ MgmtStatus \/
          process_mgmt_tx_unmarked \/ OnStart \/ OnConnected \/
          OnDisconnected \/ OnScanDone \/ OnApStop \/ OnStaStop \/
          hosted_scan_fence_handler \/ sta_rx_auth \/ LibLookupDone \/
          TimerTask \/ hosted_mgmt_finish_owned
  <2>1. lib' = lib
    BY ZenonT(60), <1>16 DEF esp_cmd_dispatch, HostGivesUp, send_command_resp,
         StaStopAcked, PostFence, FenceAcked, StartReturns, StartFailed,
         process_start_scan, process_monitor_config, process_auth_request,
         AuthBssid, AuthSend, AuthDone, process_deinit_interface, DeinitDone,
         process_set_mode, process_set_ap_config, ModeCallback, ModeDone,
         ModeRolledBack, process_mgmt_tx, hosted_send_mgmt_accept, MgmtTimer, MgmtUntimed,
         hosted_mgmt_mark_accepted, MgmtStatus, process_mgmt_tx_unmarked, OnStart,
         OnConnected, OnDisconnected, OnScanDone, OnApStop, OnStaStop,
         hosted_scan_fence_handler, sta_rx_auth, LibLookupDone,
         TimerTask, hosted_mgmt_timeout_cb, hosted_mgmt_finish_owned
  <2>2. QED
    BY <1>a, <2>1 DEF LibKept
<1>17. QED
  BY <1>1, <1>2, <1>3, <1>4, <1>5, <1>6, <1>7, <1>8, <1>9, <1>10, <1>11, <1>12,
     <1>13, <1>14, <1>15, <1>16
  DEF BarrierStep, ScanStep, Next, WifiStop, WifiStart, Scan, Auth, Session,
      Interface, Mode, Mgmt, CommandTask, EventLoop, WifiTask

\* Such a step touches no flag of the barrier, unless it dispatches STA_STOP or
\* the fence.
LEMMA FlagsKeptSteps ==
    ASSUME TypeOK, Next, ~BarrierStep, ~ScanStep, ~OnStaStop, ~hosted_scan_fence_handler
    PROVE  FlagsKept
<1>a. w \in FlagRec
  BY Records
<1>1. CASE process_monitor_config
  BY <1>1, <1>a DEF process_monitor_config, FlagsKept, FlagRec
<1>2. CASE ModeCallback
  BY <1>2, <1>a DEF ModeCallback, FlagsKept, FlagRec
<1>3. CASE ModeRollback
  BY <1>3, <1>a DEF ModeRollback, FlagsKept, FlagRec
<1>4. CASE process_mgmt_tx
  BY <1>4, <1>a DEF process_mgmt_tx, FlagsKept, FlagRec
<1>5. CASE process_mgmt_tx_unmarked
  BY <1>5, <1>a DEF process_mgmt_tx_unmarked, FlagsKept, FlagRec
<1>6. CASE OnStart
  BY <1>6, <1>a DEF OnStart, FlagsKept, FlagRec
<1>7. CASE OnApStop
  BY <1>7, <1>a DEF OnApStop, FlagsKept, FlagRec
<1>8. CASE esp_cmd_dispatch \/ HostGivesUp \/ send_command_resp \/
          deinitialize_wifi \/ StaStopAcked \/ hosted_wifi_start \/
          StartFailed \/ process_start_scan \/ ScanStart \/
          process_auth_request \/ AuthBssid \/ AuthSend \/ AuthConnect \/
          AuthDone \/ process_assoc_request \/ process_sta_connect \/
          ConnectStarted \/ process_disconnect \/ process_init_interface \/
          process_deinit_interface \/ DeinitRetires \/ MonitorRebuild \/
          DeinitDone \/ process_set_mode \/ process_set_ap_config \/
          ModeStopped \/ ModeDone \/ ModeRolledBack \/ MgmtSend \/
          hosted_send_mgmt_accept \/ MgmtTimer \/ MgmtUntimed \/ hosted_mgmt_mark_accepted \/
          MgmtStatus \/ UnmarkedSend \/ OnConnected \/ OnDisconnected \/
          OnScanDone \/ mgmt_txcb \/ sta_rx_auth \/ AssocResponse \/
          LibConnected \/ LibDisconnected \/ LibScanDone \/ LibLookupDone \/
          LibStaStop \/ TimerTask \/ hosted_mgmt_finish_owned
  <2>1. w' = w
    BY ZenonT(60), <1>8 DEF esp_cmd_dispatch, HostGivesUp, send_command_resp,
         deinitialize_wifi, StaStopAcked, hosted_wifi_start, StartFailed,
         process_start_scan, ScanStart, process_auth_request, AuthBssid, AuthSend,
         AuthConnect, AuthDone, process_assoc_request, process_sta_connect,
         ConnectStarted, process_disconnect, process_init_interface,
         process_deinit_interface, DeinitRetires, MonitorRebuild, DeinitDone,
         process_set_mode, process_set_ap_config, ModeStopped, ModeDone,
         ModeRolledBack, MgmtSend, hosted_send_mgmt_accept, MgmtTimer, MgmtUntimed,
         hosted_mgmt_mark_accepted, MgmtStatus, UnmarkedSend, OnConnected,
         OnDisconnected, OnScanDone, mgmt_txcb, sta_rx_auth, AssocResponse,
         LibConnected, LibDisconnected, LibScanDone, LibLookupDone, LibStaStop,
         TimerTask, hosted_mgmt_timeout_cb, hosted_mgmt_finish_owned
  <2>2. QED
    BY <2>1 DEF FlagsKept
<1>9. QED
  BY <1>1, <1>2, <1>3, <1>4, <1>5, <1>6, <1>7, <1>8
  DEF BarrierStep, ScanStep, Next, WifiStop, WifiStart, Scan, Auth, Session,
      Interface, Mode, Mgmt, CommandTask, EventLoop, WifiTask

\* Such a step posts plain events only, and none when the radio is off.
LEMMA QueueKeptSteps ==
    ASSUME TypeOK, RadioInv, Next, ~BarrierStep, ~ScanStep, ~EventLoop
    PROVE  QueueKept
<1>a. /\ LibType /\ evq \in Seq(Events) /\ Extends(evq, evq)
      /\ ~lib.on => lib.conn = "idle" /\ LeftEvents(lib, evq) = evq
  BY Records, ExtendsSame DEF RadioInv, LeftEvents
<1>b. /\ Extends(evq, LeftEvents(lib, evq))
      /\ Extends(evq, Append(evq, Event("AP_START", NoSeq)))
      /\ Extends(evq, Append(LeftEvents(lib, evq), Event("AP_START", NoSeq)))
      /\ Extends(evq, Append(evq, Event("CONNECTED", NoSeq)))
  BY <1>a, LeavingExtends
<1>1. CASE process_disconnect
  BY <1>1, <1>a, <1>b DEF process_disconnect, QueueKept
<1>2. CASE process_init_interface
  <2>1. PICK from \in {evq, LeftEvents(lib, evq)}, more \in {<<>>, <<Event("AP_START", NoSeq)>>} :
          evq' = from \o more /\ (~lib.on => more = <<>>)
    BY <1>2 DEF process_init_interface
  <2>2. /\ \A q \in Seq(Events) : q \o <<>> = q
        /\ \A q \in Seq(Events) : q \o <<Event("AP_START", NoSeq)>>
                                    = Append(q, Event("AP_START", NoSeq))
    OBVIOUS
  <2>3. LeftEvents(lib, evq) \in Seq(Events)
    BY <1>b DEF Extends
  <2>4. QED
    BY <2>1, <2>2, <2>3, <1>a, <1>b DEF QueueKept
<1>3. CASE DeinitRetires
  BY <1>3, <1>a, <1>b DEF DeinitRetires, QueueKept
<1>4. CASE MonitorRebuild
  BY <1>4, <1>a, <1>b DEF MonitorRebuild, SetMode, QueueKept
<1>5. CASE ModeStopped
  BY <1>5, <1>a, <1>b DEF ModeStopped, SetMode, QueueKept
<1>6. CASE ModeRollback
  BY <1>6, <1>a, <1>b DEF ModeRollback, SetMode, QueueKept
<1>7. CASE AssocResponse
  BY <1>7, <1>a, <1>b DEF AssocResponse, QueueKept
<1>8. CASE LibConnected
  BY <1>8, <1>a, <1>b DEF LibConnected, QueueKept
<1>9. CASE LibDisconnected
  BY <1>9, <1>a, <1>b DEF LibDisconnected, QueueKept
<1>10. CASE esp_cmd_dispatch \/ HostGivesUp \/ send_command_resp \/
          deinitialize_wifi \/ StaStopAcked \/ FenceAcked \/ StartReturns \/
          StartFailed \/ process_start_scan \/ ScanStart \/
          process_monitor_config \/ process_auth_request \/ AuthBssid \/
          AuthSend \/ AuthConnect \/ AuthDone \/ process_assoc_request \/
          process_sta_connect \/ ConnectStarted \/ process_deinit_interface \/
          DeinitDone \/ process_set_mode \/ process_set_ap_config \/
          ModeCallback \/ ModeDone \/ ModeRolledBack \/ process_mgmt_tx \/
          MgmtSend \/ hosted_send_mgmt_accept \/ MgmtTimer \/ MgmtUntimed \/
          hosted_mgmt_mark_accepted \/ MgmtStatus \/
          process_mgmt_tx_unmarked \/ UnmarkedSend \/ mgmt_txcb \/
          sta_rx_auth \/ TimerTask \/ hosted_mgmt_finish_owned
  <2>1. evq' = evq
    BY ZenonT(60), <1>10 DEF esp_cmd_dispatch, HostGivesUp, send_command_resp,
         deinitialize_wifi, StaStopAcked, FenceAcked, StartReturns, StartFailed,
         process_start_scan, ScanStart, process_monitor_config,
         process_auth_request, AuthBssid, AuthSend, AuthConnect, AuthDone,
         process_assoc_request, process_sta_connect, ConnectStarted,
         process_deinit_interface, DeinitDone, process_set_mode,
         process_set_ap_config, ModeCallback, ModeDone, ModeRolledBack,
         process_mgmt_tx, MgmtSend, hosted_send_mgmt_accept, MgmtTimer, MgmtUntimed,
         hosted_mgmt_mark_accepted, MgmtStatus, process_mgmt_tx_unmarked,
         UnmarkedSend, mgmt_txcb, sta_rx_auth, TimerTask, hosted_mgmt_timeout_cb,
         hosted_mgmt_finish_owned
  <2>2. QED
    BY <1>a, <2>1 DEF QueueKept
<1>11. QED
  BY <1>1, <1>2, <1>3, <1>4, <1>5, <1>6, <1>7, <1>8, <1>9, <1>10
  DEF BarrierStep, ScanStep, Next, EventLoop, WifiStop, WifiStart, Scan, Auth,
      Session, Interface, Mode, Mgmt, CommandTask, WifiTask

\* What is left of Next is calm, or dispatches an event.
LEMMA CalmSteps ==
    ASSUME TypeOK, ControlInv, RadioInv, Next
    PROVE  BarrierStep \/ ScanStep \/ EventLoop \/ Calm
<1> SUFFICES ASSUME ~BarrierStep, ~ScanStep, ~EventLoop PROVE Calm
  OBVIOUS
<1>1. sc' = sc
  BY ZenonT(60) DEF esp_cmd_dispatch, HostGivesUp, send_command_resp, StartFailed,
      process_monitor_config, process_auth_request, AuthBssid, AuthDone,
      process_assoc_request, process_sta_connect, ConnectStarted,
      process_disconnect, process_init_interface, process_deinit_interface,
      DeinitRetires, MonitorRebuild, DeinitDone, process_set_mode,
      process_set_ap_config, ModeStopped, ModeCallback, ModeDone, ModeRollback,
      ModeRolledBack, process_mgmt_tx, MgmtSend, hosted_send_mgmt_accept,
      MgmtTimer, MgmtUntimed, hosted_mgmt_mark_accepted, MgmtStatus, process_mgmt_tx_unmarked,
      UnmarkedSend, mgmt_txcb, sta_rx_auth, AssocResponse, LibConnected,
      LibDisconnected, TimerTask, hosted_mgmt_timeout_cb, hosted_mgmt_finish_owned,
      BarrierStep, ScanStep, Next, WifiStop, WifiStart, Scan, Auth, Session,
      Interface, Mode, Mgmt, CommandTask, EventLoop, WifiTask
<1>2. ~OnStaStop /\ ~hosted_scan_fence_handler
  BY DEF EventLoop
<1>3. QED
  BY <1>1, <1>2, StaysSteps, LibKeptSteps, FlagsKeptSteps, QueueKeptSteps DEF Calm

-----------------------------------------------------------------------------
(* Without the library nothing starts *)

\* Steps outside the stop and the start that need no initialised library.
OuterPcs == Pcs \ (InitedPcs \union StartPcs \union StopPcs)

\* Commands, and the steps of the handlers that stop the Wi-Fi, are such steps.
LEMMA OuterFacts ==
    /\ {"resp", "idle", "authBss", "authSend", "authLookup", "authDone", "retire",
        "scanStart", "rebuild", "deinit", "deinitialize", "mgmtSend", "mgmtAccept",
        "mgmtTimer", "mgmtUntimed", "mgmtAccepted", "mgmtStatus", "lgSend"} \subseteq OuterPcs
    /\ Commands \subseteq OuterPcs /\ CmdIdle.pc = "idle"
    /\ \A p \in OuterPcs : p \notin StopPcs \union StartPcs
  BY DEF OuterPcs, InitedPcs, Pcs, Commands, StopPcs, StartPcs, StopCallers,
         StartCallers, AfterAnswer, CmdIdle

\* Only deinitialize_wifi takes the library down.
LEMMA InitedKept ==
    ASSUME TypeOK, ControlInv, RadioInv, Next, ~deinitialize_wifi
    PROVE  lib'.inited = lib.inited
<1>a. lib \in LibRec
  BY Records
<1>1. CASE hosted_wifi_stop
  BY <1>1, <1>a DEF hosted_wifi_stop, hosted_scan_abort, LibRec
<1>2. CASE StopReturns
  BY <1>2, <1>a DEF StopReturns, StoppedLib, LibRec
<1>3. CASE hosted_wifi_start
  BY <1>3, <1>a DEF hosted_wifi_start, LibRec
<1>4. CASE LibStaStop \/ LibScanDone \/ ScanStart \/ AuthConnect
  BY ZenonT(60), <1>4, <1>a DEF LibStaStop, LibScanDone, ScanStart, AuthConnect, LibRec
<1>5. CASE StaStopAcked \/ PostFence \/ FenceAcked \/ StartReturns
           \/ process_start_scan \/ AuthSend \/ LibLookupDone
  BY ZenonT(60), <1>5 DEF StaStopAcked, PostFence, FenceAcked, StartReturns,
     process_start_scan, AuthSend, LibLookupDone
<1>6. QED
  BY <1>1, <1>2, <1>3, <1>4, <1>5, LibKeptSteps DEF LibKept, BarrierStep, ScanStep

\* No handler reaches esp_wifi_start once the library is deinitialised: the
\* commands that need it are refused, and a monitor rebuild restarts.
LEMMA InitedNext ==
    ASSUME TypeOK, ControlInv, RadioInv, InitedInv, [Next]_vars
    PROVE  InitedInv'
<1>0. CASE UNCHANGED vars
  BY <1>0 DEF vars, InitedInv
<1> SUFFICES ASSUME Next PROVE InitedInv'
  BY <1>0
<1>a. cmd \in CmdRec /\ cmd.pc \in Pcs
  BY Records DEF CmdRec
<1>b. CASE deinitialize_wifi
  <2>1. cmd'.pc = "idle"
    BY <1>b, OuterFacts DEF deinitialize_wifi
  <2>2. QED
    BY <2>1, OuterFacts DEF InitedInv, OuterPcs
<1> SUFFICES ASSUME ~deinitialize_wifi, up', ~lib'.inited PROVE InitedInv'
  BY <1>b DEF InitedInv
<1>c. ~lib.inited /\ up /\ ~lib.on /\ ~w.started
  BY InitedKept DEF Next, RadioInv
<1>d. /\ cmd.pc \notin InitedPcs \union StartPcs
      /\ cmd.pc \in StopPcs =>
           cmd.k \in {<<"deinitialize">>, <<"deinit">>, <<"rebuild">>}
  BY <1>c DEF InitedInv
<1>e. ASSUME cmd'.pc \in OuterPcs PROVE InitedInv'
  BY <1>e, OuterFacts DEF InitedInv, OuterPcs
<1>f. cmd.pc \notin StopPcs \union StartPcs => cmd.k = <<>>
  BY DEF ControlInv
<1>g. {"deinitialize", "deinit", "rebuild"} \subseteq Labels
  BY DEF Labels, StopCallers, StartCallers
<1>h. /\ <<"deinitialize">> \o <<>> = <<"deinitialize">>
      /\ <<"deinit">> \o <<>> = <<"deinit">> /\ <<"rebuild">> \o <<>> = <<"rebuild">>
      /\ Head(<<"deinitialize">>) = "deinitialize"
      /\ Head(<<"deinit">>) = "deinit" /\ Head(<<"rebuild">>) = "rebuild"
  BY <1>g, StackFacts
<1>i. ASSUME cmd'.pc \in StopPcs, cmd'.k \in {<<"deinitialize">>, <<"deinit">>, <<"rebuild">>}
      PROVE  InitedInv'
  BY <1>i DEF InitedInv, InitedPcs, StartPcs, StopPcs
<1>1. CASE ConnectStarted \/ ModeStopped \/ ModeCallback \/ ModeDone \/
          ModeRollback \/ ModeRolledBack \/ hosted_wifi_start \/
          StartReturns \/ StartFailed
  BY ZenonT(60), <1>1, <1>d DEF ConnectStarted, ModeStopped, ModeCallback, ModeDone,
     ModeRollback, ModeRolledBack, hosted_wifi_start, StartReturns, StartFailed,
     InitedPcs, StartPcs
<1>2. CASE HostGivesUp \/ OnStart \/ OnConnected \/ OnDisconnected \/ OnScanDone \/
          OnApStop \/ OnStaStop \/ hosted_scan_fence_handler \/ mgmt_txcb \/
          sta_rx_auth \/ AssocResponse \/ LibConnected \/ LibDisconnected \/
          LibScanDone \/ LibLookupDone \/ LibStaStop \/
          TimerTask \/ hosted_mgmt_finish_owned
  <2>1. cmd' = cmd
    BY ZenonT(60), <1>2 DEF HostGivesUp, OnStart, OnConnected, OnDisconnected,
         OnScanDone, OnApStop, OnStaStop, hosted_scan_fence_handler, mgmt_txcb,
         sta_rx_auth, AssocResponse, LibConnected, LibDisconnected, LibScanDone,
         LibLookupDone, LibStaStop, TimerTask, hosted_mgmt_timeout_cb,
         hosted_mgmt_finish_owned
  <2>2. QED
    BY <1>d, <2>1 DEF InitedInv
<1>3. CASE hosted_wifi_stop
  <2>1. cmd.pc = "stop" /\ cmd'.pc \in StopPcs /\ cmd'.k = cmd.k
    BY <1>3, <1>a DEF hosted_wifi_stop, StopPcs, CmdRec
  <2>2. QED
    BY <1>d, <1>i, <2>1 DEF StopPcs
<1>4. CASE StopReturns
  <2>1. cmd.pc = "esp_wifi_stop" /\ cmd'.pc \in StopPcs /\ cmd'.k = cmd.k
    BY <1>4, <1>a DEF StopReturns, StopPcs, CmdRec
  <2>2. QED
    BY <1>d, <1>i, <2>1 DEF StopPcs
<1>5. CASE StaStopAcked
  <2>1. cmd.pc = "stopAck" /\ cmd'.pc \in StopPcs /\ cmd'.k = cmd.k
    BY <1>5, <1>a DEF StaStopAcked, StopPcs, CmdRec
  <2>2. QED
    BY <1>d, <1>i, <2>1 DEF StopPcs
<1>6. CASE PostFence
  <2>1. cmd.pc = "fence" /\ cmd'.pc \in StopPcs /\ cmd'.k = cmd.k
    BY <1>6, <1>a DEF PostFence, StopPcs, CmdRec
  <2>2. QED
    BY <1>d, <1>i, <2>1 DEF StopPcs
<1>7. CASE FenceAcked
  <2>1. cmd.pc \in StopPcs
    BY <1>7 DEF FenceAcked, StopPcs
  <2>2. Head(cmd.k) \in {"deinitialize", "deinit", "rebuild"}
    BY <1>d, <1>h, <2>1
  <2>3. CASE w.ack
    <3>1. cmd'.pc = Head(cmd.k)
      BY <1>7, <1>a, <2>3 DEF FenceAcked, CmdRec
    <3>2. QED
      BY <1>e, <2>2, <3>1, OuterFacts
  <2>4. CASE ~w.ack
    BY <1>7, <2>4 DEF FenceAcked, Restart
  <2>5. QED
    BY <2>3, <2>4
<1>8. CASE esp_cmd_dispatch
  BY <1>8, <1>e, DispatchFacts, OuterFacts
<1>9. CASE send_command_resp
  <2>1. cmd.pc = "resp" /\ cmd.k = <<>>
    BY <1>9, <1>f DEF send_command_resp, StopPcs, StartPcs
  <2>2. CASE cmd' = CmdIdle
    BY <1>e, <2>2, OuterFacts
  <2>3. CASE cmd' = Call("stop", "deinitialize")
    <3>1. cmd'.pc = "stop" /\ cmd'.k = <<"deinitialize">>
      BY <1>a, <1>h, <2>1, <2>3 DEF CmdRec
    <3>2. QED
      BY <1>i, <3>1 DEF StopPcs
  <2>4. QED
    BY <1>9, <2>2, <2>3 DEF send_command_resp
<1>10. CASE process_start_scan
  <2>1. cmd'.pc \in OuterPcs
    BY <1>10, <1>a, <1>c, OuterFacts DEF process_start_scan, CmdRec
  <2>2. QED
    BY <1>e, <2>1
<1>11. CASE ScanStart
  <2>1. cmd'.pc \in OuterPcs
    BY <1>11, <1>a, <1>c, OuterFacts DEF ScanStart, CmdRec
  <2>2. QED
    BY <1>e, <2>1
<1>12. CASE process_monitor_config
  <2>1. cmd'.pc \in OuterPcs
    BY <1>12, <1>a, <1>c, OuterFacts DEF process_monitor_config, CmdRec
  <2>2. QED
    BY <1>e, <2>1
<1>13. CASE process_auth_request
  <2>1. cmd'.pc \in OuterPcs
    BY <1>13, <1>a, <1>c, OuterFacts DEF process_auth_request, CmdRec
  <2>2. QED
    BY <1>e, <2>1
<1>14. CASE AuthBssid
  <2>1. cmd'.pc \in OuterPcs
    BY <1>14, <1>a, <1>c, OuterFacts DEF AuthBssid, CmdRec
  <2>2. QED
    BY <1>e, <2>1
<1>15. CASE AuthSend
  <2>1. cmd'.pc \in OuterPcs
    BY <1>15, <1>a, <1>c, OuterFacts DEF AuthSend, CmdRec
  <2>2. QED
    BY <1>e, <2>1
<1>16. CASE AuthConnect
  <2>1. cmd'.pc \in OuterPcs
    BY <1>16, <1>a, <1>c, OuterFacts DEF AuthConnect, CmdRec
  <2>2. QED
    BY <1>e, <2>1
<1>17. CASE AuthDone
  <2>1. cmd'.pc \in OuterPcs
    BY <1>17, <1>a, <1>c, OuterFacts DEF AuthDone, CmdRec
  <2>2. QED
    BY <1>e, <2>1
<1>18. CASE process_assoc_request
  <2>1. cmd'.pc \in OuterPcs
    BY <1>18, <1>a, <1>c, OuterFacts DEF process_assoc_request, CmdRec
  <2>2. QED
    BY <1>e, <2>1
<1>19. CASE process_sta_connect
  <2>1. cmd'.pc \in OuterPcs
    BY <1>19, <1>a, <1>c, OuterFacts DEF process_sta_connect, CmdRec
  <2>2. QED
    BY <1>e, <2>1
<1>20. CASE process_disconnect
  <2>1. cmd'.pc \in OuterPcs
    BY <1>20, <1>a, <1>c, OuterFacts DEF process_disconnect, CmdRec
  <2>2. QED
    BY <1>e, <2>1
<1>21. CASE process_init_interface
  <2>1. cmd'.pc \in OuterPcs
    BY <1>21, <1>a, <1>c, OuterFacts DEF process_init_interface, CmdRec
  <2>2. QED
    BY <1>e, <2>1
<1>22. CASE process_deinit_interface
  <2>1. cmd'.pc \in OuterPcs
    BY <1>22, <1>a, <1>c, OuterFacts DEF process_deinit_interface, CmdRec
  <2>2. QED
    BY <1>e, <2>1
<1>23. CASE DeinitRetires
  <2>1. cmd.pc = "retire" /\ cmd.k = <<>>
    BY <1>23, <1>f DEF DeinitRetires, StopPcs, StartPcs
  <2>2. CASE cmd' = Respond
    BY <1>a, <1>e, <2>2, OuterFacts DEF CmdRec
  <2>3. CASE cmd' = Call("stop", "deinit") \/ cmd' = Call("stop", "rebuild")
    <3>1. cmd'.pc = "stop" /\ cmd'.k \in {<<"deinit">>, <<"rebuild">>}
      BY ZenonT(60), <1>a, <1>h, <2>1, <2>3 DEF CmdRec
    <3>2. QED
      BY <1>i, <3>1 DEF StopPcs
  <2>4. QED
    BY <1>23, <2>2, <2>3 DEF DeinitRetires
<1>24. CASE MonitorRebuild
  BY <1>24, <1>c DEF MonitorRebuild
<1>25. CASE DeinitDone
  <2>1. cmd'.pc \in OuterPcs
    BY <1>25, <1>a, <1>c, OuterFacts DEF DeinitDone, CmdRec
  <2>2. QED
    BY <1>e, <2>1
<1>26. CASE process_set_mode
  <2>1. cmd'.pc \in OuterPcs
    BY <1>26, <1>a, <1>c, OuterFacts DEF process_set_mode, CmdRec
  <2>2. QED
    BY <1>e, <2>1
<1>27. CASE process_set_ap_config
  <2>1. cmd'.pc \in OuterPcs
    BY <1>27, <1>a, <1>c, OuterFacts DEF process_set_ap_config, CmdRec
  <2>2. QED
    BY <1>e, <2>1
<1>28. CASE process_mgmt_tx
  <2>1. cmd'.pc \in OuterPcs
    BY <1>28, <1>a, <1>c, OuterFacts DEF process_mgmt_tx, CmdRec
  <2>2. QED
    BY <1>e, <2>1
<1>29. CASE MgmtSend
  <2>1. cmd'.pc \in OuterPcs
    BY <1>29, <1>a, <1>c, OuterFacts DEF MgmtSend, CmdRec
  <2>2. QED
    BY <1>e, <2>1
<1>30. CASE hosted_send_mgmt_accept
  <2>1. cmd'.pc \in OuterPcs
    BY <1>30, <1>a, <1>c, OuterFacts DEF hosted_send_mgmt_accept, CmdRec
  <2>2. QED
    BY <1>e, <2>1
<1>31. CASE MgmtTimer \/ MgmtUntimed
  <2>1. cmd'.pc \in OuterPcs
    BY <1>31, <1>a, <1>c, OuterFacts DEF MgmtTimer, MgmtUntimed, CmdRec
  <2>2. QED
    BY <1>e, <2>1
<1>32. CASE hosted_mgmt_mark_accepted
  <2>1. cmd'.pc \in OuterPcs
    BY <1>32, <1>a, <1>c, OuterFacts DEF hosted_mgmt_mark_accepted, CmdRec
  <2>2. QED
    BY <1>e, <2>1
<1>33. CASE MgmtStatus
  <2>1. cmd'.pc \in OuterPcs
    BY <1>33, <1>a, <1>c, OuterFacts DEF MgmtStatus, CmdRec
  <2>2. QED
    BY <1>e, <2>1
<1>34. CASE process_mgmt_tx_unmarked
  <2>1. cmd'.pc \in OuterPcs
    BY <1>34, <1>a, <1>c, OuterFacts DEF process_mgmt_tx_unmarked,
         mgmt_tx_inflight_begin, CmdRec
  <2>2. QED
    BY <1>e, <2>1
<1>35. CASE UnmarkedSend
  <2>1. cmd'.pc \in OuterPcs
    BY <1>35, <1>a, <1>c, OuterFacts DEF UnmarkedSend, CmdRec
  <2>2. QED
    BY <1>e, <2>1
<1>36. QED
  BY <1>1, <1>2, <1>3, <1>4, <1>5, <1>6, <1>7, <1>8, <1>9, <1>10, <1>11, <1>12,
     <1>13, <1>14, <1>15, <1>16, <1>17, <1>18, <1>19, <1>20, <1>21, <1>22, <1>23,
     <1>24, <1>25, <1>26, <1>27, <1>28, <1>29, <1>30, <1>31, <1>32, <1>33, <1>34,
     <1>35
  DEF Next, WifiStop, WifiStart, Scan, Auth, Session, Interface, Mode, Mgmt,
      CommandTask, EventLoop, WifiTask

-----------------------------------------------------------------------------
(* What a step of the queue does to the events the invariants speak of *)

\* Where the waiting events of the three kinds are.
PostedRange ==
    /\ \A i \in Posted("FENCE") : i \in 1..Len(evq) /\ evq[i].k = "FENCE"
    /\ \A i \in Posted("STA_STOP") : i \in 1..Len(evq) /\ evq[i].k = "STA_STOP"
    /\ \A i \in Posted("SCAN_DONE") : i \in 1..Len(evq) /\ evq[i].k = "SCAN_DONE"
    /\ evq = <<>> =>
         Posted("FENCE") = {} /\ Posted("STA_STOP") = {} /\ Posted("SCAN_DONE") = {}

\* They are indices of the queue.
LEMMA PostedFacts ==
    ASSUME evq \in Seq(Events)
    PROVE  PostedRange /\ Len(evq) \in Nat
  BY DEF PostedRange, Posted

\* Plain events, and steps that leave the queue, post none of these kinds.
PostedSame ==
    /\ Posted("FENCE")' = Posted("FENCE")
    /\ Posted("STA_STOP")' = Posted("STA_STOP")
    /\ Posted("SCAN_DONE")' = Posted("SCAN_DONE")

\* A queue that plain events extend is such a queue.
LEMMA PostedExtends ==
    ASSUME evq \in Seq(Events), Extends(evq, evq')
    PROVE  PostedSame
<1>1. /\ Len(evq) \in Nat /\ Len(evq') \in Nat /\ Len(evq') >= Len(evq)
      /\ \A i \in 1..Len(evq) : evq'[i] = evq[i]
      /\ \A i \in 1..Len(evq') : i > Len(evq) => evq'[i].k \in PlainKinds
  BY DEF Extends
<1>2. \A i \in 1..Len(evq') :
        evq'[i].k \notin PlainKinds => i \in 1..Len(evq) /\ evq'[i] = evq[i]
  BY <1>1
<1>3. "FENCE" \notin PlainKinds /\ "STA_STOP" \notin PlainKinds
      /\ "SCAN_DONE" \notin PlainKinds
  BY DEF PlainKinds
<1>4. QED
  BY <1>1, <1>2, <1>3 DEF PostedSame, Posted

\* esp_event_post puts an event behind all others.
LEMMA PostedPost ==
    ASSUME evq \in Seq(Events), NEW e \in Events, evq' = Append(evq, e)
    PROVE  /\ Posted("FENCE")' = IF e.k = "FENCE" THEN Posted("FENCE") \union {Len(evq) + 1}
                                 ELSE Posted("FENCE")
           /\ Posted("STA_STOP")' =
                IF e.k = "STA_STOP" THEN Posted("STA_STOP") \union {Len(evq) + 1}
                ELSE Posted("STA_STOP")
           /\ Posted("SCAN_DONE")' =
                IF e.k = "SCAN_DONE" THEN Posted("SCAN_DONE") \union {Len(evq) + 1}
                ELSE Posted("SCAN_DONE")
           /\ Len(evq') = Len(evq) + 1 /\ evq'[Len(evq) + 1] = e
           /\ \A i \in 1..Len(evq) : evq'[i] = evq[i]
<1>1. /\ Len(evq) \in Nat /\ Len(evq') = Len(evq) + 1 /\ evq'[Len(evq) + 1] = e
      /\ \A i \in 1..Len(evq) : evq'[i] = evq[i]
  BY PostFacts
<1>2. \A i : i \in 1..Len(evq') <=> i \in 1..Len(evq) \/ i = Len(evq) + 1
  BY <1>1
<1>3. QED
  BY <1>1, <1>2 DEF Posted

\* The loop takes the first event, and the others move up.
LEMMA PostedPop ==
    ASSUME evq \in Seq(Events), evq # <<>>, evq' = Tail(evq)
    PROVE  /\ \A i \in Posted("FENCE")' : i + 1 \in Posted("FENCE")
           /\ \A i \in Posted("STA_STOP")' : i + 1 \in Posted("STA_STOP")
           /\ \A i \in Posted("SCAN_DONE")' : i + 1 \in Posted("SCAN_DONE")
           /\ Head(evq).k = "FENCE" => 1 \in Posted("FENCE")
           /\ Head(evq).k = "STA_STOP" => 1 \in Posted("STA_STOP")
           /\ Head(evq).k = "SCAN_DONE" => 1 \in Posted("SCAN_DONE")
           /\ Len(evq) \in Nat /\ Len(evq') = Len(evq) - 1 /\ Head(evq) = evq[1]
           /\ \A i \in 1..Len(evq') : evq'[i] = evq[i + 1] /\ i + 1 \in 1..Len(evq)
           /\ Len(evq) = 1 => evq' = <<>>
<1>1. /\ Len(evq) \in Nat /\ Len(evq) > 0 /\ Len(evq') = Len(evq) - 1 /\ Head(evq) = evq[1]
      /\ \A i \in 1..Len(evq') : evq'[i] = evq[i + 1] /\ i + 1 \in 1..Len(evq)
      /\ Len(evq) = 1 => evq' = <<>>
  BY PopFacts
<1>2. QED
  BY <1>1 DEF Posted

-----------------------------------------------------------------------------
(* The radio and the flag of the command task *)

\* Calm steps keep the radio as it is.
LEMMA CalmRadio ==
    ASSUME TypeOK, RadioInv, Calm
    PROVE  RadioInv'
  BY DEF RadioInv, Calm, Stays, LibKept, FlagsKept, CalmPcs, StartPcs, StartCallers

\* Every step keeps w.started and the radio in agreement: hosted_wifi_start and
\* hosted_wifi_stop change both, and nothing is in flight on a stopped radio.
LEMMA RadioNext ==
    ASSUME TypeOK, ControlInv, RadioInv, InitedInv, [Next]_vars
    PROVE  RadioInv'
<1>0. CASE UNCHANGED vars
  BY <1>0 DEF vars, RadioInv
<1> SUFFICES ASSUME Next PROVE RadioInv'
  BY <1>0
<1>a. /\ cmd \in CmdRec /\ w \in FlagRec /\ lib \in LibRec /\ sc \in ScanRec
      /\ up /\ NoSeq = 0
  BY Records DEF Next, NoSeq
<1>b. CmdIdle.pc = "idle"
  BY DEF CmdIdle
<1>1. CASE hosted_wifi_stop
  <2>1. cmd.pc = "stop" /\ cmd'.pc = "esp_wifi_stop" /\ w'.started = w.started
    BY <1>1, <1>a DEF hosted_wifi_stop, CmdRec, FlagRec
  <2>2. /\ lib'.on = lib.on /\ lib'.inited = lib.inited /\ lib'.conn = lib.conn
        /\ lib'.scan \in {lib.scan, NoSeq}
    BY <1>1, <1>a DEF hosted_wifi_stop, hosted_scan_abort, LibRec
  <2>3. QED
    BY <2>1, <2>2 DEF RadioInv
<1>2. CASE StopReturns
  <2>1. cmd.pc = "esp_wifi_stop" /\ cmd'.pc \in {"stopAck", "fence"}
    BY <1>2, <1>a DEF StopReturns, CmdRec
  <2>2. \/ w' = w /\ lib' = lib
        \/ /\ ~w'.started /\ ~lib'.on /\ lib'.conn = "idle" /\ lib'.scan = NoSeq
    BY ZenonT(60), <1>2, <1>a DEF StopReturns, StoppedLib, FlagRec, LibRec
  <2>3. QED
    BY <2>1, <2>2 DEF RadioInv
<1>3. CASE StaStopAcked \/ PostFence
  <2>1. /\ cmd.pc \in {"stopAck", "fence"} /\ cmd'.pc \in {"stopAck", "fence", "fenceAck"}
        /\ w'.started = w.started /\ lib' = lib
    BY <1>3, <1>a DEF StaStopAcked, PostFence, CmdRec, FlagRec
  <2>2. QED
    BY <2>1 DEF RadioInv
<1>4. CASE FenceAcked
  <2>1. cmd.pc = "fenceAck" /\ w'.started = w.started /\ lib' = lib
    BY <1>4, <1>a DEF FenceAcked, FlagRec
  <2>2. cmd'.pc \in StopCallers \union {"startFailed", "fenceAck"}
    <3>1. Head(cmd.k) \in StopCallers \union {"startFailed"}
      <4>1. CASE \E c \in StopCallers : cmd.k = <<c>>
        BY <4>1, SubFacts, StackFacts
      <4>2. CASE \E c \in StartCallers : cmd.k = <<"startFailed", c>>
        BY <4>2, SubFacts, StackFacts DEF Labels
      <4>3. QED
        BY <2>1, <4>1, <4>2 DEF ControlInv, StopPcs
    <3>2. QED
      BY <1>4, <1>a, <2>1, <3>1 DEF FenceAcked, CmdRec
  <2>3. QED
    BY <2>1, <2>2 DEF RadioInv, StopCallers
<1>5. CASE hosted_wifi_start
  <2>1. cmd.pc = "start" /\ w' = w
    BY <1>5 DEF hosted_wifi_start
  <2>2. lib.inited
    BY <1>a, <2>1 DEF InitedInv, StartPcs
  <2>3. PICK c \in StartCallers : cmd.k = <<c>>
    BY <2>1 DEF ControlInv, StartPcs
  <2>4. Head(cmd.k) = c
    BY <2>3, SubFacts, StackFacts
  <2>5. \/ cmd'.pc = c /\ cmd'.err /\ lib' = lib
        \/ /\ cmd'.pc = "started" /\ lib'.on /\ lib'.inited = lib.inited
    BY <1>5, <1>a, <2>4 DEF hosted_wifi_start, CmdRec, LibRec
  <2>6. QED
    BY <2>1, <2>2, <2>5 DEF RadioInv, StartCallers
<1>6. CASE StartReturns
  <2>1. cmd.pc = "started" /\ lib' = lib /\ w'.started
    BY <1>6, <1>a DEF StartReturns, FlagRec
  <2>2. PICK c \in StartCallers : cmd.k = <<c>>
    BY <2>1 DEF ControlInv, StartPcs
  <2>3. Head(cmd.k) = c
    BY <2>2, SubFacts, StackFacts
  <2>4. cmd'.pc \in {c, "stop"}
    BY <1>6, <1>a, <2>3 DEF StartReturns, CmdRec
  <2>5. QED
    BY <2>1, <2>4 DEF RadioInv, StartCallers
<1>7. CASE deinitialize_wifi
  <2>1. /\ cmd.pc = "deinitialize" /\ cmd'.pc = "idle" /\ w' = w
        /\ lib'.on = lib.on /\ lib'.conn = lib.conn /\ lib'.scan = lib.scan
        /\ lib.on => lib'.inited = lib.inited
    BY <1>7, <1>a, <1>b DEF deinitialize_wifi, LibRec
  <2>2. QED
    BY <2>1 DEF RadioInv
<1>8. CASE LibStaStop \/ LibScanDone \/ LibLookupDone
  <2>1. /\ cmd' = cmd /\ w' = w /\ lib'.on = lib.on /\ lib'.inited = lib.inited
        /\ lib'.conn = lib.conn /\ lib'.scan \in {lib.scan, NoSeq}
    BY <1>8, <1>a DEF LibStaStop, LibScanDone, LibLookupDone, LibRec
  <2>2. QED
    BY <2>1 DEF RadioInv
<1>9. CASE process_start_scan
  <2>1. /\ cmd.pc = "SCAN" /\ w' = w /\ lib' = lib
        /\ cmd'.pc = "resp" \/ (cmd'.pc = "scanStart" /\ w.started)
    BY <1>9, <1>a DEF process_start_scan, CmdRec
  <2>2. QED
    BY <2>1 DEF RadioInv
<1>10. CASE ScanStart
  <2>1. /\ cmd.pc = "scanStart" /\ cmd'.pc = "resp" /\ w' = w
        /\ lib'.on = lib.on /\ lib'.inited = lib.inited
    BY <1>10, <1>a DEF ScanStart, CmdRec, LibRec
  <2>2. QED
    BY <2>1 DEF RadioInv
<1>11. CASE AuthSend
  <2>1. /\ cmd.pc = "authSend" /\ cmd'.pc \in {"resp", "authDone", "authLookup"}
        /\ w' = w /\ lib' = lib
    BY <1>11, <1>a DEF AuthSend, CmdRec
  <2>2. QED
    BY <2>1 DEF RadioInv
<1>12. CASE AuthConnect
  <2>1. /\ cmd.pc = "authLookup" /\ cmd'.pc \in {"resp", "authDone"} /\ w' = w
        /\ lib'.on = lib.on /\ lib'.inited = lib.inited /\ lib'.scan = lib.scan
        /\ lib'.conn = lib.conn \/ lib.on
    BY <1>12, <1>a DEF AuthConnect, CmdRec, LibRec
  <2>2. QED
    BY <2>1 DEF RadioInv
<1>13. CASE EventLoop
  <2>1. cmd' = cmd /\ lib' = lib
    BY ZenonT(60), <1>13 DEF EventLoop, OnStart, OnConnected, OnDisconnected,
       OnScanDone, OnApStop, OnStaStop, hosted_scan_fence_handler
  <2>2. w'.started = w.started
    BY <1>13, <1>a DEF EventLoop, OnStart, OnConnected, OnDisconnected,
       OnScanDone, OnApStop, OnStaStop, hosted_scan_fence_handler, FlagRec
  <2>3. QED
    BY <2>1, <2>2 DEF RadioInv
<1>14. QED
  BY <1>1, <1>2, <1>3, <1>4, <1>5, <1>6, <1>7, <1>8, <1>9, <1>10, <1>11, <1>12, <1>13,
     CalmSteps, CalmRadio DEF BarrierStep, ScanStep

-----------------------------------------------------------------------------
(* The barrier *)

\* What esp_wifi_stop posts: plain events, and the completion of a scan that
\* nobody aborted before.
LEMMA StoppedFacts ==
    ASSUME LibType, evq \in Seq(Events), NEW q, q = evq \o StoppedEvents
    PROVE  /\ q \in Seq(Events) /\ Len(q) \in Nat /\ Len(evq) \in Nat /\ Len(q) >= Len(evq)
           /\ \A i \in 1..Len(evq) : q[i] = evq[i]
           /\ \A i \in 1..Len(q) : i > Len(evq) =>
                /\ q[i].inc = lib.inc /\ q[i].k \in PlainKinds \union {"SCAN_DONE"}
                /\ lib.scan = NoSeq => q[i].k \in PlainKinds
<1> DEFINE a == IF lib.conn # "idle" THEN <<Event("DISCONNECTED", NoSeq)>> ELSE <<>>
           b == IF lib.scan # NoSeq THEN <<Event("SCAN_DONE", lib.scan)>> ELSE <<>>
           c == IF lib.on /\ lib.mode = "APSTA" THEN <<Event("AP_STOP", NoSeq)>>
                ELSE <<>>
           Good(t) == /\ t \in Seq(Events)
                      /\ \A i \in 1..Len(t) :
                           /\ t[i].inc = lib.inc
                           /\ t[i].k \in PlainKinds \union {"SCAN_DONE"}
                           /\ lib.scan = NoSeq => t[i].k \in PlainKinds
<1>1. /\ Event("DISCONNECTED", NoSeq) \in Events
      /\ Event("SCAN_DONE", lib.scan) \in Events
      /\ Event("AP_STOP", NoSeq) \in Events
  BY EventFacts, SeqFacts DEF LibType
<1>2. Good(a) /\ Good(b) /\ Good(c)
  BY <1>1 DEF Event, PlainKinds
<1>3. ASSUME NEW t, NEW u, Good(t), Good(u) PROVE Good(t \o u)
  <2>1. /\ t \o u \in Seq(Events) /\ Len(t \o u) = Len(t) + Len(u)
        /\ Len(t) \in Nat /\ Len(u) \in Nat
        /\ \A i \in 1..Len(t) : (t \o u)[i] = t[i]
        /\ \A i \in 1..Len(t \o u) : i > Len(t) =>
             i - Len(t) \in 1..Len(u) /\ (t \o u)[i] = u[i - Len(t)]
    BY <1>3
  <2>2. QED
    BY <1>3, <2>1
<1>4. StoppedEvents = (a \o b) \o c
  BY DEF StoppedEvents
<1> HIDE DEF a, b, c, Good
<1>5. Good(StoppedEvents)
  BY <1>2, <1>3, <1>4
<1>6. /\ StoppedEvents \in Seq(Events)
      /\ \A i \in 1..Len(StoppedEvents) :
           /\ StoppedEvents[i].inc = lib.inc
           /\ StoppedEvents[i].k \in PlainKinds \union {"SCAN_DONE"}
           /\ lib.scan = NoSeq => StoppedEvents[i].k \in PlainKinds
  BY <1>5 DEF Good
<1>7. /\ q \in Seq(Events) /\ Len(q) = Len(evq) + Len(StoppedEvents)
      /\ Len(evq) \in Nat /\ Len(StoppedEvents) \in Nat
      /\ \A i \in 1..Len(evq) : q[i] = evq[i]
      /\ \A i \in 1..Len(q) : i > Len(evq) =>
           /\ i - Len(evq) \in 1..Len(StoppedEvents)
           /\ q[i] = StoppedEvents[i - Len(evq)]
  BY <1>6
<1>8. QED
  BY <1>6, <1>7

\* A stop posts no STA_STOP and no fence itself.
LEMMA StoppedPosted ==
    ASSUME LibType, evq \in Seq(Events), evq' = evq \o StoppedEvents
    PROVE  /\ Posted("FENCE")' = Posted("FENCE")
           /\ Posted("STA_STOP")' = Posted("STA_STOP")
           /\ lib.scan = NoSeq => Posted("SCAN_DONE")' = Posted("SCAN_DONE")
           /\ lib.scan = NoSeq => \A i \in Posted("SCAN_DONE") : evq'[i] = evq[i]
           /\ (\A i \in 1..Len(evq) : evq[i].inc = lib.inc) =>
                \A i \in 1..Len(evq') : evq'[i].inc = lib.inc
<1>1. /\ Len(evq') \in Nat /\ Len(evq) \in Nat /\ Len(evq') >= Len(evq)
      /\ \A i \in 1..Len(evq) : evq'[i] = evq[i]
      /\ \A i \in 1..Len(evq') : i > Len(evq) =>
           /\ evq'[i].inc = lib.inc /\ evq'[i].k \in PlainKinds \union {"SCAN_DONE"}
           /\ lib.scan = NoSeq => evq'[i].k \in PlainKinds
  BY StoppedFacts
<1>2. "FENCE" \notin PlainKinds \union {"SCAN_DONE"}
      /\ "STA_STOP" \notin PlainKinds \union {"SCAN_DONE"} /\ "SCAN_DONE" \notin PlainKinds
  BY DEF PlainKinds
<1>3. \A i \in 1..Len(evq') : evq'[i].k \notin PlainKinds \union {"SCAN_DONE"} =>
        i \in 1..Len(evq) /\ evq'[i] = evq[i]
  BY <1>1
<1>4. \A i \in 1..Len(evq') : lib.scan = NoSeq /\ evq'[i].k \notin PlainKinds =>
        i \in 1..Len(evq) /\ evq'[i] = evq[i]
  BY <1>1
<1>5. /\ Posted("FENCE")' = Posted("FENCE")
      /\ Posted("STA_STOP")' = Posted("STA_STOP")
  BY <1>1, <1>2, <1>3 DEF Posted
<1>6. lib.scan = NoSeq => Posted("SCAN_DONE")' = Posted("SCAN_DONE")
  BY <1>1, <1>2, <1>4 DEF Posted
<1>7. \A i \in Posted("SCAN_DONE") : evq'[i] = evq[i]
  BY <1>1 DEF Posted
<1>8. (\A i \in 1..Len(evq) : evq[i].inc = lib.inc) =>
        \A i \in 1..Len(evq') : evq'[i].inc = lib.inc
  BY <1>1
<1>9. QED
  BY <1>5, <1>6, <1>7, <1>8

\* A start of a stopped radio finds the queue empty, and posts plain events of
\* the new incarnation.
LEMMA StartedPosted ==
    ASSUME NEW mode, NEW n \in Nat, evq' = <<>> \o StartedEvents(mode, n)
    PROVE  /\ Posted("FENCE")' = {} /\ Posted("STA_STOP")' = {} /\ Posted("SCAN_DONE")' = {}
           /\ \A i \in 1..Len(evq') : evq'[i].inc = n
<1> DEFINE e == [k |-> "STA_START", inc |-> n, id |-> NoSeq]
           f == [k |-> "AP_START", inc |-> n, id |-> NoSeq]
<1>1. e \in Events /\ f \in Events
  BY SeqFacts DEF Events
<1>2. StartedEvents(mode, n) \in {<<e>> \o <<f>>, <<e>> \o <<>>}
  BY DEF StartedEvents
<1>3. /\ e.inc = n /\ f.inc = n
      /\ e.k = "STA_START" /\ f.k = "AP_START"
  OBVIOUS
<1> HIDE DEF e, f
<1>4. \A t \in {<<e>> \o <<f>>, <<e>> \o <<>>} :
        /\ <<>> \o t \in Seq(Events) /\ Len(<<>> \o t) \in Nat
        /\ \A i \in 1..Len(<<>> \o t) : (<<>> \o t)[i] \in {e, f}
  <2>1. <<e>> \o <<f>> \in Seq({e, f}) /\ <<e>> \o <<>> \in Seq({e, f})
    OBVIOUS
  <2>2. \A t \in Seq({e, f}) : <<>> \o t \in Seq({e, f})
    OBVIOUS
  <2>3. \A t \in Seq({e, f}) : /\ Len(t) \in Nat /\ \A i \in 1..Len(t) : t[i] \in {e, f}
    OBVIOUS
  <2>4. {e, f} \subseteq Events
    BY <1>1
  <2>5. \A t \in Seq({e, f}) : t \in Seq(Events)
    BY <2>4, SeqDef
  <2>6. QED
    BY <2>1, <2>2, <2>3, <2>5
<1>5. /\ evq' \in Seq(Events) /\ Len(evq') \in Nat
      /\ \A i \in 1..Len(evq') : evq'[i] \in {e, f}
  BY <1>2, <1>4
<1>6. QED
  BY <1>3, <1>5 DEF Posted

\* Calm steps neither end nor cross a stop.
LEMMA CalmFence ==
    ASSUME TypeOK, FenceInv, Calm
    PROVE  FenceInv'
<1>a. evq \in Seq(Events) /\ PostedRange /\ PostedSame /\ Len(evq) \in Nat
  BY Records, PostedFacts, PostedExtends DEF Calm, QueueKept
<1>1. \A i \in 1..Len(evq') : evq'[i].inc = lib'.inc
  <2>1. /\ Len(evq) \in Nat /\ Len(evq') \in Nat /\ Len(evq') >= Len(evq)
        /\ \A i \in 1..Len(evq) : evq'[i] = evq[i]
        /\ \A i \in 1..Len(evq') : i > Len(evq) => evq'[i].inc = lib.inc
    BY <1>a DEF Calm, QueueKept, Extends
  <2>2. QED
    BY <2>1 DEF FenceInv, Calm, LibKept
<1>2. CASE cmd' = cmd
  BY <1>a, <1>1, <1>2 DEF FenceInv, Calm, LibKept, FlagsKept, QueueKept, PostedSame
<1>3. CASE cmd.pc \notin StopPcs /\ cmd'.pc \in CalmPcs \union StartCallers
  BY <1>a, <1>1, <1>3
  DEF FenceInv, Calm, LibKept, FlagsKept, QueueKept, PostedSame, CalmPcs,
      StartCallers, StopPcs
<1>4. QED
  BY <1>2, <1>3 DEF Calm, Stays, StopPcs

\* An event that is dispatched leaves the barrier as it was; STA_STOP and the
\* fence acknowledge the step that waits for them.
LEMMA DispatchFence ==
    ASSUME TypeOK, FenceInv, EventLoop
    PROVE  FenceInv'
<1>a. /\ evq \in Seq(Events) /\ w \in FlagRec
      /\ lib \in LibRec
  BY Records
<1>b. cmd' = cmd /\ lib' = lib /\ evq # <<>> /\ evq' = Tail(evq)
  BY ZenonT(60) DEF EventLoop, OnStart, OnConnected, OnDisconnected, OnScanDone,
     OnApStop, OnStaStop, hosted_scan_fence_handler, Dispatched
<1>c. /\ \A i \in Posted("FENCE")' : i + 1 \in Posted("FENCE")
      /\ \A i \in Posted("STA_STOP")' : i + 1 \in Posted("STA_STOP")
      /\ Head(evq).k = "FENCE" => 1 \in Posted("FENCE")
      /\ Head(evq).k = "STA_STOP" => 1 \in Posted("STA_STOP")
      /\ Len(evq) \in Nat /\ Len(evq') = Len(evq) - 1
      /\ \A i \in 1..Len(evq') : evq'[i] = evq[i + 1] /\ i + 1 \in 1..Len(evq)
      /\ Len(evq) = 1 => evq' = <<>>
  BY <1>a, <1>b, PostedPop
<1>d. PostedRange /\ PostedRange'
  BY <1>a, <1>b, PopFacts, PostedFacts DEF PostedRange, Posted
<1>e. /\ \A i \in 1..Len(evq') : evq'[i].inc = lib'.inc
      /\ \A i, j \in Posted("FENCE")' : i = j
      /\ Posted("FENCE")' # {} => Posted("FENCE") # {}
      /\ Posted("STA_STOP")' # {} => Posted("STA_STOP") # {}
      /\ Posted("FENCE") \subseteq {Len(evq)} => Posted("FENCE")' \subseteq {Len(evq')}
  <2>1. \A i, j \in Posted("FENCE")' : i = j
    <3>1. \A i \in Posted("FENCE")' : i \in Nat /\ i + 1 \in Posted("FENCE")
      BY <1>c, <1>d DEF PostedRange
    <3>2. QED
      BY <3>1 DEF FenceInv
  <2>2. Posted("FENCE") \subseteq {Len(evq)} => Posted("FENCE")' \subseteq {Len(evq')}
    <3>1. \A i \in Posted("FENCE")' : i \in Nat /\ i + 1 \in Posted("FENCE")
      BY <1>c, <1>d DEF PostedRange
    <3>2. QED
      BY <1>c, <3>1
  <2>3. QED
    BY <1>b, <1>c, <2>1, <2>2 DEF FenceInv
<1>1. CASE OnStaStop
  <2>1. /\ Posted("STA_STOP") # {}
        /\ w'.ack = (w.ack \/ w.ackPend) /\ w'.ackPend = FALSE
    BY <1>1, <1>a, <1>c DEF OnStaStop, Dispatched, FlagRec
  <2>2. /\ ~lib.on /\ lib.staStop = 0 /\ cmd.pc \in StopPcs
    BY <1>b, <2>1 DEF FenceInv
  <2>3. cmd.pc \in {"esp_wifi_stop", "fenceAck"} => ~w'.ack
    BY <1>b, <2>1, <2>2 DEF FenceInv
  <2>4. QED
    BY <1>b, <1>e, <2>1, <2>2, <2>3 DEF FenceInv
<1>2. CASE hosted_scan_fence_handler
  <2>1. 1 \in Posted("FENCE") /\ w'.ack = TRUE /\ w'.ackPend = w.ackPend
    BY <1>2, <1>a, <1>c DEF hosted_scan_fence_handler, Dispatched, FlagRec
  <2>2. cmd.pc = "fenceAck" /\ lib.staStop = 0 /\ ~w.ack
    BY <2>1 DEF FenceInv
  <2>3. Posted("FENCE")' = {}
    <3>1. \A i \in Posted("FENCE")' : i \in Nat \ {0} /\ i + 1 \in Posted("FENCE")
      BY <1>c, <1>d DEF PostedRange
    <3>2. QED
      BY <2>1, <3>1 DEF FenceInv
  <2>4. ~lib.on => evq' = <<>>
    BY <1>c, <2>1, <2>2 DEF FenceInv
  <2>5. QED
    BY <1>b, <1>e, <2>1, <2>2, <2>3, <2>4 DEF FenceInv, StopPcs
<1>3. CASE ~OnStaStop /\ ~hosted_scan_fence_handler
  <2>1. w'.ack = w.ack /\ w'.ackPend = w.ackPend
    BY <1>3, <1>a DEF EventLoop, OnStart, OnConnected, OnDisconnected, OnScanDone,
       OnApStop, FlagRec
  <2>2. QED
    BY <1>b, <1>e, <2>1 DEF FenceInv
<1>4. QED
  BY <1>1, <1>2, <1>3

\* The barrier holds across every step: an event in the queue belongs to the
\* incarnation that runs, or ran last, and a stopped radio outside
\* hosted_wifi_stop has left nothing in the queue.
LEMMA FenceNext ==
    ASSUME TypeOK, ControlInv, RadioInv, InitedInv, FenceInv, [Next]_vars
    PROVE  FenceInv'
<1>0. CASE UNCHANGED vars
  BY <1>0 DEF vars, FenceInv, Posted
<1> SUFFICES ASSUME Next PROVE FenceInv'
  BY <1>0
<1>a. /\ cmd \in CmdRec /\ w \in FlagRec /\ lib \in LibRec /\ sc \in ScanRec
      /\ LibType /\ evq \in Seq(Events) /\ NoSeq = 0 /\ lib.inc \in Nat
      /\ up
  BY Records DEF NoSeq, LibRec, Next
<1>b. PostedRange /\ Len(evq) \in Nat
  BY <1>a, PostedFacts
<1>c. evq' = evq => PostedSame
  BY DEF PostedSame, Posted
<1>d. \A k \in {"SCAN_DONE", "FENCE", "STA_STOP"}, id \in 0..MaxCmds :
        /\ Event(k, id) \in Events /\ Event(k, id).k = k /\ Event(k, id).inc = lib.inc
        /\ Event(k, id).id = id
  <2>1. \A k \in {"SCAN_DONE", "FENCE", "STA_STOP"}, id \in 0..MaxCmds : Event(k, id) \in Events
    BY <1>a, EventFacts
  <2>2. QED
    BY <2>1 DEF Event
<1>e. lib.scan \in 0..MaxCmds /\ NoSeq \in 0..MaxCmds
  BY <1>a, SeqFacts DEF LibRec
<1>1. CASE hosted_wifi_stop
  <2>1. /\ cmd.pc = "stop" /\ cmd'.pc = "esp_wifi_stop" /\ ~w'.ack
        /\ w'.ackPend = (w.started /\ lib.inited)
    BY <1>1, <1>a DEF hosted_wifi_stop, CmdRec, FlagRec
  <2>2. lib'.on = lib.on /\ lib'.inc = lib.inc /\ lib'.staStop = lib.staStop
    BY <1>1, <1>a DEF hosted_wifi_stop, hosted_scan_abort, LibRec
  <2>3. evq' = evq \/ evq' = Append(evq, Event("SCAN_DONE", lib.scan))
    BY <1>1 DEF hosted_wifi_stop, hosted_scan_abort
  <2>4. /\ Posted("FENCE")' = Posted("FENCE") /\ Posted("STA_STOP")' = Posted("STA_STOP")
        /\ \A i \in 1..Len(evq') : evq'[i].inc = lib.inc
    <3>1. CASE evq' = evq
      BY <1>c, <3>1 DEF PostedSame, FenceInv
    <3>2. CASE evq' = Append(evq, Event("SCAN_DONE", lib.scan))
      <4> DEFINE e == Event("SCAN_DONE", lib.scan)
      <4>1. e \in Events /\ e.k = "SCAN_DONE" /\ e.inc = lib.inc
        BY <1>d, <1>e
      <4> HIDE DEF e
      <4>2. /\ Posted("FENCE")' = Posted("FENCE") /\ Posted("STA_STOP")' = Posted("STA_STOP")
            /\ Len(evq') = Len(evq) + 1 /\ evq'[Len(evq) + 1] = e
            /\ \A i \in 1..Len(evq) : evq'[i] = evq[i]
        BY <1>a, <3>2, <4>1, PostedPost DEF e
      <4>3. QED
        BY <1>b, <4>1, <4>2 DEF FenceInv
    <3>3. QED
      BY <2>3, <3>1, <3>2
  <2>5. lib.on <=> w.started /\ lib.inited
    BY <2>1 DEF RadioInv
  <2>6. QED
    BY <2>1, <2>2, <2>4, <2>5 DEF FenceInv, StopPcs
<1>2. CASE StopReturns
  <2>1. cmd.pc = "esp_wifi_stop"
    BY <1>2 DEF StopReturns
  <2>2. CASE w' = w /\ lib' = lib /\ evq' = evq /\ cmd'.pc = "fence"
    BY <1>c, <2>1, <2>2 DEF FenceInv, PostedSame, StopPcs
  <2>3. CASE /\ w'.ack = w.ack /\ w'.ackPend = w.ackPend /\ ~lib'.on
             /\ lib'.inc = lib.inc
             /\ lib'.staStop = IF lib.on THEN lib.inc ELSE lib.staStop
             /\ evq' = evq \o StoppedEvents
             /\ cmd'.pc = IF w.ackPend THEN "stopAck" ELSE "fence"
    <3>1. /\ Posted("FENCE")' = Posted("FENCE") /\ Posted("STA_STOP")' = Posted("STA_STOP")
          /\ \A i \in 1..Len(evq') : evq'[i].inc = lib.inc
      BY <1>a, <2>3, StoppedPosted DEF FenceInv
    <3>2. lib.staStop = 0 /\ Posted("FENCE") = {} /\ ~w.ack /\ (lib.on <=> w.ackPend)
      BY <2>1 DEF FenceInv
    <3>3. QED
      BY <2>1, <2>3, <3>1, <3>2 DEF FenceInv, StopPcs
  <2>4. PICK fault \in {"none", "stop", "send"}, idle \in BOOLEAN :
          /\ idle => ~lib.on
          /\ IF fault = "stop"
             THEN /\ UNCHANGED <<w, s, lg, lib, evq, out>>
                  /\ cmd' = [Goto("fence") EXCEPT !.err = TRUE]
             ELSE /\ w' = [w EXCEPT !.started = FALSE, !.apUp = FALSE,
                                    !.staInit = FALSE, !.cb = FALSE]
                  /\ lib' = StoppedLib
                  /\ evq' = evq \o StoppedEvents
                  /\ cmd' = [Goto(IF w.ackPend /\ ~idle THEN "stopAck" ELSE "fence")
                               EXCEPT !.err = idle]
    BY ZenonT(60), <1>2 DEF StopReturns
  <2>5. CASE fault = "stop"
    BY <1>a, <2>2, <2>4, <2>5 DEF CmdRec
  <2>6. CASE fault # "stop"
    <3>0. idle => ~w.ackPend
      BY <2>1, <2>4 DEF FenceInv
    <3>1. cmd'.pc = IF w.ackPend THEN "stopAck" ELSE "fence"
      BY <1>a, <2>4, <2>6, <3>0 DEF CmdRec
    <3>2. w'.ack = w.ack /\ w'.ackPend = w.ackPend
      BY <1>a, <2>4, <2>6 DEF FlagRec
    <3>3. /\ ~lib'.on /\ lib'.inc = lib.inc
          /\ lib'.staStop = IF lib.on THEN lib.inc ELSE lib.staStop
      BY ZenonT(60), <1>a, <2>4, <2>6 DEF StoppedLib, LibRec
    <3>4. QED
      BY <2>3, <2>4, <2>6, <3>1, <3>2, <3>3
  <2>7. QED
    BY <2>5, <2>6
<1>3. CASE StaStopAcked
  <2>1. /\ cmd.pc = "stopAck" /\ w' = w /\ lib' = lib /\ evq' = evq
        /\ cmd'.pc = "stopAck" \/ (cmd'.pc = "fence" /\ w.ack)
    BY <1>3, <1>a DEF StaStopAcked, CmdRec
  <2>2. QED
    BY <1>c, <2>1 DEF FenceInv, PostedSame, StopPcs
<1>4. CASE PostFence
  <2>1. /\ cmd.pc = "fence" /\ cmd'.pc = "fenceAck" /\ ~w'.ack /\ ~w'.ackPend /\ lib' = lib
        /\ evq' = evq \/ evq' = Append(evq, Event("FENCE", NoSeq))
    BY <1>4, <1>a DEF PostFence, CmdRec, FlagRec
  <2>2. Posted("FENCE") = {} /\ lib.staStop = 0
    BY <2>1 DEF FenceInv
  <2>3. CASE evq' = evq
    BY <1>c, <2>1, <2>2, <2>3 DEF FenceInv, PostedSame, StopPcs
  <2>4. CASE evq' = Append(evq, Event("FENCE", NoSeq))
    <3> DEFINE e == Event("FENCE", NoSeq)
    <3>1. e \in Events /\ e.k = "FENCE" /\ e.inc = lib.inc
      BY <1>d, <1>e
    <3> HIDE DEF e
    <3>2. /\ Posted("FENCE")' = {Len(evq')} /\ Posted("STA_STOP")' = Posted("STA_STOP")
          /\ Len(evq') = Len(evq) + 1 /\ evq'[Len(evq) + 1] = e
          /\ \A i \in 1..Len(evq) : evq'[i] = evq[i]
      BY <1>a, <2>2, <2>4, <3>1, PostedPost DEF e
    <3>3. \A i \in 1..Len(evq') : evq'[i].inc = lib'.inc
      BY <1>b, <2>1, <3>1, <3>2 DEF FenceInv
    <3>4. QED
      BY <2>1, <2>2, <3>2, <3>3 DEF FenceInv, StopPcs
  <2>5. QED
    BY <2>1, <2>3, <2>4
<1>5. CASE FenceAcked
  <2>1. cmd.pc = "fenceAck" /\ lib' = lib /\ evq' = evq /\ w'.ackPend = w.ackPend
    BY <1>5, <1>a DEF FenceAcked, FlagRec
  <2>2. CASE ~w.ack
    <3>1. cmd' = cmd /\ w' = w
      BY <1>5, <2>2 DEF FenceAcked
    <3>2. QED
      BY <1>c, <2>1, <3>1 DEF FenceInv, PostedSame
  <2>3. CASE w.ack
    <3>1. Head(cmd.k) \in StopCallers \union {"startFailed"}
      <4>1. CASE \E c \in StopCallers : cmd.k = <<c>>
        BY <4>1, SubFacts, StackFacts
      <4>2. CASE \E c \in StartCallers : cmd.k = <<"startFailed", c>>
        BY <4>2, SubFacts, StackFacts DEF Labels
      <4>3. QED
        BY <2>1, <4>1, <4>2 DEF ControlInv, StopPcs
    <3>2. cmd'.pc \in StopCallers \union {"startFailed"} /\ ~w'.ack
      BY <1>5, <1>a, <2>3, <3>1 DEF FenceAcked, CmdRec, FlagRec
    <3>3. Posted("FENCE") = {} /\ lib.staStop = 0 /\ ~w.ackPend /\ (~lib.on => evq = <<>>)
      BY <2>1, <2>3 DEF FenceInv
    <3>4. QED
      BY <1>c, <2>1, <3>2, <3>3 DEF FenceInv, PostedSame, StopCallers
  <2>4. QED
    BY <2>2, <2>3
<1>6. CASE hosted_wifi_start
  <2>1. cmd.pc = "start" /\ w' = w
    BY <1>6 DEF hosted_wifi_start
  <2>2. PICK c \in StartCallers : cmd.k = <<c>>
    BY <2>1 DEF ControlInv, StartPcs
  <2>3. Head(cmd.k) = c
    BY <2>2, SubFacts, StackFacts
  <2>4. /\ Posted("FENCE") = {} /\ lib.staStop = 0 /\ ~w.ackPend
        /\ ~lib.on => evq = <<>>
    BY <2>1 DEF FenceInv, StopPcs
  <2>5. CASE cmd'.pc \in {c, "started"} /\ lib' = lib /\ evq' = evq
    BY <1>c, <2>1, <2>4, <2>5 DEF FenceInv, PostedSame, StartCallers, StopPcs
  <2>6. CASE /\ cmd'.pc = "started" /\ ~lib.on /\ lib'.on /\ lib'.inc = lib.inc + 1
             /\ lib'.staStop = lib.staStop
             /\ evq' = evq \o StartedEvents(lib.mode, lib.inc + 1)
    <3>0. lib.inc + 1 \in Nat
      BY <1>a
    <3>1. evq' = <<>> \o StartedEvents(lib.mode, lib.inc + 1)
      BY Zenon, <2>4, <2>6
    <3>2. /\ Posted("FENCE")' = {} /\ Posted("STA_STOP")' = {}
          /\ \A i \in 1..Len(evq') : evq'[i].inc = lib.inc + 1
      BY <3>0, <3>1, StartedPosted
    <3>3. QED
      BY <2>1, <2>4, <2>6, <3>2 DEF FenceInv
  <2>7. QED
    BY <1>6, <1>a, <2>3, <2>5, <2>6 DEF hosted_wifi_start, CmdRec, LibRec
<1>7. CASE StartReturns
  <2>1. /\ cmd.pc = "started" /\ lib' = lib /\ evq' = evq
        /\ w'.ack = w.ack /\ w'.ackPend = w.ackPend
    BY <1>7, <1>a DEF StartReturns, FlagRec
  <2>2. PICK c \in StartCallers : cmd.k = <<c>>
    BY <2>1 DEF ControlInv, StartPcs
  <2>3. Head(cmd.k) = c
    BY <2>2, SubFacts, StackFacts
  <2>4. cmd'.pc \in {c, "stop"} /\ lib.on
    BY <1>7, <1>a, <2>3 DEF StartReturns, CmdRec, RadioInv
  <2>5. QED
    BY <1>c, <2>1, <2>4 DEF FenceInv, PostedSame, StartCallers
<1>8. CASE deinitialize_wifi
  <2>1. /\ cmd.pc = "deinitialize" /\ cmd'.pc = "idle" /\ w' = w /\ evq' = evq
        /\ lib'.on = lib.on /\ lib'.inc = lib.inc /\ lib'.staStop = lib.staStop
    BY <1>8, <1>a DEF deinitialize_wifi, LibRec, CmdIdle
  <2>2. QED
    BY <1>c, <2>1 DEF FenceInv, PostedSame, StopPcs
<1>9. CASE LibStaStop
  <2>1. /\ cmd' = cmd /\ w' = w /\ lib.staStop # 0 /\ lib'.staStop = 0
        /\ lib'.on = lib.on /\ lib'.inc = lib.inc
        /\ evq' = Append(evq, [k |-> "STA_STOP", inc |-> lib.staStop, id |-> NoSeq])
    BY <1>9, <1>a DEF LibStaStop, LibRec
  <2>2. /\ cmd.pc = "stopAck" /\ ~w.ack /\ ~lib.on /\ lib.staStop = lib.inc
        /\ Posted("FENCE") = {}
    BY <2>1 DEF FenceInv
  <2> DEFINE e == [k |-> "STA_STOP", inc |-> lib.staStop, id |-> NoSeq]
  <2>3. e \in Events /\ e.k = "STA_STOP" /\ e.inc = lib.inc
    BY <1>a, <1>e, <2>2 DEF Events
  <2> HIDE DEF e
  <2>4. /\ Posted("FENCE")' = {} /\ Len(evq') = Len(evq) + 1 /\ evq'[Len(evq) + 1] = e
        /\ \A i \in 1..Len(evq) : evq'[i] = evq[i]
    BY <1>a, <2>1, <2>2, <2>3, PostedPost DEF e
  <2>5. \A i \in 1..Len(evq') : evq'[i].inc = lib'.inc
    BY <1>b, <2>1, <2>3, <2>4 DEF FenceInv
  <2>6. QED
    BY <2>1, <2>2, <2>4, <2>5 DEF FenceInv, StopPcs
<1>10. CASE process_start_scan \/ ScanStart \/ AuthSend \/ AuthConnect
  <2>1. /\ cmd.pc \in {"SCAN", "scanStart", "authSend", "authLookup"}
        /\ cmd'.pc \in {"scanStart", "resp", "authDone", "authLookup"}
        /\ w' = w /\ evq' = evq
    BY ZenonT(60), <1>10, <1>a DEF process_start_scan, ScanStart, AuthSend, AuthConnect, CmdRec
  <2>2. lib'.on = lib.on /\ lib'.inc = lib.inc /\ lib'.staStop = lib.staStop
    BY ZenonT(60), <1>10, <1>a DEF process_start_scan, ScanStart, AuthSend, AuthConnect, LibRec
  <2>3. QED
    BY <1>c, <2>1, <2>2 DEF FenceInv, PostedSame, StopPcs
<1>11. CASE LibScanDone \/ LibLookupDone
  <2>1. /\ cmd' = cmd /\ w' = w /\ lib'.on = lib.on /\ lib'.inc = lib.inc
        /\ lib'.staStop = lib.staStop
        /\ lib.on
    BY <1>11, <1>a DEF LibScanDone, LibLookupDone, LibRec, RadioInv
  <2>2. PICK id \in 0..MaxCmds : evq' = Append(evq, Event("SCAN_DONE", id))
    BY <1>11, <1>e DEF LibScanDone, LibLookupDone
  <2> DEFINE e == Event("SCAN_DONE", id)
  <2>3. e \in Events /\ e.k = "SCAN_DONE" /\ e.inc = lib.inc
    BY <1>d
  <2> HIDE DEF e
  <2>4. /\ Posted("FENCE")' = Posted("FENCE") /\ Posted("STA_STOP")' = Posted("STA_STOP")
        /\ Len(evq') = Len(evq) + 1 /\ evq'[Len(evq) + 1] = e
        /\ \A i \in 1..Len(evq) : evq'[i] = evq[i]
    BY <1>a, <2>2, <2>3, PostedPost DEF e
  <2>5. \A i \in 1..Len(evq') : evq'[i].inc = lib'.inc
    BY <1>b, <2>1, <2>3, <2>4 DEF FenceInv
  <2>6. QED
    BY <2>1, <2>4, <2>5 DEF FenceInv
<1>12. QED
  BY <1>1, <1>2, <1>3, <1>4, <1>5, <1>6, <1>7, <1>8, <1>9, <1>10, <1>11, CalmSteps,
     CalmFence, DispatchFence DEF BarrierStep, ScanStep

-----------------------------------------------------------------------------
(* Scan ownership *)

\* Calm steps neither start nor complete a scan.
LEMMA CalmScan ==
    ASSUME TypeOK, ScanInv, Calm
    PROVE  ScanInv'
<1>a. evq \in Seq(Events) /\ PostedRange /\ PostedSame
  BY Records, PostedFacts, PostedExtends DEF Calm, QueueKept
<1>1. \A i \in Posted("SCAN_DONE") : evq'[i] = evq[i]
  BY <1>a DEF PostedRange, Calm, QueueKept, Extends
<1>2. sc' = sc /\ lib'.scan = lib.scan
  BY DEF Calm, LibKept
<1>3. CASE cmd' = cmd
  BY <1>a, <1>1, <1>2, <1>3 DEF ScanInv, PostedSame
<1>4. CASE /\ cmd.pc \notin StopPcs \union {"authLookup"}
           /\ cmd'.pc \in CalmPcs \union StartCallers
  BY <1>a, <1>1, <1>2, <1>4 DEF ScanInv, PostedSame, CalmPcs, StartCallers, StopPcs
<1>5. QED
  BY <1>3, <1>4 DEF Calm, Stays, StopPcs

\* The completion that is dispatched is the only one, and it belongs to the
\* scan that runs or to the cancelled one; the fence finds it gone.
LEMMA DispatchScan ==
    ASSUME TypeOK, FenceInv, ScanInv, EventLoop
    PROVE  ScanInv'
<1>a. evq \in Seq(Events) /\ sc \in ScanRec /\ PostedRange
  BY Records, PostedFacts
<1>b. cmd' = cmd /\ lib' = lib /\ evq # <<>> /\ evq' = Tail(evq)
  BY ZenonT(60) DEF EventLoop, OnStart, OnConnected, OnDisconnected, OnScanDone,
     OnApStop, OnStaStop, hosted_scan_fence_handler, Dispatched
<1>c. /\ \A i \in Posted("FENCE")' : i + 1 \in Posted("FENCE")
      /\ \A i \in Posted("SCAN_DONE")' : i + 1 \in Posted("SCAN_DONE")
      /\ Head(evq).k = "FENCE" => 1 \in Posted("FENCE")
      /\ Head(evq).k = "SCAN_DONE" => 1 \in Posted("SCAN_DONE")
      /\ \A i \in 1..Len(evq') : evq'[i] = evq[i + 1]
  BY <1>a, <1>b, PostedPop
<1>d. PostedRange'
  BY <1>a, <1>b, PopFacts, PostedFacts DEF PostedRange, Posted
<1>e. Len(evq) \in Nat /\ Len(evq') \in Nat
  BY <1>a, <1>b, PopFacts
<1>f. /\ \A i \in Posted("SCAN_DONE")' :
           i \in Nat \ {0} /\ i + 1 \in Posted("SCAN_DONE") /\ evq'[i] = evq[i + 1]
      /\ \A i \in Posted("FENCE")' : i \in Nat \ {0} /\ i + 1 \in Posted("FENCE")
  BY <1>c, <1>d, <1>e DEF PostedRange
<1>g. /\ Posted("SCAN_DONE")' # {} => Posted("SCAN_DONE") # {}
      /\ \A i, j \in Posted("SCAN_DONE")' : i = j
      /\ \A i \in Posted("SCAN_DONE")', j \in Posted("FENCE")' : i < j
  <2>1. \A i, j \in Posted("SCAN_DONE")' : i = j
    BY <1>f DEF ScanInv
  <2>2. \A i \in Posted("SCAN_DONE")', j \in Posted("FENCE")' : i < j
    BY <1>f DEF ScanInv
  <2>3. QED
    BY <1>f, <2>1, <2>2
<1>1. CASE OnScanDone
  <2>1. 1 \in Posted("SCAN_DONE")
    BY <1>1, <1>c DEF OnScanDone, Dispatched
  <2>2. Posted("SCAN_DONE")' = {}
    BY <1>f, <2>1 DEF ScanInv
  <2>3. lib.scan = NoSeq /\ (sc.run \/ sc.drain) /\ ~sc.auth /\ cmd.pc # "scanStart"
    BY <2>1 DEF ScanInv
  <2>4. ~sc'.run /\ ~sc'.auth
    BY <1>1, <1>a, <2>3 DEF OnScanDone, ScanInv, ScanRec
  <2>5. QED
    BY <1>b, <2>2, <2>3, <2>4 DEF ScanInv
<1>2. CASE hosted_scan_fence_handler
  <2>1. /\ 1 \in Posted("FENCE") /\ ~sc'.drain /\ sc'.run = sc.run /\ sc'.auth = sc.auth
    BY <1>2, <1>a, <1>c DEF hosted_scan_fence_handler, Dispatched, ScanRec
  <2>2. Posted("SCAN_DONE") = {}
    <3>1. \A i \in Posted("SCAN_DONE") : i \in Nat \ {0}
      BY <1>a, <1>e DEF PostedRange
    <3>2. QED
      BY <2>1, <3>1 DEF ScanInv
  <2>3. cmd.pc = "fenceAck" /\ ~sc.run
    BY <2>1 DEF FenceInv, ScanInv, StopPcs
  <2>4. lib.scan = NoSeq /\ ~sc.auth
    BY <2>3 DEF ScanInv
  <2>5. QED
    BY <1>b, <1>g, <2>1, <2>2, <2>3, <2>4 DEF ScanInv
<1>3. CASE ~OnScanDone /\ ~hosted_scan_fence_handler
  <2>1. sc' = sc
    BY <1>3 DEF EventLoop, OnStart, OnConnected, OnDisconnected, OnApStop, OnStaStop
  <2>2. QED
    BY ZenonT(60), <1>b, <1>f, <1>g, <2>1 DEF ScanInv
<1>4. QED
  BY <1>1, <1>2, <1>3

\* A step keeps the completion with its scan.  The lookup that AUTH makes must
\* not post one of its own: a library built to do so is outside the claim.
LEMMA ScanNext ==
    ASSUME "archive" \notin FaultKinds, TypeOK, ControlInv, RadioInv, FenceInv, ScanInv,
           [Next]_vars
    PROVE  ScanInv'
<1>0. CASE UNCHANGED vars
  BY <1>0 DEF vars, ScanInv, Posted
<1> SUFFICES ASSUME Next PROVE ScanInv'
  BY <1>0
<1>a. /\ cmd \in CmdRec /\ lib \in LibRec /\ sc \in ScanRec
      /\ LibType /\ evq \in Seq(Events)
  BY Records
<1>b. PostedRange /\ Len(evq) \in Nat
  BY <1>a, PostedFacts
<1>c. evq' = evq => PostedSame
  BY DEF PostedSame, Posted
<1>d. \A k \in {"SCAN_DONE", "FENCE"}, id \in 0..MaxCmds :
        Event(k, id) \in Events /\ Event(k, id).k = k /\ Event(k, id).id = id
  <2>1. \A k \in {"SCAN_DONE", "FENCE"}, id \in 0..MaxCmds : Event(k, id) \in Events
    BY <1>a, EventFacts
  <2>2. QED
    BY <2>1 DEF Event
<1>e. lib.scan \in 0..MaxCmds /\ NoSeq \in 0..MaxCmds
  BY <1>a, SeqFacts DEF LibRec
<1>1. CASE hosted_wifi_stop
  <2>1. cmd.pc = "stop" /\ cmd'.pc = "esp_wifi_stop"
    BY <1>1, <1>a DEF hosted_wifi_stop, CmdRec
  <2>2. ~sc'.run /\ sc'.drain = (sc.drain \/ sc.run) /\ sc'.auth = sc.auth
    BY <1>1, <1>a DEF hosted_wifi_stop, hosted_scan_abort, ScanRec
  <2>3. ~sc.auth /\ Posted("FENCE") = {}
    BY <2>1 DEF ScanInv, FenceInv
  <2>4. lib'.scan = NoSeq
    BY <1>1, <1>a DEF hosted_wifi_stop, hosted_scan_abort, ScanInv, LibRec
  <2>5. CASE evq' = evq
    BY <1>c, <2>1, <2>2, <2>3, <2>4, <2>5 DEF ScanInv, PostedSame
  <2>6. CASE evq' # evq
    <3> DEFINE e == Event("SCAN_DONE", lib.scan)
    <3>1. sc.run /\ lib.scan # NoSeq /\ evq' = Append(evq, e)
      BY <1>1, <2>6 DEF hosted_wifi_stop, hosted_scan_abort
    <3>2. e \in Events /\ e.k = "SCAN_DONE"
      BY <1>d, <1>e
    <3> HIDE DEF e
    <3>3. /\ Posted("FENCE")' = Posted("FENCE")
          /\ Posted("SCAN_DONE")' = Posted("SCAN_DONE") \union {Len(evq) + 1}
      BY <1>a, <3>1, <3>2, PostedPost
    <3>4. QED
      BY <2>1, <2>2, <2>3, <2>4, <3>1, <3>3 DEF ScanInv
  <2>7. QED
    BY <2>5, <2>6
<1>2. CASE StopReturns
  <2>1. /\ cmd.pc = "esp_wifi_stop" /\ cmd'.pc \in {"stopAck", "fence"} /\ sc' = sc
    BY <1>2, <1>a DEF StopReturns, CmdRec
  <2>2. ~sc.run /\ lib.scan = NoSeq /\ ~sc.auth /\ Posted("FENCE") = {}
    BY <2>1 DEF ScanInv, FenceInv, StopPcs
  <2>3. lib'.scan = NoSeq
    BY <1>2, <1>a, <2>2 DEF StopReturns, StoppedLib, LibRec
  <2>4. /\ Posted("FENCE")' = Posted("FENCE") /\ Posted("SCAN_DONE")' = Posted("SCAN_DONE")
        /\ \A i \in Posted("SCAN_DONE") : evq'[i] = evq[i]
    <3>1. CASE evq' = evq
      BY <1>c, <3>1 DEF PostedSame
    <3>2. CASE evq' = evq \o StoppedEvents
      BY <1>a, <2>2, <3>2, StoppedPosted
    <3>3. QED
      BY <1>2, <3>1, <3>2 DEF StopReturns
  <2>5. QED
    BY <2>1, <2>2, <2>3, <2>4 DEF ScanInv
<1>3. CASE StaStopAcked
  <2>1. /\ cmd.pc = "stopAck" /\ cmd'.pc \in {"stopAck", "fence"} /\ sc' = sc
        /\ lib' = lib /\ evq' = evq
    BY <1>3, <1>a DEF StaStopAcked, CmdRec
  <2>2. QED
    BY <1>c, <2>1 DEF ScanInv, PostedSame, StopPcs
<1>4. CASE PostFence
  <2>1. /\ cmd.pc = "fence" /\ cmd'.pc = "fenceAck" /\ lib' = lib /\ sc' = sc
        /\ evq' = evq \/ evq' = Append(evq, Event("FENCE", NoSeq))
    BY <1>4, <1>a DEF PostFence, CmdRec
  <2>2. Posted("FENCE") = {} /\ ~sc.run /\ ~sc.auth
    BY <2>1 DEF FenceInv, ScanInv, StopPcs
  <2>3. CASE evq' = evq
    BY <1>c, <2>1, <2>2, <2>3 DEF ScanInv, PostedSame
  <2>4. CASE evq' = Append(evq, Event("FENCE", NoSeq))
    <3> DEFINE e == Event("FENCE", NoSeq)
    <3>1. e \in Events /\ e.k = "FENCE"
      BY <1>d, <1>e
    <3> HIDE DEF e
    <3>2. /\ Posted("FENCE")' = {Len(evq) + 1} /\ Posted("SCAN_DONE")' = Posted("SCAN_DONE")
          /\ \A i \in 1..Len(evq) : evq'[i] = evq[i]
      BY <1>a, <2>2, <2>4, <3>1, PostedPost DEF e
    <3>3. \A i \in Posted("SCAN_DONE") : i < Len(evq) + 1
      BY <1>b DEF PostedRange
    <3>4. QED
      BY <2>1, <2>2, <3>2, <3>3 DEF ScanInv
  <2>5. QED
    BY <2>1, <2>3, <2>4
<1>5. CASE FenceAcked
  <2>1. cmd.pc = "fenceAck" /\ lib' = lib /\ evq' = evq /\ sc' = sc
    BY <1>5 DEF FenceAcked
  <2>2. Head(cmd.k) \in StopCallers \union {"startFailed"}
    <3>1. CASE \E c \in StopCallers : cmd.k = <<c>>
      BY <3>1, SubFacts, StackFacts
    <3>2. CASE \E c \in StartCallers : cmd.k = <<"startFailed", c>>
      BY <3>2, SubFacts, StackFacts DEF Labels
    <3>3. QED
      BY <2>1, <3>1, <3>2 DEF ControlInv, StopPcs
  <2>3. cmd' = cmd \/ cmd'.pc \in StopCallers \union {"startFailed"}
    BY <1>5, <1>a, <2>2 DEF FenceAcked, CmdRec
  <2>4. QED
    BY <1>c, <2>1, <2>3 DEF ScanInv, PostedSame, StopCallers, StopPcs
<1>6. CASE hosted_wifi_start
  <2>1. cmd.pc = "start" /\ sc' = sc
    BY <1>6 DEF hosted_wifi_start
  <2>2. PICK c \in StartCallers : cmd.k = <<c>>
    BY <2>1 DEF ControlInv, StartPcs
  <2>3. Head(cmd.k) = c
    BY <2>2, SubFacts, StackFacts
  <2>4. cmd'.pc \in {c, "started"} /\ lib'.scan = lib.scan
    BY <1>6, <1>a, <2>3 DEF hosted_wifi_start, CmdRec, LibRec
  <2>5. \/ evq' = evq
        \/ ~lib.on /\ evq' = evq \o StartedEvents(lib.mode, lib.inc + 1)
    BY <1>6 DEF hosted_wifi_start
  <2>6. CASE evq' = evq
    BY <1>c, <2>1, <2>4, <2>6 DEF ScanInv, PostedSame, StartCallers, StopPcs
  <2>7. CASE ~lib.on /\ evq' = evq \o StartedEvents(lib.mode, lib.inc + 1)
    <3>1. evq = <<>> /\ lib.scan = NoSeq
      BY <2>1, <2>7 DEF FenceInv, StopPcs, RadioInv
    <3>2. lib.inc + 1 \in Nat
      BY <1>a DEF LibRec
    <3>3. evq' = <<>> \o StartedEvents(lib.mode, lib.inc + 1)
      BY Zenon, <2>7, <3>1
    <3>4. Posted("FENCE")' = {} /\ Posted("SCAN_DONE")' = {}
      BY <3>2, <3>3, StartedPosted
    <3>5. QED
      BY <2>1, <2>4, <3>1, <3>4 DEF ScanInv, StartCallers, StopPcs
  <2>8. QED
    BY <2>5, <2>6, <2>7
<1>7. CASE StartReturns
  <2>1. /\ cmd.pc = "started" /\ lib' = lib /\ evq' = evq /\ sc' = sc
    BY <1>7 DEF StartReturns
  <2>2. PICK c \in StartCallers : cmd.k = <<c>>
    BY <2>1 DEF ControlInv, StartPcs
  <2>3. Head(cmd.k) = c
    BY <2>2, SubFacts, StackFacts
  <2>4. cmd'.pc \in {c, "stop"}
    BY <1>7, <1>a, <2>3 DEF StartReturns, CmdRec
  <2>5. QED
    BY <1>c, <2>1, <2>4 DEF ScanInv, PostedSame, StartCallers, StopPcs
<1>8. CASE deinitialize_wifi
  <2>1. /\ cmd.pc = "deinitialize" /\ cmd'.pc = "idle" /\ sc' = sc /\ evq' = evq
        /\ lib'.scan = lib.scan
    BY <1>8, <1>a DEF deinitialize_wifi, LibRec, CmdIdle
  <2>2. QED
    BY <1>c, <2>1 DEF ScanInv, PostedSame, StopPcs
<1>9. CASE LibStaStop
  <2>1. /\ cmd' = cmd /\ sc' = sc /\ lib'.scan = lib.scan /\ lib.staStop \in Nat
        /\ evq' = Append(evq, [k |-> "STA_STOP", inc |-> lib.staStop, id |-> NoSeq])
    BY <1>9, <1>a DEF LibStaStop, LibRec
  <2> DEFINE e == [k |-> "STA_STOP", inc |-> lib.staStop, id |-> NoSeq]
  <2>2. e \in Events /\ e.k = "STA_STOP"
    BY <1>e, <2>1 DEF Events
  <2> HIDE DEF e
  <2>3. /\ Posted("FENCE")' = Posted("FENCE") /\ Posted("SCAN_DONE")' = Posted("SCAN_DONE")
        /\ \A i \in 1..Len(evq) : evq'[i] = evq[i]
    BY <1>a, <2>1, <2>2, PostedPost DEF e
  <2>4. QED
    BY <1>b, <2>1, <2>3 DEF ScanInv, PostedRange
<1>10. CASE process_start_scan
  <2>1. /\ cmd.pc = "SCAN" /\ lib' = lib /\ evq' = evq
        /\ \/ cmd'.pc = "resp" /\ sc' = sc
           \/ /\ cmd'.pc = "scanStart" /\ ~sc.run /\ ~sc.drain
              /\ sc'.run /\ sc'.drain = sc.drain /\ sc'.auth = sc.auth
              /\ sc'.owner = cmd.seq /\ cmd'.seq = cmd.seq
    BY <1>10, <1>a DEF process_start_scan, CmdRec, ScanRec
  <2>2. QED
    BY <1>c, <2>1 DEF ScanInv, PostedSame, StopPcs
<1>11. CASE ScanStart
  <2>1. /\ cmd.pc = "scanStart" /\ cmd'.pc = "resp" /\ evq' = evq
        /\ \/ /\ lib' = lib /\ ~sc'.run /\ sc'.drain = sc.drain /\ sc'.auth = sc.auth
           \/ lib'.scan = cmd.seq /\ sc' = sc
    BY <1>11, <1>a DEF ScanStart, CmdRec, ScanRec, LibRec
  <2>2. QED
    BY <1>c, <2>1 DEF ScanInv, PostedSame, StopPcs
<1>12. CASE AuthSend
  <2>1. /\ cmd.pc = "authSend" /\ lib' = lib /\ evq' = evq
        /\ sc'.run = sc.run /\ sc'.drain = sc.drain /\ sc'.owner = sc.owner
        /\ cmd'.pc \in {"resp", "authDone", "authLookup"}
        /\ sc'.auth => cmd'.pc = "authLookup" /\ ~sc.run /\ ~sc.drain
    BY <1>12, <1>a DEF AuthSend, CmdRec, ScanRec
  <2>2. QED
    BY <1>c, <2>1 DEF ScanInv, PostedSame, StopPcs
<1>13. CASE AuthConnect
  <2>1. /\ cmd.pc = "authLookup" /\ evq' = evq /\ ~sc'.auth /\ lib'.scan = lib.scan
        /\ sc'.run = sc.run /\ sc'.drain = sc.drain /\ sc'.owner = sc.owner
        /\ cmd'.pc \in {"resp", "authDone"}
    BY <1>13, <1>a DEF AuthConnect, CmdRec, ScanRec, LibRec
  <2>2. QED
    BY <1>c, <2>1 DEF ScanInv, PostedSame, StopPcs
<1>14. CASE LibScanDone
  <2> DEFINE e == Event("SCAN_DONE", lib.scan)
  <2>1. /\ cmd' = cmd /\ sc' = sc /\ lib.scan # NoSeq /\ lib'.scan = NoSeq
        /\ evq' = Append(evq, e)
    BY <1>14, <1>a DEF LibScanDone, LibRec
  <2>2. e \in Events /\ e.k = "SCAN_DONE" /\ e.id = lib.scan
    BY <1>d, <1>e
  <2> HIDE DEF e
  <2>3. /\ sc.run /\ lib.scan = sc.owner /\ Posted("SCAN_DONE") = {}
        /\ cmd.pc # "scanStart" /\ Posted("FENCE") = {}
    BY <2>1 DEF ScanInv, FenceInv, StopPcs
  <2>4. /\ Posted("FENCE")' = {} /\ Posted("SCAN_DONE")' = {Len(evq) + 1}
        /\ evq'[Len(evq) + 1] = e
    BY <1>a, <2>1, <2>2, <2>3, PostedPost
  <2>5. QED
    BY <2>1, <2>2, <2>3, <2>4 DEF ScanInv
<1>15. CASE LibLookupDone
  BY <1>15 DEF LibLookupDone
<1>16. QED
  BY <1>1, <1>2, <1>3, <1>4, <1>5, <1>6, <1>7, <1>8, <1>9, <1>10, <1>11, <1>12, <1>13,
     <1>14, <1>15, CalmSteps, CalmScan, DispatchScan DEF BarrierStep, ScanStep

-----------------------------------------------------------------------------
(* The theorems *)

\* Command 1 left a running Wi-Fi, an empty queue, and at most a scan of its
\* own.
LEMMA EventInit == Init => RadioInv /\ InitedInv /\ FenceInv /\ ScanInv
<1> SUFFICES ASSUME Init PROVE RadioInv /\ InitedInv /\ FenceInv /\ ScanInv
  OBVIOUS
<1>0. PICK mode \in Modes, style \in Styles, mon \in BOOLEAN, left \in Left1,
           ap \in Aps, b \in Bodies :
      LET sent == left = "frame"
          deferred == sent /\ style = "legacy"
      IN  /\ sent => mode = "APSTA"
          /\ mon => left \in {"nothing", "session"}
          /\ w = StartedWifi(mode, mon)
          /\ lib = StartedLib(mode, left, ap)
          /\ s = StartedSession(left, ap)
          /\ sc = [run |-> left = "scan", drain |-> FALSE, auth |-> FALSE,
                   owner |-> IF left = "scan" THEN 1 ELSE NoSeq]
          /\ tx = IF sent /\ ~deferred
                  THEN [NoTx EXCEPT !.pending = TRUE, !.accepted = TRUE,
                                    !.timers = {1}, !.cookie = 1]
                  ELSE NoTx
          /\ lg = IF deferred THEN [pending |-> TRUE, seq |-> 1] ELSE NoLg
          /\ host = [n |-> 1, wait |-> TRUE, style |-> style,
                     body |-> [k \in Seqs |-> IF sent /\ k = 1 THEN b ELSE "none"]]
          /\ out = [ans |-> [NoReport EXCEPT ![1] = IF deferred THEN 0 ELSE 1],
                    sts |-> NoReport,
                    mlme |-> [NoReport EXCEPT ![1] = IF left = "session" THEN 1 ELSE 0],
                    disc |-> NoReport,
                    acc |-> IF sent /\ ~deferred THEN {1} ELSE {},
                    acked |-> {}, lost |-> {}, scans |-> {}]
  BY DEF Init
<1>1. /\ w = StartedWifi(mode, mon) /\ lib = StartedLib(mode, left, ap)
      /\ sc = [run |-> left = "scan", drain |-> FALSE, auth |-> FALSE,
               owner |-> IF left = "scan" THEN 1 ELSE NoSeq]
  BY <1>0
<1>2. cmd.pc = "idle" /\ evq = <<>>
  BY DEF Init, CmdIdle
<1>3. Len(evq) = 0 /\ Posted("FENCE") = {} /\ Posted("STA_STOP") = {}
      /\ Posted("SCAN_DONE") = {}
  BY <1>2 DEF Posted
<1>4. w.started /\ ~w.ackPend /\ ~w.ack
  BY <1>1 DEF StartedWifi
<1>5. /\ lib.on /\ lib.inited /\ lib.staStop = 0
      /\ lib.scan = IF left = "scan" THEN 1 ELSE NoSeq
  BY <1>1 DEF StartedLib
<1>6. RadioInv /\ InitedInv
  BY <1>2, <1>4, <1>5 DEF RadioInv, InitedInv
<1>7. FenceInv
  BY <1>2, <1>3, <1>4, <1>5 DEF FenceInv
<1>8. ScanInv
  BY <1>1, <1>2, <1>3, <1>5 DEF ScanInv, StopPcs
<1>9. QED
  BY <1>6, <1>7, <1>8

\* No event crosses a stop: whatever waits in the queue was posted by the
\* present incarnation of the Wi-Fi, and when hosted_wifi_stop has returned the
\* queue is empty until the next start.  It holds whatever calls fail and
\* however slowly the loop and the library run.
THEOREM NoEventCrossesAStop == Spec => []QueueQuiet
<1> DEFINE Inv == TypeOK /\ ControlInv /\ RadioInv /\ InitedInv /\ FenceInv
<1>1. Init => Inv
  BY TypeInit, EventInit
<1>2. Inv /\ [Next]_vars => Inv'
  BY TypeNext, RadioNext, InitedNext, FenceNext
<1>3. Inv => QueueQuiet
  BY DEF FenceInv, QueueQuiet
<1>4. QED
  BY <1>1, <1>2, <1>3, PTL DEF Spec

\* The host gets a scan result from the dispatch of a completion only, and for
\* the scan that owns the radio.
LEMMA ScansElsewhere ==
    ASSUME TypeOK, Next, ~OnScanDone
    PROVE  out'.scans = out.scans
<1>a. out \in OutRec
  BY DEF TypeOK, HostType, OutRec
<1>1. CASE send_command_resp
  BY <1>1, <1>a DEF send_command_resp, Lost, Answered, OutRec
<1>2. CASE StopReturns
  BY <1>2, <1>a DEF StopReturns, mgmt_tx_fail_pending, OutRec
<1>3. CASE process_deinit_interface
  BY <1>3, <1>a DEF process_deinit_interface, hosted_mgmt_fail_pending, Report,
         OutRec
<1>4. CASE ModeDone
  BY <1>4, <1>a DEF ModeDone, hosted_mgmt_fail_pending, Report, OutRec
<1>5. CASE hosted_send_mgmt_accept
  BY <1>5, <1>a DEF hosted_send_mgmt_accept, Lost, Answered, OutRec
<1>6. CASE MgmtTimer \/ MgmtUntimed
  BY <1>6, <1>a DEF MgmtTimer, MgmtUntimed, Report, OutRec
<1>7. CASE hosted_mgmt_mark_accepted
  BY <1>7, <1>a DEF hosted_mgmt_mark_accepted, Report, OutRec
<1>8. CASE MgmtStatus
  BY <1>8, <1>a DEF MgmtStatus, OutRec
<1>9. CASE OnDisconnected
  BY <1>9, <1>a DEF OnDisconnected, handle_sta_disconnected_event, OutRec
<1>10. CASE mgmt_txcb
  BY <1>10, <1>a DEF mgmt_txcb, mgmt_txcb_marked, mgmt_txcb_unmarked, OutRec
<1>11. CASE sta_rx_auth
  BY <1>11, <1>a DEF sta_rx_auth, OutRec
<1>12. CASE AssocResponse
  BY <1>12, <1>a DEF AssocResponse, sta_rx_assoc, OutRec
<1>13. CASE hosted_mgmt_finish_owned
  BY <1>13, <1>a DEF hosted_mgmt_finish_owned, OutRec
<1>14. CASE esp_cmd_dispatch \/ HostGivesUp \/ deinitialize_wifi \/
          hosted_wifi_stop \/ StaStopAcked \/ PostFence \/ FenceAcked \/
          hosted_wifi_start \/ StartReturns \/ StartFailed \/
          process_start_scan \/ ScanStart \/ process_monitor_config \/
          process_auth_request \/ AuthBssid \/ AuthSend \/ AuthConnect \/
          AuthDone \/ process_assoc_request \/ process_sta_connect \/
          ConnectStarted \/ process_disconnect \/ process_init_interface \/
          DeinitRetires \/ MonitorRebuild \/ DeinitDone \/ process_set_mode \/
          process_set_ap_config \/ ModeStopped \/ ModeCallback \/
          ModeRollback \/ ModeRolledBack \/ process_mgmt_tx \/ MgmtSend \/
          process_mgmt_tx_unmarked \/ UnmarkedSend \/ OnStart \/
          OnConnected \/ OnApStop \/ OnStaStop \/ hosted_scan_fence_handler \/
          LibConnected \/ LibDisconnected \/ LibScanDone \/ LibLookupDone \/
          LibStaStop \/ TimerTask
  BY ZenonT(60), <1>14 DEF esp_cmd_dispatch, HostGivesUp, deinitialize_wifi,
         hosted_wifi_stop, StaStopAcked, PostFence, FenceAcked, hosted_wifi_start,
         StartReturns, StartFailed, process_start_scan, ScanStart,
         process_monitor_config, process_auth_request, AuthBssid, AuthSend,
         AuthConnect, AuthDone, process_assoc_request, process_sta_connect,
         ConnectStarted, process_disconnect, process_init_interface,
         DeinitRetires, MonitorRebuild, DeinitDone, process_set_mode,
         process_set_ap_config, ModeStopped, ModeCallback, ModeRollback,
         ModeRolledBack, process_mgmt_tx, MgmtSend, process_mgmt_tx_unmarked,
         UnmarkedSend, OnStart, OnConnected, OnApStop, OnStaStop,
         hosted_scan_fence_handler, LibConnected, LibDisconnected, LibScanDone,
         LibLookupDone, LibStaStop, TimerTask, hosted_mgmt_timeout_cb
<1>15. QED
  BY <1>1, <1>2, <1>3, <1>4, <1>5, <1>6, <1>7, <1>8, <1>9, <1>10, <1>11, <1>12,
     <1>13, <1>14
  DEF Next, WifiStop, WifiStart, Scan, Auth, Session, Interface, Mode, Mgmt,
      CommandTask, EventLoop, WifiTask

\* What a dispatched event may do: the step of StaleEventsInert.
StaleStep ==
    /\ evq # <<>> /\ evq' = Tail(evq)
    => /\ Head(evq).inc # lib.inc =>
             /\ UNCHANGED <<s, out>>
             /\ w'.apUp = w.apUp /\ w'.staInit = w.staInit
       /\ out'.scans # out.scans => Head(evq).id \in {sc.owner, NoSeq}

\* The head of the queue is of the present incarnation, and a completion that
\* is given to the host carries the command of the scan that runs.
LEMMA StaleStepHolds ==
    ASSUME TypeOK, FenceInv, ScanInv, [Next]_vars
    PROVE  StaleStep
<1> SUFFICES ASSUME evq # <<>> PROVE StaleStep
  BY DEF StaleStep
<1>1. evq \in Seq(Events) /\ sc \in ScanRec
  BY Records
<1>2. Len(evq) \in Nat /\ Len(evq) > 0 /\ Head(evq) = evq[1]
  BY <1>1, PopFacts
<1>3. Head(evq).inc = lib.inc
  BY <1>2 DEF FenceInv
<1>4. ASSUME out'.scans # out.scans PROVE Head(evq).id = sc.owner
  <2>1. OnScanDone
    <3>1. ~UNCHANGED vars
      BY <1>4 DEF vars
    <3>2. QED
      BY <1>4, <3>1, ScansElsewhere
  <2>2. 1 \in Posted("SCAN_DONE")
    BY <1>2, <2>1 DEF OnScanDone, Dispatched, Posted
  <2>3. sc.run
    BY <1>4, <2>1 DEF OnScanDone
  <2>4. QED
    BY <1>2, <2>2, <2>3 DEF ScanInv
<1>5. QED
  BY <1>3, <1>4 DEF StaleStep

\* An event of a stopped incarnation never changes the next one, and a scan
\* result is given to the host only for the scan the library completed,
\* provided that the lookup of AUTH posts no completion of its own.
THEOREM StaleEventsAreInert ==
    ASSUME "archive" \notin FaultKinds
    PROVE  Spec => StaleEventsInert
<1> DEFINE Inv == TypeOK /\ ControlInv /\ RadioInv /\ InitedInv /\ FenceInv /\ ScanInv
<1>1. Init => Inv
  BY TypeInit, EventInit
<1>2. Inv /\ [Next]_vars => Inv' /\ StaleStep
  BY TypeNext, RadioNext, InitedNext, FenceNext, ScanNext, StaleStepHolds
<1>3. QED
  BY <1>1, <1>2, PTL DEF Spec, StaleEventsInert, StaleStep

=============================================================================
