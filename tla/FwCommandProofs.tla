-------------------------- MODULE FwCommandProofs --------------------------
(* Proofs about the firmware's command processor. *)
EXTENDS FwCommand, FiniteSetTheorems, SequenceTheorems, TLAPS

USE DEF At, Goto, Respond, Return, Call, Outcome, CanFail

\* Sequence numbers start at one, NoSeq is none of them.
LEMMA SeqFacts ==
    /\ NoSeq \in 0..MaxCmds /\ NoSeq = 0 /\ NoSeq \notin Seqs
    /\ Seqs \subseteq 0..MaxCmds /\ 0..MaxCmds \subseteq Seqs \union {NoSeq}
    /\ Seqs \subseteq Nat /\ 1 \in Seqs /\ MaxCmds \in Nat
  BY MaxCmdsAssumption DEF Seqs, NoSeq

\* The values of the data types.
LEMMA ValueFacts ==
    /\ NoAp \in Bssids /\ Aps \subseteq Bssids
    /\ {"NULL", "STA", "APSTA"} \subseteq WifiModes /\ Modes \subseteq WifiModes
  BY ModeAssumption DEF Bssids, WifiModes

-----------------------------------------------------------------------------
(* The command task: its program counter and its call stack *)

PlainPcs == Pcs \ (StopPcs \union StartPcs \union {"idle"})
Labels == StopCallers \union StartCallers \union {"startFailed"}

\* A call pushes its return point, a return takes it off again.
LEMMA StackFacts ==
    ASSUME NEW a \in Labels, NEW c \in Labels
    PROVE  /\ <<c>> \o <<>> = <<c>> /\ <<a>> \o <<c>> = <<a, c>>
           /\ Head(<<c>>) = c /\ Tail(<<c>>) = <<>>
           /\ Head(<<a, c>>) = a /\ Tail(<<a, c>>) = <<c>>
           /\ {<<>>, <<c>>, <<a, c>>} \subseteq Seq(Labels)
<1>1. /\ <<a>> \o <<c>> \in Seq(Labels) /\ <<a, c>> \in Seq(Labels)
      /\ Len(<<a>> \o <<c>>) = 2 /\ Len(<<a, c>>) = 2
      /\ \A i \in 1..2 : (<<a>> \o <<c>>)[i] = <<a, c>>[i]
  OBVIOUS
<1>2. <<a>> \o <<c>> = <<a, c>>
  BY <1>1, SeqEqual
<1>3. QED
  BY <1>2

\* What every request of a host contains.
LEMMA RequestFacts ==
    ASSUME NEW r \in Requests
    PROVE  r.c \in Commands /\ r.ap \in Bssids
  BY DEF Requests, Commands, Bssids

\* A handler of anything but a management frame stays one until it answers,
\* keeps its request and its sequence number, and takes up the undoing of an
\* INIT only when the response to it was lost.
MgmtPcs == {"MGMT_TX", "mgmtSend", "mgmtAccept", "lgSend"} \union AfterAnswer
Working(pc) == pc \in Pcs \ (MgmtPcs \union {"idle"})
Undoing == cmd.pc = "deinitialize" \/ cmd.k = <<"deinitialize">>
Moves ==
    Working(cmd.pc) =>
      \/ Working(cmd'.pc) /\ cmd'.seq = cmd.seq /\ cmd'.r = cmd.r
           /\ (Undoing' => Undoing \/ cmd.pc = "resp")
      \/ cmd' = CmdIdle /\ cmd.pc \in {"resp", "deinitialize"}

\* The ways in which a handler moves on: to its next step, to the end, into a
\* subroutine, and within or out of one.
LEMMA PlainMove ==
    ASSUME CmdType, ControlInv, host' = host, cmd.pc \in PlainPcs,
           NEW p \in PlainPcs \ {"deinitialize"}, cmd.pc \in MgmtPcs \/ p \notin MgmtPcs,
           cmd' = [cmd EXCEPT !.pc = p]
    PROVE  CmdType' /\ ControlInv' /\ Moves
<1>1. /\ cmd'.seq = cmd.seq /\ cmd'.r = cmd.r /\ cmd'.k = cmd.k /\ cmd'.pc = p
      /\ CmdType'
  BY DEF CmdType, PlainPcs
<1>2. QED
  BY <1>1 DEF ControlInv, PlainPcs, Moves, Working, Undoing

\* A handler that returns leaves the command task idle (process_cmd).
LEMMA IdleMove ==
    ASSUME CmdType, cmd' = CmdIdle, cmd.pc \in MgmtPcs \union {"resp", "deinitialize"}
    PROVE  CmdType' /\ ControlInv' /\ Moves
<1>1. CmdIdle \in [pc : Pcs, seq : 0..MaxCmds, r : Requests \union {NoRequest},
                   k : Seq(Labels), err : BOOLEAN, was : BOOLEAN,
                   cb : BOOLEAN, old : WifiModes]
  BY SeqFacts DEF CmdIdle, Pcs, WifiModes
<1>2. CmdType' /\ ControlInv'
  BY <1>1 DEF CmdType, ControlInv, CmdIdle, StopPcs, StartPcs, Labels
<1>3. QED
  BY <1>2 DEF Moves, Working

\* hosted_wifi_stop and hosted_wifi_start have steps of their own, and the
\* handlers that call them are none of those.
LEMMA SubFacts ==
    /\ \A p \in StopPcs : Working(p) /\ p \notin StartPcs /\ p \in Pcs \ {"idle", "deinitialize"}
    /\ \A p \in StartPcs : Working(p) /\ p \notin StopPcs /\ p \in Pcs \ {"idle", "deinitialize"}
    /\ \A p \in StartCallers : Working(p) /\ p \in PlainPcs \ {"deinitialize"} /\ p \in Labels
    /\ \A p \in StopCallers : Working(p) /\ p \in PlainPcs /\ p \in Labels
    /\ "stop" \in StopPcs /\ "start" \in StartPcs
  BY DEF Working, MgmtPcs, StopPcs, StartPcs, StopCallers, StartCallers,
         AfterAnswer, Pcs, PlainPcs, Labels

\* A handler calls hosted_wifi_stop: the call stack names that handler.
LEMMA StopCall ==
    ASSUME CmdType, ControlInv, host' = host, cmd.pc \in PlainPcs,
           NEW c \in StopCallers, c # "deinitialize" \/ cmd.pc = "resp",
           \/ cmd' = [cmd EXCEPT !.pc = "stop", !.k = <<c>> \o cmd.k]
           \/ cmd' = [[cmd EXCEPT !.pc = "stop", !.k = <<c>> \o cmd.k] EXCEPT !.err = FALSE]
    PROVE  CmdType' /\ ControlInv' /\ Moves
<1>1. c \in Labels /\ cmd.k = <<>>
  BY SubFacts DEF ControlInv, PlainPcs
<1>2. <<c>> \o cmd.k = <<c>> /\ <<c>> \in Seq(Labels)
  BY <1>1, StackFacts
<1>a. "stop" \in Pcs \ {"idle"}
  BY SubFacts
<1>3. /\ cmd'.pc = "stop" /\ cmd'.k = <<c>> /\ cmd'.seq = cmd.seq /\ cmd'.r = cmd.r
      /\ CmdType'
  <2>1. CASE cmd' = [cmd EXCEPT !.pc = "stop", !.k = <<c>> \o cmd.k]
    BY ZenonT(60), <1>2, <1>a, <2>1 DEF CmdType, Labels
  <2>2. CASE cmd' = [[cmd EXCEPT !.pc = "stop", !.k = <<c>> \o cmd.k] EXCEPT !.err = FALSE]
    BY <1>2, <1>a, <2>2 DEF CmdType, Labels
  <2>3. QED
    BY <2>1, <2>2
<1>4. ControlInv'
  BY <1>3, SubFacts DEF ControlInv, PlainPcs
<1>5. <<c>> = <<"deinitialize">> => cmd.pc = "resp"
  OBVIOUS
<1>6. QED
  BY <1>3, <1>4, <1>5, SubFacts DEF Moves, Undoing

\* A handler calls hosted_wifi_start: the call stack names that handler.
LEMMA StartCall ==
    ASSUME CmdType, ControlInv, host' = host, cmd.pc \in PlainPcs,
           NEW c \in StartCallers,
           \/ cmd' = [cmd EXCEPT !.pc = "start", !.k = <<c>> \o cmd.k]
           \/ cmd' = [[cmd EXCEPT !.pc = "start", !.k = <<c>> \o cmd.k] EXCEPT !.err = FALSE]
    PROVE  CmdType' /\ ControlInv' /\ Moves
<1>1. c \in Labels /\ cmd.k = <<>>
  BY SubFacts DEF ControlInv, PlainPcs
<1>2. <<c>> \o cmd.k = <<c>> /\ <<c>> \in Seq(Labels)
  BY <1>1, StackFacts
<1>3. /\ cmd'.pc = "start" /\ cmd'.k = <<c>> /\ cmd'.seq = cmd.seq /\ cmd'.r = cmd.r
      /\ CmdType'
  BY ZenonT(60), <1>2, SubFacts DEF CmdType, Labels
<1>4. ControlInv'
  BY <1>3, SubFacts DEF ControlInv, PlainPcs
<1>5. <<c>> # <<"deinitialize">>
  BY SubFacts
<1>6. QED
  BY <1>3, <1>4, <1>5, SubFacts DEF Moves, Undoing

\* hosted_wifi_stop goes on to its next step with the same caller.
LEMMA StopMove ==
    ASSUME CmdType, ControlInv, host' = host, cmd.pc \in StopPcs,
           NEW p \in StopPcs, NEW e \in BOOLEAN,
           \/ cmd' = [cmd EXCEPT !.pc = p]
           \/ cmd' = [[cmd EXCEPT !.pc = p] EXCEPT !.err = e]
    PROVE  CmdType' /\ ControlInv' /\ Moves
<1>1. /\ cmd'.seq = cmd.seq /\ cmd'.r = cmd.r /\ cmd'.k = cmd.k /\ cmd'.pc = p
      /\ CmdType'
  BY ZenonT(60), SubFacts DEF CmdType
<1>2. QED
  BY <1>1, SubFacts DEF ControlInv, Moves, Undoing

\* hosted_wifi_stop returns: to a handler, or to hosted_wifi_start when that
\* undoes a start, and then to the handler that called it.
LEMMA StopReturn ==
    ASSUME CmdType, ControlInv, host' = host, cmd.pc \in StopPcs,
           NEW e \in BOOLEAN,
           cmd' = [cmd EXCEPT !.pc = Head(cmd.k), !.k = Tail(cmd.k), !.err = e]
    PROVE  CmdType' /\ ControlInv' /\ Moves
<1>0. <<>> \in Seq(Labels)
  OBVIOUS
<1>1. CASE \E c \in StopCallers : cmd.k = <<c>>
  <2>1. PICK c \in StopCallers : cmd.k = <<c>>
    BY <1>1
  <2>2. Head(cmd.k) = c /\ Tail(cmd.k) = <<>>
    BY <2>1, SubFacts, StackFacts
  <2>3. /\ cmd'.seq = cmd.seq /\ cmd'.r = cmd.r /\ cmd'.k = <<>> /\ cmd'.pc = c
        /\ CmdType'
    BY <1>0, <2>2, SubFacts DEF CmdType, PlainPcs, Labels
  <2>4. QED
    BY <2>1, <2>3, SubFacts DEF ControlInv, PlainPcs, Moves, Undoing
<1>2. CASE \E c \in StartCallers : cmd.k = <<"startFailed", c>>
  <2>1. PICK c \in StartCallers : cmd.k = <<"startFailed", c>>
    BY <1>2
  <2>2. /\ Head(cmd.k) = "startFailed" /\ Tail(cmd.k) = <<c>> /\ <<c>> \in Seq(Labels)
        /\ <<c>> # <<"deinitialize">> /\ "startFailed" \in StartPcs
    BY <2>1, SubFacts, StackFacts DEF Labels, StartPcs
  <2>3. /\ cmd'.seq = cmd.seq /\ cmd'.r = cmd.r /\ cmd'.k = <<c>> /\ cmd'.pc = "startFailed"
        /\ CmdType'
    BY ZenonT(60), <1>0, <2>2, SubFacts DEF CmdType, PlainPcs, Labels
  <2>4. QED
    BY <2>2, <2>3, SubFacts DEF ControlInv, Moves, Undoing
<1>3. QED
  BY <1>1, <1>2 DEF ControlInv

\* hosted_wifi_start returns to the handler that called it.
LEMMA StartReturn ==
    ASSUME CmdType, ControlInv, host' = host, cmd.pc \in StartPcs,
           NEW e \in BOOLEAN,
           cmd' = [cmd EXCEPT !.pc = Head(cmd.k), !.k = Tail(cmd.k), !.err = e]
    PROVE  CmdType' /\ ControlInv' /\ Moves
<1>0. <<>> \in Seq(Labels) /\ <<>> # <<"deinitialize">>
  OBVIOUS
<1>1. PICK c \in StartCallers : cmd.k = <<c>>
  BY DEF ControlInv
<1>2. Head(cmd.k) = c /\ Tail(cmd.k) = <<>>
  BY <1>1, SubFacts, StackFacts
<1>3. /\ cmd'.seq = cmd.seq /\ cmd'.r = cmd.r /\ cmd'.k = <<>> /\ cmd'.pc = c
      /\ CmdType'
  BY <1>0, <1>2, SubFacts DEF CmdType, PlainPcs, Labels
<1>4. QED
  BY <1>0, <1>3, SubFacts DEF ControlInv, PlainPcs, Moves, Undoing

\* The command task keeps its shape, works on the host's last command and
\* always has a caller to return to (esp_cmd_dispatch, hosted_wifi_stop and
\* hosted_wifi_start).
LEMMA ControlNext ==
    ASSUME TypeOK, ControlInv, [Next]_vars
    PROVE  CmdType' /\ ControlInv' /\ (cmd' # cmd => Moves)
<1>1. CASE esp_cmd_dispatch
  <2>1. PICK r \in Requests :
            cmd' = [CmdIdle EXCEPT !.pc = r.c, !.r = r, !.seq = host.n + 1]
    BY ZenonT(60), <1>1 DEF esp_cmd_dispatch
  <2>2. r.c \in PlainPcs /\ <<>> \in Seq(Labels) /\ "NULL" \in WifiModes
    BY RequestFacts DEF Commands, PlainPcs, Pcs, StopPcs, StartPcs, WifiModes
  <2>3. host.n + 1 \in 0..MaxCmds /\ host'.n = host.n + 1
    BY <1>1, MaxCmdsAssumption DEF esp_cmd_dispatch, TypeOK, HostType, Seqs
  <2>4. CmdType' /\ ControlInv'
    BY <2>1, <2>2, <2>3 DEF CmdIdle, CmdType, ControlInv, PlainPcs, Labels
  <2>5. QED
    BY <1>1, <2>4 DEF esp_cmd_dispatch, Moves, Working
<1>2. CASE HostGivesUp
  BY <1>2 DEF HostGivesUp, CmdType, ControlInv, StopPcs, StartPcs, TypeOK, Moves, Working
<1>3. CASE send_command_resp
  <2>1. /\ cmd.pc \in PlainPcs /\ host' = host
        /\ {"deinitialize"} \subseteq StopCallers
    BY <1>3 DEF send_command_resp, MgmtPcs, PlainPcs, Pcs, Commands, StopPcs,
           StartPcs, StopCallers, StartCallers, AfterAnswer
  <2>2. QED
    BY ZenonT(60), <1>3, <2>1, StopCall, IdleMove
    DEF send_command_resp, TypeOK
<1>4. CASE deinitialize_wifi
  <2>1. cmd.pc \in PlainPcs /\ host' = host
    BY <1>4 DEF deinitialize_wifi, MgmtPcs, PlainPcs, Pcs, Commands, StopPcs,
           StartPcs, StopCallers, StartCallers, AfterAnswer
  <2>2. QED
    BY <1>4, <2>1, IdleMove
    DEF deinitialize_wifi, TypeOK
<1>5. CASE hosted_wifi_stop
  <2>1. cmd.pc \in StopPcs /\ {"esp_wifi_stop"} \subseteq StopPcs /\ host' = host
    BY <1>5 DEF hosted_wifi_stop, StopPcs
  <2>2. QED
    BY ZenonT(60), <1>5, <2>1, StopMove DEF hosted_wifi_stop, TypeOK
<1>6. CASE StopReturns
  <2>1. cmd.pc \in StopPcs /\ {"fence", "stopAck"} \subseteq StopPcs /\ host' = host
    BY <1>6 DEF StopReturns, StopPcs
  <2>2. QED
    BY ZenonT(60), <1>6, <2>1, StopMove DEF StopReturns, TypeOK
<1>7. CASE StaStopAcked
  <2>1. cmd.pc \in StopPcs /\ "fence" \in StopPcs /\ host' = host
    BY <1>7 DEF StaStopAcked, StopPcs
  <2>2. CASE cmd' = cmd
    BY <2>1, <2>2, SubFacts DEF CmdType, ControlInv, TypeOK, Moves, Undoing
  <2>3. QED
    BY ZenonT(60), <1>7, <2>1, <2>2, StopMove DEF StaStopAcked, TypeOK
<1>8. CASE PostFence
  <2>1. cmd.pc \in StopPcs /\ {"fenceAck"} \subseteq StopPcs /\ host' = host
    BY <1>8 DEF PostFence, StopPcs
  <2>2. QED
    BY ZenonT(60), <1>8, <2>1, StopMove DEF PostFence, TypeOK
<1>9. CASE FenceAcked
  <2>1. cmd.pc \in StopPcs /\ host' = host /\ cmd.err \in BOOLEAN
    BY <1>9 DEF FenceAcked, StopPcs, TypeOK, CmdType
  <2>2. CASE cmd' = cmd
    BY <2>1, <2>2, SubFacts DEF CmdType, ControlInv, TypeOK, Moves, Undoing
  <2>3. QED
    BY ZenonT(60), <1>9, <2>1, <2>2, StopReturn DEF FenceAcked, TypeOK
<1>10. CASE hosted_wifi_start
  <2>1. cmd.pc = "start" /\ {"start", "started"} \subseteq StartPcs /\ host' = host
    BY <1>10 DEF hosted_wifi_start, StartPcs
  <2>2. CASE cmd' = Goto("started")
    <3>1. /\ cmd'.seq = cmd.seq /\ cmd'.r = cmd.r /\ cmd'.k = cmd.k /\ cmd'.pc = "started"
          /\ CmdType'
      BY <2>1, <2>2, SubFacts DEF CmdType, TypeOK
    <3>2. QED
      BY <2>1, <3>1, SubFacts DEF ControlInv, TypeOK, Moves, Undoing
  <2>3. QED
    BY ZenonT(60), <1>10, <2>1, <2>2, StartReturn DEF hosted_wifi_start, TypeOK
<1>11. CASE StartReturns
  <2>1. cmd.pc = "started" /\ cmd.pc \in StartPcs /\ host' = host
    BY <1>11 DEF StartReturns, StartPcs
  <2>2. CASE cmd' = Call("stop", "startFailed")
    <3>1. PICK c \in StartCallers : cmd.k = <<c>>
      BY <2>1 DEF ControlInv
    <3>2. /\ <<"startFailed">> \o cmd.k = <<"startFailed", c>>
          /\ <<"startFailed", c>> \in Seq(Labels)
      BY <3>1, StackFacts, SubFacts DEF Labels
    <3>3. /\ cmd'.seq = cmd.seq /\ cmd'.r = cmd.r /\ cmd'.pc = "stop"
          /\ cmd'.k = <<"startFailed", c>> /\ CmdType'
      BY <2>2, <3>2, SubFacts DEF CmdType, TypeOK, Labels
    <3>4. <<"startFailed", c>> # <<"deinitialize">>
      OBVIOUS
    <3>5. QED
      BY <2>1, <3>3, <3>4, SubFacts DEF ControlInv, TypeOK, Moves, Undoing
  <2>3. QED
    BY ZenonT(60), <1>11, <2>1, <2>2, StartReturn DEF StartReturns, TypeOK
<1>12. CASE StartFailed
  <2>1. cmd.pc \in StartPcs /\ host' = host
    BY <1>12 DEF StartFailed, StartPcs
  <2>2. QED
    BY ZenonT(60), <1>12, <2>1, StartReturn DEF StartFailed, TypeOK
<1>13. CASE process_start_scan
  <2>1. /\ cmd.pc \in PlainPcs /\ host' = host
        /\ {"scanStart", "resp"} \subseteq PlainPcs \ MgmtPcs
    BY <1>13 DEF process_start_scan, MgmtPcs, PlainPcs, Pcs, Commands, StopPcs,
           StartPcs, StopCallers, StartCallers, AfterAnswer
  <2>2. QED
    BY <1>13, <2>1, PlainMove
    DEF process_start_scan, TypeOK
<1>14. CASE ScanStart
  <2>1. /\ cmd.pc \in PlainPcs /\ host' = host
        /\ {"resp"} \subseteq PlainPcs \ MgmtPcs
    BY <1>14 DEF ScanStart, MgmtPcs, PlainPcs, Pcs, Commands, StopPcs, StartPcs,
           StopCallers, StartCallers, AfterAnswer
  <2>2. QED
    BY <1>14, <2>1, PlainMove
    DEF ScanStart, TypeOK
<1>15. CASE process_monitor_config
  <2>1. /\ cmd.pc \in PlainPcs /\ host' = host
        /\ {"resp"} \subseteq PlainPcs \ MgmtPcs
    BY <1>15 DEF process_monitor_config, MgmtPcs, PlainPcs, Pcs, Commands,
           StopPcs, StartPcs, StopCallers, StartCallers, AfterAnswer
  <2>2. QED
    BY <1>15, <2>1, PlainMove
    DEF process_monitor_config, TypeOK
<1>16. CASE process_auth_request
  <2>1. /\ cmd.pc \in PlainPcs /\ host' = host
        /\ {"authBss", "resp"} \subseteq PlainPcs \ MgmtPcs
    BY <1>16 DEF process_auth_request, MgmtPcs, PlainPcs, Pcs, Commands, StopPcs,
           StartPcs, StopCallers, StartCallers, AfterAnswer
  <2>2. QED
    BY <1>16, <2>1, PlainMove
    DEF process_auth_request, TypeOK
<1>17. CASE AuthBssid
  <2>1. /\ cmd.pc \in PlainPcs /\ host' = host
        /\ {"authSend"} \subseteq PlainPcs \ MgmtPcs
    BY <1>17 DEF AuthBssid, MgmtPcs, PlainPcs, Pcs, Commands, StopPcs, StartPcs,
           StopCallers, StartCallers, AfterAnswer
  <2>2. QED
    BY <1>17, <2>1, PlainMove
    DEF AuthBssid, TypeOK
<1>18. CASE AuthSend
  <2>1. /\ cmd.pc \in PlainPcs /\ host' = host
        /\ {"authDone", "authLookup", "resp"} \subseteq PlainPcs \ MgmtPcs
    BY <1>18 DEF AuthSend, MgmtPcs, PlainPcs, Pcs, Commands, StopPcs, StartPcs,
           StopCallers, StartCallers, AfterAnswer
  <2>2. QED
    BY <1>18, <2>1, PlainMove
    DEF AuthSend, TypeOK
<1>19. CASE AuthConnect
  <2>1. /\ cmd.pc \in PlainPcs /\ host' = host
        /\ {"authDone", "resp"} \subseteq PlainPcs \ MgmtPcs
    BY <1>19 DEF AuthConnect, MgmtPcs, PlainPcs, Pcs, Commands, StopPcs,
           StartPcs, StopCallers, StartCallers, AfterAnswer
  <2>2. QED
    BY <1>19, <2>1, PlainMove
    DEF AuthConnect, TypeOK
<1>20. CASE AuthDone
  <2>1. /\ cmd.pc \in PlainPcs /\ host' = host
        /\ {"resp"} \subseteq PlainPcs \ MgmtPcs
    BY <1>20 DEF AuthDone, MgmtPcs, PlainPcs, Pcs, Commands, StopPcs, StartPcs,
           StopCallers, StartCallers, AfterAnswer
  <2>2. QED
    BY <1>20, <2>1, PlainMove
    DEF AuthDone, TypeOK
<1>21. CASE process_assoc_request
  <2>1. /\ cmd.pc \in PlainPcs /\ host' = host
        /\ {"resp"} \subseteq PlainPcs \ MgmtPcs
    BY <1>21 DEF process_assoc_request, MgmtPcs, PlainPcs, Pcs, Commands,
           StopPcs, StartPcs, StopCallers, StartCallers, AfterAnswer
  <2>2. QED
    BY <1>21, <2>1, PlainMove
    DEF process_assoc_request, TypeOK
<1>22. CASE process_sta_connect
  <2>1. /\ cmd.pc \in PlainPcs /\ host' = host
        /\ {"resp"} \subseteq PlainPcs \ MgmtPcs
        /\ {"connect"} \subseteq StartCallers
    BY <1>22 DEF process_sta_connect, MgmtPcs, PlainPcs, Pcs, Commands, StopPcs,
           StartPcs, StopCallers, StartCallers, AfterAnswer
  <2>2. QED
    BY ZenonT(60), <1>22, <2>1, PlainMove, StartCall
    DEF process_sta_connect, TypeOK
<1>23. CASE ConnectStarted
  <2>1. /\ cmd.pc \in PlainPcs /\ host' = host
        /\ {"resp"} \subseteq PlainPcs \ MgmtPcs
    BY <1>23 DEF ConnectStarted, MgmtPcs, PlainPcs, Pcs, Commands, StopPcs,
           StartPcs, StopCallers, StartCallers, AfterAnswer
  <2>2. QED
    BY <1>23, <2>1, PlainMove
    DEF ConnectStarted, TypeOK
<1>24. CASE process_disconnect
  <2>1. /\ cmd.pc \in PlainPcs /\ host' = host
        /\ {"resp"} \subseteq PlainPcs \ MgmtPcs
    BY SMTT(60), <1>24 DEF process_disconnect, MgmtPcs, PlainPcs, Pcs, Commands, StopPcs,
           StartPcs, StopCallers, StartCallers, AfterAnswer
  <2>2. QED
    BY <1>24, <2>1, PlainMove
    DEF process_disconnect, TypeOK
<1>25. CASE process_init_interface
  <2>1. /\ cmd.pc \in PlainPcs /\ host' = host
        /\ {"resp"} \subseteq PlainPcs \ MgmtPcs
        /\ {"resp"} \subseteq StartCallers
    BY <1>25 DEF process_init_interface, MgmtPcs, PlainPcs, Pcs, Commands,
           StopPcs, StartPcs, StopCallers, StartCallers, AfterAnswer
  <2>2. QED
    BY ZenonT(60), <1>25, <2>1, PlainMove, StartCall
    DEF process_init_interface, TypeOK
<1>26. CASE process_deinit_interface
  <2>1. /\ cmd.pc \in PlainPcs /\ host' = host
        /\ {"retire"} \subseteq PlainPcs \ MgmtPcs
    BY <1>26 DEF process_deinit_interface, MgmtPcs, PlainPcs, Pcs, Commands,
           StopPcs, StartPcs, StopCallers, StartCallers, AfterAnswer
  <2>2. QED
    BY <1>26, <2>1, PlainMove
    DEF process_deinit_interface, TypeOK
<1>27. CASE DeinitRetires
  <2>1. /\ cmd.pc \in PlainPcs /\ host' = host
        /\ {"resp"} \subseteq PlainPcs \ MgmtPcs
        /\ {"deinit", "rebuild"} \subseteq StopCallers
    BY <1>27 DEF DeinitRetires, MgmtPcs, PlainPcs, Pcs, Commands, StopPcs,
           StartPcs, StopCallers, StartCallers, AfterAnswer
  <2>2. QED
    BY ZenonT(60), <1>27, <2>1, PlainMove, StopCall
    DEF DeinitRetires, monitor_sta_idle, TypeOK
<1>28. CASE MonitorRebuild
  <2>1. /\ cmd.pc \in PlainPcs /\ host' = host
        /\ {"deinit"} \subseteq StartCallers
    BY <1>28 DEF MonitorRebuild, MgmtPcs, PlainPcs, Pcs, Commands, StopPcs,
           StartPcs, StopCallers, StartCallers, AfterAnswer
  <2>2. QED
    BY ZenonT(60), <1>28, <2>1, StartCall
    DEF MonitorRebuild, TypeOK
<1>29. CASE DeinitDone
  <2>1. /\ cmd.pc \in PlainPcs /\ host' = host
        /\ {"resp"} \subseteq PlainPcs \ MgmtPcs
    BY <1>29 DEF DeinitDone, MgmtPcs, PlainPcs, Pcs, Commands, StopPcs, StartPcs,
           StopCallers, StartCallers, AfterAnswer
  <2>2. QED
    BY <1>29, <2>1, PlainMove
    DEF DeinitDone, TypeOK
<1>30. CASE process_set_mode
  <2>1. /\ cmd.pc \in PlainPcs \ MgmtPcs /\ host' = host
        /\ {"resp", "modeCb"} \subseteq PlainPcs \ MgmtPcs
        /\ "mode" \in StopCallers
    BY <1>30 DEF process_set_mode, MgmtPcs, PlainPcs, Pcs, Commands, StopPcs, StartPcs, StopCallers,
           StartCallers, AfterAnswer
  <2>2. w.started \in BOOLEAN /\ w.cb \in BOOLEAN /\ lib.mode \in WifiModes
    BY DEF TypeOK, FlagType, LibType
  <2>3. CASE cmd' = Snapshot(Call("stop", "mode"))
    <3>1. cmd.k = <<>> /\ <<"mode">> \o cmd.k = <<"mode">> /\ <<"mode">> \in Seq(Labels)
      BY <2>1, StackFacts, SubFacts DEF ControlInv, PlainPcs
    <3>2. /\ cmd'.seq = cmd.seq /\ cmd'.r = cmd.r /\ cmd'.pc = "stop"
          /\ cmd'.k = <<"mode">> /\ CmdType'
      BY <2>2, <2>3, <3>1, SubFacts DEF Snapshot, CmdType, TypeOK, Labels
    <3>3. <<"mode">> # <<"deinitialize">>
      OBVIOUS
    <3>4. QED
      BY <2>1, <3>2, <3>3, SubFacts DEF ControlInv, TypeOK, PlainPcs, Moves, Undoing
  <2>4. CASE cmd' = Snapshot(Goto("modeCb"))
    <3>1. /\ cmd'.seq = cmd.seq /\ cmd'.r = cmd.r /\ cmd'.pc = "modeCb"
          /\ cmd'.k = cmd.k /\ CmdType'
      BY <2>1, <2>2, <2>4 DEF Snapshot, CmdType, TypeOK, PlainPcs
    <3>2. QED
      BY <2>1, <3>1 DEF ControlInv, TypeOK, PlainPcs, Moves, Undoing, Working
  <2>5. QED
    BY <1>30, <2>1, <2>3, <2>4, PlainMove DEF process_set_mode, TypeOK
<1>31. CASE process_set_ap_config
  <2>1. /\ cmd.pc \in PlainPcs \ MgmtPcs /\ host' = host
        /\ {"resp", "modeCb"} \subseteq PlainPcs \ MgmtPcs
        /\ "mode" \in StopCallers
    BY <1>31 DEF process_set_ap_config, MgmtPcs, PlainPcs, Pcs, Commands, StopPcs, StartPcs, StopCallers,
           StartCallers, AfterAnswer
  <2>2. w.started \in BOOLEAN /\ w.cb \in BOOLEAN /\ lib.mode \in WifiModes
    BY DEF TypeOK, FlagType, LibType
  <2>3. CASE cmd' = Snapshot(Call("stop", "mode"))
    <3>1. cmd.k = <<>> /\ <<"mode">> \o cmd.k = <<"mode">> /\ <<"mode">> \in Seq(Labels)
      BY <2>1, StackFacts, SubFacts DEF ControlInv, PlainPcs
    <3>2. /\ cmd'.seq = cmd.seq /\ cmd'.r = cmd.r /\ cmd'.pc = "stop"
          /\ cmd'.k = <<"mode">> /\ CmdType'
      BY <2>2, <2>3, <3>1, SubFacts DEF Snapshot, CmdType, TypeOK, Labels
    <3>3. <<"mode">> # <<"deinitialize">>
      OBVIOUS
    <3>4. QED
      BY <2>1, <3>2, <3>3, SubFacts DEF ControlInv, TypeOK, PlainPcs, Moves, Undoing
  <2>4. QED
    BY <1>31, <2>1, <2>3, PlainMove DEF process_set_ap_config, TypeOK
<1>32. CASE ModeStopped
  <2>1. /\ cmd.pc \in PlainPcs /\ host' = host
        /\ {"modeCb", "rollback", "resp"} \subseteq PlainPcs \ MgmtPcs
    BY <1>32 DEF ModeStopped, MgmtPcs, PlainPcs, Pcs, Commands, StopPcs,
           StartPcs, StopCallers, StartCallers, AfterAnswer
  <2>2. QED
    BY <1>32, <2>1, PlainMove
    DEF ModeStopped, TypeOK
<1>33. CASE ModeCallback
  <2>1. /\ cmd.pc \in PlainPcs /\ host' = host
        /\ {"modeDone", "rollback"} \subseteq PlainPcs \ MgmtPcs
        /\ {"modeDone"} \subseteq StartCallers
    BY <1>33 DEF ModeCallback, MgmtPcs, PlainPcs, Pcs, Commands, StopPcs,
           StartPcs, StopCallers, StartCallers, AfterAnswer
  <2>2. QED
    BY ZenonT(60), <1>33, <2>1, PlainMove, StartCall
    DEF ModeCallback, TypeOK
<1>34. CASE ModeDone
  <2>1. /\ cmd.pc \in PlainPcs /\ host' = host
        /\ {"rollback", "resp"} \subseteq PlainPcs \ MgmtPcs
    BY <1>34 DEF ModeDone, MgmtPcs, PlainPcs, Pcs, Commands, StopPcs, StartPcs,
           StopCallers, StartCallers, AfterAnswer
  <2>2. QED
    BY <1>34, <2>1, PlainMove
    DEF ModeDone, TypeOK
<1>35. CASE ModeRollback
  <2>1. /\ cmd.pc \in PlainPcs \ MgmtPcs /\ host' = host
        /\ "rolledBack" \in PlainPcs \ MgmtPcs
        /\ "rolledBack" \in StopCallers /\ "rolledBack" \in StartCallers
    BY <1>35 DEF ModeRollback, MgmtPcs, PlainPcs, Pcs, Commands, StopPcs, StartPcs, StopCallers,
           StartCallers, AfterAnswer
  <2>2. CASE cmd' = [Goto("rolledBack") EXCEPT !.err = FALSE]
    <3>1. /\ cmd'.seq = cmd.seq /\ cmd'.r = cmd.r /\ cmd'.pc = "rolledBack"
          /\ cmd'.k = cmd.k /\ CmdType'
      BY <2>1, <2>2 DEF CmdType, TypeOK, PlainPcs
    <3>2. QED
      BY <2>1, <3>1 DEF ControlInv, TypeOK, PlainPcs, Moves, Undoing, Working
  <2>3. QED
    BY ZenonT(60), <1>35, <2>1, <2>2, StartCall, StopCall DEF ModeRollback, TypeOK
<1>36. CASE ModeRolledBack
  <2>1. /\ cmd.pc \in PlainPcs /\ host' = host
        /\ {"resp"} \subseteq PlainPcs \ MgmtPcs
    BY <1>36 DEF ModeRolledBack, MgmtPcs, PlainPcs, Pcs, Commands, StopPcs,
           StartPcs, StopCallers, StartCallers, AfterAnswer
  <2>2. QED
    BY <1>36, <2>1, PlainMove
    DEF ModeRolledBack, TypeOK
<1>37. CASE process_mgmt_tx
  <2>1. /\ cmd.pc \in PlainPcs /\ host' = host
        /\ cmd.pc \in MgmtPcs
        /\ {"mgmtSend", "resp"} \subseteq PlainPcs
    BY <1>37 DEF process_mgmt_tx, MgmtPcs, PlainPcs, Pcs, Commands, StopPcs,
           StartPcs, StopCallers, StartCallers, AfterAnswer
  <2>2. QED
    BY <1>37, <2>1, PlainMove
    DEF process_mgmt_tx, TypeOK
<1>38. CASE MgmtSend
  <2>1. /\ cmd.pc \in PlainPcs /\ host' = host
        /\ cmd.pc \in MgmtPcs
        /\ {"mgmtAccept", "resp"} \subseteq PlainPcs
    BY <1>38 DEF MgmtSend, MgmtPcs, PlainPcs, Pcs, Commands, StopPcs, StartPcs,
           StopCallers, StartCallers, AfterAnswer
  <2>2. QED
    BY <1>38, <2>1, PlainMove
    DEF MgmtSend, TypeOK
<1>39. CASE hosted_send_mgmt_accept
  <2>1. /\ cmd.pc \in PlainPcs /\ host' = host
        /\ cmd.pc \in MgmtPcs
        /\ {"mgmtStatus", "mgmtTimer"} \subseteq PlainPcs
    BY <1>39 DEF hosted_send_mgmt_accept, MgmtPcs, PlainPcs, Pcs, Commands,
           StopPcs, StartPcs, StopCallers, StartCallers, AfterAnswer
  <2>2. QED
    BY <1>39, <2>1, PlainMove, IdleMove
    DEF hosted_send_mgmt_accept, TypeOK
<1>40. CASE MgmtTimer
  <2>1. /\ cmd.pc \in PlainPcs /\ host' = host
        /\ cmd.pc \in MgmtPcs
        /\ {"mgmtAccepted", "mgmtUntimed"} \subseteq PlainPcs
    BY <1>40 DEF MgmtTimer, MgmtPcs, PlainPcs, Pcs, Commands, StopPcs, StartPcs,
           StopCallers, StartCallers, AfterAnswer
  <2>2. QED
    BY <1>40, <2>1, PlainMove
    DEF MgmtTimer, TypeOK
<1>40a. CASE MgmtUntimed
  <2>1. /\ cmd.pc \in PlainPcs /\ host' = host
        /\ cmd.pc \in MgmtPcs
    BY <1>40a DEF MgmtUntimed, MgmtPcs, PlainPcs, Pcs, Commands, StopPcs, StartPcs,
           StopCallers, StartCallers, AfterAnswer
  <2>2. QED
    BY <1>40a, <2>1, IdleMove
    DEF MgmtUntimed, TypeOK
<1>41. CASE hosted_mgmt_mark_accepted
  <2>1. /\ cmd.pc \in PlainPcs /\ host' = host
        /\ cmd.pc \in MgmtPcs
    BY <1>41 DEF hosted_mgmt_mark_accepted, MgmtPcs, PlainPcs, Pcs, Commands,
           StopPcs, StartPcs, StopCallers, StartCallers, AfterAnswer
  <2>2. QED
    BY <1>41, <2>1, IdleMove
    DEF hosted_mgmt_mark_accepted, TypeOK
<1>42. CASE MgmtStatus
  <2>1. /\ cmd.pc \in PlainPcs /\ host' = host
        /\ cmd.pc \in MgmtPcs
    BY <1>42 DEF MgmtStatus, MgmtPcs, PlainPcs, Pcs, Commands, StopPcs, StartPcs,
           StopCallers, StartCallers, AfterAnswer
  <2>2. QED
    BY <1>42, <2>1, IdleMove
    DEF MgmtStatus, TypeOK
<1>43. CASE process_mgmt_tx_unmarked
  <2>1. /\ cmd.pc \in PlainPcs /\ host' = host
        /\ cmd.pc \in MgmtPcs
        /\ {"lgSend", "resp"} \subseteq PlainPcs
    BY <1>43 DEF process_mgmt_tx_unmarked, MgmtPcs, PlainPcs, Pcs, Commands,
           StopPcs, StartPcs, StopCallers, StartCallers, AfterAnswer
  <2>2. QED
    BY <1>43, <2>1, PlainMove
    DEF process_mgmt_tx_unmarked, mgmt_tx_inflight_begin, TypeOK
<1>44. CASE UnmarkedSend
  <2>1. /\ cmd.pc \in PlainPcs /\ host' = host
        /\ cmd.pc \in MgmtPcs
        /\ {"resp"} \subseteq PlainPcs
    BY <1>44 DEF UnmarkedSend, MgmtPcs, PlainPcs, Pcs, Commands, StopPcs,
           StartPcs, StopCallers, StartCallers, AfterAnswer
  <2>2. QED
    BY <1>44, <2>1, PlainMove, IdleMove
    DEF UnmarkedSend, TypeOK
<1>45. CASE OnStart \/ OnConnected \/ OnDisconnected \/ OnScanDone \/
          OnApStop \/ OnStaStop \/ hosted_scan_fence_handler \/
          mgmt_txcb \/ sta_rx_auth \/ AssocResponse \/ LibConnected \/
          LibDisconnected \/ LibScanDone \/ LibLookupDone \/ LibStaStop \/
          TimerTask \/ hosted_mgmt_finish_owned \/
          UNCHANGED vars
  <2>1. UNCHANGED <<cmd, host>>
    BY ZenonT(60), <1>45 DEF OnStart, OnConnected, OnDisconnected, OnScanDone, OnApStop,
           OnStaStop, hosted_scan_fence_handler, mgmt_txcb, sta_rx_auth,
           AssocResponse, LibConnected, LibDisconnected, LibScanDone,
           LibLookupDone, LibStaStop, TimerTask, hosted_mgmt_timeout_cb,
           hosted_mgmt_finish_owned, Dispatched, vars
  <2>2. QED
    BY SMTT(60), <2>1 DEF CmdType, ControlInv, TypeOK
<1>46. QED
  BY <1>1, <1>2, <1>3, <1>4, <1>5, <1>6, <1>7, <1>8, <1>9, <1>10, <1>11,
     <1>12, <1>13, <1>14, <1>15, <1>16, <1>17, <1>18, <1>19, <1>20, <1>21,
     <1>22, <1>23, <1>24, <1>25, <1>26, <1>27, <1>28, <1>29, <1>30, <1>31,
     <1>32, <1>33, <1>34, <1>35, <1>36, <1>37, <1>38, <1>39, <1>40, <1>40a, <1>41,
     <1>42, <1>43, <1>44, <1>45
  DEF Next, WifiStop, WifiStart, Scan, Auth, Session, Interface, Mode, Mgmt,
      CommandTask, EventLoop, WifiTask

\* The life cycle flags are Booleans.
LEMMA LifeCycleType ==
    ASSUME FlagType, LibType, [Next]_vars
    PROVE  w' \in [started : BOOLEAN, stopping : BOOLEAN, ackPend : BOOLEAN,
                  ack : BOOLEAN, cb : BOOLEAN, apUp : BOOLEAN,
                  staInit : BOOLEAN, mon : BOOLEAN]
<1>1. CASE hosted_wifi_stop
  BY ZenonT(60), <1>1 DEF hosted_wifi_stop, hosted_scan_abort, Event, FlagType, LibType
<1>2. CASE StopReturns
  BY ZenonT(60), <1>2 DEF StopReturns, FlagType
<1>3. CASE PostFence
  BY <1>3 DEF PostFence, Event, FlagType, LibType
<1>4. CASE FenceAcked
  BY ZenonT(60), <1>4 DEF FenceAcked, Restart, FlagType, LibType
<1>5. CASE StartReturns
  BY ZenonT(60), <1>5 DEF StartReturns, channel_transition_active, FlagType, LibType
<1>6. CASE process_monitor_config
  BY ZenonT(60), <1>6 DEF process_monitor_config, esp_hosted_monitor_config,
         channel_transition_active, FlagType, LibType
<1>7. CASE ModeCallback
  BY ZenonT(60), <1>7 DEF ModeCallback, Target, ModeOf, FlagType, LibType
<1>8. CASE ModeRollback
  BY <1>8 DEF ModeRollback, SetMode, Event, FlagType, LibType
<1>9. CASE process_mgmt_tx
  BY ZenonT(60), <1>9 DEF process_mgmt_tx, Marked, Tracked, hosted_mgmt_begin, NoTx,
         FlagType, LibType
<1>10. CASE process_mgmt_tx_unmarked
  BY ZenonT(60), <1>10 DEF process_mgmt_tx_unmarked, Marked, mgmt_tx_inflight_begin,
         FlagType, LibType
<1>11. CASE OnStart
  BY <1>11 DEF OnStart, Dispatched, FlagType, LibType
<1>12. CASE OnApStop
  BY <1>12 DEF OnApStop, Dispatched, Running, FlagType, LibType
<1>13. CASE OnStaStop
  BY ZenonT(60), <1>13 DEF OnStaStop, FlagType
<1>14. CASE hosted_scan_fence_handler
  BY <1>14 DEF hosted_scan_fence_handler, Dispatched, FlagType, LibType
<1>15. CASE esp_cmd_dispatch \/ HostGivesUp \/ send_command_resp \/
          deinitialize_wifi \/ StaStopAcked \/ hosted_wifi_start \/
          StartFailed \/ process_start_scan \/ ScanStart \/
          process_auth_request \/ AuthBssid \/ AuthSend \/ AuthConnect \/
          AuthDone \/ process_assoc_request \/ process_sta_connect \/
          ConnectStarted \/ process_disconnect \/ process_init_interface \/
          process_deinit_interface \/ DeinitRetires \/ MonitorRebuild \/
          DeinitDone \/ process_set_mode \/ process_set_ap_config \/
          ModeStopped \/ ModeDone \/ ModeRolledBack \/ MgmtSend \/
          hosted_send_mgmt_accept \/ MgmtTimer \/ MgmtUntimed \/
          hosted_mgmt_mark_accepted \/ MgmtStatus \/ UnmarkedSend \/
          OnConnected \/ OnDisconnected \/ OnScanDone \/ mgmt_txcb \/
          sta_rx_auth \/ AssocResponse \/ LibConnected \/
          LibDisconnected \/ LibScanDone \/ LibLookupDone \/ LibStaStop \/
          TimerTask \/ hosted_mgmt_finish_owned \/
          UNCHANGED vars
  <2>1. UNCHANGED <<w>>
    BY ZenonT(60), <1>15 DEF esp_cmd_dispatch, HostGivesUp, send_command_resp,
           deinitialize_wifi, StaStopAcked, hosted_wifi_start, StartFailed,
           process_start_scan, ScanStart, process_auth_request, AuthBssid,
           AuthSend, AuthConnect, AuthDone, process_assoc_request,
           process_sta_connect, ConnectStarted, process_disconnect,
           process_init_interface, process_deinit_interface, DeinitRetires,
           MonitorRebuild, DeinitDone, process_set_mode,
           process_set_ap_config, ModeStopped, ModeDone, ModeRolledBack,
           MgmtSend, hosted_send_mgmt_accept, MgmtTimer, MgmtUntimed,
           hosted_mgmt_mark_accepted, MgmtStatus, UnmarkedSend, OnConnected,
           OnDisconnected, OnScanDone, mgmt_txcb, sta_rx_auth, AssocResponse,
           LibConnected, LibDisconnected, LibScanDone, LibLookupDone,
           LibStaStop, TimerTask, hosted_mgmt_timeout_cb, hosted_mgmt_finish_owned,
           Dispatched, vars
  <2>2. QED
    BY <2>1 DEF FlagType, LibType
<1>16. QED
  BY <1>1, <1>2, <1>3, <1>4, <1>5, <1>6, <1>7, <1>8, <1>9, <1>10, <1>11,
     <1>12, <1>13, <1>14, <1>15
  DEF Next, WifiStop, WifiStart, Scan, Auth, Session, Interface, Mode, Mgmt,
      CommandTask, EventLoop, WifiTask

\* So are those of a scan.
LEMMA ScanType ==
    ASSUME FlagType, CmdType, [Next]_vars
    PROVE  sc' \in [run : BOOLEAN, drain : BOOLEAN, auth : BOOLEAN, owner : 0..MaxCmds]
<1>1. CASE hosted_wifi_stop
  BY <1>1 DEF hosted_wifi_stop, hosted_scan_abort, Event, FlagType, CmdType
<1>2. CASE process_start_scan
  BY <1>2 DEF process_start_scan, monitor_channel_allowed, FlagType, CmdType
<1>3. CASE ScanStart
  BY ZenonT(60), <1>3 DEF ScanStart, FlagType, CmdType
<1>4. CASE AuthSend
  BY ZenonT(60), <1>4 DEF AuthSend, AuthRejected, FlagType, CmdType
<1>5. CASE AuthConnect
  BY <1>5 DEF AuthConnect, AuthRejected, FlagType, CmdType
<1>6. CASE OnScanDone
  BY ZenonT(60), <1>6 DEF OnScanDone, Dispatched, FlagType, CmdType
<1>7. CASE hosted_scan_fence_handler
  BY ZenonT(60), <1>7 DEF hosted_scan_fence_handler, Dispatched, FlagType, CmdType
<1>8. CASE esp_cmd_dispatch \/ HostGivesUp \/ send_command_resp \/
          deinitialize_wifi \/ StopReturns \/ StaStopAcked \/ PostFence \/
          FenceAcked \/ hosted_wifi_start \/ StartReturns \/
          StartFailed \/ process_monitor_config \/ process_auth_request \/
          AuthBssid \/ AuthDone \/ process_assoc_request \/
          process_sta_connect \/ ConnectStarted \/ process_disconnect \/
          process_init_interface \/ process_deinit_interface \/
          DeinitRetires \/ MonitorRebuild \/ DeinitDone \/
          process_set_mode \/ process_set_ap_config \/ ModeStopped \/
          ModeCallback \/ ModeDone \/ ModeRollback \/ ModeRolledBack \/
          process_mgmt_tx \/ MgmtSend \/ hosted_send_mgmt_accept \/
          MgmtTimer \/ MgmtUntimed \/ hosted_mgmt_mark_accepted \/ MgmtStatus \/
          process_mgmt_tx_unmarked \/ UnmarkedSend \/ OnStart \/
          OnConnected \/ OnDisconnected \/ OnApStop \/ OnStaStop \/
          mgmt_txcb \/ sta_rx_auth \/ AssocResponse \/ LibConnected \/
          LibDisconnected \/ LibScanDone \/ LibLookupDone \/ LibStaStop \/
          TimerTask \/ hosted_mgmt_finish_owned \/
          UNCHANGED vars
  <2>1. UNCHANGED <<sc>>
    BY ZenonT(60), <1>8 DEF esp_cmd_dispatch, HostGivesUp, send_command_resp,
           deinitialize_wifi, StopReturns, StaStopAcked, PostFence,
           FenceAcked, hosted_wifi_start, StartReturns, StartFailed,
           process_monitor_config, process_auth_request, AuthBssid, AuthDone,
           process_assoc_request, process_sta_connect, ConnectStarted,
           process_disconnect, process_init_interface,
           process_deinit_interface, DeinitRetires, MonitorRebuild,
           DeinitDone, process_set_mode, process_set_ap_config, ModeStopped,
           ModeCallback, ModeDone, ModeRollback, ModeRolledBack,
           process_mgmt_tx, MgmtSend, hosted_send_mgmt_accept, MgmtTimer, MgmtUntimed,
           hosted_mgmt_mark_accepted, MgmtStatus, process_mgmt_tx_unmarked,
           UnmarkedSend, OnStart, OnConnected, OnDisconnected, OnApStop,
           OnStaStop, mgmt_txcb, sta_rx_auth, AssocResponse, LibConnected,
           LibDisconnected, LibScanDone, LibLookupDone, LibStaStop,
           TimerTask, hosted_mgmt_timeout_cb, hosted_mgmt_finish_owned, Dispatched, vars
  <2>2. QED
    BY <2>1 DEF FlagType, CmdType
<1>9. QED
  BY <1>1, <1>2, <1>3, <1>4, <1>5, <1>6, <1>7, <1>8
  DEF Next, WifiStop, WifiStart, Scan, Auth, Session, Interface, Mode, Mgmt,
      CommandTask, EventLoop, WifiTask

\* The firmware runs, or restarts.
LEMMA UpType ==
    ASSUME FlagType, CmdType, [Next]_vars
    PROVE  up' \in BOOLEAN
<1>1. CASE StaStopAcked
  BY <1>1 DEF StaStopAcked, Restart, FlagType, CmdType
<1>2. CASE PostFence
  BY <1>2 DEF PostFence, Event, FlagType, CmdType
<1>3. CASE FenceAcked
  BY <1>3 DEF FenceAcked, Restart, FlagType, CmdType
<1>4. CASE process_deinit_interface
  BY <1>4 DEF process_deinit_interface, hosted_mgmt_fail_pending, Report,
         NoTx, FlagType, CmdType
<1>5. CASE MonitorRebuild
  BY <1>5 DEF MonitorRebuild, SetMode, Event, FlagType, CmdType
<1>6. CASE DeinitDone
  BY <1>6 DEF DeinitDone, FlagType, CmdType
<1>7. CASE ModeDone
  BY <1>7 DEF ModeDone, hosted_mgmt_fail_pending, Report, NoTx, FlagType,
         CmdType
<1>8. CASE ModeRollback
  BY <1>8 DEF ModeRollback, SetMode, Event, FlagType, CmdType
<1>9. CASE ModeRolledBack
  BY <1>9 DEF ModeRolledBack, FlagType, CmdType
<1>10. CASE MgmtUntimed
  BY <1>10 DEF MgmtUntimed, Report, CmdIdle, FlagType, CmdType
<1>11. CASE hosted_mgmt_mark_accepted
  BY <1>11 DEF hosted_mgmt_mark_accepted, OwnPending, Report, NoTx, CmdIdle,
         FlagType, CmdType
<1>12. CASE OnDisconnected
  BY <1>12 DEF OnDisconnected, Dispatched, Running,
         handle_sta_disconnected_event, NoSession, FlagType, CmdType
<1>13. CASE sta_rx_auth
  BY <1>13 DEF sta_rx_auth, FlagType, CmdType
<1>14. CASE AssocResponse
  BY ZenonT(60), <1>14 DEF AssocResponse, sta_rx_assoc, is_valid_assoc_resp, Left,
         LeftEvents, Event, FlagType, CmdType
<1>15. CASE hosted_mgmt_finish_owned
  BY <1>15 DEF hosted_mgmt_finish_owned, FlagType, CmdType
<1>15a. CASE process_monitor_config
  BY <1>15a DEF process_monitor_config, FlagType, CmdType
<1>16. CASE esp_cmd_dispatch \/ HostGivesUp \/ send_command_resp \/
          deinitialize_wifi \/ hosted_wifi_stop \/ StopReturns \/
          hosted_wifi_start \/ StartReturns \/ StartFailed \/
          process_start_scan \/ ScanStart \/
          process_auth_request \/ AuthBssid \/ AuthSend \/ AuthConnect \/
          AuthDone \/ process_assoc_request \/ process_sta_connect \/
          ConnectStarted \/ process_disconnect \/ process_init_interface \/
          DeinitRetires \/ process_set_mode \/ process_set_ap_config \/
          ModeStopped \/ ModeCallback \/ process_mgmt_tx \/ MgmtSend \/
          hosted_send_mgmt_accept \/ MgmtTimer \/ MgmtStatus \/
          process_mgmt_tx_unmarked \/ UnmarkedSend \/ OnStart \/
          OnConnected \/ OnScanDone \/ OnApStop \/ OnStaStop \/
          hosted_scan_fence_handler \/ mgmt_txcb \/ LibConnected \/
          LibDisconnected \/ LibScanDone \/ LibLookupDone \/ LibStaStop \/
          TimerTask \/ UNCHANGED vars
  <2>1. UNCHANGED <<up>>
    BY ZenonT(60), <1>16 DEF esp_cmd_dispatch, HostGivesUp, send_command_resp,
           deinitialize_wifi, hosted_wifi_stop, StopReturns,
           hosted_wifi_start, StartReturns, StartFailed, process_start_scan,
           ScanStart, process_auth_request, AuthBssid,
           AuthSend, AuthConnect, AuthDone, process_assoc_request,
           process_sta_connect, ConnectStarted, process_disconnect,
           process_init_interface, DeinitRetires, process_set_mode,
           process_set_ap_config, ModeStopped, ModeCallback, process_mgmt_tx,
           MgmtSend, hosted_send_mgmt_accept, MgmtTimer, MgmtStatus,
           process_mgmt_tx_unmarked, UnmarkedSend, OnStart, OnConnected,
           OnScanDone, OnApStop, OnStaStop, hosted_scan_fence_handler,
           mgmt_txcb, LibConnected, LibDisconnected, LibScanDone,
           LibLookupDone, LibStaStop, TimerTask, hosted_mgmt_timeout_cb, Dispatched, vars
  <2>2. QED
    BY <2>1 DEF FlagType, CmdType
<1>17. QED
  BY <1>1, <1>2, <1>3, <1>4, <1>5, <1>6, <1>7, <1>8, <1>9, <1>10, <1>11,
     <1>12, <1>13, <1>14, <1>15, <1>15a, <1>16
  DEF Next, WifiStop, WifiStart, Scan, Auth, Session, Interface, Mode, Mgmt,
      CommandTask, EventLoop, WifiTask

\* Only CanFail admits a fault.
LEMMA FaultType ==
    ASSUME FlagType, [Next]_vars
    PROVE  faults' \in 0..MaxFaults
<1>1. CASE send_command_resp
  BY <1>1, MaxCmdsAssumption DEF send_command_resp, Lost, Answered, CmdIdle,
         FlagType
<1>2. CASE StopReturns
  BY <1>2, MaxCmdsAssumption DEF StopReturns, RetiredSession, NoSession,
         mgmt_tx_fail_pending, NoLg, StoppedLib, StoppedEvents, Event,
         FlagType
<1>3. CASE StaStopAcked
  BY <1>3, MaxCmdsAssumption DEF StaStopAcked, Restart, FlagType
<1>4. CASE PostFence
  BY <1>4, MaxCmdsAssumption DEF PostFence, Event, FlagType
<1>5. CASE FenceAcked
  BY <1>5, MaxCmdsAssumption DEF FenceAcked, Restart, FlagType
<1>6. CASE hosted_wifi_start
  BY <1>6, MaxCmdsAssumption DEF hosted_wifi_start, StartedEvents, FlagType
<1>7. CASE StartReturns
  BY <1>7, MaxCmdsAssumption DEF StartReturns, channel_transition_active,
         FlagType
<1>8. CASE ScanStart
  BY <1>8, MaxCmdsAssumption DEF ScanStart, FlagType
<1>9. CASE process_monitor_config
  BY <1>9, MaxCmdsAssumption DEF process_monitor_config,
         esp_hosted_monitor_config, channel_transition_active, FlagType
<1>10. CASE AuthSend
  BY <1>10, MaxCmdsAssumption DEF AuthSend, AuthRejected, FlagType
<1>11. CASE AuthConnect
  BY <1>11, MaxCmdsAssumption DEF AuthConnect, AuthRejected, FlagType
<1>12. CASE process_assoc_request
  BY <1>12, MaxCmdsAssumption DEF process_assoc_request, NoAssoc, FlagType
<1>13. CASE ConnectStarted
  BY <1>13, MaxCmdsAssumption DEF ConnectStarted, NoAssoc, FlagType
<1>14. CASE process_init_interface
  BY <1>14, MaxCmdsAssumption DEF process_init_interface, ModeOf, LeftEvents,
         Event, Left, FlagType
<1>15. CASE process_deinit_interface
  BY <1>15, MaxCmdsAssumption DEF process_deinit_interface,
         hosted_mgmt_fail_pending, Report, NoTx, FlagType
<1>16. CASE MonitorRebuild
  BY <1>16, MaxCmdsAssumption DEF MonitorRebuild, SetMode, Event, FlagType
<1>17. CASE ModeStopped
  BY <1>17, MaxCmdsAssumption DEF ModeStopped, SetMode, Event, Target, ModeOf,
         FlagType
<1>18. CASE ModeCallback
  BY <1>18, MaxCmdsAssumption DEF ModeCallback, Target, ModeOf, FlagType
<1>19. CASE ModeDone
  BY <1>19, MaxCmdsAssumption DEF ModeDone, hosted_mgmt_fail_pending, Report,
         NoTx, FlagType
<1>20. CASE ModeRollback
  BY <1>20, MaxCmdsAssumption DEF ModeRollback, SetMode, Event, FlagType
<1>21. CASE process_mgmt_tx
  BY <1>21, MaxCmdsAssumption DEF process_mgmt_tx, Marked, Tracked,
         hosted_mgmt_begin, NoTx, FlagType
<1>22. CASE MgmtSend
  BY <1>22, MaxCmdsAssumption DEF MgmtSend, Transmit, Tracked,
         hosted_mgmt_abort_pending, NoTx, FlagType
<1>23. CASE hosted_send_mgmt_accept
  BY <1>23, MaxCmdsAssumption DEF hosted_send_mgmt_accept, Tracked,
         hosted_mgmt_abort_pending, NoTx, Lost, Answered, CmdIdle, FlagType
<1>24. CASE MgmtTimer
  BY <1>24, MaxCmdsAssumption DEF MgmtTimer, OwnPending, FlagType
<1>24a. CASE MgmtUntimed
  BY <1>24a, MaxCmdsAssumption DEF MgmtUntimed, Report, CmdIdle, FlagType
<1>25. CASE hosted_mgmt_mark_accepted
  BY <1>25, MaxCmdsAssumption DEF hosted_mgmt_mark_accepted, OwnPending,
         Report, NoTx, CmdIdle, FlagType
<1>26. CASE MgmtStatus
  BY <1>26, MaxCmdsAssumption DEF MgmtStatus, CmdIdle, FlagType
<1>27. CASE process_mgmt_tx_unmarked
  BY <1>27, MaxCmdsAssumption DEF process_mgmt_tx_unmarked, Marked,
         mgmt_tx_inflight_begin, FlagType
<1>28. CASE UnmarkedSend
  BY <1>28, MaxCmdsAssumption DEF UnmarkedSend, Transmit, Tracked, NoLg,
         CmdIdle, FlagType
<1>29. CASE OnDisconnected
  BY <1>29, MaxCmdsAssumption DEF OnDisconnected, Dispatched, Running,
         handle_sta_disconnected_event, NoSession, FlagType
<1>30. CASE OnScanDone
  BY <1>30, MaxCmdsAssumption DEF OnScanDone, Dispatched, FlagType
<1>31. CASE mgmt_txcb
  BY <1>31, MaxCmdsAssumption DEF mgmt_txcb, mgmt_txcb_marked,
         hosted_mgmt_data_matches, NoTx, mgmt_txcb_unmarked,
         mgmt_tx_token_matches, NoLg, FlagType
<1>32. CASE sta_rx_auth
  BY <1>32, MaxCmdsAssumption DEF sta_rx_auth, FlagType
<1>33. CASE AssocResponse
  BY <1>33, MaxCmdsAssumption DEF AssocResponse, sta_rx_assoc,
         is_valid_assoc_resp, Left, LeftEvents, Event, FlagType
<1>34. CASE LibLookupDone
  BY <1>34, MaxCmdsAssumption DEF LibLookupDone, Event, FlagType
<1>35. CASE hosted_mgmt_finish_owned
  BY <1>35, MaxCmdsAssumption DEF hosted_mgmt_finish_owned, FlagType
<1>36. CASE esp_cmd_dispatch \/ HostGivesUp \/ deinitialize_wifi \/
          hosted_wifi_stop \/ StartFailed \/ process_start_scan \/
          process_auth_request \/ AuthBssid \/ AuthDone \/
          process_sta_connect \/ process_disconnect \/ DeinitRetires \/
          DeinitDone \/ process_set_mode \/ process_set_ap_config \/
          ModeRolledBack \/ OnStart \/ OnConnected \/ OnApStop \/
          OnStaStop \/ hosted_scan_fence_handler \/ LibConnected \/
          LibDisconnected \/ LibScanDone \/ LibStaStop \/
          TimerTask \/ UNCHANGED vars
  <2>1. UNCHANGED <<faults>>
    BY ZenonT(60), <1>36 DEF esp_cmd_dispatch, HostGivesUp, deinitialize_wifi,
           hosted_wifi_stop, StartFailed, process_start_scan,
           process_auth_request, AuthBssid, AuthDone, process_sta_connect,
           process_disconnect, DeinitRetires, DeinitDone, process_set_mode,
           process_set_ap_config, ModeRolledBack, OnStart, OnConnected,
           OnApStop, OnStaStop, hosted_scan_fence_handler, LibConnected,
           LibDisconnected, LibScanDone, LibStaStop, TimerTask, hosted_mgmt_timeout_cb,
           Dispatched, vars
  <2>2. QED
    BY SMTT(60), <2>1, MaxCmdsAssumption DEF FlagType
<1>37. QED
  BY <1>1, <1>2, <1>3, <1>4, <1>5, <1>6, <1>7, <1>8, <1>9, <1>10, <1>11,
     <1>12, <1>13, <1>14, <1>15, <1>16, <1>17, <1>18, <1>19, <1>20, <1>21,
     <1>22, <1>23, <1>24, <1>24a, <1>25, <1>26, <1>27, <1>28, <1>29, <1>30, <1>31,
     <1>32, <1>33, <1>34, <1>35, <1>36
  DEF Next, WifiStop, WifiStart, Scan, Auth, Session, Interface, Mode, Mgmt,
      CommandTask, EventLoop, WifiTask

\* What the station remembers of its session.
SessionRec ==
    [ongoing : BOOLEAN, connected : BOOLEAN,
     authGen : 0..MaxCmds, assocGen : 0..MaxCmds, connGen : 0..MaxCmds,
     discGen : 0..MaxCmds, authBss : Bssids, assocBss : Bssids, apBss : Bssids]

\* Rejecting an association or an authentication, and forgetting a session,
\* leaves a session.
LEMMA SessionFacts ==
    ASSUME NEW t \in SessionRec, NEW u \in SessionRec
    PROVE  /\ NoAssoc(t) \in SessionRec /\ AuthRejected(t) \in SessionRec
           /\ NoSession \in SessionRec
           /\ [NoSession EXCEPT !.authBss = u.authBss] \in SessionRec
           /\ [NoSession EXCEPT !.authBss = u.authBss, !.apBss = u.apBss]
                \in SessionRec
<1>1. u.authBss \in Bssids /\ u.apBss \in Bssids
  BY DEF SessionRec
<1>2. NoSession \in SessionRec
  BY SeqFacts, ValueFacts DEF NoSession, SessionRec
<1>3. QED
  BY <1>1, <1>2, SeqFacts, ValueFacts DEF NoAssoc, AuthRejected, SessionRec

\* The session holds sequence numbers and BSSIDs.
LEMMA SessionNext ==
    ASSUME SessionType, CmdType, LibType, [Next]_vars
    PROVE  SessionType'
<1>a. /\ cmd.seq \in 0..MaxCmds /\ cmd.r.ap \in Bssids /\ lib.peer \in Bssids
      /\ NoSeq \in 0..MaxCmds /\ NoAp \in Bssids
  BY RequestFacts, ValueFacts, SeqFacts DEF CmdType, NoRequest, LibType
<1>b. s \in SessionRec
  BY DEF SessionType, SessionRec
<1>c. /\ NoAssoc(s) \in SessionRec /\ AuthRejected(s) \in SessionRec
      /\ [NoSession EXCEPT !.authBss = s.authBss] \in SessionRec
      /\ RetiredSession \in SessionRec
  BY ZenonT(60), <1>b, SessionFacts DEF RetiredSession
<1> SUFFICES s' \in SessionRec
  BY DEF SessionType, SessionRec
<1>1. CASE StopReturns
  BY <1>1, <1>a, <1>b, <1>c DEF StopReturns, SessionRec
<1>2. CASE process_auth_request
  BY <1>2, <1>a, <1>b, <1>c DEF process_auth_request, SessionRec
<1>3. CASE AuthBssid
  BY <1>3, <1>a, <1>b, <1>c DEF AuthBssid, SessionRec
<1>4. CASE AuthSend
  BY <1>4, <1>a, <1>b, <1>c DEF AuthSend, SessionRec
<1>5. CASE AuthConnect
  <2>1. [s EXCEPT !.apBss = cmd.r.ap] \in SessionRec
    BY <1>a, <1>b DEF SessionRec
  <2>2. AuthRejected([s EXCEPT !.apBss = cmd.r.ap]) \in SessionRec
    BY ZenonT(60), <2>1, SessionFacts
  <2>3. QED
    BY <1>5, <1>c, <2>1, <2>2 DEF AuthConnect
<1>6. CASE AuthDone
  BY <1>6, <1>a, <1>b, <1>c DEF AuthDone, SessionRec
<1>7. CASE process_assoc_request
  BY ZenonT(60), <1>7, <1>a, <1>b, <1>c DEF process_assoc_request, SessionRec
<1>8. CASE ConnectStarted
  BY ZenonT(60), <1>8, <1>a, <1>b, <1>c DEF ConnectStarted, SessionRec
<1>9. CASE process_disconnect
  BY <1>9, <1>a, <1>b, <1>c DEF process_disconnect, SessionRec
<1>10. CASE DeinitRetires
  BY <1>10, <1>a, <1>b, <1>c DEF DeinitRetires, SessionRec
<1>11. CASE OnConnected
  BY <1>11, <1>a, <1>b, <1>c DEF OnConnected, SessionRec
<1>12. CASE OnDisconnected
  BY <1>12, <1>a, <1>b, <1>c DEF OnDisconnected,
         handle_sta_disconnected_event, SessionRec
<1>13. CASE OnStaStop
  BY <1>13, <1>a, <1>b, <1>c DEF OnStaStop, SessionRec
<1>14. CASE sta_rx_auth
  BY <1>14, <1>a, <1>b, <1>c DEF sta_rx_auth, SessionRec
<1>15. CASE AssocResponse
  <2>1. PICK ok \in BOOLEAN : sta_rx_assoc(ok)
    BY <1>15 DEF AssocResponse
  <2>2. CASE is_valid_assoc_resp
    <3>1. PICK g \in 0..MaxCmds, o \in BOOLEAN :
              s' = [s EXCEPT !.connGen = g, !.ongoing = o,
                             !.assocGen = NoSeq, !.assocBss = NoAp]
      <4>1. /\ s.assocGen \in 0..MaxCmds /\ s.connGen \in 0..MaxCmds
            /\ (s.ongoing /\ ok) \in BOOLEAN
        BY <1>b DEF SessionRec
      <4>2. (CASE ok -> s.assocGen [] ~ok /\ ~s.connected -> NoSeq
               [] OTHER -> s.connGen) \in 0..MaxCmds
        BY <1>a, <4>1
      <4>3. QED
        BY ZenonT(60), <2>1, <2>2, <4>1, <4>2 DEF sta_rx_assoc
    <3>2. QED
      BY <3>1, <1>a, <1>b DEF SessionRec
  <2>3. QED
    BY <2>1, <2>2, <1>b DEF sta_rx_assoc
<1>16. CASE esp_cmd_dispatch \/ HostGivesUp \/ send_command_resp \/
          deinitialize_wifi \/ hosted_wifi_stop \/ StaStopAcked \/
          PostFence \/ FenceAcked \/ hosted_wifi_start \/ StartReturns \/
          StartFailed \/ process_start_scan \/ ScanStart \/
          process_monitor_config \/ process_sta_connect \/
          process_init_interface \/ process_deinit_interface \/
          MonitorRebuild \/ DeinitDone \/ process_set_mode \/
          process_set_ap_config \/ ModeStopped \/ ModeCallback \/
          ModeDone \/ ModeRollback \/ ModeRolledBack \/ process_mgmt_tx \/
          MgmtSend \/ hosted_send_mgmt_accept \/ MgmtTimer \/ MgmtUntimed \/
          hosted_mgmt_mark_accepted \/ MgmtStatus \/
          process_mgmt_tx_unmarked \/ UnmarkedSend \/ OnStart \/
          OnScanDone \/ OnApStop \/ hosted_scan_fence_handler \/
          mgmt_txcb \/ LibConnected \/ LibDisconnected \/ LibScanDone \/
          LibLookupDone \/ LibStaStop \/ TimerTask \/
          hosted_mgmt_finish_owned \/ UNCHANGED vars
  <2>1. UNCHANGED <<s>>
    BY ZenonT(60), <1>16 DEF esp_cmd_dispatch, HostGivesUp, send_command_resp,
           deinitialize_wifi, hosted_wifi_stop, StaStopAcked, PostFence,
           FenceAcked, hosted_wifi_start, StartReturns, StartFailed,
           process_start_scan, ScanStart, process_monitor_config,
           process_sta_connect, process_init_interface,
           process_deinit_interface, MonitorRebuild, DeinitDone,
           process_set_mode, process_set_ap_config, ModeStopped, ModeCallback,
           ModeDone, ModeRollback, ModeRolledBack, process_mgmt_tx, MgmtSend,
           hosted_send_mgmt_accept, MgmtTimer, MgmtUntimed, hosted_mgmt_mark_accepted,
           MgmtStatus, process_mgmt_tx_unmarked, UnmarkedSend, OnStart,
           OnScanDone, OnApStop, hosted_scan_fence_handler, mgmt_txcb,
           LibConnected, LibDisconnected, LibScanDone, LibLookupDone,
           LibStaStop, TimerTask, hosted_mgmt_timeout_cb, hosted_mgmt_finish_owned,
           Dispatched, vars
  <2>2. QED
    BY <2>1, <1>a, <1>b, <1>c DEF SessionRec
<1>17. QED
  BY <1>1, <1>2, <1>3, <1>4, <1>5, <1>6, <1>7, <1>8, <1>9, <1>10, <1>11,
     <1>12, <1>13, <1>14, <1>15, <1>16
  DEF Next, WifiStop, WifiStart, Scan, Auth, Session, Interface, Mode, Mgmt,
      CommandTask, EventLoop, WifiTask

\* The record of the library.
LibRec ==
    [inited : BOOLEAN, on : BOOLEAN, inc : Nat, mode : WifiModes,
     scan : 0..MaxCmds, conn : {"idle", "auth", "assoc", "joined", "up"},
     peer : Bssids, air : SUBSET Seqs, acked : SUBSET Seqs,
     staStop : Nat, since : 0..MaxCmds]

\* The library keeps its shape.
LEMMA LibNext ==
    ASSUME LibType, CmdType, ControlInv, HostType, [Next]_vars
    PROVE  LibType'
<1>a. /\ cmd.seq \in 0..MaxCmds /\ cmd.r.ap \in Bssids /\ NoAp \in Bssids
      /\ NoSeq \in 0..MaxCmds /\ cmd.old \in WifiModes
      /\ {"NULL", "STA", "APSTA"} \subseteq WifiModes
      /\ cmd.pc # "idle" => cmd.seq \in Seqs
  BY RequestFacts, ValueFacts, SeqFacts DEF CmdType, NoRequest, ControlInv, HostType
<1>b. lib \in LibRec /\ 0 \in Nat /\ lib.inc + 1 \in Nat
  BY DEF LibType, LibRec
<1>c. Left(lib) \in LibRec
  BY <1>b DEF Left, LibRec
<1> SUFFICES lib' \in LibRec
  BY DEF LibType, LibRec
<1>1. CASE deinitialize_wifi
  BY <1>1, <1>a, <1>b, <1>c DEF deinitialize_wifi, LibRec
<1>2. CASE hosted_wifi_stop
  BY ZenonT(60), <1>2, <1>a, <1>b, <1>c DEF hosted_wifi_stop, hosted_scan_abort, LibRec
<1>3. CASE StopReturns
  BY ZenonT(60), <1>3, <1>a, <1>b, <1>c DEF StopReturns, StoppedLib, LibRec
<1>4. CASE hosted_wifi_start
  BY ZenonT(60), <1>4, <1>a, <1>b, <1>c DEF hosted_wifi_start, LibRec
<1>5. CASE ScanStart
  BY <1>5, <1>a, <1>b, <1>c DEF ScanStart, LibRec
<1>6. CASE AuthConnect
  BY <1>6, <1>a, <1>b, <1>c DEF AuthConnect, LibRec
<1>7. CASE process_assoc_request
  BY <1>7, <1>a, <1>b, <1>c DEF process_assoc_request, LibRec
<1>8. CASE process_sta_connect
  BY <1>8, <1>a, <1>b, <1>c DEF process_sta_connect, LibRec
<1>9. CASE ConnectStarted
  BY <1>9, <1>a, <1>b, <1>c DEF ConnectStarted, LibRec
<1>10. CASE process_disconnect
  BY <1>10, <1>a, <1>b, <1>c DEF process_disconnect, LibRec
<1>11. CASE process_init_interface
  BY ZenonT(60), <1>11, <1>a, <1>b, <1>c DEF process_init_interface, ModeOf, LibRec
<1>12. CASE DeinitRetires
  BY <1>12, <1>a, <1>b, <1>c DEF DeinitRetires, ModeOf, LibRec
<1>13. CASE MonitorRebuild
  BY <1>13, <1>a, <1>b, <1>c DEF MonitorRebuild, SetMode, LibRec
<1>14. CASE ModeStopped
  BY SMTT(60), <1>14, <1>a, <1>b, <1>c DEF ModeStopped, SetMode, Target, ModeOf, LibRec
<1>15. CASE ModeRollback
  BY <1>15, <1>a, <1>b, <1>c DEF ModeRollback, SetMode, LibRec
<1>16. CASE MgmtSend
  BY <1>16, <1>a, <1>b, <1>c DEF MgmtSend, Transmit, LibRec
<1>17. CASE UnmarkedSend
  BY <1>17, <1>a, <1>b, <1>c DEF UnmarkedSend, Transmit, LibRec
<1>18. CASE mgmt_txcb
  <2>1. PICK f \in lib.air, ack \in BOOLEAN :
            lib' = [lib EXCEPT !.air = @ \ {f},
                               !.acked = IF ack THEN @ \union {f} ELSE @]
    BY ZenonT(60), <1>18 DEF mgmt_txcb
  <2>2. /\ lib.air \ {f} \in SUBSET Seqs
        /\ (IF ack THEN lib.acked \union {f} ELSE lib.acked) \in SUBSET Seqs
    BY <1>b DEF LibRec
  <2>3. QED
    BY <2>1, <2>2, <1>b DEF LibRec
<1>19. CASE AssocResponse
  BY <1>19, <1>a, <1>b, <1>c DEF AssocResponse, LibRec
<1>20. CASE LibConnected
  BY <1>20, <1>a, <1>b, <1>c DEF LibConnected, LibRec
<1>21. CASE LibDisconnected
  BY <1>21, <1>a, <1>b, <1>c DEF LibDisconnected, LibRec
<1>22. CASE LibScanDone
  BY <1>22, <1>a, <1>b, <1>c DEF LibScanDone, LibRec
<1>23. CASE LibStaStop
  BY ZenonT(60), <1>23, <1>a, <1>b, <1>c DEF LibStaStop, LibRec
<1>24. CASE esp_cmd_dispatch \/ HostGivesUp \/ send_command_resp \/
          StaStopAcked \/ PostFence \/ FenceAcked \/ StartReturns \/
          StartFailed \/ process_start_scan \/ process_monitor_config \/
          process_auth_request \/ AuthBssid \/ AuthSend \/ AuthDone \/
          process_deinit_interface \/ DeinitDone \/ process_set_mode \/
          process_set_ap_config \/ ModeCallback \/ ModeDone \/
          ModeRolledBack \/ process_mgmt_tx \/ hosted_send_mgmt_accept \/
          MgmtTimer \/ MgmtUntimed \/ hosted_mgmt_mark_accepted \/ MgmtStatus \/
          process_mgmt_tx_unmarked \/ OnStart \/ OnConnected \/
          OnDisconnected \/ OnScanDone \/ OnApStop \/ OnStaStop \/
          hosted_scan_fence_handler \/ sta_rx_auth \/ LibLookupDone \/
          TimerTask \/ hosted_mgmt_finish_owned \/
          UNCHANGED vars
  <2>1. UNCHANGED <<lib>>
    BY ZenonT(60), <1>24 DEF esp_cmd_dispatch, HostGivesUp, send_command_resp,
           StaStopAcked, PostFence, FenceAcked, StartReturns, StartFailed,
           process_start_scan, process_monitor_config, process_auth_request,
           AuthBssid, AuthSend, AuthDone, process_deinit_interface,
           DeinitDone, process_set_mode, process_set_ap_config, ModeCallback,
           ModeDone, ModeRolledBack, process_mgmt_tx, hosted_send_mgmt_accept,
           MgmtTimer, MgmtUntimed, hosted_mgmt_mark_accepted, MgmtStatus,
           process_mgmt_tx_unmarked, OnStart, OnConnected, OnDisconnected,
           OnScanDone, OnApStop, OnStaStop, hosted_scan_fence_handler,
           sta_rx_auth, LibLookupDone, TimerTask, hosted_mgmt_timeout_cb,
           hosted_mgmt_finish_owned, Dispatched, vars
  <2>2. QED
    BY <2>1, <1>a, <1>b, <1>c DEF LibRec
<1>25. QED
  BY <1>1, <1>2, <1>3, <1>4, <1>5, <1>6, <1>7, <1>8, <1>9, <1>10, <1>11,
     <1>12, <1>13, <1>14, <1>15, <1>16, <1>17, <1>18, <1>19, <1>20, <1>21,
     <1>22, <1>23, <1>24
  DEF Next, WifiStop, WifiStart, Scan, Auth, Session, Interface, Mode, Mgmt,
      CommandTask, EventLoop, WifiTask

\* The records of a management frame.
TxRec ==
    [pending : BOOLEAN, accepted : BOOLEAN, completed : BOOLEAN, ack : BOOLEAN,
     cookie : 0..MaxCmds, draining : BOOLEAN, timers : SUBSET Seqs]
LgRec == [pending : BOOLEAN, seq : 0..MaxCmds]
FinRec == [k : Seqs, ack : BOOLEAN, by : {"wifi", "timer", "stale"}]

\* An empty transaction and an empty legacy slot own no cookie.
LEMMA FrameFacts ==
    /\ NoTx \in TxRec /\ NoTx.cookie = NoSeq /\ ~NoTx.pending
    /\ NoLg \in LgRec /\ NoLg.seq = NoSeq /\ ~NoLg.pending
  BY SeqFacts DEF NoTx, NoLg, TxRec, LgRec

\* So does a transaction that was taken; only the timers stay.
LEMMA ClearedFacts ==
    ASSUME tx \in TxRec
    PROVE  /\ Cleared \in TxRec /\ Cleared.cookie = NoSeq /\ Cleared.pending = FALSE
           /\ Cleared.accepted = FALSE /\ Cleared.completed = FALSE
           /\ Cleared.timers = tx.timers
  BY SeqFacts DEF Cleared, NoTx, TxRec

\* A transaction that is pending has its cookie.
LEMMA FrameNext ==
    ASSUME FrameType, CmdType, ControlInv, HostType, [Next]_vars
    PROVE  FrameType'
<1>a. /\ cmd.seq \in 0..MaxCmds /\ NoSeq \in 0..MaxCmds
      /\ cmd.pc # "idle" => cmd.seq \in Seqs /\ cmd.seq # NoSeq
  BY SeqFacts DEF CmdType, ControlInv, HostType
<1>b. /\ tx \in TxRec /\ lg \in LgRec /\ fin \subseteq FinRec
      /\ tx.pending <=> tx.cookie # NoSeq
      /\ lg.pending <=> lg.seq # NoSeq
  BY DEF FrameType, TxRec, LgRec, FinRec
<1>c. Cleared \in TxRec /\ Cleared.cookie = NoSeq /\ ~Cleared.pending
  BY <1>b, ClearedFacts
<1> SUFFICES /\ tx' \in TxRec /\ lg' \in LgRec /\ fin' \subseteq FinRec
             /\ tx'.pending <=> tx'.cookie # NoSeq
             /\ lg'.pending <=> lg'.seq # NoSeq
  BY DEF FrameType, TxRec, LgRec, FinRec
<1>1. CASE StopReturns
  BY <1>1, <1>a, <1>b, FrameFacts, <1>c DEF StopReturns, mgmt_tx_fail_pending,
         TxRec, LgRec, FinRec
<1>2. CASE process_deinit_interface
  BY <1>2, <1>a, <1>b, FrameFacts, <1>c DEF process_deinit_interface,
         hosted_mgmt_fail_pending, TxRec, LgRec, FinRec
<1>3. CASE ModeDone
  BY <1>3, <1>a, <1>b, FrameFacts, <1>c DEF ModeDone, hosted_mgmt_fail_pending,
         TxRec, LgRec, FinRec
<1>4. CASE process_mgmt_tx
  <2>1. UNCHANGED <<lg, fin>> /\ cmd.pc = "MGMT_TX"
    BY <1>4 DEF process_mgmt_tx
  <2>2. CASE tx' = [Cleared EXCEPT !.pending = TRUE, !.cookie = cmd.seq]
    BY <2>1, <2>2, <1>a, <1>b, FrameFacts, <1>c DEF TxRec
  <2>3. QED
    BY <1>4, <2>1, <2>2, <1>b DEF process_mgmt_tx, hosted_mgmt_begin
<1>5. CASE MgmtSend
  BY <1>5, <1>a, <1>b, FrameFacts, <1>c DEF MgmtSend, hosted_mgmt_abort_pending,
         TxRec, LgRec, FinRec
<1>6. CASE hosted_send_mgmt_accept
  BY <1>6, <1>a, <1>b, FrameFacts, <1>c DEF hosted_send_mgmt_accept,
         hosted_mgmt_abort_pending, TxRec, LgRec, FinRec
<1>7. CASE MgmtTimer
  <2>1. UNCHANGED <<lg, fin>> /\ cmd.seq \in Seqs
    BY <1>7, <1>a DEF MgmtTimer
  <2>2. CASE tx' = [tx EXCEPT !.timers = @ \union {cmd.seq}]
    BY <2>1, <2>2, <1>b DEF TxRec
  <2>3. QED
    BY <1>7, <2>1, <2>2, <1>b DEF MgmtTimer
<1>7a. CASE MgmtUntimed
  BY <1>7a, <1>b, <1>c DEF MgmtUntimed
<1>8. CASE hosted_mgmt_mark_accepted
  BY ZenonT(60), <1>8, <1>a, <1>b, FrameFacts, <1>c DEF hosted_mgmt_mark_accepted, TxRec, LgRec,
         FinRec
<1>9. CASE process_mgmt_tx_unmarked
  <2>1. UNCHANGED <<tx, fin>> /\ cmd.pc = "MGMT_TX"
    BY <1>9 DEF process_mgmt_tx_unmarked
  <2>2. CASE lg' = [pending |-> TRUE, seq |-> cmd.seq]
    BY <2>1, <2>2, <1>a, <1>b DEF LgRec
  <2>3. QED
    BY <1>9, <2>1, <2>2, <1>b DEF process_mgmt_tx_unmarked, mgmt_tx_inflight_begin
<1>10. CASE UnmarkedSend
  BY <1>10, <1>a, <1>b, FrameFacts, <1>c DEF UnmarkedSend, TxRec, LgRec, FinRec
<1>11. CASE mgmt_txcb
  <2>1. PICK f \in lib.air, prot \in BOOLEAN, ack \in BOOLEAN :
            CASE ~w.cb -> UNCHANGED <<tx, lg, fin, out, faults>>
              [] w.cb /\ tx.draining ->
                   /\ tx' = [tx EXCEPT !.draining = FALSE]
                   /\ UNCHANGED <<lg, fin, out, faults>>
              [] w.cb /\ ~tx.draining /\ tx.pending -> mgmt_txcb_marked(f, prot, ack)
              [] OTHER -> mgmt_txcb_unmarked(f)
    BY <1>11 DEF mgmt_txcb
  <2>2. CASE UNCHANGED <<tx, lg, fin>>
    BY <2>2, <1>b
  <2>3. CASE tx' = [tx EXCEPT !.draining = FALSE] /\ UNCHANGED <<lg, fin>>
    BY <2>3, <1>b DEF TxRec
  <2>4. CASE tx.pending /\ mgmt_txcb_marked(f, prot, ack)
    <3>1. UNCHANGED lg /\ tx.cookie \in Seqs
      BY <2>4, <1>b, SeqFacts DEF mgmt_txcb_marked, TxRec
    <3>2. CASE tx' = [tx EXCEPT !.completed = TRUE, !.ack = ack] /\ UNCHANGED fin
      BY <3>1, <3>2, <1>b DEF TxRec
    <3>3. CASE /\ tx' = Cleared
               /\ fin' = fin \union {[k |-> tx.cookie, ack |-> ack, by |-> "wifi"]}
      BY <3>1, <3>3, <1>b, FrameFacts, <1>c DEF FinRec
    <3>4. QED
      BY <2>2, <2>4, <3>1, <3>2, <3>3 DEF mgmt_txcb_marked
  <2>5. CASE mgmt_txcb_unmarked(f)
    BY <2>5, <1>b, FrameFacts, <1>c DEF mgmt_txcb_unmarked
  <2>6. QED
    BY <2>1, <2>2, <2>3, <2>4, <2>5
<1>12. CASE TimerTask
  <2>1. PICK t \in tx.timers : hosted_mgmt_take_timeout(t) /\ UNCHANGED lg
    BY <1>12 DEF TimerTask, hosted_mgmt_timeout_cb
  <2>2. CASE tx.pending
    <3>1. tx.cookie \in Seqs
      BY <2>2, <1>b, SeqFacts DEF TxRec
    <3>2. PICK e \in FinRec : fin' = fin \union {e}
      <4>1. [k |-> tx.cookie, ack |-> FALSE,
             by |-> IF t = tx.cookie THEN "timer" ELSE "stale"] \in FinRec
        BY <3>1 DEF FinRec
      <4>2. QED
        BY <4>1, <2>1, <2>2 DEF hosted_mgmt_take_timeout
    <3>3. tx' = [NoTx EXCEPT !.draining = TRUE, !.timers = tx.timers \ {t}]
      BY <2>1, <2>2 DEF hosted_mgmt_take_timeout
    <3>4. tx' \in TxRec /\ ~tx'.pending /\ tx'.cookie = NoSeq
      BY <3>3, <1>b, FrameFacts DEF TxRec
    <3>5. QED
      BY <2>1, <3>2, <3>4, <1>b
  <2>3. CASE ~tx.pending
    <3>1. UNCHANGED fin /\ tx' = [tx EXCEPT !.timers = @ \ {t}]
      BY <2>1, <2>3 DEF hosted_mgmt_take_timeout
    <3>2. QED
      BY <2>1, <3>1, <1>b DEF TxRec
  <2>4. QED
    BY <2>2, <2>3
<1>13. CASE hosted_mgmt_finish_owned
  BY <1>13, <1>a, <1>b, FrameFacts, <1>c DEF hosted_mgmt_finish_owned, TxRec, LgRec,
         FinRec
<1>14. CASE esp_cmd_dispatch \/ HostGivesUp \/ send_command_resp \/
          deinitialize_wifi \/ hosted_wifi_stop \/ StaStopAcked \/
          PostFence \/ FenceAcked \/ hosted_wifi_start \/ StartReturns \/
          StartFailed \/ process_start_scan \/ ScanStart \/
          process_monitor_config \/ process_auth_request \/ AuthBssid \/
          AuthSend \/ AuthConnect \/ AuthDone \/ process_assoc_request \/
          process_sta_connect \/ ConnectStarted \/ process_disconnect \/
          process_init_interface \/ DeinitRetires \/ MonitorRebuild \/
          DeinitDone \/ process_set_mode \/ process_set_ap_config \/
          ModeStopped \/ ModeCallback \/ ModeRollback \/ ModeRolledBack \/
          MgmtStatus \/ OnStart \/ OnConnected \/ OnDisconnected \/
          OnScanDone \/ OnApStop \/ OnStaStop \/
          hosted_scan_fence_handler \/ sta_rx_auth \/ AssocResponse \/
          LibConnected \/ LibDisconnected \/ LibScanDone \/
          LibLookupDone \/ LibStaStop \/ UNCHANGED vars
  <2>1. UNCHANGED <<tx, lg, fin>>
    BY ZenonT(60), <1>14 DEF esp_cmd_dispatch, HostGivesUp, send_command_resp,
           deinitialize_wifi, hosted_wifi_stop, StaStopAcked, PostFence,
           FenceAcked, hosted_wifi_start, StartReturns, StartFailed,
           process_start_scan, ScanStart, process_monitor_config,
           process_auth_request, AuthBssid, AuthSend, AuthConnect, AuthDone,
           process_assoc_request, process_sta_connect, ConnectStarted,
           process_disconnect, process_init_interface, DeinitRetires,
           MonitorRebuild, DeinitDone, process_set_mode,
           process_set_ap_config, ModeStopped, ModeCallback, ModeRollback,
           ModeRolledBack, MgmtStatus, OnStart, OnConnected, OnDisconnected,
           OnScanDone, OnApStop, OnStaStop, hosted_scan_fence_handler,
           sta_rx_auth, AssocResponse, LibConnected, LibDisconnected,
           LibScanDone, LibLookupDone, LibStaStop, Dispatched, vars
  <2>2. QED
    BY <2>1, <1>a, <1>b, FrameFacts DEF TxRec, LgRec, FinRec
<1>15. QED
  BY <1>1, <1>2, <1>3, <1>4, <1>5, <1>6, <1>7, <1>7a, <1>8, <1>9, <1>10, <1>11,
     <1>12, <1>13, <1>14
  DEF Next, WifiStop, WifiStart, Scan, Auth, Session, Interface, Mode, Mgmt,
      CommandTask, EventLoop, WifiTask

\* The records of the host's side.
OutRec ==
    [ans : [Seqs -> Nat], sts : [Seqs -> Nat], mlme : [Seqs -> Nat],
     disc : [Seqs -> Nat], acc : SUBSET Seqs, acked : SUBSET Seqs,
     lost : SUBSET Seqs, scans : SUBSET (0..MaxCmds)]
HostRec ==
    [n : Seqs, wait : BOOLEAN, style : Styles,
     body : [Seqs -> Bodies \union {"none", "broadcast"}]]

\* Counting an answer, a lost answer or a status for a command keeps the
\* shape of what the host was given.
LEMMA OutFacts ==
    ASSUME out \in OutRec, NEW k \in Seqs
    PROVE  /\ [out EXCEPT !.ans[k] = @ + 1] \in OutRec
           /\ [out EXCEPT !.lost = @ \union {k}] \in OutRec
           /\ [out EXCEPT !.sts[k] = @ + 1] \in OutRec
           /\ \A ack \in BOOLEAN :
                [out EXCEPT !.sts[k] = @ + 1,
                            !.acked = IF ack THEN @ \union {k} ELSE @] \in OutRec
<1>1. /\ [out.ans EXCEPT ![k] = @ + 1] \in [Seqs -> Nat]
      /\ [out.sts EXCEPT ![k] = @ + 1] \in [Seqs -> Nat]
      /\ \A ack \in BOOLEAN :
            (IF ack THEN out.acked \union {k} ELSE out.acked) \in SUBSET Seqs
  BY DEF OutRec
<1>2. QED
  BY ZenonT(60), <1>1 DEF OutRec

\* What the host sent and was given.
LEMMA HostNext ==
    ASSUME FrameType, SessionType, FlagType, CmdType, ControlInv, HostType, [Next]_vars
    PROVE  HostType'
<1>a. /\ cmd.pc # "idle" => cmd.seq \in Seqs
      /\ \A k \in 0..MaxCmds : k # NoSeq => k \in Seqs
      /\ \A n \in Nat : n + 1 \in Nat
  BY SeqFacts DEF CmdType, ControlInv, HostType
<1>b. out \in OutRec /\ host \in HostRec
  BY DEF HostType, OutRec, HostRec
<1>c. /\ tx.cookie \in 0..MaxCmds /\ (tx.pending => tx.cookie # NoSeq)
      /\ lg.seq \in 0..MaxCmds /\ (lg.pending => lg.seq # NoSeq)
      /\ fin \subseteq FinRec /\ sc.owner \in 0..MaxCmds
      /\ {s.authGen, s.assocGen, s.connGen, s.discGen} \subseteq 0..MaxCmds
  BY DEF FrameType, FinRec, FlagType, SessionType
<1> SUFFICES out' \in OutRec /\ host' \in HostRec
  BY DEF HostType, OutRec, HostRec
<1>1. CASE esp_cmd_dispatch
  <2>1. UNCHANGED out /\ host.n < MaxCmds
    BY <1>1 DEF esp_cmd_dispatch
  <2>2. PICK v \in Bodies \union {"none", "broadcast"} :
            host' = [host EXCEPT !.n = @ + 1, !.wait = TRUE, !.body[host.n + 1] = v]
    <3>1. PICK r \in Requests, b \in Bodies :
              host' = [host EXCEPT
                 !.n = @ + 1, !.wait = TRUE,
                 !.body[host.n + 1] =
                    CASE r.c # "MGMT_TX" -> "none"
                      [] r.x = "b" /\ host.style = "legacy" -> "broadcast"
                      [] OTHER -> b]
      BY ZenonT(60), <1>1 DEF esp_cmd_dispatch
    <3>2. QED
      BY ZenonT(60), <3>1
  <2>3. host.n + 1 \in Seqs
    BY <2>1, <1>b, SeqFacts DEF HostRec, Seqs
  <2>4. QED
    BY <2>1, <2>2, <2>3, <1>b DEF HostRec
<1>2. CASE HostGivesUp
  BY <1>2, <1>b DEF HostGivesUp, HostRec
<1>3. CASE send_command_resp
  <2>1. cmd.seq \in Seqs /\ UNCHANGED host /\ out' \in {Answered, Lost}
    BY <1>3, <1>a DEF send_command_resp
  <2>2. Answered \in OutRec /\ Lost \in OutRec
    BY Zenon, <2>1, <1>b, OutFacts DEF Answered, Lost
  <2>3. QED
    BY Zenon, <2>1, <2>2, <1>b
<1>4. CASE StopReturns
  BY ZenonT(60), <1>4, <1>a, <1>b, <1>c, OutFacts DEF StopReturns, mgmt_tx_fail_pending
<1>5. CASE process_deinit_interface
  BY ZenonT(60), <1>5, <1>a, <1>b, <1>c, OutFacts
  DEF process_deinit_interface, hosted_mgmt_fail_pending, Report
<1>6. CASE ModeDone
  BY ZenonT(60), <1>6, <1>a, <1>b, <1>c, OutFacts DEF ModeDone, hosted_mgmt_fail_pending, Report
<1>7. CASE hosted_send_mgmt_accept
  <2>1. cmd.seq \in Seqs /\ UNCHANGED host
    BY <1>7, <1>a DEF hosted_send_mgmt_accept
  <2>2. Answered \in OutRec /\ Lost \in OutRec
    BY ZenonT(60), <2>1, <1>b, OutFacts DEF Answered, Lost
  <2>3. CASE out' = [Answered EXCEPT !.acc = @ \union {cmd.seq}]
    BY <2>1, <2>2, <2>3, <1>b DEF OutRec
  <2>4. QED
    BY <1>7, <2>1, <2>2, <2>3, <1>b DEF hosted_send_mgmt_accept
<1>8. CASE MgmtUntimed
  BY ZenonT(60), <1>8, <1>a, <1>b, <1>c, OutFacts DEF MgmtUntimed, Report
<1>9. CASE hosted_mgmt_mark_accepted
  <2>1. cmd.seq \in Seqs /\ UNCHANGED host /\ tx.ack \in BOOLEAN
    BY <1>9, <1>a DEF hosted_mgmt_mark_accepted, FrameType
  <2>2. CASE out' = [out EXCEPT !.sts[cmd.seq] = @ + 1,
                       !.acked = IF tx.ack THEN @ \union {cmd.seq} ELSE @]
    BY ZenonT(60), <2>1, <2>2, <1>b, OutFacts
  <2>3. QED
    BY <1>9, <2>1, <2>2, <1>b DEF hosted_mgmt_mark_accepted, Report
<1>10. CASE MgmtStatus
  BY <1>10, <1>a, <1>b, <1>c DEF MgmtStatus, OutRec
<1>11. CASE OnDisconnected
  BY <1>11, <1>a, <1>b, <1>c DEF OnDisconnected,
         handle_sta_disconnected_event, OutRec
<1>12. CASE OnScanDone
  BY <1>12, <1>a, <1>b, <1>c DEF OnScanDone, OutRec
<1>13. CASE mgmt_txcb
  BY <1>13, <1>a, <1>b, <1>c DEF mgmt_txcb, mgmt_txcb_marked,
         mgmt_txcb_unmarked, OutRec
<1>14. CASE sta_rx_auth
  BY SMTT(60), <1>14, <1>a, <1>b, <1>c DEF sta_rx_auth, OutRec
<1>15. CASE AssocResponse
  BY <1>15, <1>a, <1>b, <1>c DEF AssocResponse, sta_rx_assoc,
         is_valid_assoc_resp, OutRec
<1>16. CASE hosted_mgmt_finish_owned
  <2>1. UNCHANGED host
    BY <1>16 DEF hosted_mgmt_finish_owned
  <2>2. PICK f \in fin, bad \in BOOLEAN :
            out' = IF bad THEN out
                   ELSE [out EXCEPT !.sts[f.k] = @ + 1,
                                    !.acked = IF f.ack THEN @ \union {f.k} ELSE @]
    BY ZenonT(60), <1>16 DEF hosted_mgmt_finish_owned
  <2>3. f.k \in Seqs /\ f.ack \in BOOLEAN
    BY <1>c DEF FinRec
  <2>4. QED
    BY ZenonT(60), <2>1, <2>2, <2>3, <1>b, OutFacts
<1>17. CASE deinitialize_wifi \/ hosted_wifi_stop \/ StaStopAcked \/
          PostFence \/ FenceAcked \/ hosted_wifi_start \/ StartReturns \/
          StartFailed \/ process_start_scan \/ ScanStart \/
          process_monitor_config \/ process_auth_request \/ AuthBssid \/
          AuthSend \/ AuthConnect \/ AuthDone \/ process_assoc_request \/
          process_sta_connect \/ ConnectStarted \/ process_disconnect \/
          process_init_interface \/ DeinitRetires \/ MonitorRebuild \/
          DeinitDone \/ process_set_mode \/ process_set_ap_config \/
          ModeStopped \/ ModeCallback \/ ModeRollback \/ ModeRolledBack \/
          process_mgmt_tx \/ MgmtSend \/ MgmtTimer \/ process_mgmt_tx_unmarked \/
          UnmarkedSend \/ OnStart \/ OnConnected \/ OnApStop \/
          OnStaStop \/ hosted_scan_fence_handler \/ LibConnected \/
          LibDisconnected \/ LibScanDone \/ LibLookupDone \/ LibStaStop \/
          TimerTask \/ UNCHANGED vars
  <2>1. UNCHANGED <<host, out>>
    BY ZenonT(60), <1>17 DEF deinitialize_wifi, hosted_wifi_stop, StaStopAcked, PostFence,
           FenceAcked, hosted_wifi_start, StartReturns, StartFailed,
           process_start_scan, ScanStart, process_monitor_config,
           process_auth_request, AuthBssid, AuthSend, AuthConnect, AuthDone,
           process_assoc_request, process_sta_connect, ConnectStarted,
           process_disconnect, process_init_interface, DeinitRetires,
           MonitorRebuild, DeinitDone, process_set_mode,
           process_set_ap_config, ModeStopped, ModeCallback, ModeRollback,
           ModeRolledBack, process_mgmt_tx, MgmtSend, MgmtTimer,
           process_mgmt_tx_unmarked, UnmarkedSend, OnStart, OnConnected,
           OnApStop, OnStaStop, hosted_scan_fence_handler, LibConnected,
           LibDisconnected, LibScanDone, LibLookupDone, LibStaStop,
           TimerTask, hosted_mgmt_timeout_cb, Dispatched, vars
  <2>2. QED
    BY SMTT(60), <2>1, <1>a, <1>b, <1>c DEF OutRec
<1>18. QED
  BY <1>1, <1>2, <1>3, <1>4, <1>5, <1>6, <1>7, <1>8, <1>9, <1>10, <1>11,
     <1>12, <1>13, <1>14, <1>15, <1>16, <1>17
  DEF Next, WifiStop, WifiStart, Scan, Auth, Session, Interface, Mode, Mgmt,
      CommandTask, EventLoop, WifiTask

\* What the library posts is an event.
LEMMA EventFacts ==
    ASSUME LibType
    PROVE  /\ \A q \in Seq(Events), e \in Events : Append(q, e) \in Seq(Events)
           /\ \A k \in {"STA_START", "AP_START", "CONNECTED", "DISCONNECTED",
                        "SCAN_DONE", "AP_STOP", "STA_STOP", "FENCE"},
                 id \in 0..MaxCmds : Event(k, id) \in Events
           /\ \A q \in Seq(Events) : LeftEvents(lib, q) \in Seq(Events)
           /\ StoppedEvents \in Seq(Events)
<1>1. \A q \in Seq(Events), e \in Events : Append(q, e) \in Seq(Events)
  OBVIOUS
<1>2. \A k \in {"STA_START", "AP_START", "CONNECTED", "DISCONNECTED",
                "SCAN_DONE", "AP_STOP", "STA_STOP", "FENCE"},
         id \in 0..MaxCmds : Event(k, id) \in Events
  BY DEF Event, Events, LibType
<1>3. \A q \in Seq(Events) : LeftEvents(lib, q) \in Seq(Events)
  BY <1>1, <1>2, SeqFacts DEF LeftEvents
<1>4. StoppedEvents \in Seq(Events)
  <2>1. /\ Event("DISCONNECTED", NoSeq) \in Events
        /\ Event("SCAN_DONE", lib.scan) \in Events
        /\ Event("AP_STOP", NoSeq) \in Events
    BY <1>2, SeqFacts DEF LibType
  <2>2. \A e \in Events, c \in BOOLEAN : (IF c THEN <<e>> ELSE <<>>) \in Seq(Events)
    OBVIOUS
  <2>3. \A p, q \in Seq(Events) : p \o q \in Seq(Events)
    OBVIOUS
  <2> DEFINE a == IF lib.conn # "idle" THEN <<Event("DISCONNECTED", NoSeq)>> ELSE <<>>
             b == IF lib.scan # NoSeq THEN <<Event("SCAN_DONE", lib.scan)>> ELSE <<>>
             c == IF lib.on /\ lib.mode = "APSTA" THEN <<Event("AP_STOP", NoSeq)>>
                  ELSE <<>>
  <2>4. a \in Seq(Events) /\ b \in Seq(Events) /\ c \in Seq(Events)
    BY <2>1, <2>2
  <2>5. StoppedEvents = (a \o b) \o c
    BY DEF StoppedEvents
  <2> HIDE DEF a, b, c
  <2>6. QED
    BY <2>3, <2>4, <2>5
<1>5. QED
  BY <1>1, <1>2, <1>3, <1>4

\* Only known events are in the queue.
LEMMA EventNext ==
    ASSUME evq \in Seq(Events), LibType, CmdType, [Next]_vars
    PROVE  evq' \in Seq(Events)
<1>a. evq \in Seq(Events) /\ NoSeq \in 0..MaxCmds /\ lib.scan \in 0..MaxCmds
  BY SeqFacts DEF LibType
<1>b. evq # <<>> => Tail(evq) \in Seq(Events)
  BY <1>a
<1>c. \A q \in Seq(Events) : evq \o q \in Seq(Events)
  BY <1>a
<1>1. CASE hosted_wifi_stop
  BY <1>1, <1>a, <1>b, EventFacts DEF hosted_wifi_stop, hosted_scan_abort
<1>2. CASE StopReturns
  BY <1>2, <1>a, <1>c, EventFacts DEF StopReturns
<1>3. CASE PostFence
  BY <1>3, <1>a, <1>b, EventFacts DEF PostFence
<1>4. CASE hosted_wifi_start
  <2>1. StartedEvents(lib.mode, lib.inc + 1) \in Seq(Events)
    <3>1. /\ [k |-> "STA_START", inc |-> lib.inc + 1, id |-> NoSeq] \in Events
          /\ [k |-> "AP_START", inc |-> lib.inc + 1, id |-> NoSeq] \in Events
      BY <1>a DEF Events, LibType
    <3>2. QED
      BY <3>1 DEF StartedEvents
  <2>2. QED
    BY <1>4, <1>a, <1>c, <2>1 DEF hosted_wifi_start
<1>5. CASE process_disconnect
  BY <1>5, <1>a, <1>b, EventFacts DEF process_disconnect
<1>6. CASE process_init_interface
  BY SMTT(60), <1>6, <1>a, <1>b, EventFacts DEF process_init_interface
<1>7. CASE DeinitRetires
  BY <1>7, <1>a, <1>b, EventFacts DEF DeinitRetires
<1>8. CASE MonitorRebuild
  BY <1>8, <1>a, <1>b, EventFacts DEF MonitorRebuild, SetMode
<1>9. CASE ModeStopped
  BY <1>9, <1>a, <1>b, EventFacts DEF ModeStopped, SetMode
<1>10. CASE ModeRollback
  BY <1>10, <1>a, <1>b, EventFacts DEF ModeRollback, SetMode
<1>11. CASE OnStart
  BY <1>11, <1>a, <1>b, EventFacts DEF OnStart, Dispatched
<1>12. CASE OnConnected
  BY <1>12, <1>a, <1>b, EventFacts DEF OnConnected, Dispatched
<1>13. CASE OnDisconnected
  BY <1>13, <1>a, <1>b, EventFacts DEF OnDisconnected, Dispatched
<1>14. CASE OnScanDone
  BY <1>14, <1>a, <1>b, EventFacts DEF OnScanDone, Dispatched
<1>15. CASE OnApStop
  BY <1>15, <1>a, <1>b, EventFacts DEF OnApStop, Dispatched
<1>16. CASE OnStaStop
  BY <1>16, <1>a, <1>b, EventFacts DEF OnStaStop, Dispatched
<1>17. CASE hosted_scan_fence_handler
  BY <1>17, <1>a, <1>b, EventFacts DEF hosted_scan_fence_handler, Dispatched
<1>18. CASE AssocResponse
  BY <1>18, <1>a, <1>b, EventFacts DEF AssocResponse
<1>19. CASE LibConnected
  BY <1>19, <1>a, <1>b, EventFacts DEF LibConnected
<1>20. CASE LibDisconnected
  BY <1>20, <1>a, <1>b, EventFacts DEF LibDisconnected
<1>21. CASE LibScanDone
  BY <1>21, <1>a, <1>b, EventFacts DEF LibScanDone
<1>22. CASE LibLookupDone
  BY <1>22, <1>a, <1>b, EventFacts DEF LibLookupDone
<1>23. CASE LibStaStop
  <2>1. [k |-> "STA_STOP", inc |-> lib.staStop, id |-> NoSeq] \in Events
    BY <1>a DEF Events, LibType
  <2>2. QED
    BY <1>23, <1>a, <2>1 DEF LibStaStop
<1>24. CASE esp_cmd_dispatch \/ HostGivesUp \/ send_command_resp \/
          deinitialize_wifi \/ StaStopAcked \/ FenceAcked \/
          StartReturns \/ StartFailed \/ process_start_scan \/
          ScanStart \/ process_monitor_config \/ process_auth_request \/
          AuthBssid \/ AuthSend \/ AuthConnect \/ AuthDone \/
          process_assoc_request \/ process_sta_connect \/ ConnectStarted \/
          process_deinit_interface \/ DeinitDone \/ process_set_mode \/
          process_set_ap_config \/ ModeCallback \/ ModeDone \/
          ModeRolledBack \/ process_mgmt_tx \/ MgmtSend \/
          hosted_send_mgmt_accept \/ MgmtTimer \/ MgmtUntimed \/
          hosted_mgmt_mark_accepted \/ MgmtStatus \/
          process_mgmt_tx_unmarked \/ UnmarkedSend \/ mgmt_txcb \/
          sta_rx_auth \/ TimerTask \/
          hosted_mgmt_finish_owned \/ UNCHANGED vars
  <2>1. UNCHANGED <<evq>>
    BY ZenonT(60), <1>24 DEF esp_cmd_dispatch, HostGivesUp, send_command_resp,
           deinitialize_wifi, StaStopAcked, FenceAcked, StartReturns,
           StartFailed, process_start_scan, ScanStart, process_monitor_config,
           process_auth_request, AuthBssid, AuthSend, AuthConnect, AuthDone,
           process_assoc_request, process_sta_connect, ConnectStarted,
           process_deinit_interface, DeinitDone, process_set_mode,
           process_set_ap_config, ModeCallback, ModeDone, ModeRolledBack,
           process_mgmt_tx, MgmtSend, hosted_send_mgmt_accept, MgmtTimer, MgmtUntimed,
           hosted_mgmt_mark_accepted, MgmtStatus, process_mgmt_tx_unmarked,
           UnmarkedSend, mgmt_txcb, sta_rx_auth, TimerTask, hosted_mgmt_timeout_cb,
           hosted_mgmt_finish_owned, vars
  <2>2. QED
    BY SMTT(60), <2>1, <1>a, <1>b, EventFacts
<1>25. QED
  BY <1>1, <1>2, <1>3, <1>4, <1>5, <1>6, <1>7, <1>8, <1>9, <1>10, <1>11,
     <1>12, <1>13, <1>14, <1>15, <1>16, <1>17, <1>18, <1>19, <1>20, <1>21,
     <1>22, <1>23, <1>24
  DEF Next, WifiStop, WifiStart, Scan, Auth, Session, Interface, Mode, Mgmt,
      CommandTask, EventLoop, WifiTask

-----------------------------------------------------------------------------
(* Types and control *)

\* The processor starts idle, after command 1 left what it left.
LEMMA TypeInit == Init => TypeOK /\ ControlInv
<1> SUFFICES ASSUME Init PROVE TypeOK /\ ControlInv
  OBVIOUS
<1>1. CmdType /\ ControlInv
  <2>1. CmdIdle \in [pc : Pcs, seq : 0..MaxCmds, r : Requests \union {NoRequest},
                     k : Seq(Labels), err : BOOLEAN, was : BOOLEAN,
                     cb : BOOLEAN, old : WifiModes]
    BY SeqFacts DEF CmdIdle, Pcs, WifiModes
  <2>2. QED
    BY <2>1 DEF Init, CmdType, ControlInv, CmdIdle, StopPcs, StartPcs, Labels
<1>2. PICK mode \in Modes, style \in Styles, mon \in BOOLEAN, left \in Left1,
           ap \in Aps, b \in Bodies :
        /\ w = StartedWifi(mode, mon)
        /\ lib = StartedLib(mode, left, ap)
        /\ s = StartedSession(left, ap)
        /\ sc = [run |-> left = "scan", drain |-> FALSE, auth |-> FALSE,
                 owner |-> IF left = "scan" THEN 1 ELSE NoSeq]
        /\ \/ tx = [NoTx EXCEPT !.pending = TRUE, !.accepted = TRUE,
                                !.timers = {1}, !.cookie = 1]
           \/ tx = NoTx
        /\ lg = [pending |-> TRUE, seq |-> 1] \/ lg = NoLg
        /\ host = [n |-> 1, wait |-> TRUE, style |-> style,
                   body |-> [k \in Seqs |-> IF left = "frame" /\ k = 1 THEN b ELSE "none"]]
        /\ \E x, y \in {0, 1}, acc \in SUBSET {1} :
             out = [ans |-> [NoReport EXCEPT ![1] = x], sts |-> NoReport,
                    mlme |-> [NoReport EXCEPT ![1] = y], disc |-> NoReport,
                    acc |-> acc, acked |-> {}, lost |-> {}, scans |-> {}]
  <2>1. PICK mode \in Modes, style \in Styles, mon \in BOOLEAN, left \in Left1,
             ap \in Aps, b \in Bodies :
        LET sent == left = "frame"
            deferred == sent /\ style = "legacy"
        IN  /\ sent => mode = "APSTA"
            /\ mon => left \in {"nothing", "session"}
            /\ w = StartedWifi(mode, mon)
            /\ lib = StartedLib(mode, left, ap)
            /\ s = StartedSession(left, ap)
            /\ sc = [run |-> left = "scan", drain |-> FALSE, auth |-> FALSE,
                     owner |-> IF left = "scan" THEN 1 ELSE NoSeq]
            /\ tx = IF sent /\ ~deferred
                    THEN [NoTx EXCEPT !.pending = TRUE, !.accepted = TRUE,
                                      !.timers = {1}, !.cookie = 1]
                    ELSE NoTx
            /\ lg = IF deferred THEN [pending |-> TRUE, seq |-> 1] ELSE NoLg
            /\ host = [n |-> 1, wait |-> TRUE, style |-> style,
                       body |-> [k \in Seqs |-> IF sent /\ k = 1 THEN b ELSE "none"]]
            /\ out = [ans |-> [NoReport EXCEPT ![1] = IF deferred THEN 0 ELSE 1],
                      sts |-> NoReport,
                      mlme |-> [NoReport EXCEPT ![1] = IF left = "session" THEN 1 ELSE 0],
                      disc |-> NoReport,
                      acc |-> IF sent /\ ~deferred THEN {1} ELSE {},
                      acked |-> {}, lost |-> {}, scans |-> {}]
    BY DEF Init
  <2>2. QED
    BY ZenonT(60), <2>1
<1>3. FlagType
  BY <1>2, SeqFacts, MaxCmdsAssumption DEF Init, FlagType, StartedWifi
<1>4. SessionType
  <2>1. NoSession \in SessionRec
    BY SeqFacts, ValueFacts DEF NoSession, SessionRec
  <2>2. ap \in Bssids /\ 1 \in 0..MaxCmds
    BY ValueFacts, SeqFacts
  <2>3. StartedSession(left, ap) \in SessionRec
    BY <2>1, <2>2 DEF StartedSession, SessionRec
  <2>4. QED
    BY <1>2, <2>3 DEF SessionType, SessionRec
<1>5. FrameType
  <2>1. fin = {} /\ 1 \in 0..MaxCmds /\ 1 \in Seqs /\ 1 # NoSeq
    BY SeqFacts DEF Init
  <2>2. tx \in TxRec /\ (tx.pending <=> tx.cookie # NoSeq)
    <3>1. {1} \in SUBSET Seqs
      BY <2>1
    <3>2. CASE tx = NoTx
      BY <3>2, FrameFacts
    <3>3. CASE tx = [NoTx EXCEPT !.pending = TRUE, !.accepted = TRUE, !.timers = {1},
                                 !.cookie = 1]
      BY <2>1, <3>1, <3>3 DEF TxRec, NoTx
    <3>4. QED
      BY <1>2, <3>2, <3>3
  <2>3. lg \in LgRec /\ (lg.pending <=> lg.seq # NoSeq)
    <3>1. CASE lg = [pending |-> TRUE, seq |-> 1]
      BY <2>1, <3>1 DEF LgRec
    <3>2. CASE lg = NoLg
      BY <3>2, FrameFacts
    <3>3. QED
      BY <1>2, <3>1, <3>2
  <2>4. QED
    BY <2>1, <2>2, <2>3 DEF FrameType, TxRec, LgRec
<1>6. LibType
  <2>1. /\ ap \in Bssids /\ NoAp \in Bssids /\ mode \in WifiModes
        /\ 1 \in Seqs /\ {1, NoSeq, 0} \subseteq 0..MaxCmds
    BY ValueFacts, SeqFacts
  <2>2. QED
    BY <1>2, <2>1 DEF LibType, StartedLib
<1>7. HostType
  <2>1. 1 \in Seqs
    BY SeqFacts
  <2>2. NoReport \in [Seqs -> Nat]
    BY DEF NoReport
  <2>3. QED
    BY <1>2, <2>1, <2>2 DEF HostType
<1>8. evq \in Seq(Events)
  BY DEF Init
<1>9. QED
  BY <1>1, <1>3, <1>4, <1>5, <1>6, <1>7, <1>8 DEF TypeOK

\* Every step of every context keeps all the types and the control facts.
LEMMA TypeNext ==
    ASSUME TypeOK, ControlInv, [Next]_vars
    PROVE  TypeOK' /\ ControlInv'
<1>1. /\ CmdType /\ FlagType /\ SessionType /\ FrameType /\ LibType /\ HostType
      /\ evq \in Seq(Events)
  BY DEF TypeOK
<1>2. CmdType' /\ ControlInv'
  BY ControlNext
<1>3. FlagType'
  BY <1>1, LifeCycleType, ScanType, UpType, FaultType DEF FlagType
<1>4. SessionType' /\ LibType' /\ FrameType' /\ HostType' /\ evq' \in Seq(Events)
  BY <1>1, SessionNext, LibNext, FrameNext, HostNext, EventNext
<1>5. QED
  BY <1>2, <1>3, <1>4 DEF TypeOK

\* Every context's state keeps its shape; only known events are posted; a
\* pending management transaction has its cookie; the command task works on
\* the host's last command and hosted_wifi_stop and hosted_wifi_start always
\* have a caller to return to.
THEOREM ProcessorTypes == Spec => [](TypeOK /\ ControlInv)
<1>1. Init => TypeOK /\ ControlInv
  BY TypeInit
<1>2. TypeOK /\ ControlInv /\ [Next]_vars => (TypeOK /\ ControlInv)'
  BY TypeNext
<1>3. QED
  BY <1>1, <1>2, PTL DEF Spec

-----------------------------------------------------------------------------
(* Every command is answered once *)

\* Handlers that do not answer, and contexts that give the host something else.
LEMMA AnswerSame ==
    ASSUME TypeOK, ControlInv, ControlInv', AnswerInv, up, host' = host, lg' = lg,
           out'.ans = out.ans, out'.lost = out.lost,
           \/ cmd' = cmd
           \/ Working(cmd.pc) /\ cmd.pc \notin {"resp", "deinitialize"} /\ Moves
    PROVE  AnswerInv'
<1>1. cmd'.seq = cmd.seq /\ host'.n = host.n /\ host'.style = host.style
  BY DEF Moves
<1>2. CASE cmd' = cmd
  BY <1>2 DEF AnswerInv, AnsweredOnce
<1>3. CASE Working(cmd.pc) /\ cmd.pc \notin {"resp", "deinitialize"} /\ Moves
  <2>1. Working(cmd'.pc) /\ (Undoing' => Undoing)
    BY <1>3 DEF Moves
  <2>2. /\ cmd.pc \notin AfterAnswer \union {"idle"} /\ cmd.pc # "lgSend"
        /\ cmd'.pc \notin AfterAnswer \union {"idle"} /\ cmd'.pc # "lgSend"
        /\ cmd'.pc \notin AfterAnswer
        /\ (cmd'.pc = "deinitialize" \/ cmd'.k = <<"deinitialize">>)
             => (cmd.pc = "deinitialize" \/ cmd.k = <<"deinitialize">>)
    BY <1>3, <2>1 DEF Working, MgmtPcs, Undoing
  <2>3. AnsweredOnce'
    BY <1>1 DEF AnswerInv, AnsweredOnce
  <2>4. cmd'.pc = "deinitialize" \/ cmd'.k = <<"deinitialize">> => cmd'.seq \in out'.lost
    BY <1>1, <2>2 DEF AnswerInv
  <2>5. QED
    BY <1>1, <2>2, <2>3, <2>4 DEF AnswerInv
<1>4. QED
  BY <1>2, <1>3

\* A command is answered by its handler, or by the callback of the legacy
\* frame that it sent, and never by both; the stop fails the legacy frame.
LEMMA AnswerNext ==
    ASSUME TypeOK, ControlInv, AnswerInv, AirInv, [Next]_vars
    PROVE  AnswerInv'
<1>a. ControlInv' /\ (cmd' # cmd => Moves)
  BY ControlNext
<1>b. /\ out.ans \in [Seqs -> Nat] /\ host.n \in Seqs /\ Seqs = 1..MaxCmds
      /\ lg.pending <=> lg.seq # NoSeq
      /\ lg.seq \in 0..MaxCmds /\ MaxCmds \in Nat /\ NoSeq = 0
      /\ cmd.pc = "idle" => cmd.seq = NoSeq
      /\ cmd.pc # "idle" => cmd.seq = host.n
  <2>1. out.ans \in [Seqs -> Nat] /\ host.n \in Seqs /\ (cmd.pc # "idle" => cmd.seq = host.n)
    BY DEF TypeOK, HostType, ControlInv
  <2>2. lg.seq \in 0..MaxCmds /\ (lg.pending <=> lg.seq # NoSeq)
    BY DEF TypeOK, FrameType
  <2>3. cmd.pc = "idle" => cmd.seq = NoSeq
    BY DEF TypeOK, CmdType, CmdIdle
  <2>4. QED
    BY <2>1, <2>2, <2>3, SeqFacts DEF Seqs
<1>c. CmdIdle.pc = "idle" /\ CmdIdle.seq = NoSeq /\ CmdIdle.k = <<>>
      /\ <<>> # <<"deinitialize">> /\ NoLg.pending = FALSE /\ NoLg.seq = NoSeq
  BY DEF CmdIdle, NoLg
<1>0. CASE UNCHANGED vars
  BY <1>0 DEF vars, AnswerInv, AnsweredOnce
<1> SUFFICES ASSUME Next PROVE AnswerInv'
  BY <1>0
<1>u. up
  BY DEF Next
<1>1. CASE hosted_wifi_stop \/ StaStopAcked \/ PostFence \/ FenceAcked \/
          hosted_wifi_start \/ StartReturns \/ StartFailed \/
          process_start_scan \/ ScanStart \/ process_monitor_config \/
          process_auth_request \/ AuthBssid \/ AuthSend \/ AuthConnect \/
          AuthDone \/ process_assoc_request \/ process_sta_connect \/
          ConnectStarted \/ process_disconnect \/ process_init_interface \/
          DeinitRetires \/ MonitorRebuild \/ DeinitDone \/
          process_set_mode \/ process_set_ap_config \/ ModeStopped \/
          ModeCallback \/ ModeRollback \/ ModeRolledBack
  <2>1. UNCHANGED <<host, lg, out>>
    BY ZenonT(60), <1>1 DEF hosted_wifi_stop, StaStopAcked, PostFence, FenceAcked,
           hosted_wifi_start, StartReturns, StartFailed, process_start_scan,
           ScanStart, process_monitor_config, process_auth_request, AuthBssid,
           AuthSend, AuthConnect, AuthDone, process_assoc_request,
           process_sta_connect, ConnectStarted, process_disconnect,
           process_init_interface, DeinitRetires, MonitorRebuild, DeinitDone,
           process_set_mode, process_set_ap_config, ModeStopped, ModeCallback,
           ModeRollback, ModeRolledBack
  <2>2. Working(cmd.pc) /\ cmd.pc \notin {"resp", "deinitialize"}
    BY ZenonT(60), <1>1 DEF hosted_wifi_stop, StaStopAcked, PostFence, FenceAcked,
           hosted_wifi_start, StartReturns, StartFailed, process_start_scan,
           ScanStart, process_monitor_config, process_auth_request, AuthBssid,
           AuthSend, AuthConnect, AuthDone, process_assoc_request,
           process_sta_connect, ConnectStarted, process_disconnect,
           process_init_interface, DeinitRetires, MonitorRebuild, DeinitDone,
           process_set_mode, process_set_ap_config, ModeStopped, ModeCallback,
           ModeRollback, ModeRolledBack, Working, Pcs, Commands, MgmtPcs,
           StopPcs, StartPcs, StopCallers, StartCallers, AfterAnswer
  <2>3. QED
    BY SMTT(60), <2>1, <2>2, <1>a, <1>u, AnswerSame
<1>2. CASE process_deinit_interface
  <2>1. UNCHANGED <<host, lg>> /\ out'.ans = out.ans /\ out'.lost = out.lost
    BY <1>2 DEF process_deinit_interface, hosted_mgmt_fail_pending, Report, TypeOK, HostType
  <2>2. Working(cmd.pc) /\ cmd.pc \notin {"resp", "deinitialize"}
    BY <1>2 DEF process_deinit_interface, Working, Pcs, Commands, MgmtPcs,
           StopPcs, StartPcs, StopCallers, StartCallers, AfterAnswer
  <2>3. QED
    BY <2>1, <2>2, <1>a, <1>u, AnswerSame
<1>3. CASE ModeDone
  <2>1. UNCHANGED <<host, lg>> /\ out'.ans = out.ans /\ out'.lost = out.lost
    BY <1>3 DEF ModeDone, hosted_mgmt_fail_pending, Report, TypeOK, HostType
  <2>2. Working(cmd.pc) /\ cmd.pc \notin {"resp", "deinitialize"}
    BY <1>3 DEF ModeDone, Working, Pcs, Commands, MgmtPcs, StopPcs, StartPcs,
           StopCallers, StartCallers, AfterAnswer
  <2>3. QED
    BY <2>1, <2>2, <1>a, <1>u, AnswerSame
<1>4. CASE OnStart \/ OnConnected \/ OnApStop \/ OnStaStop \/
          hosted_scan_fence_handler \/ LibConnected \/ LibDisconnected \/
          LibScanDone \/ LibLookupDone \/ LibStaStop \/
          TimerTask
  <2>1. UNCHANGED <<cmd, host, lg, out>>
    BY <1>4 DEF OnStart, OnConnected, OnApStop, OnStaStop,
           hosted_scan_fence_handler, LibConnected, LibDisconnected,
           LibScanDone, LibLookupDone, LibStaStop, TimerTask, hosted_mgmt_timeout_cb
  <2>2. QED
    BY <2>1, <1>a, <1>u, AnswerSame
<1>5. CASE OnDisconnected \/ OnScanDone \/ sta_rx_auth \/ AssocResponse \/
          hosted_mgmt_finish_owned
  <2>1. UNCHANGED <<cmd, host, lg>> /\ out'.ans = out.ans /\ out'.lost = out.lost
    BY ZenonT(60), <1>5 DEF OnDisconnected, OnScanDone, sta_rx_auth, AssocResponse,
           hosted_mgmt_finish_owned, handle_sta_disconnected_event,
           sta_rx_assoc, TypeOK, HostType
  <2>2. QED
    BY <2>1, <1>a, <1>u, AnswerSame
<1>6. CASE HostGivesUp
  <2>1. UNCHANGED <<cmd, lg, out, up>> /\ host'.n = host.n /\ host'.style = host.style
    BY <1>6 DEF HostGivesUp, TypeOK, HostType
  <2>2. QED
    BY <2>1 DEF AnswerInv, AnsweredOnce
<1>7. CASE esp_cmd_dispatch
  <2>1. PICK r \in Requests :
            cmd' = [CmdIdle EXCEPT !.pc = r.c, !.r = r, !.seq = host.n + 1]
    BY ZenonT(60), <1>7 DEF esp_cmd_dispatch
  <2>2. /\ cmd'.pc = r.c /\ cmd'.seq = host.n + 1 /\ cmd'.k = <<>>
        /\ cmd.pc = "idle" /\ host.n < MaxCmds /\ UNCHANGED <<lg, out, up>>
        /\ host'.n = host.n + 1 /\ host'.style = host.style
    BY <1>7, <2>1 DEF esp_cmd_dispatch, CmdIdle, TypeOK, HostType
  <2>3. r.c \notin AfterAnswer \union {"idle", "deinitialize", "lgSend"}
    BY RequestFacts DEF Commands, AfterAnswer
  <2>4. out.ans[host.n + 1] = 0
    BY SMTT(60), <1>b, <2>2 DEF AnswerInv
  <2>5. QED
    BY SMTT(60), <1>b, <1>c, <2>2, <2>3, <2>4 DEF AnswerInv, AnsweredOnce
<1>8. CASE send_command_resp
  <2>1. cmd.pc = "resp" /\ cmd.pc # "idle" /\ cmd.seq = host.n /\ out.ans[cmd.seq] = 0
        /\ UNCHANGED <<lg, host>> /\ (lg.pending => lg.seq # cmd.seq)
    BY <1>8, <1>b DEF send_command_resp, AnswerInv, AfterAnswer
  <2>2. CASE out' = Answered /\ cmd' = CmdIdle
    <3>1. out'.ans = [out.ans EXCEPT ![cmd.seq] = 1] /\ out'.lost = out.lost
      BY <2>1, <2>2, <1>b DEF Answered, TypeOK, HostType
    <3>2. QED
      BY <2>1, <2>2, <3>1, <1>b, <1>c, <1>u DEF AnswerInv, AnsweredOnce, AfterAnswer
  <2>3. CASE out' = Lost /\ cmd' = CmdIdle
    <3>1. out'.ans = out.ans /\ out'.lost = out.lost \union {cmd.seq}
      BY <2>3 DEF Lost, TypeOK, HostType
    <3>2. QED
      BY <2>1, <2>3, <3>1, <1>b, <1>c, <1>u DEF AnswerInv, AnsweredOnce, AfterAnswer
  <2>4. CASE out' = Lost /\ cmd' = Call("stop", "deinitialize")
    <3>1. out'.ans = out.ans /\ out'.lost = out.lost \union {cmd.seq}
      BY <2>4 DEF Lost, TypeOK, HostType
    <3>2. cmd'.pc = "stop" /\ cmd'.seq = cmd.seq
      BY <2>4 DEF TypeOK, CmdType
    <3>3. QED
      BY <2>1, <3>1, <3>2, <1>b, <1>u DEF AnswerInv, AnsweredOnce, AfterAnswer
  <2>5. QED
    BY <1>8, <2>2, <2>3, <2>4 DEF send_command_resp
<1>9. CASE deinitialize_wifi
  <2>1. cmd.pc = "deinitialize" /\ cmd' = CmdIdle /\ UNCHANGED <<lg, host, out, up>>
    BY <1>9 DEF deinitialize_wifi
  <2>2. QED
    BY <2>1, <1>b, <1>c DEF AnswerInv, AnsweredOnce, AfterAnswer
<1>10. CASE StopReturns
  <2>1. /\ Working(cmd.pc) /\ cmd.pc = "esp_wifi_stop" /\ UNCHANGED <<host, up>>
        /\ cmd'.seq = cmd.seq /\ cmd'.k = cmd.k /\ cmd'.pc \in {"stopAck", "fence"}
        /\ \/ UNCHANGED <<out, lg>>
           \/ \E lose \in BOOLEAN : mgmt_tx_fail_pending(lose)
    BY ZenonT(60), <1>10, SubFacts DEF StopReturns, StopPcs, TypeOK, CmdType
  <2>2. CASE UNCHANGED <<out, lg>>
    BY <2>1, <2>2 DEF AnswerInv, AnsweredOnce, AfterAnswer
  <2>3. CASE ~lg.pending /\ lg' = NoLg /\ out' = out
    BY <2>1, <2>3, <1>b, <1>c DEF AnswerInv, AnsweredOnce, AfterAnswer
  <2>4. CASE lg.pending /\ lg' = NoLg /\ out' = [out EXCEPT !.lost = @ \union {lg.seq}]
    <3>1. out'.ans = out.ans /\ out'.lost = out.lost \union {lg.seq}
      BY <2>4 DEF TypeOK, HostType
    <3>2. QED
      BY <2>1, <2>4, <3>1, <1>b, <1>c DEF AnswerInv, AnsweredOnce, AfterAnswer
  <2>5. CASE lg.pending /\ lg' = NoLg /\ out' = [out EXCEPT !.ans[lg.seq] = @ + 1]
    <3>1. lg.seq \in Seqs /\ lg.seq # cmd.seq /\ out.ans[lg.seq] = 0 /\ lg.seq <= host.n
      BY <2>1, <2>5, <1>b DEF AnswerInv
    <3>2. out'.ans = [out.ans EXCEPT ![lg.seq] = 1] /\ out'.lost = out.lost
      BY <2>5, <3>1, <1>b DEF TypeOK, HostType
    <3>3. QED
      BY <2>1, <2>5, <3>1, <3>2, <1>b, <1>c DEF AnswerInv, AnsweredOnce, AfterAnswer
  <2>6. QED
    BY <2>1, <2>2, <2>3, <2>4, <2>5 DEF mgmt_tx_fail_pending
<1>11. CASE process_mgmt_tx \/ MgmtSend
  <2>1. /\ UNCHANGED <<lg, host, out, up>>
        /\ cmd.pc \in {"MGMT_TX", "mgmtSend"}
        /\ \E p \in {"resp", "mgmtSend", "mgmtAccept"} : cmd' = [cmd EXCEPT !.pc = p]
    BY <1>11 DEF process_mgmt_tx, MgmtSend
  <2>2. /\ cmd'.pc \in {"resp", "mgmtSend", "mgmtAccept"} /\ cmd'.seq = cmd.seq
        /\ cmd'.k = cmd.k
    BY <2>1 DEF TypeOK, CmdType
  <2>3. QED
    BY <2>1, <2>2, <1>b DEF AnswerInv, AnsweredOnce, AfterAnswer
<1>12. CASE hosted_send_mgmt_accept
  <2>1. cmd.pc = "mgmtAccept" /\ cmd.seq = host.n /\ out.ans[cmd.seq] = 0
        /\ UNCHANGED <<lg, host, up>> /\ (lg.pending => lg.seq # cmd.seq) /\ cmd.k = <<>>
    BY <1>12, <1>b DEF hosted_send_mgmt_accept, AnswerInv, AfterAnswer, ControlInv,
         StopPcs, StartPcs
  <2>2. CASE out' = Lost /\ cmd' = CmdIdle
    <3>1. out'.ans = out.ans /\ out'.lost = out.lost \union {cmd.seq}
      BY <2>2 DEF Lost, TypeOK, HostType
    <3>2. QED
      BY <2>1, <2>2, <3>1, <1>b, <1>c DEF AnswerInv, AnsweredOnce, AfterAnswer
  <2>3. ASSUME NEW p \in {"mgmtTimer", "mgmtStatus"}, cmd' = Goto(p),
               out' = [Answered EXCEPT !.acc = @ \union {cmd.seq}]
        PROVE  AnswerInv'
    <3>1. out'.ans = [out.ans EXCEPT ![cmd.seq] = 1] /\ out'.lost = out.lost
      BY <2>1, <2>3, <1>b DEF Answered, TypeOK, HostType
    <3>2. cmd'.pc = p /\ cmd'.seq = cmd.seq /\ cmd'.k = cmd.k
      BY <2>3 DEF TypeOK, CmdType
    <3>3. QED
      BY <2>1, <3>1, <3>2, <1>b, <1>c DEF AnswerInv, AnsweredOnce, AfterAnswer
  <2>4. QED
    BY <1>12, <2>2, <2>3 DEF hosted_send_mgmt_accept
<1>13. CASE MgmtTimer \/ MgmtUntimed \/ hosted_mgmt_mark_accepted \/ MgmtStatus
  <2>1. /\ UNCHANGED <<lg, host>> /\ out'.ans = out.ans /\ out'.lost = out.lost
        /\ cmd.pc \in AfterAnswer
        /\ \/ cmd' = CmdIdle
           \/ \E p \in {"mgmtAccepted", "mgmtUntimed"} : cmd' = Goto(p)
    BY <1>13 DEF MgmtTimer, MgmtUntimed, hosted_mgmt_mark_accepted, MgmtStatus, Report, TypeOK,
         HostType, AfterAnswer
  <2>2. CASE cmd' = CmdIdle
    BY <2>1, <2>2, <1>b, <1>c, <1>u DEF AnswerInv, AnsweredOnce, AfterAnswer
  <2>3. CASE \E p \in {"mgmtAccepted", "mgmtUntimed"} : cmd' = Goto(p)
    <3>1. /\ cmd'.pc \in {"mgmtAccepted", "mgmtUntimed"}
          /\ cmd'.seq = cmd.seq /\ cmd'.k = cmd.k
      BY <2>3 DEF TypeOK, CmdType
    <3>2. QED
      BY <2>1, <3>1, <1>b, <1>u DEF AnswerInv, AnsweredOnce, AfterAnswer
  <2>4. QED
    BY <2>1, <2>2, <2>3
<1>14. CASE process_mgmt_tx_unmarked
  <2>1. /\ UNCHANGED <<host, out, up>> /\ cmd.pc = "MGMT_TX" /\ cmd.seq = host.n
        /\ host.style = "legacy"
        /\ \/ cmd' = Goto("resp") /\ lg' = lg
           \/ ~lg.pending /\ cmd' = Goto("lgSend") /\ lg' = [pending |-> TRUE, seq |-> cmd.seq]
    BY <1>14, <1>b, StyleAssumption
    DEF process_mgmt_tx_unmarked, mgmt_tx_inflight_begin, Marked, TypeOK, HostType
  <2>2. /\ cmd'.seq = cmd.seq /\ cmd'.k = cmd.k
        /\ \/ cmd'.pc = "resp" /\ lg' = lg
           \/ /\ ~lg.pending /\ cmd'.pc = "lgSend"
              /\ lg' = [pending |-> TRUE, seq |-> cmd.seq]
    BY <2>1 DEF TypeOK, CmdType
  <2>3. CASE cmd'.pc = "resp" /\ lg' = lg
    BY <2>1, <2>2, <2>3, <1>b DEF AnswerInv, AnsweredOnce, AfterAnswer
  <2>4. CASE cmd'.pc = "lgSend" /\ lg' = [pending |-> TRUE, seq |-> cmd.seq]
    BY <2>1, <2>2, <2>4, <1>b DEF AnswerInv, AnsweredOnce, AfterAnswer
  <2>5. QED
    BY <2>2, <2>3, <2>4
<1>15. CASE UnmarkedSend
  <2>1. /\ UNCHANGED <<host, out, up>> /\ cmd.pc = "lgSend" /\ cmd.seq = host.n
        /\ \/ cmd' = Goto("resp") /\ lg' = NoLg
           \/ cmd' = CmdIdle /\ lg' = lg
    BY <1>15, <1>b DEF UnmarkedSend
  <2>2. CASE cmd' = Goto("resp") /\ lg' = NoLg
    <3>1. cmd'.pc = "resp" /\ cmd'.seq = cmd.seq /\ cmd'.k = cmd.k
      BY <2>2 DEF TypeOK, CmdType
    <3>2. QED
      BY <2>1, <2>2, <3>1, <1>b, <1>c DEF AnswerInv, AnsweredOnce, AfterAnswer
  <2>3. CASE cmd' = CmdIdle /\ lg' = lg
    BY <2>1, <2>3, <1>b, <1>c DEF AnswerInv, AnsweredOnce, AfterAnswer
  <2>4. QED
    BY <2>1, <2>2, <2>3
<1>16. CASE mgmt_txcb
  <2>1. PICK f \in lib.air, prot \in BOOLEAN, ack \in BOOLEAN :
            CASE ~w.cb -> UNCHANGED <<tx, lg, fin, out, faults>>
              [] w.cb /\ tx.draining ->
                   /\ tx' = [tx EXCEPT !.draining = FALSE]
                   /\ UNCHANGED <<lg, fin, out, faults>>
              [] w.cb /\ ~tx.draining /\ tx.pending -> mgmt_txcb_marked(f, prot, ack)
              [] OTHER -> mgmt_txcb_unmarked(f)
    BY <1>16 DEF mgmt_txcb
  <2>2. UNCHANGED <<cmd, host, up>>
    BY <1>16 DEF mgmt_txcb
  <2>3. CASE UNCHANGED <<lg, out>>
    BY <2>2, <2>3, <1>a, <1>u, AnswerSame
  <2>4. CASE lg.pending /\ lg' = NoLg /\ host.body[f] # "broadcast"
             /\ out' = [out EXCEPT !.lost = @ \union {lg.seq}]
    <3>1. /\ lg.seq = f /\ cmd.pc # "lgSend"
      BY <2>4, <1>b DEF AnswerInv, AirInv, Marked
    <3>2. out'.ans = out.ans /\ out'.lost = out.lost \union {lg.seq}
      BY <2>4 DEF TypeOK, HostType
    <3>3. QED
      BY <2>2, <2>4, <3>1, <3>2, <1>b, <1>c DEF AnswerInv, AnsweredOnce, AfterAnswer
  <2>5. CASE lg.pending /\ lg' = NoLg /\ host.body[f] # "broadcast"
             /\ out' = [out EXCEPT !.ans[lg.seq] = @ + 1]
    <3>1. /\ lg.seq = f /\ cmd.pc # "lgSend" /\ lg.seq # cmd.seq
          /\ out.ans[lg.seq] = 0 /\ lg.seq \in Seqs /\ lg.seq <= host.n
      BY <2>5, <1>b DEF AnswerInv, AirInv, Marked
    <3>2. out'.ans = [out.ans EXCEPT ![lg.seq] = 1] /\ out'.lost = out.lost
      BY <2>5, <3>1, <1>b DEF TypeOK, HostType
    <3>3. QED
      BY <2>2, <2>5, <3>1, <3>2, <1>b, <1>c DEF AnswerInv, AnsweredOnce, AfterAnswer
  <2>6. QED
    BY <2>1, <2>3, <2>4, <2>5 DEF mgmt_txcb_marked, mgmt_txcb_unmarked
<1>17. QED
  BY <1>1, <1>2, <1>3, <1>4, <1>5, <1>6, <1>7, <1>8, <1>9, <1>10, <1>11,
     <1>12, <1>13, <1>14, <1>15, <1>16
  DEF Next, WifiStop, WifiStart, Scan, Auth, Session, Interface, Mode, Mgmt,
      CommandTask, EventLoop, WifiTask

-----------------------------------------------------------------------------
(* Management frames *)

\* The steps that handle management frames, begin or answer a command, or stop
\* the Wi-Fi; every other step leaves the frames and the answers alone.
MgmtSteps ==
    \/ esp_cmd_dispatch \/ send_command_resp \/ StopReturns
    \/ process_deinit_interface \/ ModeDone \/ process_mgmt_tx
    \/ MgmtSend \/ hosted_send_mgmt_accept \/ MgmtTimer \/ MgmtUntimed
    \/ hosted_mgmt_mark_accepted \/ MgmtStatus \/ process_mgmt_tx_unmarked
    \/ UnmarkedSend \/ mgmt_txcb \/ TimerTask
    \/ hosted_mgmt_finish_owned
FramesKept ==
    /\ UNCHANGED <<tx, lg, fin>>
    /\ host'.n = host.n /\ host'.style = host.style /\ host'.body = host.body
    /\ lib'.air = lib.air /\ lib'.acked = lib.acked
    /\ out'.ans = out.ans /\ out'.lost = out.lost /\ out'.sts = out.sts
    /\ out'.acc = out.acc /\ out'.acked = out.acked
    /\ \/ cmd' = cmd
       \/ Working(cmd.pc) /\ Working(cmd'.pc) /\ cmd'.seq = cmd.seq
       \/ Working(cmd.pc) /\ cmd' = CmdIdle

\* Scans, sessions, mode changes and the library's own events neither touch a
\* management transaction nor the legacy slot.
LEMMA FramesElsewhere ==
    ASSUME TypeOK, ControlInv, Next
    PROVE  MgmtSteps \/ FramesKept
<1>a. ControlInv' /\ (cmd' # cmd => Moves)
  BY ControlNext
<1>b. lib \in LibRec /\ out \in OutRec
  BY DEF TypeOK, LibType, LibRec, HostType, OutRec
<1>m. ASSUME Working(cmd.pc) \/ cmd' = cmd
      PROVE  \/ cmd' = cmd
             \/ Working(cmd.pc) /\ Working(cmd'.pc) /\ cmd'.seq = cmd.seq
             \/ Working(cmd.pc) /\ cmd' = CmdIdle
  BY <1>m, <1>a DEF Moves
<1>1. CASE StaStopAcked \/ PostFence \/ FenceAcked \/ StartReturns \/
          StartFailed \/ process_start_scan \/ process_monitor_config \/
          process_auth_request \/ AuthBssid \/ AuthSend \/ AuthDone \/
          DeinitDone \/ process_set_mode \/ process_set_ap_config \/
          ModeCallback \/ ModeRolledBack
  <2>1. UNCHANGED <<tx, lg, fin, host, lib, out>>
    BY ZenonT(60), <1>1 DEF StaStopAcked, PostFence, FenceAcked, StartReturns,
           StartFailed, process_start_scan, process_monitor_config,
           process_auth_request, AuthBssid, AuthSend, AuthDone, DeinitDone,
           process_set_mode, process_set_ap_config, ModeCallback,
           ModeRolledBack
  <2>2. Working(cmd.pc)
    BY ZenonT(60), <1>1 DEF StaStopAcked, PostFence, FenceAcked, StartReturns,
           StartFailed, process_start_scan, process_monitor_config,
           process_auth_request, AuthBssid, AuthSend, AuthDone, DeinitDone,
           process_set_mode, process_set_ap_config, ModeCallback,
           ModeRolledBack, Working, Pcs, Commands, MgmtPcs, StopPcs, StartPcs,
           StopCallers, StartCallers, AfterAnswer
  <2>3. QED
    BY <2>1, <2>2, <1>m DEF FramesKept
<1>2. CASE OnStart \/ OnConnected \/ OnApStop \/ OnStaStop \/
          hosted_scan_fence_handler \/ LibLookupDone
  <2>1. UNCHANGED <<cmd, tx, lg, fin, host, lib, out>>
    BY <1>2 DEF OnStart, OnConnected, OnApStop, OnStaStop,
           hosted_scan_fence_handler, LibLookupDone
  <2>2. QED
    BY <2>1 DEF FramesKept
<1>3. CASE HostGivesUp
  <2>1. UNCHANGED <<cmd, tx, lg, fin, lib, out>>
    BY <1>3 DEF HostGivesUp
  <2>3. host'.n = host.n /\ host'.style = host.style /\ host'.body = host.body
    BY <1>3 DEF HostGivesUp, Waiting, TypeOK, HostType
  <2>5. QED
    BY <2>1, <2>3 DEF FramesKept
<1>4. CASE deinitialize_wifi
  <2>1. UNCHANGED <<tx, lg, fin, host, out>>
    BY <1>4 DEF deinitialize_wifi
  <2>2. lib'.air = lib.air /\ lib'.acked = lib.acked
    BY <1>4, <1>b DEF deinitialize_wifi, CmdIdle, LibRec
  <2>4. Working(cmd.pc)
    BY <1>4 DEF deinitialize_wifi, Working, Pcs, Commands, MgmtPcs, StopPcs,
           StartPcs, StopCallers, StartCallers, AfterAnswer
  <2>5. QED
    BY <2>1, <2>2, <2>4, <1>m DEF FramesKept
<1>5. CASE hosted_wifi_stop
  <2>1. UNCHANGED <<tx, lg, fin, host, out>>
    BY <1>5 DEF hosted_wifi_stop
  <2>2. lib'.air = lib.air /\ lib'.acked = lib.acked
    BY <1>5, <1>b DEF hosted_wifi_stop, hosted_scan_abort, LibRec
  <2>4. Working(cmd.pc)
    BY <1>5 DEF hosted_wifi_stop, Working, Pcs, Commands, MgmtPcs, StopPcs,
           StartPcs, StopCallers, StartCallers, AfterAnswer
  <2>5. QED
    BY <2>1, <2>2, <2>4, <1>m DEF FramesKept
<1>6. CASE hosted_wifi_start
  <2>1. UNCHANGED <<tx, lg, fin, host, out>>
    BY <1>6 DEF hosted_wifi_start
  <2>2. lib'.air = lib.air /\ lib'.acked = lib.acked
    BY <1>6, <1>b DEF hosted_wifi_start, LibRec
  <2>4. Working(cmd.pc)
    BY <1>6 DEF hosted_wifi_start, Working, Pcs, Commands, MgmtPcs, StopPcs,
           StartPcs, StopCallers, StartCallers, AfterAnswer
  <2>5. QED
    BY <2>1, <2>2, <2>4, <1>m DEF FramesKept
<1>7. CASE ScanStart
  <2>1. UNCHANGED <<tx, lg, fin, host, out>>
    BY <1>7 DEF ScanStart
  <2>2. lib'.air = lib.air /\ lib'.acked = lib.acked
    BY <1>7, <1>b DEF ScanStart, LibRec
  <2>4. Working(cmd.pc)
    BY <1>7 DEF ScanStart, Working, Pcs, Commands, MgmtPcs, StopPcs, StartPcs,
           StopCallers, StartCallers, AfterAnswer
  <2>5. QED
    BY <2>1, <2>2, <2>4, <1>m DEF FramesKept
<1>8. CASE AuthConnect
  <2>1. UNCHANGED <<tx, lg, fin, host, out>>
    BY <1>8 DEF AuthConnect
  <2>2. lib'.air = lib.air /\ lib'.acked = lib.acked
    BY <1>8, <1>b DEF AuthConnect, AuthRejected, LibRec
  <2>4. Working(cmd.pc)
    BY <1>8 DEF AuthConnect, Working, Pcs, Commands, MgmtPcs, StopPcs,
           StartPcs, StopCallers, StartCallers, AfterAnswer
  <2>5. QED
    BY <2>1, <2>2, <2>4, <1>m DEF FramesKept
<1>9. CASE process_assoc_request
  <2>1. UNCHANGED <<tx, lg, fin, host, out>>
    BY <1>9 DEF process_assoc_request
  <2>2. lib'.air = lib.air /\ lib'.acked = lib.acked
    BY <1>9, <1>b DEF process_assoc_request, NoAssoc, LibRec
  <2>4. Working(cmd.pc)
    BY <1>9 DEF process_assoc_request, Working, Pcs, Commands, MgmtPcs,
           StopPcs, StartPcs, StopCallers, StartCallers, AfterAnswer
  <2>5. QED
    BY <2>1, <2>2, <2>4, <1>m DEF FramesKept
<1>10. CASE process_sta_connect
  <2>1. UNCHANGED <<tx, lg, fin, host, out>>
    BY <1>10 DEF process_sta_connect
  <2>2. lib'.air = lib.air /\ lib'.acked = lib.acked
    BY <1>10, <1>b DEF process_sta_connect, LibRec
  <2>4. Working(cmd.pc)
    BY <1>10 DEF process_sta_connect, Working, Pcs, Commands, MgmtPcs,
           StopPcs, StartPcs, StopCallers, StartCallers, AfterAnswer
  <2>5. QED
    BY <2>1, <2>2, <2>4, <1>m DEF FramesKept
<1>11. CASE ConnectStarted
  <2>1. UNCHANGED <<tx, lg, fin, host, out>>
    BY <1>11 DEF ConnectStarted
  <2>2. lib'.air = lib.air /\ lib'.acked = lib.acked
    BY <1>11, <1>b DEF ConnectStarted, NoAssoc, LibRec
  <2>4. Working(cmd.pc)
    BY <1>11 DEF ConnectStarted, Working, Pcs, Commands, MgmtPcs, StopPcs,
           StartPcs, StopCallers, StartCallers, AfterAnswer
  <2>5. QED
    BY <2>1, <2>2, <2>4, <1>m DEF FramesKept
<1>12. CASE process_disconnect
  <2>1. UNCHANGED <<tx, lg, fin, host, out>>
    BY <1>12 DEF process_disconnect
  <2>2. lib'.air = lib.air /\ lib'.acked = lib.acked
    BY <1>12, <1>b DEF process_disconnect, NoAssoc, Left, LibRec
  <2>4. Working(cmd.pc)
    BY <1>12 DEF process_disconnect, Working, Pcs, Commands, MgmtPcs, StopPcs,
           StartPcs, StopCallers, StartCallers, AfterAnswer
  <2>5. QED
    BY <2>1, <2>2, <2>4, <1>m DEF FramesKept
<1>13. CASE process_init_interface
  <2>1. UNCHANGED <<tx, lg, fin, host, out>>
    BY <1>13 DEF process_init_interface
  <2>2. lib'.air = lib.air /\ lib'.acked = lib.acked
    BY <1>13, <1>b DEF process_init_interface, Left, LibRec
  <2>4. Working(cmd.pc)
    BY <1>13 DEF process_init_interface, Working, Pcs, Commands, MgmtPcs,
           StopPcs, StartPcs, StopCallers, StartCallers, AfterAnswer
  <2>5. QED
    BY <2>1, <2>2, <2>4, <1>m DEF FramesKept
<1>14. CASE DeinitRetires
  <2>1. UNCHANGED <<tx, lg, fin, host, out>>
    BY <1>14 DEF DeinitRetires
  <2>2. lib'.air = lib.air /\ lib'.acked = lib.acked
    BY <1>14, <1>b DEF DeinitRetires, Left, RetiredSession, NoSession, LibRec
  <2>4. Working(cmd.pc)
    BY <1>14 DEF DeinitRetires, Working, Pcs, Commands, MgmtPcs, StopPcs,
           StartPcs, StopCallers, StartCallers, AfterAnswer
  <2>5. QED
    BY <2>1, <2>2, <2>4, <1>m DEF FramesKept
<1>15. CASE MonitorRebuild
  <2>1. UNCHANGED <<tx, lg, fin, host, out>>
    BY <1>15 DEF MonitorRebuild
  <2>2. lib'.air = lib.air /\ lib'.acked = lib.acked
    BY <1>15, <1>b DEF MonitorRebuild, SetMode, LibRec
  <2>4. Working(cmd.pc)
    BY <1>15 DEF MonitorRebuild, Working, Pcs, Commands, MgmtPcs, StopPcs,
           StartPcs, StopCallers, StartCallers, AfterAnswer
  <2>5. QED
    BY <2>1, <2>2, <2>4, <1>m DEF FramesKept
<1>16. CASE ModeStopped
  <2>1. UNCHANGED <<tx, lg, fin, host, out>>
    BY <1>16 DEF ModeStopped
  <2>2. lib'.air = lib.air /\ lib'.acked = lib.acked
    BY <1>16, <1>b DEF ModeStopped, SetMode, LibRec
  <2>4. Working(cmd.pc)
    BY <1>16 DEF ModeStopped, Working, Pcs, Commands, MgmtPcs, StopPcs,
           StartPcs, StopCallers, StartCallers, AfterAnswer
  <2>5. QED
    BY <2>1, <2>2, <2>4, <1>m DEF FramesKept
<1>17. CASE ModeRollback
  <2>1. UNCHANGED <<tx, lg, fin, host, out>>
    BY <1>17 DEF ModeRollback
  <2>2. lib'.air = lib.air /\ lib'.acked = lib.acked
    BY <1>17, <1>b DEF ModeRollback, SetMode, LibRec
  <2>4. Working(cmd.pc)
    BY <1>17 DEF ModeRollback, Working, Pcs, Commands, MgmtPcs, StopPcs,
           StartPcs, StopCallers, StartCallers, AfterAnswer
  <2>5. QED
    BY <2>1, <2>2, <2>4, <1>m DEF FramesKept
<1>18. CASE OnDisconnected
  <2>1. UNCHANGED <<cmd, tx, lg, fin, host, lib>>
    BY <1>18 DEF OnDisconnected
  <2>3. /\ out'.ans = out.ans /\ out'.lost = out.lost /\ out'.sts = out.sts
        /\ out'.acc = out.acc /\ out'.acked = out.acked
    BY <1>18, <1>b DEF OnDisconnected, handle_sta_disconnected_event,
           NoSession, OutRec
  <2>5. QED
    BY <2>1, <2>3 DEF FramesKept
<1>19. CASE OnScanDone
  <2>1. UNCHANGED <<cmd, tx, lg, fin, host, lib>>
    BY <1>19 DEF OnScanDone
  <2>3. /\ out'.ans = out.ans /\ out'.lost = out.lost /\ out'.sts = out.sts
        /\ out'.acc = out.acc /\ out'.acked = out.acked
    BY <1>19, <1>b DEF OnScanDone, OutRec
  <2>5. QED
    BY <2>1, <2>3 DEF FramesKept
<1>20. CASE sta_rx_auth
  <2>1. UNCHANGED <<cmd, tx, lg, fin, host, lib>>
    BY <1>20 DEF sta_rx_auth
  <2>3. /\ out'.ans = out.ans /\ out'.lost = out.lost /\ out'.sts = out.sts
        /\ out'.acc = out.acc /\ out'.acked = out.acked
    BY <1>20, <1>b DEF sta_rx_auth, OutRec
  <2>5. QED
    BY <2>1, <2>3 DEF FramesKept
<1>21. CASE AssocResponse
  <2>1. UNCHANGED <<cmd, tx, lg, fin, host>>
    BY <1>21 DEF AssocResponse
  <2>2. lib'.air = lib.air /\ lib'.acked = lib.acked
    BY <1>21, <1>b DEF AssocResponse, sta_rx_assoc, is_valid_assoc_resp, Left,
           LibRec
  <2>3. /\ out'.ans = out.ans /\ out'.lost = out.lost /\ out'.sts = out.sts
        /\ out'.acc = out.acc /\ out'.acked = out.acked
    BY <1>21, <1>b DEF AssocResponse, sta_rx_assoc, is_valid_assoc_resp, Left,
           OutRec
  <2>5. QED
    BY <2>1, <2>2, <2>3 DEF FramesKept
<1>22. CASE LibConnected
  <2>1. UNCHANGED <<cmd, tx, lg, fin, host, out>>
    BY <1>22 DEF LibConnected
  <2>2. lib'.air = lib.air /\ lib'.acked = lib.acked
    BY <1>22, <1>b DEF LibConnected, LibRec
  <2>5. QED
    BY <2>1, <2>2 DEF FramesKept
<1>23. CASE LibDisconnected
  <2>1. UNCHANGED <<cmd, tx, lg, fin, host, out>>
    BY <1>23 DEF LibDisconnected
  <2>2. lib'.air = lib.air /\ lib'.acked = lib.acked
    BY <1>23, <1>b DEF LibDisconnected, Left, LibRec
  <2>5. QED
    BY <2>1, <2>2 DEF FramesKept
<1>24. CASE LibScanDone
  <2>1. UNCHANGED <<cmd, tx, lg, fin, host, out>>
    BY <1>24 DEF LibScanDone
  <2>2. lib'.air = lib.air /\ lib'.acked = lib.acked
    BY <1>24, <1>b DEF LibScanDone, LibRec
  <2>5. QED
    BY <2>1, <2>2 DEF FramesKept
<1>25. CASE LibStaStop
  <2>1. UNCHANGED <<cmd, tx, lg, fin, host, out>>
    BY <1>25 DEF LibStaStop
  <2>2. lib'.air = lib.air /\ lib'.acked = lib.acked
    BY <1>25, <1>b DEF LibStaStop, LibRec
  <2>5. QED
    BY <2>1, <2>2 DEF FramesKept
<1>26. QED
  BY <1>1, <1>2, <1>3, <1>4, <1>5, <1>6, <1>7, <1>8, <1>9, <1>10, <1>11,
     <1>12, <1>13, <1>14, <1>15, <1>16, <1>17, <1>18, <1>19, <1>20, <1>21,
     <1>22, <1>23, <1>24, <1>25
  DEF MgmtSteps, Next, WifiStop, WifiStart, Scan, Auth, Session, Interface,
      Mode, Mgmt, CommandTask, EventLoop, WifiTask

\* A frame is on the air once, from the call that sends it to its callback or
\* to the stop that cancels it, and the legacy slot keeps the only frame of a
\* legacy host whose callback matters.
LEMMA AirNext ==
    ASSUME TypeOK, ControlInv, AnswerInv, AirInv, [Next]_vars
    PROVE  AirInv'
<1>a. /\ lib.air \subseteq Seqs /\ lib.acked \subseteq Seqs
      /\ host.n \in Nat /\ host.n >= 1 /\ Seqs = 1..MaxCmds /\ MaxCmds \in Nat
      /\ cmd.pc # "idle" => cmd.seq = host.n
      /\ host.style \in {"marked", "legacy"}
  <2>1. lib.air \subseteq Seqs /\ lib.acked \subseteq Seqs
    BY DEF TypeOK, LibType
  <2>2. host.n \in Seqs /\ host.style \in {"marked", "legacy"}
    BY StyleAssumption DEF TypeOK, HostType
  <2>3. QED
    BY <2>1, <2>2, SeqFacts DEF ControlInv, Seqs
<1>b. CmdIdle.pc = "idle" /\ NoLg.pending = FALSE
  BY DEF CmdIdle, NoLg
<1>0. CASE UNCHANGED vars
  BY <1>0 DEF vars, AirInv, Marked, Tracked
<1> SUFFICES ASSUME Next PROVE AirInv'
  BY <1>0
<1>1. CASE FramesKept
  BY <1>1, <1>b DEF FramesKept, AirInv, Working, MgmtPcs, Marked, Tracked
<1>2. CASE esp_cmd_dispatch
  <2>1. PICK r \in Requests, b \in Bodies :
          /\ cmd' = [CmdIdle EXCEPT !.pc = r.c, !.r = r, !.seq = host.n + 1]
          /\ host' = [host EXCEPT
               !.n = @ + 1, !.wait = TRUE,
               !.body[host.n + 1] =
                   CASE r.c # "MGMT_TX" -> "none"
                     [] r.x = "b" /\ host.style = "legacy" -> "broadcast"
                     [] OTHER -> b]
    BY ZenonT(60), <1>2 DEF esp_cmd_dispatch
  <2>2. UNCHANGED <<lib, lg>> /\ host.n < MaxCmds
    BY <1>2 DEF esp_cmd_dispatch
  <2>3. /\ r.c \in Commands /\ (r.c = "MGMT_TX" => r.x \in {"a", "b"})
        /\ cmd'.pc = r.c /\ cmd'.r = r /\ cmd'.seq = host.n + 1
    BY <2>1 DEF CmdIdle, Requests, Commands
  <2>4. /\ host'.n = host.n + 1 /\ host'.style = host.style
        /\ \A f \in Seqs : f <= host.n => host'.body[f] = host.body[f]
        /\ r.c = "MGMT_TX" /\ r.x = "b" /\ host.style = "legacy" =>
             host'.body[host.n + 1] = "broadcast"
    <3>a. host.n + 1 \in Seqs
      BY <2>2, <1>a
    <3>1. host.body \in [Seqs -> Bodies \union {"none", "broadcast"}] /\ host.n + 1 \in Seqs
      BY <3>a DEF TypeOK, HostType
    <3>2. /\ host'.n = host.n + 1 /\ host'.style = host.style
          /\ host'.body = [host.body EXCEPT ![host.n + 1] =
                  CASE r.c # "MGMT_TX" -> "none"
                    [] r.x = "b" /\ host.style = "legacy" -> "broadcast"
                    [] OTHER -> b]
      BY <2>1 DEF TypeOK, HostType
    <3>3. \A f \in Seqs : f <= host.n => host'.body[f] = host.body[f]
      BY <3>1, <3>2, <1>a
    <3>4. r.c = "MGMT_TX" /\ r.x = "b" /\ host.style = "legacy" =>
            host'.body[host.n + 1] = "broadcast"
      BY <3>1, <3>2
    <3>5. QED
      BY <3>2, <3>3, <3>4
  <2>5. lib'.air \union lib'.acked \subseteq 1..host'.n
    BY <2>2, <2>4, <1>a DEF AirInv
  <2>6. host.n + 1 \notin lib.air \union lib.acked
    BY <1>a DEF AirInv
  <2>7. \A f \in lib'.air : host'.body[f] = host.body[f]
    BY <2>2, <2>4, <1>a DEF AirInv
  <2>8. QED
    BY <2>2, <2>3, <2>4, <2>5, <2>6, <2>7, <1>a DEF AirInv, Marked, Tracked, Commands
<1>3. CASE send_command_resp \/ process_deinit_interface \/ ModeDone
           \/ TimerTask \/ hosted_mgmt_finish_owned
           \/ hosted_send_mgmt_accept \/ MgmtTimer \/ MgmtUntimed \/ hosted_mgmt_mark_accepted
           \/ MgmtStatus
  <2>1. /\ UNCHANGED <<lib, lg, host>>
        /\ \/ cmd' = cmd
           \/ \E p \in {"stop", "resp", "retire", "rollback", "mgmtTimer", "mgmtStatus",
                        "mgmtAccepted", "mgmtUntimed"} : cmd' = Goto(p) \/ cmd' = Call(p, "deinitialize")
           \/ cmd' = CmdIdle
    BY ZenonT(60), <1>3 DEF send_command_resp, process_deinit_interface, ModeDone,
         TimerTask, hosted_mgmt_timeout_cb, hosted_mgmt_finish_owned, hosted_send_mgmt_accept,
         MgmtTimer, MgmtUntimed, hosted_mgmt_mark_accepted, MgmtStatus
  <2>2. cmd' = cmd \/ cmd'.pc \notin {"MGMT_TX", "mgmtSend", "lgSend"}
    BY <2>1, <1>b DEF TypeOK, CmdType
  <2>3. QED
    BY SMTT(60), <2>1, <2>2 DEF AirInv, Marked, Tracked
<1>4. CASE StopReturns
  <2>1. /\ UNCHANGED host /\ cmd'.pc \in {"fence", "stopAck"}
        /\ UNCHANGED <<lib, lg>> \/ lib' = StoppedLib
    BY <1>4 DEF StopReturns, TypeOK, CmdType
  <2>2. \/ UNCHANGED <<lib, lg>>
        \/ lib'.air = {} /\ lib'.acked = lib.acked
    BY <2>1 DEF StoppedLib, TypeOK, LibType
  <2>3. QED
    BY <2>1, <2>2, <1>a DEF AirInv, Marked, Tracked
<1>5. CASE process_mgmt_tx
  <2>1. UNCHANGED <<lib, lg, host>> /\ Marked /\ cmd.pc = "MGMT_TX"
    BY <1>5 DEF process_mgmt_tx
  <2>2. cmd'.pc \in {"resp", "mgmtSend"} /\ cmd'.seq = cmd.seq /\ cmd'.r = cmd.r
    BY <1>5 DEF process_mgmt_tx, TypeOK, CmdType
  <2>3. QED
    BY <2>1, <2>2 DEF AirInv, Marked, Tracked
<1>6. CASE process_mgmt_tx_unmarked
  <2>1. UNCHANGED <<lib, host>> /\ ~Marked /\ cmd.pc = "MGMT_TX"
    BY <1>6 DEF process_mgmt_tx_unmarked
  <2>2. /\ cmd'.pc \in {"resp", "lgSend"} /\ cmd'.seq = cmd.seq /\ cmd'.r = cmd.r
        /\ lg' = lg \/ ~lg.pending
    BY <1>6 DEF process_mgmt_tx_unmarked, mgmt_tx_inflight_begin, TypeOK, CmdType
  <2>3. QED
    BY <2>1, <2>2 DEF AirInv, Marked, Tracked
<1>7. CASE MgmtSend
  <2>1. /\ UNCHANGED <<lg, host>> /\ cmd.pc = "mgmtSend"
        /\ lib' = lib \/ lib' = [lib EXCEPT !.air = @ \union {cmd.seq}]
    BY <1>7 DEF MgmtSend, Transmit
  <2>2. cmd'.pc \in {"resp", "mgmtAccept"}
    BY <1>7 DEF MgmtSend, TypeOK, CmdType
  <2>3. /\ lib'.air \subseteq lib.air \union {cmd.seq} /\ lib'.acked = lib.acked
    BY <2>1 DEF TypeOK, LibType
  <2>4. QED
    BY <2>1, <2>2, <2>3, <1>a DEF AirInv, Marked
<1>8. CASE UnmarkedSend
  <2>1. /\ UNCHANGED host /\ cmd.pc = "lgSend"
        /\ lib' = lib \/ lib' = [lib EXCEPT !.air = @ \union {cmd.seq}]
        /\ \/ lg' = NoLg /\ (lib' = lib \/ ~Tracked)
           \/ lg' = lg /\ Tracked
    BY <1>8 DEF UnmarkedSend, Transmit
  <2>2. cmd'.pc \in {"resp", "idle"}
    BY <1>8, <1>b DEF UnmarkedSend, TypeOK, CmdType
  <2>3. /\ lib'.acked = lib.acked
        /\ lib'.air = lib.air \/ lib'.air = lib.air \union {cmd.seq}
    BY <2>1 DEF TypeOK, LibType
  <2>4. /\ lg.pending /\ lg.seq = cmd.seq /\ cmd.seq \notin lib.air \union lib.acked
        /\ cmd.seq = host.n /\ host.style = "legacy"
    BY <2>1, <1>a DEF AnswerInv, AirInv
  <2>5. CASE lg' = NoLg /\ (lib' = lib \/ ~Tracked)
    <3>1. \A f \in lib.air : host.body[f] = "broadcast"
      BY <2>4 DEF AirInv, Marked
    <3>2. ~Tracked => host.body[cmd.seq] = "broadcast"
      BY <2>1, <2>4 DEF AirInv, Marked
    <3>3. \A f \in lib'.air : host.body[f] = "broadcast"
      BY <2>3, <2>5, <3>1, <3>2
    <3>4. QED
      BY <2>1, <2>2, <2>3, <2>4, <3>3, <1>a DEF AirInv, Marked
  <2>6. CASE lg' = lg
    BY <2>1, <2>2, <2>3, <2>4, <2>6, <1>a DEF AirInv, Marked
  <2>7. QED
    BY <2>1, <2>5, <2>6
<1>9. CASE mgmt_txcb
  <2>1. PICK f \in lib.air, ack \in BOOLEAN :
          /\ lib' = [lib EXCEPT !.air = @ \ {f},
                                !.acked = IF ack THEN @ \union {f} ELSE @]
          /\ lg' = lg \/ (lg.pending /\ host.body[f] # "broadcast")
    BY ZenonT(60), <1>9 DEF mgmt_txcb, mgmt_txcb_marked, mgmt_txcb_unmarked
  <2>2. UNCHANGED <<cmd, host>>
    BY <1>9 DEF mgmt_txcb
  <2>3. lib'.air = lib.air \ {f} /\ lib'.acked \subseteq lib.acked \union {f}
    BY <2>1 DEF TypeOK, LibType
  <2>4. ASSUME ~Marked, NEW g \in lib.air \ {f}, host.body[g] # "broadcast"
        PROVE  lg' = lg
    BY <2>1, <2>4 DEF AirInv
  <2>5. QED
    BY <2>1, <2>2, <2>3, <2>4, <1>a DEF AirInv, Marked, Tracked
<1>10. QED
  BY <1>1, <1>2, <1>3, <1>4, <1>5, <1>6, <1>7, <1>8, <1>9, FramesElsewhere
  DEF MgmtSteps

\* What command 1 left behind, by the style of the host and by what it was.
LEMMA InitFacts ==
    ASSUME Init
    PROVE  /\ cmd.pc = "idle" /\ cmd.seq = NoSeq /\ cmd.k = <<>>
           /\ host.n = 1 /\ fin = {} /\ out.lost = {} /\ out.acked = {}
           /\ lib.acked = {} /\ out.ans \in [Seqs -> Nat] /\ up
           /\ \A k \in Seqs : k # 1 => out.ans[k] = 0 /\ out.sts[k] = 0
           /\ out.sts[1] = 0
           /\ \/ /\ lib.air = {} /\ lg = NoLg /\ tx = NoTx
                 /\ out.ans[1] = 1 /\ out.acc = {}
              \/ /\ lib.air = {1} /\ lg = NoLg /\ host.style = "marked"
                 /\ tx.pending /\ tx.accepted /\ ~tx.completed /\ tx.cookie = 1
                 /\ tx.timers = {1}
                 /\ out.ans[1] = 1 /\ out.acc = {1}
              \/ /\ lib.air = {1} /\ lg = [pending |-> TRUE, seq |-> 1]
                 /\ tx = NoTx /\ host.style = "legacy"
                 /\ out.ans[1] = 0 /\ out.acc = {}
<1>0. PICK mode \in Modes, style \in Styles, mon \in BOOLEAN, left \in Left1,
           ap \in Aps, b \in Bodies :
      LET sent == left = "frame"
          deferred == sent /\ style = "legacy"
      IN  /\ sent => mode = "APSTA"
          /\ mon => left \in {"nothing", "session"}
          /\ w = StartedWifi(mode, mon)
          /\ lib = StartedLib(mode, left, ap)
          /\ s = StartedSession(left, ap)
          /\ sc = [run |-> left = "scan", drain |-> FALSE, auth |-> FALSE,
                   owner |-> IF left = "scan" THEN 1 ELSE NoSeq]
          /\ tx = IF sent /\ ~deferred
                  THEN [NoTx EXCEPT !.pending = TRUE, !.accepted = TRUE,
                                    !.timers = {1}, !.cookie = 1]
                  ELSE NoTx
          /\ lg = IF deferred THEN [pending |-> TRUE, seq |-> 1] ELSE NoLg
          /\ host = [n |-> 1, wait |-> TRUE, style |-> style,
                     body |-> [k \in Seqs |-> IF sent /\ k = 1 THEN b ELSE "none"]]
          /\ out = [ans |-> [NoReport EXCEPT ![1] = IF deferred THEN 0 ELSE 1],
                    sts |-> NoReport,
                    mlme |-> [NoReport EXCEPT ![1] = IF left = "session" THEN 1 ELSE 0],
                    disc |-> NoReport,
                    acc |-> IF sent /\ ~deferred THEN {1} ELSE {},
                    acked |-> {}, lost |-> {}, scans |-> {}]
  BY DEF Init
<1>1. /\ lib = StartedLib(mode, left, ap)
      /\ tx = IF left = "frame" /\ ~(left = "frame" /\ style = "legacy")
              THEN [NoTx EXCEPT !.pending = TRUE, !.accepted = TRUE,
                                !.timers = {1}, !.cookie = 1]
              ELSE NoTx
      /\ lg = IF left = "frame" /\ style = "legacy"
              THEN [pending |-> TRUE, seq |-> 1] ELSE NoLg
      /\ host.n = 1 /\ host.style = style
      /\ out.ans = [NoReport EXCEPT
           ![1] = IF left = "frame" /\ style = "legacy" THEN 0 ELSE 1]
      /\ out.sts = NoReport
      /\ out.acc = IF left = "frame" /\ ~(left = "frame" /\ style = "legacy")
                   THEN {1} ELSE {}
      /\ out.acked = {} /\ out.lost = {}
  BY <1>0
<1>2. cmd = CmdIdle /\ fin = {} /\ up
  BY DEF Init
<1>3. lib.acked = {} /\ lib.air = IF left = "frame" THEN {1} ELSE {}
  BY <1>1 DEF StartedLib
<1>4. /\ cmd.pc = "idle" /\ cmd.seq = NoSeq /\ cmd.k = <<>>
  BY <1>2 DEF CmdIdle
<1>5. /\ out.ans \in [Seqs -> Nat]
      /\ \A k \in Seqs : k # 1 => out.ans[k] = 0 /\ out.sts[k] = 0
      /\ out.sts[1] = 0
      /\ out.ans[1] = IF left = "frame" /\ style = "legacy" THEN 0 ELSE 1
  BY <1>1, SeqFacts DEF NoReport
<1>6. style \in {"marked", "legacy"}
  BY <1>1, StyleAssumption
<1>7. CASE left # "frame"
  BY <1>1, <1>2, <1>3, <1>4, <1>5, <1>7
<1>8. CASE left = "frame" /\ style = "legacy"
  BY <1>1, <1>2, <1>3, <1>4, <1>5, <1>8
<1>9. CASE left = "frame" /\ style = "marked"
  <2>1. tx.pending /\ tx.accepted /\ ~tx.completed /\ tx.cookie = 1 /\ tx.timers = {1}
    BY <1>1, <1>9 DEF NoTx
  <2>2. QED
    BY <1>1, <1>2, <1>3, <1>4, <1>5, <1>9, <2>1
<1>10. QED
  BY <1>6, <1>7, <1>8, <1>9

\* A command that left nothing, or a marked frame, has been answered; the
\* callback of a legacy frame still owes its answer.
LEMMA AnswerInit == Init => AnswerInv /\ AirInv
<1> SUFFICES ASSUME Init PROVE AnswerInv /\ AirInv
  OBVIOUS
<1>1. NoLg.pending = FALSE /\ NoSeq = 0 /\ 1 \in Seqs /\ Seqs \subseteq Nat
      /\ <<>> # <<"deinitialize">>
  BY SeqFacts DEF NoLg
<1>2. AnswerInv
  <2>1. AnsweredOnce
    BY <1>1, InitFacts DEF AnsweredOnce
  <2>2. \A k \in Seqs : out.ans[k] <= 1 /\ (out.ans[k] = 1 => k <= host.n)
    BY <1>1, InitFacts
  <2>3. /\ cmd.pc \in AfterAnswer => out.ans[cmd.seq] = 1
        /\ cmd.pc \notin AfterAnswer \union {"idle"} => out.ans[cmd.seq] = 0
        /\ cmd.pc = "deinitialize" \/ cmd.k = <<"deinitialize">> => cmd.seq \in out.lost
    BY <1>1, InitFacts DEF AfterAnswer
  <2>4. /\ lg.pending => /\ host.style = "legacy"
                         /\ lg.seq <= host.n /\ out.ans[lg.seq] = 0
                         /\ cmd.seq = lg.seq => cmd.pc = "lgSend"
        /\ cmd.pc = "lgSend" => lg.pending /\ lg.seq = cmd.seq
    BY <1>1, InitFacts
  <2>5. QED
    BY <2>1, <2>2, <2>3, <2>4 DEF AnswerInv
<1>3. AirInv
  BY <1>1, InitFacts DEF AirInv, Marked
<1>4. QED
  BY <1>2, <1>3

\* Every command of the host gets at most one answer from the processor, and
\* none is forgotten while it runs: the handler that returns without a
\* response has handed it to the legacy frame's slot, and whatever empties
\* the slot (the callback, the stop of the Wi-Fi) answers for it.
THEOREM AnswersUnique == Spec => []AnsweredOnce
<1>1. Init => TypeOK /\ ControlInv /\ AnswerInv /\ AirInv
  BY TypeInit, AnswerInit
<1>2. TypeOK /\ ControlInv /\ AnswerInv /\ AirInv /\ [Next]_vars
      => (TypeOK /\ ControlInv /\ AnswerInv /\ AirInv)'
  BY TypeNext, AnswerNext, AirNext
<1>3. AnswerInv => AnsweredOnce
  BY DEF AnswerInv
<1>4. QED
  BY <1>1, <1>2, <1>3, PTL DEF Spec

-----------------------------------------------------------------------------
(* The status of a management frame *)

\* A step that touches no frame keeps the ownership of every status.
LEMMA StatusSame ==
    ASSUME TypeOK, StatusInv, up, UNCHANGED <<tx, fin>>, host'.n \in Nat, host.n <= host'.n,
           out'.sts = out.sts, out'.acc = out.acc,
           \/ cmd' = cmd
           \/ Working(cmd.pc) /\ Working(cmd'.pc) /\ cmd'.seq = cmd.seq
           \/ Working(cmd.pc) /\ cmd' = CmdIdle
    PROVE  StatusInv'
<1>1. /\ tx.cookie \in Nat /\ host.n \in Nat /\ out.acc \subseteq Nat
      /\ \A f \in fin : f.k \in Nat
  <2>1. /\ tx.cookie \in 0..MaxCmds /\ host.n \in Seqs /\ out.acc \subseteq Seqs
        /\ \A f \in fin : f.k \in Seqs
    BY DEF TypeOK, FrameType, HostType
  <2>2. QED
    BY <2>1, MaxCmdsAssumption DEF Seqs
<1>2. CASE cmd' = cmd
  BY <1>1, <1>2 DEF StatusInv, Tracked, Unwatched
<1>3. CASE Working(cmd.pc) /\ Working(cmd'.pc) /\ cmd'.seq = cmd.seq
  BY <1>1, <1>3 DEF StatusInv, Unwatched, Working, MgmtPcs, AfterAnswer
<1>4. CASE Working(cmd.pc) /\ cmd' = CmdIdle
  <2>1. cmd'.pc = "idle"
    BY <1>4 DEF CmdIdle
  <2>2. QED
    BY <1>1, <1>4, <2>1 DEF StatusInv, Unwatched, Working, MgmtPcs, AfterAnswer
<1>5. QED
  BY <1>2, <1>3, <1>4

\* The status of an accepted frame has one owner at a time: the transaction,
\* the context that took it from there, or the handler of an untracked frame;
\* each hands it on or reports it, and no step leaves two.
LEMMA StatusNext ==
    ASSUME TypeOK, ControlInv, StatusInv, [Next]_vars
    PROVE  StatusInv'
<1>a. /\ out.sts \in [Seqs -> Nat] /\ out.acc \subseteq Seqs
      /\ host.n \in Nat /\ host.n >= 1 /\ host.n \in Seqs
      /\ Seqs = 1..MaxCmds /\ MaxCmds \in Nat
      /\ cmd.pc # "idle" => cmd.seq = host.n /\ cmd.seq \in Seqs
  <2>1. out.sts \in [Seqs -> Nat] /\ out.acc \subseteq Seqs /\ host.n \in Seqs
    BY DEF TypeOK, HostType
  <2>2. cmd.pc # "idle" => cmd.seq = host.n
    BY DEF ControlInv
  <2>3. Seqs = 1..MaxCmds /\ MaxCmds \in Nat
    BY SeqFacts DEF Seqs
  <2>4. QED
    BY <2>1, <2>2, <2>3
<1>b. /\ tx \in TxRec /\ (tx.pending <=> tx.cookie # NoSeq)
      /\ tx.pending => tx.cookie \in Seqs
      /\ fin \subseteq [k : Seqs, ack : BOOLEAN, by : {"wifi", "timer", "stale"}]
  <2>1. /\ tx \in TxRec /\ (tx.pending <=> tx.cookie # NoSeq)
        /\ fin \subseteq [k : Seqs, ack : BOOLEAN, by : {"wifi", "timer", "stale"}]
    BY DEF TypeOK, FrameType, TxRec
  <2>2. QED
    BY <2>1, SeqFacts DEF TxRec
<1>c. /\ CmdIdle.pc = "idle" /\ Cleared.pending = FALSE /\ Cleared.accepted = FALSE
      /\ Cleared.timers = tx.timers
  BY <1>b, ClearedFacts DEF CmdIdle
<1>0. CASE UNCHANGED vars
  BY <1>0 DEF vars, StatusInv, Tracked, Unwatched
<1> SUFFICES ASSUME Next PROVE StatusInv'
  BY <1>0
<1>e. up
  BY DEF Next
<1>d. /\ \A k \in Seqs : out.sts[k] \in Nat
      /\ cmd.pc \notin AfterAnswer \union {"idle"} => out.sts[cmd.seq] = 0
      /\ \A k \in Seqs : k \notin out.acc => out.sts[k] = 0
  BY SMTT(60), <1>a, <1>e DEF StatusInv
<1>1. CASE FramesKept
  BY <1>1, <1>a, <1>e, StatusSame DEF FramesKept
<1>2. CASE send_command_resp \/ StopReturns
  <2>1. /\ UNCHANGED <<tx, fin, host>> /\ out'.sts = out.sts /\ out'.acc = out.acc
    BY ZenonT(60), <1>2 DEF send_command_resp, StopReturns, Lost, Answered, mgmt_tx_fail_pending,
         TypeOK, HostType
  <2>2. Working(cmd.pc)
    BY <1>2 DEF send_command_resp, StopReturns, Working, Pcs, MgmtPcs, StopPcs,
         StartCallers, AfterAnswer
  <2>3. cmd' = cmd \/ cmd' = CmdIdle \/ (Working(cmd'.pc) /\ cmd'.seq = cmd.seq)
    BY <2>2, ControlNext DEF Moves
  <2>4. QED
    BY <2>1, <2>2, <2>3, <1>a, <1>e, StatusSame
<1>3. CASE esp_cmd_dispatch
  <2>1. /\ UNCHANGED <<tx, fin, out>> /\ host.n < MaxCmds /\ cmd.pc = "idle"
        /\ host'.n = host.n + 1 /\ cmd'.seq = host.n + 1 /\ cmd'.pc \in Commands
    <3>1. PICK r \in Requests :
            cmd' = [CmdIdle EXCEPT !.pc = r.c, !.r = r, !.seq = host.n + 1]
      BY ZenonT(60), <1>3 DEF esp_cmd_dispatch
    <3>2. cmd'.seq = host.n + 1 /\ cmd'.pc \in Commands
      BY <3>1, RequestFacts DEF CmdIdle
    <3>3. QED
      BY <1>3, <3>2 DEF esp_cmd_dispatch, TypeOK, HostType
  <2>2. cmd'.pc \notin AfterAnswer \union {"idle", "mgmtSend", "mgmtAccept"}
    BY <2>1 DEF Commands, AfterAnswer
  <2>3. tx.pending => tx.cookie \in out.acc
    BY <2>1 DEF StatusInv
  <2>4. out.acc \subseteq 1..(host.n + 1) /\ host.n + 1 \notin out.acc
        /\ (tx.pending => tx.cookie <= host.n + 1)
        /\ \A f \in fin : f.k <= host.n + 1 /\ f.k # host.n + 1
    BY <1>a, <1>b DEF StatusInv
  <2>5. QED
    BY <2>1, <2>2, <2>3, <2>4, <1>a, <1>b, <1>e DEF StatusInv, Unwatched, AfterAnswer
<1>4. CASE process_deinit_interface \/ ModeDone
  <2>1. /\ UNCHANGED <<fin, host>>
        /\ \/ UNCHANGED <<tx, out>>
           \/ tx' = Cleared /\ out' = out
           \/ /\ tx.pending /\ tx' = Cleared
              /\ out' = [out EXCEPT !.sts[tx.cookie] = @ + 1]
    <3>1. hosted_mgmt_fail_pending =>
           \/ tx' = Cleared /\ out' = out
           \/ /\ tx.pending /\ tx' = Cleared
              /\ out' = [out EXCEPT !.sts[tx.cookie] = @ + 1, !.acked = @]
      BY DEF hosted_mgmt_fail_pending, Report
    <3>2. [out EXCEPT !.sts[tx.cookie] = @ + 1, !.acked = @]
            = [out EXCEPT !.sts[tx.cookie] = @ + 1]
      BY DEF TypeOK, HostType
    <3>3. QED
      BY <1>4, <3>1, <3>2 DEF process_deinit_interface, ModeDone
  <2>2. Working(cmd.pc) /\ Working(cmd'.pc) /\ cmd'.seq = cmd.seq
    BY <1>4, ControlNext DEF process_deinit_interface, ModeDone, Working, Pcs, Commands,
         MgmtPcs, StopPcs, StartPcs, StopCallers, StartCallers, AfterAnswer, TypeOK, CmdType
  <2>3. cmd.pc \notin MgmtPcs \union {"idle"} /\ cmd'.pc \notin MgmtPcs \union {"idle"}
    BY <2>2 DEF Working
  <2>4. CASE UNCHANGED <<tx, out>>
    BY <2>1, <2>2, <2>4, <1>a, <1>e, StatusSame
  <2>5. CASE tx' = Cleared /\ out' = out
    BY <2>1, <2>2, <2>3, <2>5, <1>a, <1>c, <1>e DEF StatusInv, Unwatched, MgmtPcs, AfterAnswer
  <2>6. CASE tx.pending /\ tx' = Cleared /\ out' = [out EXCEPT !.sts[tx.cookie] = @ + 1]
    <3>1. tx.cookie \in out.acc /\ out.sts[tx.cookie] = 0 /\ \A f \in fin : f.k # tx.cookie
      BY <2>3, <2>6 DEF StatusInv, MgmtPcs, AfterAnswer
    <3>2. out'.sts = [out.sts EXCEPT ![tx.cookie] = 1] /\ out'.acc = out.acc
      BY <2>6, <3>1, <1>a, <1>b DEF TypeOK, HostType
    <3>3. QED
      BY <2>1, <2>2, <2>3, <2>6, <3>1, <3>2, <1>a, <1>b, <1>c, <1>e DEF StatusInv, Unwatched, MgmtPcs, AfterAnswer
  <2>7. QED
    BY <2>1, <2>4, <2>5, <2>6
<1>5. CASE process_mgmt_tx
  <2>1. UNCHANGED <<fin, host, out>> /\ cmd.pc = "MGMT_TX"
    BY <1>5 DEF process_mgmt_tx
  <2>2. /\ cmd'.seq = cmd.seq /\ (Tracked' <=> Tracked)
        /\ \/ cmd'.pc = "resp" /\ tx' = tx
           \/ cmd'.pc = "mgmtSend" /\ ~tx.pending /\ Tracked
                /\ tx' = [Cleared EXCEPT !.pending = TRUE, !.cookie = cmd.seq]
           \/ cmd'.pc = "mgmtSend" /\ ~tx.pending /\ ~Tracked /\ tx' = tx
    BY <1>5 DEF process_mgmt_tx, hosted_mgmt_begin, Tracked, TypeOK, CmdType
  <2>3. CASE cmd'.pc = "resp" /\ tx' = tx
    BY <2>1, <2>2, <2>3, <1>a, <1>e DEF StatusInv, Unwatched, AfterAnswer
  <2>4. CASE cmd'.pc = "mgmtSend" /\ ~tx.pending /\ ~Tracked /\ tx' = tx
    BY <2>1, <2>2, <2>4, <1>a, <1>e, <1>b DEF StatusInv, Unwatched, AfterAnswer
  <2>5. CASE cmd'.pc = "mgmtSend" /\ ~tx.pending /\ Tracked
             /\ tx' = [Cleared EXCEPT !.pending = TRUE, !.cookie = cmd.seq]
    <3>1. tx'.pending /\ tx'.cookie = cmd.seq /\ ~tx'.accepted
          /\ tx'.timers = tx.timers
      BY <2>5, <1>b, ClearedFacts DEF TxRec
    <3>2. cmd.seq = host.n /\ cmd.seq \notin out.acc /\ out.sts[cmd.seq] = 0
          /\ \A f \in fin : f.k # cmd.seq
      BY <2>1, <1>a, <1>d DEF StatusInv, Unwatched, AfterAnswer
    <3>3. QED
      BY <2>1, <2>2, <2>5, <3>1, <3>2, <1>a, <1>e DEF StatusInv, Unwatched, AfterAnswer
  <2>6. QED
    BY <2>2, <2>3, <2>4, <2>5
<1>6. CASE MgmtSend
  <2>1. UNCHANGED <<fin, host, out>> /\ cmd.pc = "mgmtSend"
    BY <1>6 DEF MgmtSend
  <2>2. /\ cmd'.seq = cmd.seq /\ (Tracked' <=> Tracked)
        /\ \/ cmd'.pc = "resp" /\ tx' = Cleared
           \/ cmd'.pc = "resp" /\ tx' = tx /\ ~Tracked
           \/ cmd'.pc = "mgmtAccept" /\ tx' = tx
    BY <1>6 DEF MgmtSend, hosted_mgmt_abort_pending, Tracked, TypeOK, CmdType
  <2>3. CASE cmd'.pc = "resp" /\ tx' = Cleared
    BY <2>1, <2>2, <2>3, <1>a, <1>e, <1>c DEF StatusInv, Unwatched, AfterAnswer
  <2>4. CASE cmd'.pc = "resp" /\ tx' = tx /\ ~Tracked
    BY <2>1, <2>2, <2>4, <1>a, <1>e DEF StatusInv, Unwatched, AfterAnswer
  <2>5. CASE cmd'.pc = "mgmtAccept" /\ tx' = tx
    BY <2>1, <2>2, <2>5, <1>a, <1>e DEF StatusInv, Unwatched, AfterAnswer
  <2>6. QED
    BY <2>2, <2>3, <2>4, <2>5
<1>7. CASE hosted_send_mgmt_accept
  <2>1. UNCHANGED <<fin, host>> /\ cmd.pc = "mgmtAccept" /\ cmd.seq = host.n
        /\ cmd.seq \notin out.acc /\ out.sts[cmd.seq] = 0
    BY <1>7, <1>a, <1>d DEF hosted_send_mgmt_accept, StatusInv, AfterAnswer
  <2>2. CASE cmd' = CmdIdle /\ out' = Lost /\ (tx' = Cleared \/ (tx' = tx /\ ~Tracked))
    <3>1. out'.sts = out.sts /\ out'.acc = out.acc
      BY <2>2 DEF Lost, TypeOK, HostType
    <3>2. QED
      BY <2>1, <2>2, <3>1, <1>a, <1>e, <1>c DEF StatusInv, Unwatched, AfterAnswer
  <2>3. ASSUME NEW p \in {"mgmtTimer", "mgmtStatus"}, cmd' = Goto(p), tx' = tx,
               p = "mgmtTimer" <=> Tracked,
               out' = [Answered EXCEPT !.acc = @ \union {cmd.seq}]
        PROVE  StatusInv'
    <3>1. out'.sts = out.sts /\ out'.acc = out.acc \union {cmd.seq}
      BY <2>3 DEF Answered, TypeOK, HostType
    <3>2. cmd'.pc = p /\ cmd'.seq = cmd.seq /\ (Tracked' <=> Tracked)
      BY <2>3 DEF TypeOK, CmdType, Tracked
    <3>3. p = "mgmtStatus" => \A f \in fin : f.k # cmd.seq
      BY <2>1, <2>3 DEF StatusInv, Unwatched
    <3>4. tx.pending => tx.cookie \in out'.acc
      BY <2>1, <3>1 DEF StatusInv, Unwatched
    <3>5. QED
      BY <2>1, <2>3, <3>1, <3>2, <3>3, <3>4, <1>a, <1>e, <1>b DEF StatusInv, Unwatched, AfterAnswer
  <2>4. QED
    BY <1>7, <2>2, <2>3 DEF hosted_send_mgmt_accept, hosted_mgmt_abort_pending
<1>8. CASE MgmtTimer
  <2>1. UNCHANGED <<fin, host, out>> /\ cmd.pc = "mgmtTimer" /\ cmd.seq \in out.acc
        /\ (tx.pending => tx.cookie \in out.acc)
    BY <1>8 DEF MgmtTimer, StatusInv, AfterAnswer
  <2>2. cmd'.pc \in {"mgmtAccepted", "mgmtUntimed"} /\ cmd'.seq = cmd.seq
    BY <1>8 DEF MgmtTimer, TypeOK, CmdType
  <2>3. /\ tx'.pending = tx.pending /\ tx'.accepted = tx.accepted
        /\ tx'.cookie = tx.cookie /\ tx'.timers \subseteq tx.timers \union {cmd.seq}
    BY <1>8, <1>b DEF MgmtTimer, TxRec
  <2>4. QED
    BY <2>1, <2>2, <2>3, <1>a, <1>e DEF StatusInv, Unwatched, AfterAnswer
<1>8a. CASE MgmtUntimed
  <2>1. UNCHANGED <<fin, host>> /\ cmd.pc = "mgmtUntimed" /\ cmd' = CmdIdle
        /\ (tx.pending => tx.cookie \in out.acc)
    BY <1>8a DEF MgmtUntimed, StatusInv
  <2>2. CASE UNCHANGED <<tx, out>>
    BY <2>1, <2>2, <1>a, <1>c, <1>e DEF StatusInv, Unwatched, AfterAnswer
  <2>3. CASE tx.pending /\ tx' = Cleared /\ out' = out
    BY <2>1, <2>3, <1>a, <1>c, <1>e DEF StatusInv, Unwatched, AfterAnswer
  <2>4. CASE /\ tx.pending /\ tx' = Cleared
             /\ out' = [out EXCEPT !.sts[tx.cookie] = @ + 1, !.acked = @]
    <3>1. /\ out.sts[tx.cookie] = 0 /\ \A f \in fin : f.k # tx.cookie
      BY <2>4 DEF StatusInv
    <3>2. out'.sts = [out.sts EXCEPT ![tx.cookie] = 1] /\ out'.acc = out.acc
      BY <2>4, <3>1, <1>a, <1>b DEF TypeOK, HostType
    <3>3. QED
      BY <2>1, <2>4, <3>1, <3>2, <1>a, <1>b, <1>c, <1>e
      DEF StatusInv, Unwatched, AfterAnswer
  <2>5. QED
    BY <1>8a, <2>2, <2>3, <2>4 DEF MgmtUntimed, Report
<1>9. CASE hosted_mgmt_mark_accepted
  <2>1. UNCHANGED <<fin, host>> /\ cmd.pc = "mgmtAccepted" /\ cmd' = CmdIdle
        /\ cmd.seq \in out.acc /\ (tx.pending => tx.cookie \in out.acc)
    BY <1>9 DEF hosted_mgmt_mark_accepted, StatusInv, AfterAnswer
  <2>2. CASE UNCHANGED <<tx, out>>
    BY <2>1, <2>2, <1>a, <1>c, <1>e DEF StatusInv, Unwatched, AfterAnswer
  <2>3. CASE OwnPending /\ tx' = [tx EXCEPT !.accepted = TRUE] /\ out' = out
    <3>1. tx'.pending /\ tx'.cookie = tx.cookie /\ tx'.timers = tx.timers
      BY <2>3, <1>b DEF OwnPending, TxRec
    <3>2. QED
      BY <2>1, <2>3, <3>1, <1>a, <1>c, <1>e DEF StatusInv, Unwatched, AfterAnswer, OwnPending
  <2>4. CASE OwnPending /\ tx' = Cleared /\ out' = out
    BY <2>1, <2>4, <1>a, <1>c, <1>e DEF StatusInv, Unwatched, AfterAnswer
  <2>5. CASE OwnPending /\ tx' = Cleared
             /\ out' = [out EXCEPT !.sts[cmd.seq] = @ + 1,
                                   !.acked = IF tx.ack THEN @ \union {cmd.seq} ELSE @]
    <3>1. /\ out.sts[tx.cookie] = 0 /\ \A f \in fin : f.k # tx.cookie
      BY <2>5 DEF OwnPending, StatusInv
    <3>2. out'.sts = [out.sts EXCEPT ![tx.cookie] = 1] /\ out'.acc = out.acc
      BY <2>5, <3>1, <1>a, <1>b DEF OwnPending, TypeOK, HostType
    <3>3. QED
      BY <2>1, <2>5, <3>1, <3>2, <1>a, <1>b, <1>c, <1>e DEF StatusInv, Unwatched, AfterAnswer, OwnPending
  <2>6. QED
    BY <1>9, <2>2, <2>3, <2>4, <2>5 DEF hosted_mgmt_mark_accepted, Report
<1>10. CASE MgmtStatus
  <2>1. UNCHANGED <<tx, fin, host>> /\ cmd.pc = "mgmtStatus" /\ cmd' = CmdIdle
        /\ cmd.seq \in out.acc /\ ~tx.pending /\ out.sts[cmd.seq] = 0
        /\ \A f \in fin : f.k # cmd.seq
    BY <1>10 DEF MgmtStatus, StatusInv, Unwatched, AfterAnswer
  <2>2. CASE out' = out
    BY <2>1, <2>2, <1>a, <1>c, <1>e DEF StatusInv, Unwatched, AfterAnswer
  <2>3. CASE out' = [out EXCEPT !.sts[cmd.seq] = @ + 1]
    <3>1. out'.sts = [out.sts EXCEPT ![cmd.seq] = 1] /\ out'.acc = out.acc
      BY <2>1, <2>3, <1>a DEF TypeOK, HostType
    <3>2. QED
      BY <2>1, <2>3, <3>1, <1>a, <1>b, <1>c, <1>e DEF StatusInv, Unwatched, AfterAnswer
  <2>4. QED
    BY <1>10, <2>2, <2>3 DEF MgmtStatus
<1>11. CASE process_mgmt_tx_unmarked \/ UnmarkedSend
  <2>1. UNCHANGED <<tx, fin, host, out>> /\ cmd.pc \in {"MGMT_TX", "lgSend"}
    BY <1>11 DEF process_mgmt_tx_unmarked, UnmarkedSend
  <2>2. cmd'.pc = "idle" \/ (cmd'.pc \in {"resp", "lgSend"} /\ cmd'.seq = cmd.seq)
    BY <1>11, <1>c DEF process_mgmt_tx_unmarked, mgmt_tx_inflight_begin, UnmarkedSend,
         TypeOK, CmdType
  <2>3. QED
    BY <2>1, <2>2, <1>a, <1>e DEF StatusInv, Unwatched, AfterAnswer
<1>12. CASE TimerTask
  <2>1. PICK t \in tx.timers : hosted_mgmt_take_timeout(t) /\ UNCHANGED <<cmd, host, out, up>>
    BY <1>12 DEF TimerTask, hosted_mgmt_timeout_cb
  <2>2. CASE ~tx.pending
    <3>1. /\ UNCHANGED fin /\ tx'.pending = tx.pending /\ tx'.accepted = tx.accepted
          /\ tx'.cookie = tx.cookie /\ tx'.timers \subseteq tx.timers
      BY <2>1, <2>2, <1>b DEF hosted_mgmt_take_timeout, TxRec
    <3>2. QED
      BY <2>1, <3>1 DEF StatusInv, Tracked, Unwatched
  <2>3. CASE tx.pending
    <3>1. ~tx'.pending /\ ~tx'.accepted /\ tx'.timers \subseteq tx.timers
      BY <2>1, <2>3, <1>b DEF hosted_mgmt_take_timeout, NoTx, TxRec
    <3>2. PICK e : /\ fin' = fin \union {e} /\ e.k = tx.cookie
                   /\ e.by = "timer" => t = tx.cookie
                   /\ e.by \in {"timer", "stale"}
      <4>1. DEFINE taken == [k |-> tx.cookie, ack |-> FALSE,
                             by |-> IF t = tx.cookie THEN "timer" ELSE "stale"]
      <4>2. fin' = fin \union {taken}
        BY <2>1, <2>3 DEF hosted_mgmt_take_timeout
      <4>3. /\ taken.k = tx.cookie /\ taken.by \in {"timer", "stale"}
            /\ taken.by = "timer" => t = tx.cookie
        OBVIOUS
      <4>4. QED
        BY <4>2, <4>3
    <3>3. /\ out.sts[tx.cookie] = 0 /\ \A f \in fin : f.k # tx.cookie
          /\ tx.cookie <= host.n
          /\ e.by = "timer" => tx.cookie \in out.acc
      BY <2>3, <3>2 DEF StatusInv
    <3>4. Unwatched => tx.cookie # cmd.seq
      BY <2>3, <1>d DEF StatusInv, Unwatched, AfterAnswer
    <3>5. \A f \in fin' : /\ out'.sts[f.k] = 0
                          /\ f.k <= host'.n
                          /\ (f.k \in out'.acc \/ f.by = "stale")
      BY <2>1, <3>2, <3>3 DEF StatusInv
    <3>6. \A f, g \in fin' : f.k = g.k => f = g
      BY <3>2, <3>3 DEF StatusInv
    <3>7. Unwatched' => \A f \in fin' : f.k # cmd'.seq
      BY <2>1, <3>2, <3>4 DEF StatusInv, Unwatched, Tracked
    <3>8. QED
      BY <2>1, <3>1, <3>5, <3>6, <3>7, <1>e DEF StatusInv, Tracked
  <2>4. QED
    BY <2>2, <2>3
<1>13. CASE hosted_mgmt_finish_owned
  <2>1. PICK f \in fin, bad \in BOOLEAN :
          /\ fin' = fin \ {f}
          /\ up' = ~(bad \/ f.by # "wifi")
          /\ out' = IF bad THEN out
                    ELSE [out EXCEPT !.sts[f.k] = @ + 1,
                                     !.acked = IF f.ack THEN @ \union {f.k} ELSE @]
    BY ZenonT(60), <1>13 DEF hosted_mgmt_finish_owned
  <2>2. UNCHANGED <<cmd, tx, host>> /\ f.k \in Seqs /\ out.sts[f.k] = 0
        /\ (tx.pending => f.k # tx.cookie)
        /\ (f.k \in out.acc \/ ~up')
    BY <1>13, <2>1, <1>b DEF hosted_mgmt_finish_owned, StatusInv
  <2>3. CASE bad
    BY <2>1, <2>2, <2>3 DEF StatusInv, Tracked, Unwatched
  <2>4. CASE ~bad
    <3>1. out'.sts = [out.sts EXCEPT ![f.k] = 1] /\ out'.acc = out.acc
      BY <2>1, <2>2, <2>4, <1>a DEF TypeOK, HostType
    <3>2. \A g \in fin' : g \in fin /\ g.k # f.k
      BY <2>1 DEF StatusInv
    <3>3. cmd.pc = "mgmtStatus" => f.k # cmd.seq
      BY <2>1 DEF StatusInv, Unwatched
    <3>4. QED
      BY SMTT(60), <2>1, <2>2, <3>1, <3>2, <3>3, <1>a, <1>b, <1>e
      DEF StatusInv, Tracked, Unwatched
  <2>5. QED
    BY <2>3, <2>4
<1>14. CASE mgmt_txcb
  <2>1. PICK f \in lib.air, prot \in BOOLEAN, ack \in BOOLEAN :
            CASE ~w.cb -> UNCHANGED <<tx, lg, fin, out, faults>>
              [] w.cb /\ tx.draining ->
                   /\ tx' = [tx EXCEPT !.draining = FALSE]
                   /\ UNCHANGED <<lg, fin, out, faults>>
              [] w.cb /\ ~tx.draining /\ tx.pending -> mgmt_txcb_marked(f, prot, ack)
              [] OTHER -> mgmt_txcb_unmarked(f)
    BY <1>14 DEF mgmt_txcb
  <2>2. UNCHANGED <<cmd, host, up>>
    BY <1>14 DEF mgmt_txcb
  <2>3. CASE UNCHANGED <<tx, fin>> /\ out'.sts = out.sts /\ out'.acc = out.acc
    BY <2>2, <2>3, <1>a, <1>e, StatusSame
  <2>4. CASE UNCHANGED <<fin, out>>
             /\ \/ tx' = [tx EXCEPT !.draining = FALSE]
                \/ tx' = [tx EXCEPT !.completed = TRUE, !.ack = ack]
    <3>1. /\ tx'.pending = tx.pending /\ tx'.accepted = tx.accepted
          /\ tx'.timers = tx.timers /\ tx'.cookie = tx.cookie
      BY <2>4, <1>b DEF TxRec
    <3>2. QED
      BY <2>2, <2>4, <3>1 DEF StatusInv, Tracked, Unwatched
  <2>5. CASE /\ tx.pending /\ tx.accepted /\ tx' = Cleared /\ out' = out
             /\ fin' = fin \union {[k |-> tx.cookie, ack |-> ack, by |-> "wifi"]}
    <3>1. /\ tx.cookie \in out.acc /\ out.sts[tx.cookie] = 0
          /\ tx.cookie <= host.n /\ \A g \in fin : g.k # tx.cookie
      BY <2>5 DEF StatusInv
    <3>2. Unwatched => tx.cookie # cmd.seq
      BY <2>5, <3>1 DEF StatusInv, Unwatched, AfterAnswer
    <3>3. DEFINE taken == [k |-> tx.cookie, ack |-> ack, by |-> "wifi"]
    <3>4. taken.k = tx.cookie /\ fin' = fin \union {taken}
      BY <2>5
    <3> HIDE DEF taken
    <3>5. \A g \in fin' : /\ out'.sts[g.k] = 0
                          /\ g.k <= host'.n
                          /\ (g.k \in out'.acc \/ g.by = "stale")
      BY <2>2, <2>5, <3>1, <3>4 DEF StatusInv
    <3>6. \A g, h \in fin' : g.k = h.k => g = h
      BY <3>1, <3>4 DEF StatusInv
    <3>7. Unwatched' => \A g \in fin' : g.k # cmd'.seq
      BY <2>2, <3>2, <3>4 DEF StatusInv, Unwatched, Tracked
    <3>8. QED
      BY <2>2, <2>5, <3>5, <3>6, <3>7, <1>c, <1>e DEF StatusInv, Tracked
  <2>6. mgmt_txcb_unmarked(f) =>
          UNCHANGED <<tx, fin>> /\ out'.sts = out.sts /\ out'.acc = out.acc
    BY DEF mgmt_txcb_unmarked, TypeOK, HostType
  <2>7. QED
    BY <2>1, <2>3, <2>4, <2>5, <2>6 DEF mgmt_txcb_marked
<1>15. QED
  BY <1>1, <1>2, <1>3, <1>4, <1>5, <1>6, <1>7, <1>8, <1>8a, <1>9, <1>10, <1>11,
     <1>12, <1>13, <1>14, FramesElsewhere
  DEF MgmtSteps

OfBody(S, g, b) == {k \in S : Alike(g[k], b)}

\* Frames that look alike look like the same frames.
LEMMA AlikeClass ==
    ASSUME NEW a, NEW c, NEW b, Alike(a, c)
    PROVE  Alike(a, b) <=> Alike(c, b)
  BY DEF Alike, SameHeader

\* A smaller set of frames has no more frames of a body.
LEMMA FewerAcks ==
    ASSUME NEW X \in SUBSET Seqs, NEW A \in SUBSET X, NEW g, NEW b
    PROVE  /\ IsFiniteSet(OfBody(A, g, b)) /\ Cardinality(OfBody(A, g, b)) \in Nat
           /\ IsFiniteSet(OfBody(X, g, b)) /\ Cardinality(OfBody(X, g, b)) \in Nat
           /\ Cardinality(OfBody(A, g, b)) <= Cardinality(OfBody(X, g, b))
<1>1. IsFiniteSet(Seqs)
  BY FS_Interval, MaxCmdsAssumption DEF Seqs
<1>2. OfBody(X, g, b) \in SUBSET Seqs /\ OfBody(A, g, b) \in SUBSET OfBody(X, g, b)
  BY DEF OfBody
<1>3. IsFiniteSet(OfBody(X, g, b))
  BY <1>1, <1>2, FS_Subset
<1>4. QED
  BY <1>2, <1>3, FS_Subset, FS_CardinalityType

\* One frame more on either side keeps the balance if both look alike.
LEMMA OneMoreAck ==
    ASSUME NEW A \in SUBSET Seqs, NEW B \in SUBSET Seqs, NEW L \in SUBSET Seqs,
           NEW c \in Seqs, NEW f \in Seqs, NEW g, NEW b,
           B \subseteq A \union {c}, f \notin L, Alike(g[f], g[c]),
           Cardinality(OfBody(A, g, b)) <= Cardinality(OfBody(L, g, b))
    PROVE  Cardinality(OfBody(B, g, b)) <= Cardinality(OfBody(L \union {f}, g, b))
<1>1. /\ B \in SUBSET (A \union {c}) /\ A \union {c} \in SUBSET Seqs
      /\ L \union {f} \in SUBSET Seqs /\ A \in SUBSET A /\ L \in SUBSET L
      /\ L \union {f} \in SUBSET (L \union {f})
  OBVIOUS
<1>2. /\ Cardinality(OfBody(B, g, b)) \in Nat
      /\ Cardinality(OfBody(A \union {c}, g, b)) \in Nat
      /\ Cardinality(OfBody(B, g, b)) <= Cardinality(OfBody(A \union {c}, g, b))
  BY <1>1, FewerAcks
<1>3. IsFiniteSet(OfBody(A, g, b)) /\ Cardinality(OfBody(A, g, b)) \in Nat
  BY <1>1, FewerAcks
<1>4. IsFiniteSet(OfBody(L, g, b)) /\ Cardinality(OfBody(L, g, b)) \in Nat
  BY <1>1, FewerAcks
<1>a. Alike(g[f], b) <=> Alike(g[c], b)
  BY AlikeClass
<1>5. CASE Alike(g[f], b)
  <2>1. OfBody(L \union {f}, g, b) = OfBody(L, g, b) \union {f} /\ f \notin OfBody(L, g, b)
    BY <1>5 DEF OfBody
  <2>2. OfBody(A \union {c}, g, b) = OfBody(A, g, b) \union {c}
    BY <1>a, <1>5 DEF OfBody
  <2>3. Cardinality(OfBody(L, g, b) \union {f}) = Cardinality(OfBody(L, g, b)) + 1
    BY <1>4, <2>1, FS_AddElement
  <2>4. \/ Cardinality(OfBody(A \union {c}, g, b)) = Cardinality(OfBody(A, g, b))
        \/ Cardinality(OfBody(A \union {c}, g, b)) = Cardinality(OfBody(A, g, b)) + 1
    BY <1>3, <2>2, FS_AddElement
  <2>5. Cardinality(OfBody(L \union {f}, g, b)) = Cardinality(OfBody(L, g, b)) + 1
    BY <2>1, <2>3
  <2>6. Cardinality(OfBody(A \union {c}, g, b)) <= Cardinality(OfBody(A, g, b)) + 1
    BY <1>2, <1>3, <2>4
  <2>7. QED
    BY <1>2, <1>3, <1>4, <2>5, <2>6
<1>6. CASE ~Alike(g[f], b)
  <2>1. OfBody(L \union {f}, g, b) = OfBody(L, g, b)
        /\ OfBody(A \union {c}, g, b) = OfBody(A, g, b)
    BY <1>a, <1>6 DEF OfBody
  <2>2. QED
    BY <1>2, <1>3, <1>4, <2>1
<1>7. QED
  BY <1>5, <1>6

\* What a step may add to the acknowledgements that are reported or owed: the
\* frame of the transaction, when the callback of a frame that looks alike
\* brings one.
LEMMA AcksMove ==
    ASSUME TypeOK, ControlInv, StatusInv, Next
    PROVE  \/ AcksOwed' \subseteq AcksOwed /\ lib.acked \subseteq lib'.acked
           \/ \E f \in lib.air :
                /\ tx.pending /\ Alike(host.body[f], host.body[tx.cookie])
                /\ AcksOwed' \subseteq AcksOwed \union {tx.cookie}
                /\ lib'.acked = lib.acked \union {f}
<1>b. tx \in TxRec /\ out \in OutRec /\ lib \in LibRec
  BY SMTT(60) DEF TypeOK, FrameType, TxRec, HostType, OutRec, LibType, LibRec
<1>c. Cleared.pending = FALSE
  BY <1>b, ClearedFacts
<1>d. ASSUME out'.acked = out.acked, fin' = fin,
             tx' = tx \/ ~tx'.pending \/ ~tx'.completed
      PROVE  AcksOwed' \subseteq AcksOwed
  BY <1>d DEF AcksOwed
<1>1. CASE FramesKept
  BY <1>1, <1>d DEF FramesKept
<1>2. CASE esp_cmd_dispatch \/ process_mgmt_tx_unmarked
  BY ZenonT(60), <1>2, <1>d DEF esp_cmd_dispatch, process_mgmt_tx_unmarked
<1>3. CASE send_command_resp \/ StopReturns
  <2>1. UNCHANGED <<tx, fin>> /\ out'.acked = out.acked
    BY <1>3, <1>b DEF send_command_resp, StopReturns, Lost, Answered, mgmt_tx_fail_pending,
         OutRec
  <2>2. lib'.acked = lib.acked
    BY <1>3, <1>b DEF send_command_resp, StopReturns, StoppedLib, LibRec
  <2>3. QED
    BY <2>1, <2>2, <1>d
<1>4. CASE process_deinit_interface \/ ModeDone
  <2>1. UNCHANGED <<fin, lib>> /\ (tx' = tx \/ tx' = Cleared) /\ out'.acked = out.acked
    BY <1>4, <1>b DEF process_deinit_interface, ModeDone, hosted_mgmt_fail_pending, Report,
         OutRec
  <2>2. QED
    BY <2>1, <1>c, <1>d
<1>5. CASE process_mgmt_tx \/ MgmtSend \/ UnmarkedSend
  <2>1. /\ UNCHANGED <<fin, out>>
        /\ \/ tx' = tx
           \/ tx' = Cleared
           \/ tx' = [Cleared EXCEPT !.pending = TRUE, !.cookie = cmd.seq]
    BY <1>5 DEF process_mgmt_tx, MgmtSend, UnmarkedSend, hosted_mgmt_begin,
         hosted_mgmt_abort_pending
  <2>2. tx' = tx \/ ~tx'.pending \/ ~tx'.completed
    <3>1. [Cleared EXCEPT !.pending = TRUE, !.cookie = cmd.seq].completed = FALSE
      BY DEF Cleared, NoTx
    <3>2. QED
      BY <2>1, <3>1, <1>c
  <2>3. lib'.acked = lib.acked
    BY <1>5, <1>b DEF process_mgmt_tx, MgmtSend, UnmarkedSend, Transmit, LibRec
  <2>4. QED
    BY <2>1, <2>2, <2>3, <1>d
<1>6. CASE hosted_send_mgmt_accept \/ MgmtStatus
  <2>1. UNCHANGED <<fin, lib>> /\ (tx' = tx \/ tx' = Cleared) /\ out'.acked = out.acked
    BY <1>6, <1>b DEF hosted_send_mgmt_accept, MgmtStatus, hosted_mgmt_abort_pending, Lost,
         Answered, OutRec
  <2>2. QED
    BY <2>1, <1>c, <1>d
<1>7. CASE MgmtTimer
  <2>1. /\ UNCHANGED <<fin, lib, out>>
        /\ tx' = tx \/ tx' = [tx EXCEPT !.timers = @ \union {cmd.seq}]
    BY <1>7 DEF MgmtTimer
  <2>2. /\ tx'.pending = tx.pending /\ tx'.completed = tx.completed
        /\ tx'.ack = tx.ack /\ tx'.cookie = tx.cookie
    BY <2>1, <1>b DEF TxRec
  <2>3. QED
    BY <2>1, <2>2 DEF AcksOwed
<1>7a. CASE MgmtUntimed
  <2>1. UNCHANGED <<fin, lib>> /\ (tx' = tx \/ tx' = Cleared) /\ out'.acked = out.acked
    BY <1>7a, <1>b DEF MgmtUntimed, Report, OutRec
  <2>2. QED
    BY <2>1, <1>c, <1>d
<1>8. CASE hosted_mgmt_mark_accepted
  <2>1. UNCHANGED <<fin, lib>>
    BY <1>8 DEF hosted_mgmt_mark_accepted
  <2>2. CASE UNCHANGED <<tx, out>>
    BY <2>1, <2>2, <1>d
  <2>3. CASE ~tx.completed /\ tx' = [tx EXCEPT !.accepted = TRUE] /\ out' = out
    <3>1. ~tx'.completed
      BY <2>3, <1>b DEF TxRec
    <3>2. QED
      BY <2>1, <2>3, <3>1, <1>d
  <2>4. CASE tx' = Cleared /\ out' = out
    BY <2>1, <2>4, <1>c, <1>d
  <2>5. CASE /\ OwnPending /\ tx.completed /\ tx' = Cleared
             /\ out' = [out EXCEPT !.sts[cmd.seq] = @ + 1,
                                   !.acked = IF tx.ack THEN @ \union {cmd.seq} ELSE @]
    <3>1. out'.acked = IF tx.ack THEN out.acked \union {tx.cookie} ELSE out.acked
      BY <2>5, <1>b DEF OwnPending, OutRec
    <3>2. ~tx'.pending
      BY <2>5, <1>c
    <3>3. QED
      BY <2>1, <2>5, <3>1, <3>2 DEF AcksOwed, OwnPending
  <2>6. QED
    BY <1>8, <2>2, <2>3, <2>4, <2>5 DEF hosted_mgmt_mark_accepted, Report
<1>9. CASE TimerTask
  <2>1. PICK t \in tx.timers : hosted_mgmt_take_timeout(t)
    BY <1>9 DEF TimerTask, hosted_mgmt_timeout_cb
  <2>2. UNCHANGED <<lib, out>>
    BY <1>9 DEF TimerTask, hosted_mgmt_timeout_cb
  <2>3. CASE tx.pending
    <3>1. fin' = fin \union {[k |-> tx.cookie, ack |-> FALSE,
                              by |-> IF t = tx.cookie THEN "timer" ELSE "stale"]}
      BY <2>1, <2>3 DEF hosted_mgmt_take_timeout
    <3>2. ~tx'.pending
      BY <2>1, <2>3 DEF hosted_mgmt_take_timeout, NoTx
    <3>3. {g \in fin' : g.ack} \subseteq {g \in fin : g.ack}
      BY <3>1
    <3>4. QED
      BY <2>2, <3>2, <3>3 DEF AcksOwed
  <2>4. CASE ~tx.pending
    <3>1. fin' = fin /\ tx' = [tx EXCEPT !.timers = @ \ {t}]
      BY <2>1, <2>4 DEF hosted_mgmt_take_timeout
    <3>2. ~tx'.pending
      BY <2>4, <3>1, <1>b DEF TxRec
    <3>3. QED
      BY <2>2, <3>1, <3>2, <1>d
  <2>5. QED
    BY <2>3, <2>4
<1>10. CASE hosted_mgmt_finish_owned
  <2>1. PICK f \in fin, bad \in BOOLEAN :
          /\ fin' = fin \ {f}
          /\ out' = IF bad THEN out
                    ELSE [out EXCEPT !.sts[f.k] = @ + 1,
                                     !.acked = IF f.ack THEN @ \union {f.k} ELSE @]
    BY ZenonT(60), <1>10 DEF hosted_mgmt_finish_owned
  <2>2. UNCHANGED <<lib, tx>>
    BY <1>10 DEF hosted_mgmt_finish_owned
  <2>3. out'.acked = out.acked \/ (f.ack /\ out'.acked = out.acked \union {f.k})
    BY <2>1, <1>b DEF OutRec
  <2>4. QED
    BY <2>1, <2>2, <2>3 DEF AcksOwed
<1>11. CASE mgmt_txcb
  <2>1. PICK f \in lib.air, prot \in BOOLEAN, ack \in BOOLEAN :
          /\ lib' = [lib EXCEPT !.air = @ \ {f},
                                !.acked = IF ack THEN @ \union {f} ELSE @]
          /\ CASE ~w.cb -> UNCHANGED <<tx, lg, fin, out, faults>>
              [] w.cb /\ tx.draining ->
                   /\ tx' = [tx EXCEPT !.draining = FALSE]
                   /\ UNCHANGED <<lg, fin, out, faults>>
              [] w.cb /\ ~tx.draining /\ tx.pending -> mgmt_txcb_marked(f, prot, ack)
              [] OTHER -> mgmt_txcb_unmarked(f)
    BY ZenonT(60), <1>11 DEF mgmt_txcb
  <2>2. lib'.acked = IF ack THEN lib.acked \union {f} ELSE lib.acked
    BY <2>1, <1>b DEF LibRec
  <2>3. CASE UNCHANGED <<tx, fin>> /\ out'.acked = out.acked
    BY <2>2, <2>3, <1>d
  <2>4. CASE tx' = [tx EXCEPT !.draining = FALSE] /\ UNCHANGED <<fin, out>>
    <3>1. /\ tx'.pending = tx.pending /\ tx'.completed = tx.completed
          /\ tx'.ack = tx.ack /\ tx'.cookie = tx.cookie
      BY <2>4, <1>b DEF TxRec
    <3>2. QED
      BY <2>2, <2>4, <3>1 DEF AcksOwed
  <2>5. CASE /\ tx.pending /\ Alike(host.body[f], host.body[tx.cookie])
             /\ UNCHANGED <<fin, out>>
             /\ tx' = [tx EXCEPT !.completed = TRUE, !.ack = ack]
    <3>1. tx'.cookie = tx.cookie /\ tx'.ack = ack
      BY <2>5, <1>b DEF TxRec
    <3>2. CASE ack
      BY <2>2, <2>5, <3>1, <3>2 DEF AcksOwed
    <3>3. CASE ~ack
      BY <2>2, <2>5, <3>1, <3>3 DEF AcksOwed
    <3>4. QED
      BY <3>2, <3>3
  <2>6. CASE /\ tx.pending /\ Alike(host.body[f], host.body[tx.cookie])
             /\ tx' = Cleared /\ out' = out
             /\ fin' = fin \union {[k |-> tx.cookie, ack |-> ack, by |-> "wifi"]}
    <3>1. CASE ack
      BY <2>2, <2>6, <3>1, <1>c DEF AcksOwed
    <3>2. CASE ~ack
      <4>1. {g \in fin' : g.ack} \subseteq {g \in fin : g.ack}
        BY <2>6, <3>2
      <4>2. QED
        BY <2>2, <2>6, <3>2, <4>1, <1>c DEF AcksOwed
    <3>3. QED
      BY <3>1, <3>2
  <2>7. mgmt_txcb_unmarked(f) => UNCHANGED <<tx, fin>> /\ out'.acked = out.acked
    BY <1>b DEF mgmt_txcb_unmarked, OutRec
  <2>8. hosted_mgmt_data_matches(f, prot) => Alike(host.body[f], host.body[tx.cookie])
    BY DEF hosted_mgmt_data_matches, Alike
  <2>9. QED
    BY <2>1, <2>3, <2>4, <2>5, <2>6, <2>7, <2>8 DEF mgmt_txcb_marked
<1>12. QED
  BY <1>1, <1>2, <1>3, <1>4, <1>5, <1>6, <1>7, <1>7a, <1>8, <1>9, <1>10, <1>11, FramesElsewhere
  DEF MgmtSteps

\* A new command changes the host's count, and the frame of no earlier one.
LEMMA DispatchFacts ==
    ASSUME TypeOK, esp_cmd_dispatch
    PROVE  /\ UNCHANGED <<tx, fin, out, lib, s>> /\ host'.n = host.n + 1
           /\ \A k \in 1..host.n : host'.body[k] = host.body[k]
           /\ cmd.pc = "idle" /\ cmd'.pc \in Commands /\ cmd'.seq = host.n + 1
<1>1. PICK r \in Requests, b \in Bodies :
        /\ cmd' = [CmdIdle EXCEPT !.pc = r.c, !.r = r, !.seq = host.n + 1]
        /\ host' = [host EXCEPT
             !.n = @ + 1, !.wait = TRUE,
             !.body[host.n + 1] =
                 CASE r.c # "MGMT_TX" -> "none"
                   [] r.x = "b" /\ host.style = "legacy" -> "broadcast"
                   [] OTHER -> b]
  BY ZenonT(60) DEF esp_cmd_dispatch
<1>2. cmd'.pc \in Commands /\ cmd'.seq = host.n + 1
  BY <1>1, RequestFacts DEF CmdIdle
<1>3. host.n \in Seqs /\ host.body \in [Seqs -> Bodies \union {"none", "broadcast"}]
  BY DEF TypeOK, HostType
<1>4. /\ host'.n = host.n + 1
      /\ host'.body = [host.body EXCEPT ![host.n + 1] =
              CASE r.c # "MGMT_TX" -> "none"
                [] r.x = "b" /\ host.style = "legacy" -> "broadcast"
                [] OTHER -> b]
  BY <1>1 DEF TypeOK, HostType
<1>5. \A k \in 1..host.n : k \in Seqs /\ k # host.n + 1
  BY <1>3, MaxCmdsAssumption DEF Seqs
<1>6. \A k \in 1..host.n : host'.body[k] = host.body[k]
  BY SMTT(60), <1>3, <1>4, <1>5
<1>7. QED
  BY <1>2, <1>4, <1>6 DEF esp_cmd_dispatch

\* Nothing else changes them.
LEMMA OnlyDispatch ==
    ASSUME TypeOK, ControlInv, Next, ~esp_cmd_dispatch
    PROVE  host'.n = host.n /\ host'.body = host.body
  BY ZenonT(60), FramesElsewhere
  DEF FramesKept, MgmtSteps, send_command_resp, StopReturns, process_deinit_interface,
      ModeDone, process_mgmt_tx, MgmtSend, hosted_send_mgmt_accept, MgmtTimer, MgmtUntimed,
      hosted_mgmt_mark_accepted, MgmtStatus, process_mgmt_tx_unmarked, UnmarkedSend,
      mgmt_txcb, TimerTask, hosted_mgmt_timeout_cb, hosted_mgmt_finish_owned

\* The air gave every acknowledgement that is reported or owed.
LEMMA AckNext ==
    ASSUME TypeOK, ControlInv, AirInv, StatusInv, AckInv, [Next]_vars, HostType'
    PROVE  AckInv'
<1>a. /\ host.n \in Seqs /\ lib.acked \subseteq Seqs /\ lib.air \subseteq Seqs
      /\ host'.n \in Seqs /\ Seqs = 1..MaxCmds /\ MaxCmds \in Nat
      /\ tx.pending => tx.cookie \in Seqs
  <2>1. host.n \in Seqs /\ host'.n \in Seqs
    BY DEF TypeOK, HostType
  <2>2. lib.acked \subseteq Seqs /\ lib.air \subseteq Seqs
    BY DEF TypeOK, LibType
  <2>3. tx.pending => tx.cookie \in Seqs
    BY SeqFacts DEF TypeOK, FrameType
  <2>4. QED
    BY <2>1, <2>2, <2>3, SeqFacts DEF Seqs
<1>b. /\ AcksOwed \in SUBSET Seqs /\ AcksOwed \subseteq 1..host.n
      /\ lib.acked \subseteq 1..host.n /\ lib.air \subseteq 1..host.n
  BY <1>a DEF AckInv, AirInv
<1>c. \A b \in Bodies : Cardinality(OfBody(AcksOwed, host.body, b))
                          <= Cardinality(OfBody(lib.acked, host.body, b))
  BY DEF AckInv, AckedBodies, OfBody
<1> SUFFICES /\ AcksOwed' \subseteq 1..host'.n
             /\ \A b \in Bodies : Cardinality(OfBody(AcksOwed', host'.body, b))
                                    <= Cardinality(OfBody(lib'.acked, host'.body, b))
  BY DEF AckInv, AckedBodies, OfBody
<1>0. CASE UNCHANGED vars
  <2>1. AcksOwed' = AcksOwed /\ lib' = lib /\ host' = host
    BY <1>0 DEF vars, AcksOwed
  <2>2. QED
    BY <2>1, <1>b, <1>c
<1>1. CASE esp_cmd_dispatch
  <2>1. UNCHANGED <<tx, fin, out, lib>> /\ host'.n = host.n + 1
        /\ \A k \in 1..host.n : host'.body[k] = host.body[k]
    BY <1>1, <1>a, DispatchFacts
  <2>2. AcksOwed' = AcksOwed
    BY <2>1 DEF AcksOwed
  <2>3. ASSUME NEW b
        PROVE  /\ OfBody(AcksOwed, host'.body, b) = OfBody(AcksOwed, host.body, b)
               /\ OfBody(lib.acked, host'.body, b) = OfBody(lib.acked, host.body, b)
    BY <2>1, <1>b DEF OfBody
  <2>4. AcksOwed \subseteq 1..host'.n
    BY <2>1, <1>a, <1>b
  <2>5. QED
    BY <2>1, <2>2, <2>3, <2>4, <1>c
<1> SUFFICES ASSUME Next, ~esp_cmd_dispatch
             PROVE  /\ AcksOwed' \subseteq 1..host'.n
                    /\ \A b \in Bodies : Cardinality(OfBody(AcksOwed', host'.body, b))
                                    <= Cardinality(OfBody(lib'.acked, host'.body, b))
  BY <1>0, <1>1
<1>2. host'.n = host.n /\ host'.body = host.body
  BY OnlyDispatch
<1>3. lib'.acked \in SUBSET Seqs
  BY LibNext DEF TypeOK, LibType
<1>4. CASE AcksOwed' \subseteq AcksOwed /\ lib.acked \subseteq lib'.acked
  <2>1. ASSUME NEW b \in Bodies
        PROVE  Cardinality(OfBody(AcksOwed', host.body, b))
                 <= Cardinality(OfBody(lib'.acked, host.body, b))
    <3>1. /\ Cardinality(OfBody(AcksOwed', host.body, b))
               <= Cardinality(OfBody(AcksOwed, host.body, b))
          /\ Cardinality(OfBody(AcksOwed', host.body, b)) \in Nat
          /\ Cardinality(OfBody(AcksOwed, host.body, b)) \in Nat
      <4>1. AcksOwed' \in SUBSET AcksOwed
        BY <1>4
      <4>2. QED
        BY <4>1, <1>b, FewerAcks
    <3>2. /\ Cardinality(OfBody(lib.acked, host.body, b))
               <= Cardinality(OfBody(lib'.acked, host.body, b))
          /\ Cardinality(OfBody(lib.acked, host.body, b)) \in Nat
          /\ Cardinality(OfBody(lib'.acked, host.body, b)) \in Nat
      <4>1. lib.acked \in SUBSET lib'.acked
        BY <1>4
      <4>2. QED
        BY <4>1, <1>3, FewerAcks
    <3>3. Cardinality(OfBody(AcksOwed, host.body, b))
            <= Cardinality(OfBody(lib.acked, host.body, b))
      BY <1>c
    <3>4. QED
      BY <3>1, <3>2, <3>3
  <2>2. QED
    BY <2>1, <1>2, <1>4, <1>b
<1>5. ASSUME NEW f \in lib.air, tx.pending, Alike(host.body[f], host.body[tx.cookie]),
             AcksOwed' \subseteq AcksOwed \union {tx.cookie},
             lib'.acked = lib.acked \union {f}
      PROVE  /\ AcksOwed' \subseteq 1..host'.n
             /\ \A b \in Bodies : Cardinality(OfBody(AcksOwed', host'.body, b))
                                    <= Cardinality(OfBody(lib'.acked, host'.body, b))
  <2>1. tx.cookie \in 1..host.n
    BY <1>5, <1>a DEF StatusInv
  <2>2. AcksOwed' \in SUBSET Seqs /\ AcksOwed' \subseteq 1..host.n
    BY <1>5, <1>a, <1>b, <2>1
  <2>3. f \notin lib.acked /\ f \in Seqs /\ tx.cookie \in Seqs /\ lib.acked \in SUBSET Seqs
    BY <1>5, <1>a DEF AirInv
  <2>4. ASSUME NEW b \in Bodies
        PROVE  Cardinality(OfBody(AcksOwed', host.body, b))
                 <= Cardinality(OfBody(lib.acked \union {f}, host.body, b))
    <3>1. Cardinality(OfBody(AcksOwed, host.body, b))
            <= Cardinality(OfBody(lib.acked, host.body, b))
      BY <1>c
    <3>2. QED
      BY <1>5, <2>2, <2>3, <3>1, <1>b, OneMoreAck
  <2>5. QED
    BY <2>2, <2>4, <1>2, <1>5
<1>6. QED
  BY <1>4, <1>5, AcksMove

\* Command 1 may have left its frame on the air, accepted and not reported.
LEMMA StatusInit == Init => StatusInv /\ AckInv
<1> SUFFICES ASSUME Init PROVE StatusInv /\ AckInv
  OBVIOUS
<1>1. /\ NoTx.pending = FALSE /\ NoTx.accepted = FALSE /\ NoTx.timers = {}
      /\ 1 \in Seqs /\ Seqs \subseteq Nat
  BY SeqFacts DEF NoTx
<1>2. StatusInv
  <2>1. \A k \in Seqs : out.sts[k] = 0
    BY InitFacts
  <2>2. /\ tx.pending \/ tx.accepted => tx.pending /\ tx.cookie = 1 /\ out.acc = {1}
        /\ tx.timers \subseteq out.acc
    BY InitFacts, <1>1
  <2>3. out.acc \subseteq {1} /\ cmd.pc = "idle" /\ host.n = 1 /\ fin = {}
    BY InitFacts
  <2>4. QED
    BY <1>1, <2>1, <2>2, <2>3 DEF StatusInv, AfterAnswer
<1>3. AckInv
  <2>1. ~(tx.pending /\ tx.completed) /\ fin = {} /\ out.acked = {} /\ lib.acked = {}
    BY InitFacts, <1>1
  <2>2. AcksOwed = {}
    BY <2>1 DEF AcksOwed
  <2>3. Cardinality({}) = 0
    BY FS_EmptySet
  <2>4. \A b : AckedBodies(AcksOwed, b) = 0 /\ AckedBodies(lib.acked, b) = 0
    <3>1. \A b : {k \in {} : Alike(host.body[k], b)} = {}
      OBVIOUS
    <3>2. QED
      BY <2>1, <2>2, <2>3, <3>1 DEF AckedBodies
  <2>5. QED
    BY <2>2, <2>4 DEF AckInv
<1>4. QED
  BY <1>2, <1>3

\* A marked host gets at most one status for a frame, and no more
\* acknowledgements of the frames that look alike to the callback than the air
\* gave, whatever callbacks, timeouts, late timers, stops and handlers
\* interleave: the cookie moves from the transaction to the context that reports
\* it under s_hosted_mgmt_lock.  The status follows the acceptance except where
\* the timer of an earlier frame took the transaction; that report comes with a
\* restart of the firmware.
THEOREM StatusesTruthful == Spec => []StatusTruthful
<1> DEFINE Inv == TypeOK /\ ControlInv /\ AnswerInv /\ AirInv /\ StatusInv /\ AckInv
<1>1. Init => Inv
  BY TypeInit, AnswerInit, StatusInit
<1>2. Inv /\ [Next]_vars => Inv'
  <2> SUFFICES ASSUME Inv, [Next]_vars PROVE Inv'
    OBVIOUS
  <2>1. TypeOK' /\ ControlInv'
    BY TypeNext
  <2>2. AnswerInv' /\ AirInv' /\ StatusInv'
    BY AnswerNext, AirNext, StatusNext
  <2>3. AckInv'
    BY <2>1, AckNext DEF TypeOK
  <2>4. QED
    BY <2>1, <2>2, <2>3
<1>3. Inv => StatusTruthful
  <2> SUFFICES ASSUME Inv PROVE StatusTruthful
    OBVIOUS
  <2>1. /\ \A k \in Seqs : out.sts[k] <= 1 /\ (out.sts[k] = 1 => k \in out.acc \/ ~up)
        /\ \A f \in fin : f.k \in out.acc \/ f.by = "stale"
    BY DEF StatusInv
  <2>2. ASSUME NEW b \in Bodies
        PROVE  AckedBodies(out.acked, b) <= AckedBodies(lib.acked, b)
    <3>1. AcksOwed \in SUBSET Seqs /\ lib.acked \in SUBSET Seqs
      <4>1. host.n \in Seqs /\ lib.acked \in SUBSET Seqs
        BY DEF TypeOK, HostType, LibType
      <4>2. QED
        BY <4>1, MaxCmdsAssumption DEF AckInv, Seqs
    <3>2. out.acked \in SUBSET AcksOwed
      BY DEF AcksOwed
    <3>3. /\ Cardinality(OfBody(out.acked, host.body, b)) \in Nat
          /\ Cardinality(OfBody(AcksOwed, host.body, b)) \in Nat
          /\ Cardinality(OfBody(out.acked, host.body, b))
               <= Cardinality(OfBody(AcksOwed, host.body, b))
      BY <3>1, <3>2, FewerAcks
    <3>4. Cardinality(OfBody(lib.acked, host.body, b)) \in Nat
      BY <3>1, FewerAcks, lib.acked \in SUBSET lib.acked
    <3>5. Cardinality(OfBody(AcksOwed, host.body, b))
            <= Cardinality(OfBody(lib.acked, host.body, b))
      BY DEF AckInv, AckedBodies, OfBody
    <3>6. Cardinality(OfBody(out.acked, host.body, b))
            <= Cardinality(OfBody(lib.acked, host.body, b))
      BY <3>3, <3>4, <3>5
    <3>7. QED
      BY <3>6 DEF AckedBodies, OfBody
  <2>3. QED
    BY <2>1, <2>2 DEF StatusTruthful
<1>4. QED
  BY <1>1, <1>2, <1>3, PTL DEF Spec

-----------------------------------------------------------------------------
(* Authentication, association and disconnect events *)

\* The steps that write a generation, report one, or begin or end what is
\* current; every other step at most forgets a generation.
MlmeSteps ==
    \/ esp_cmd_dispatch \/ StopReturns \/ process_auth_request
    \/ process_assoc_request \/ ConnectStarted \/ process_disconnect
    \/ sta_rx_auth \/ AssocResponse \/ OnDisconnected
GensKept ==
    /\ host'.n = host.n /\ lib'.since = lib.since
    /\ out'.mlme = out.mlme /\ out'.disc = out.disc
    /\ s'.authGen \in {s.authGen, NoSeq} /\ s'.assocGen \in {s.assocGen, NoSeq}
    /\ s'.connGen \in {s.connGen, NoSeq} /\ s'.discGen \in {s.discGen, NoSeq}

\* Scans, frames and mode changes write no generation and report none.
LEMMA GensElsewhere ==
    ASSUME TypeOK, Next
    PROVE  MlmeSteps \/ GensKept
<1>b. lib \in LibRec /\ out \in OutRec /\ s \in SessionRec
  BY DEF TypeOK, LibType, LibRec, HostType, OutRec, SessionType, SessionRec
<1>1. CASE StaStopAcked \/ PostFence \/ FenceAcked \/ StartReturns \/
          StartFailed \/ process_start_scan \/ process_monitor_config \/
          DeinitDone \/ process_set_mode \/ process_set_ap_config \/
          ModeCallback \/ ModeRolledBack \/ process_mgmt_tx \/
          process_mgmt_tx_unmarked \/ OnStart \/ OnApStop \/
          hosted_scan_fence_handler \/ LibLookupDone \/
          TimerTask
  <2>1. UNCHANGED <<host, lib, out, s>>
    BY ZenonT(60), <1>1 DEF StaStopAcked, PostFence, FenceAcked, StartReturns,
           StartFailed, process_start_scan, process_monitor_config,
           DeinitDone, process_set_mode, process_set_ap_config, ModeCallback,
           ModeRolledBack, process_mgmt_tx, process_mgmt_tx_unmarked, OnStart,
           OnApStop, hosted_scan_fence_handler, LibLookupDone,
           TimerTask, hosted_mgmt_timeout_cb
  <2>2. QED
    BY <2>1 DEF GensKept
<1>2. CASE HostGivesUp
  <2>1. UNCHANGED <<lib, out, s>>
    BY <1>2 DEF HostGivesUp
  <2>2. host'.n = host.n
    BY <1>2, <1>b DEF HostGivesUp, Waiting, TypeOK, HostType
  <2>3. QED
    BY <2>1, <2>2 DEF GensKept
<1>3. CASE send_command_resp
  <2>1. UNCHANGED <<host, lib, s>>
    BY <1>3 DEF send_command_resp
  <2>2. out'.mlme = out.mlme /\ out'.disc = out.disc
    BY <1>3, <1>b DEF send_command_resp, Lost, Answered, OutRec
  <2>3. QED
    BY <2>1, <2>2 DEF GensKept
<1>4. CASE deinitialize_wifi
  <2>1. UNCHANGED <<host, out, s>>
    BY <1>4 DEF deinitialize_wifi
  <2>2. lib'.since = lib.since
    BY <1>4, <1>b DEF deinitialize_wifi, LibRec
  <2>3. QED
    BY <2>1, <2>2 DEF GensKept
<1>5. CASE hosted_wifi_stop
  <2>1. UNCHANGED <<host, out, s>>
    BY <1>5 DEF hosted_wifi_stop
  <2>2. lib'.since = lib.since
    BY <1>5, <1>b DEF hosted_wifi_stop, hosted_scan_abort, LibRec
  <2>3. QED
    BY <2>1, <2>2 DEF GensKept
<1>6. CASE hosted_wifi_start
  <2>1. UNCHANGED <<host, out, s>>
    BY <1>6 DEF hosted_wifi_start
  <2>2. lib'.since = lib.since
    BY <1>6, <1>b DEF hosted_wifi_start, LibRec
  <2>3. QED
    BY <2>1, <2>2 DEF GensKept
<1>7. CASE ScanStart
  <2>1. UNCHANGED <<host, out, s>>
    BY <1>7 DEF ScanStart
  <2>2. lib'.since = lib.since
    BY <1>7, <1>b DEF ScanStart, LibRec
  <2>3. QED
    BY <2>1, <2>2 DEF GensKept
<1>8. CASE AuthBssid
  <2>1. UNCHANGED <<host, lib, out>>
    BY <1>8 DEF AuthBssid
  <2>2. /\ s'.authGen \in {s.authGen, NoSeq} /\ s'.assocGen \in {s.assocGen, NoSeq}
        /\ s'.connGen \in {s.connGen, NoSeq} /\ s'.discGen \in {s.discGen, NoSeq}
    BY <1>8, <1>b DEF AuthBssid, SessionRec
  <2>3. QED
    BY <2>1, <2>2 DEF GensKept
<1>9. CASE AuthSend
  <2>1. UNCHANGED <<host, lib, out>>
    BY <1>9 DEF AuthSend
  <2>2. /\ s'.authGen \in {s.authGen, NoSeq} /\ s'.assocGen \in {s.assocGen, NoSeq}
        /\ s'.connGen \in {s.connGen, NoSeq} /\ s'.discGen \in {s.discGen, NoSeq}
    BY <1>9, <1>b DEF AuthSend, AuthRejected, SessionRec
  <2>3. QED
    BY <2>1, <2>2 DEF GensKept
<1>10. CASE AuthConnect
  <2>1. UNCHANGED <<host, out>>
    BY <1>10 DEF AuthConnect
  <2>2. lib'.since = lib.since
    BY <1>10, <1>b DEF AuthConnect, AuthRejected, LibRec
  <2>3. /\ s'.authGen \in {s.authGen, NoSeq} /\ s'.assocGen \in {s.assocGen, NoSeq}
        /\ s'.connGen \in {s.connGen, NoSeq} /\ s'.discGen \in {s.discGen, NoSeq}
    BY <1>10, <1>b DEF AuthConnect, AuthRejected, SessionRec
  <2>4. QED
    BY <2>1, <2>2, <2>3 DEF GensKept
<1>11. CASE AuthDone
  <2>1. UNCHANGED <<host, lib, out>>
    BY <1>11 DEF AuthDone
  <2>2. /\ s'.authGen \in {s.authGen, NoSeq} /\ s'.assocGen \in {s.assocGen, NoSeq}
        /\ s'.connGen \in {s.connGen, NoSeq} /\ s'.discGen \in {s.discGen, NoSeq}
    BY <1>11, <1>b DEF AuthDone, SessionRec
  <2>3. QED
    BY <2>1, <2>2 DEF GensKept
<1>12. CASE process_sta_connect
  <2>1. UNCHANGED <<host, out, s>>
    BY <1>12 DEF process_sta_connect
  <2>2. lib'.since = lib.since
    BY <1>12, <1>b DEF process_sta_connect, LibRec
  <2>3. QED
    BY <2>1, <2>2 DEF GensKept
<1>13. CASE process_init_interface
  <2>1. UNCHANGED <<host, out, s>>
    BY <1>13 DEF process_init_interface
  <2>2. lib'.since = lib.since
    BY <1>13, <1>b DEF process_init_interface, Left, LibRec
  <2>3. QED
    BY <2>1, <2>2 DEF GensKept
<1>14. CASE process_deinit_interface
  <2>1. UNCHANGED <<host, lib, s>>
    BY <1>14 DEF process_deinit_interface
  <2>2. out'.mlme = out.mlme /\ out'.disc = out.disc
    BY <1>14, <1>b DEF process_deinit_interface, hosted_mgmt_fail_pending,
           Report, OutRec
  <2>3. QED
    BY <2>1, <2>2 DEF GensKept
<1>15. CASE DeinitRetires
  <2>1. UNCHANGED <<host, out>>
    BY <1>15 DEF DeinitRetires
  <2>2. lib'.since = lib.since
    BY <1>15, <1>b DEF DeinitRetires, Left, RetiredSession, NoSession, LibRec
  <2>3. /\ s'.authGen \in {s.authGen, NoSeq} /\ s'.assocGen \in {s.assocGen, NoSeq}
        /\ s'.connGen \in {s.connGen, NoSeq} /\ s'.discGen \in {s.discGen, NoSeq}
    BY <1>15, <1>b DEF DeinitRetires, Left, RetiredSession, NoSession,
           SessionRec
  <2>4. QED
    BY <2>1, <2>2, <2>3 DEF GensKept
<1>16. CASE MonitorRebuild
  <2>1. UNCHANGED <<host, out, s>>
    BY <1>16 DEF MonitorRebuild
  <2>2. lib'.since = lib.since
    BY <1>16, <1>b DEF MonitorRebuild, SetMode, LibRec
  <2>3. QED
    BY <2>1, <2>2 DEF GensKept
<1>17. CASE ModeStopped
  <2>1. UNCHANGED <<host, out, s>>
    BY <1>17 DEF ModeStopped
  <2>2. lib'.since = lib.since
    BY <1>17, <1>b DEF ModeStopped, SetMode, LibRec
  <2>3. QED
    BY <2>1, <2>2 DEF GensKept
<1>18. CASE ModeDone
  <2>1. UNCHANGED <<host, lib, s>>
    BY <1>18 DEF ModeDone
  <2>2. out'.mlme = out.mlme /\ out'.disc = out.disc
    BY <1>18, <1>b DEF ModeDone, hosted_mgmt_fail_pending, Report, OutRec
  <2>3. QED
    BY <2>1, <2>2 DEF GensKept
<1>19. CASE ModeRollback
  <2>1. UNCHANGED <<host, out, s>>
    BY <1>19 DEF ModeRollback
  <2>2. lib'.since = lib.since
    BY <1>19, <1>b DEF ModeRollback, SetMode, LibRec
  <2>3. QED
    BY <2>1, <2>2 DEF GensKept
<1>20. CASE MgmtSend
  <2>1. UNCHANGED <<host, out, s>>
    BY <1>20 DEF MgmtSend
  <2>2. lib'.since = lib.since
    BY <1>20, <1>b DEF MgmtSend, Transmit, hosted_mgmt_abort_pending, LibRec
  <2>3. QED
    BY <2>1, <2>2 DEF GensKept
<1>21. CASE hosted_send_mgmt_accept
  <2>1. UNCHANGED <<host, lib, s>>
    BY <1>21 DEF hosted_send_mgmt_accept
  <2>2. out'.mlme = out.mlme /\ out'.disc = out.disc
    BY <1>21, <1>b DEF hosted_send_mgmt_accept, hosted_mgmt_abort_pending,
           Lost, Answered, OutRec
  <2>3. QED
    BY <2>1, <2>2 DEF GensKept
<1>22. CASE MgmtTimer \/ MgmtUntimed
  <2>1. UNCHANGED <<host, lib, s>>
    BY <1>22 DEF MgmtTimer, MgmtUntimed
  <2>2. out'.mlme = out.mlme /\ out'.disc = out.disc
    BY <1>22, <1>b DEF MgmtTimer, MgmtUntimed, Report, OutRec
  <2>3. QED
    BY <2>1, <2>2 DEF GensKept
<1>23. CASE hosted_mgmt_mark_accepted
  <2>1. UNCHANGED <<host, lib, s>>
    BY <1>23 DEF hosted_mgmt_mark_accepted
  <2>2. out'.mlme = out.mlme /\ out'.disc = out.disc
    BY <1>23, <1>b DEF hosted_mgmt_mark_accepted, OwnPending, Report, OutRec
  <2>3. QED
    BY <2>1, <2>2 DEF GensKept
<1>24. CASE MgmtStatus
  <2>1. UNCHANGED <<host, lib, s>>
    BY <1>24 DEF MgmtStatus
  <2>2. out'.mlme = out.mlme /\ out'.disc = out.disc
    BY <1>24, <1>b DEF MgmtStatus, OutRec
  <2>3. QED
    BY <2>1, <2>2 DEF GensKept
<1>25. CASE UnmarkedSend
  <2>1. UNCHANGED <<host, out, s>>
    BY <1>25 DEF UnmarkedSend
  <2>2. lib'.since = lib.since
    BY <1>25, <1>b DEF UnmarkedSend, Transmit, LibRec
  <2>3. QED
    BY <2>1, <2>2 DEF GensKept
<1>26. CASE OnConnected
  <2>1. UNCHANGED <<host, lib, out>>
    BY <1>26 DEF OnConnected
  <2>2. /\ s'.authGen \in {s.authGen, NoSeq} /\ s'.assocGen \in {s.assocGen, NoSeq}
        /\ s'.connGen \in {s.connGen, NoSeq} /\ s'.discGen \in {s.discGen, NoSeq}
    BY <1>26, <1>b DEF OnConnected, NoAssoc, SessionRec
  <2>3. QED
    BY <2>1, <2>2 DEF GensKept
<1>27. CASE OnScanDone
  <2>1. UNCHANGED <<host, lib, s>>
    BY <1>27 DEF OnScanDone
  <2>2. out'.mlme = out.mlme /\ out'.disc = out.disc
    BY <1>27, <1>b DEF OnScanDone, OutRec
  <2>3. QED
    BY <2>1, <2>2 DEF GensKept
<1>28. CASE OnStaStop
  <2>1. UNCHANGED <<host, lib, out>>
    BY <1>28 DEF OnStaStop
  <2>2. /\ s'.authGen \in {s.authGen, NoSeq} /\ s'.assocGen \in {s.assocGen, NoSeq}
        /\ s'.connGen \in {s.connGen, NoSeq} /\ s'.discGen \in {s.discGen, NoSeq}
    BY <1>28, <1>b DEF OnStaStop, NoAssoc, SessionRec
  <2>3. QED
    BY <2>1, <2>2 DEF GensKept
<1>29. CASE mgmt_txcb
  <2>1. UNCHANGED <<host, s>>
    BY <1>29 DEF mgmt_txcb
  <2>2. lib'.since = lib.since
    BY <1>29, <1>b DEF mgmt_txcb, mgmt_txcb_marked, mgmt_txcb_unmarked, LibRec
  <2>3. out'.mlme = out.mlme /\ out'.disc = out.disc
    BY <1>29, <1>b DEF mgmt_txcb, mgmt_txcb_marked, mgmt_txcb_unmarked, OutRec
  <2>4. QED
    BY <2>1, <2>2, <2>3 DEF GensKept
<1>30. CASE LibConnected
  <2>1. UNCHANGED <<host, out, s>>
    BY <1>30 DEF LibConnected
  <2>2. lib'.since = lib.since
    BY <1>30, <1>b DEF LibConnected, LibRec
  <2>3. QED
    BY <2>1, <2>2 DEF GensKept
<1>31. CASE LibDisconnected
  <2>1. UNCHANGED <<host, out, s>>
    BY <1>31 DEF LibDisconnected
  <2>2. lib'.since = lib.since
    BY <1>31, <1>b DEF LibDisconnected, Left, LibRec
  <2>3. QED
    BY <2>1, <2>2 DEF GensKept
<1>32. CASE LibScanDone
  <2>1. UNCHANGED <<host, out, s>>
    BY <1>32 DEF LibScanDone
  <2>2. lib'.since = lib.since
    BY <1>32, <1>b DEF LibScanDone, LibRec
  <2>3. QED
    BY <2>1, <2>2 DEF GensKept
<1>33. CASE LibStaStop
  <2>1. UNCHANGED <<host, out, s>>
    BY <1>33 DEF LibStaStop
  <2>2. lib'.since = lib.since
    BY <1>33, <1>b DEF LibStaStop, LibRec
  <2>3. QED
    BY <2>1, <2>2 DEF GensKept
<1>34. CASE hosted_mgmt_finish_owned
  <2>1. UNCHANGED <<host, lib, s>>
    BY <1>34 DEF hosted_mgmt_finish_owned
  <2>2. out'.mlme = out.mlme /\ out'.disc = out.disc
    BY <1>34, <1>b DEF hosted_mgmt_finish_owned, OutRec
  <2>3. QED
    BY <2>1, <2>2 DEF GensKept
<1>35. QED
  BY <1>1, <1>2, <1>3, <1>4, <1>5, <1>6, <1>7, <1>8, <1>9, <1>10, <1>11,
     <1>12, <1>13, <1>14, <1>15, <1>16, <1>17, <1>18, <1>19, <1>20, <1>21,
     <1>22, <1>23, <1>24, <1>25, <1>26, <1>27, <1>28, <1>29, <1>30, <1>31,
     <1>32, <1>33, <1>34
  DEF MlmeSteps, Next, WifiStop, WifiStart, Scan, Auth, Session, Interface,
      Mode, Mgmt, CommandTask, EventLoop, WifiTask

\* Only a new command, or the next step of CONNECT, is about to write a
\* generation: a start that fails, or that had to stop again, tells CONNECT.
LEMMA RequestingMove ==
    ASSUME TypeOK, ControlInv, Next, Requesting'
    PROVE  esp_cmd_dispatch \/ (Requesting /\ cmd'.seq = cmd.seq)
<1> DEFINE ReqPcs == {"AUTH", "ASSOC", "DISCONNECT", "CONNECT", "start", "started", "connect"}
<1>a. cmd'.pc \in ReqPcs
  BY DEF Requesting
<1>b. /\ cmd \in [pc : Pcs, seq : 0..MaxCmds, r : Requests \union {NoRequest},
                  k : Seq(Labels), err : BOOLEAN, was : BOOLEAN,
                  cb : BOOLEAN, old : WifiModes]
      /\ CmdIdle.pc = "idle"
  BY DEF TypeOK, CmdType, Labels, CmdIdle
<1>c. \A c \in StartCallers : c \in Labels
  BY SubFacts
<1>1. CASE send_command_resp \/ deinitialize_wifi \/ hosted_wifi_stop \/
          StopReturns \/ StaStopAcked \/ PostFence \/
          process_start_scan \/ ScanStart
  <2>1. cmd'.pc \notin ReqPcs
    BY ZenonT(60), <1>1, <1>b DEF send_command_resp, deinitialize_wifi, hosted_wifi_stop,
           StopReturns, StaStopAcked, PostFence, process_start_scan, ScanStart
  <2>2. QED
    BY <2>1, <1>a
<1>2. CASE process_monitor_config \/ process_auth_request \/ AuthBssid \/
          AuthSend \/ AuthConnect \/ AuthDone \/ process_assoc_request \/
          ConnectStarted
  <2>1. cmd'.pc \notin ReqPcs
    BY ZenonT(60), <1>2, <1>b DEF process_monitor_config, process_auth_request, AuthBssid,
           AuthSend, AuthConnect, AuthDone, process_assoc_request,
           ConnectStarted
  <2>2. QED
    BY <2>1, <1>a
<1>3. CASE process_disconnect \/ process_deinit_interface \/
          DeinitRetires \/ DeinitDone \/ process_set_mode \/
          process_set_ap_config \/ ModeStopped \/ ModeDone
  <2>1. cmd'.pc \notin ReqPcs
    BY ZenonT(60), <1>3, <1>b DEF process_disconnect, process_deinit_interface,
           DeinitRetires, DeinitDone, process_set_mode, process_set_ap_config,
           ModeStopped, ModeDone, Snapshot
  <2>2. QED
    BY <2>1, <1>a
<1>4. CASE ModeRolledBack \/ process_mgmt_tx \/ MgmtSend \/
          hosted_send_mgmt_accept \/ MgmtTimer \/ MgmtUntimed \/
          hosted_mgmt_mark_accepted \/ MgmtStatus \/
          process_mgmt_tx_unmarked
  <2>1. cmd'.pc \notin ReqPcs
    BY <1>4, <1>b DEF ModeRolledBack, process_mgmt_tx, MgmtSend,
           hosted_send_mgmt_accept, MgmtTimer, MgmtUntimed, hosted_mgmt_mark_accepted,
           MgmtStatus, process_mgmt_tx_unmarked, mgmt_tx_inflight_begin
  <2>2. QED
    BY <2>1, <1>a
<1>5. CASE UnmarkedSend
  <2>1. cmd'.pc \notin ReqPcs
    BY <1>5, <1>b DEF UnmarkedSend
  <2>2. QED
    BY <2>1, <1>a
<1>6. CASE HostGivesUp \/ OnStart \/ OnConnected \/ OnDisconnected \/
          OnScanDone \/ OnApStop \/ OnStaStop \/
          hosted_scan_fence_handler \/ mgmt_txcb \/ sta_rx_auth \/
          AssocResponse \/ LibConnected \/ LibDisconnected \/
          LibScanDone \/ LibLookupDone \/ LibStaStop \/
          TimerTask \/ hosted_mgmt_finish_owned
  <2>1. UNCHANGED cmd
    BY ZenonT(60), <1>6 DEF HostGivesUp, OnStart, OnConnected, OnDisconnected, OnScanDone,
           OnApStop, OnStaStop, hosted_scan_fence_handler, mgmt_txcb,
           sta_rx_auth, AssocResponse, LibConnected, LibDisconnected,
           LibScanDone, LibLookupDone, LibStaStop, TimerTask, hosted_mgmt_timeout_cb,
           hosted_mgmt_finish_owned
  <2>2. QED
    BY SMTT(60), <2>1 DEF Requesting
<1>7. CASE process_init_interface
  <2>1. cmd.k = <<>> /\ "resp" \in Labels
    BY <1>7, SubFacts DEF process_init_interface, ControlInv, StopPcs, StartPcs, StartCallers, Labels
  <2>2. <<"resp">> \o cmd.k = <<"resp">> /\ <<"resp">> # <<"connect">>
    BY <2>1, StackFacts
  <2>3. cmd'.pc \notin ReqPcs \/ (cmd'.pc = "start" /\ cmd'.k = <<"resp">>)
    BY <1>7, <1>b, <2>2 DEF process_init_interface
  <2>4. QED
    BY <2>2, <2>3, <1>a DEF Requesting
<1>8. CASE MonitorRebuild
  <2>1. cmd.k = <<>> /\ "deinit" \in Labels
    BY <1>8, SubFacts DEF MonitorRebuild, ControlInv, StopPcs, StartPcs, StartCallers, Labels
  <2>2. <<"deinit">> \o cmd.k = <<"deinit">> /\ <<"deinit">> # <<"connect">>
    BY <2>1, StackFacts
  <2>3. cmd'.pc \notin ReqPcs \/ (cmd'.pc = "start" /\ cmd'.k = <<"deinit">>)
    BY <1>8, <1>b, <2>2 DEF MonitorRebuild
  <2>4. QED
    BY <2>2, <2>3, <1>a DEF Requesting
<1>9. CASE ModeCallback
  <2>1. cmd.k = <<>> /\ "modeDone" \in Labels
    BY <1>9, SubFacts DEF ModeCallback, ControlInv, StopPcs, StartPcs, StartCallers, Labels
  <2>2. <<"modeDone">> \o cmd.k = <<"modeDone">> /\ <<"modeDone">> # <<"connect">>
    BY <2>1, StackFacts
  <2>3. cmd'.pc \notin ReqPcs \/ (cmd'.pc = "start" /\ cmd'.k = <<"modeDone">>)
    BY <1>9, <1>b, <2>2 DEF ModeCallback
  <2>4. QED
    BY <2>2, <2>3, <1>a DEF Requesting
<1>10. CASE ModeRollback
  <2>1. cmd.k = <<>> /\ "rolledBack" \in Labels
    BY <1>10, SubFacts DEF ModeRollback, ControlInv, StopPcs, StartPcs, StartCallers, Labels
  <2>2. <<"rolledBack">> \o cmd.k = <<"rolledBack">> /\ <<"rolledBack">> # <<"connect">>
    BY <2>1, StackFacts
  <2>3. cmd'.pc \notin ReqPcs \/ (cmd'.pc = "start" /\ cmd'.k = <<"rolledBack">>)
    BY <1>10, <1>b, <2>2 DEF ModeRollback
  <2>4. QED
    BY <2>2, <2>3, <1>a DEF Requesting
<1>11. CASE process_sta_connect
  <2>1. cmd.pc = "CONNECT" /\ cmd'.seq = cmd.seq
    BY <1>11, <1>b DEF process_sta_connect
  <2>2. QED
    BY <2>1 DEF Requesting
<1>12. CASE FenceAcked
  <2>1. CASE cmd' = cmd
    BY <2>1 DEF Requesting
  <2>2. CASE cmd' = Return(cmd.err)
    <3>1. cmd.pc \in StopPcs /\ cmd'.pc = Head(cmd.k)
      BY <1>12, <2>2, <1>b DEF FenceAcked, StopPcs
    <3>2. Head(cmd.k) \in StopCallers \union {"startFailed"}
      BY <3>1, StackFacts, SubFacts DEF ControlInv, Labels
    <3>3. QED
      BY <3>1, <3>2, <1>a DEF StopCallers
  <2>3. QED
    BY <1>12, <2>1, <2>2 DEF FenceAcked
<1>13. CASE hosted_wifi_start \/ StartReturns \/ StartFailed
  <2>1. cmd.pc \in StartPcs /\ cmd.pc \in {"start", "started", "startFailed"}
    BY ZenonT(60), <1>13 DEF hosted_wifi_start, StartReturns, StartFailed, StartPcs
  <2>2. PICK c \in StartCallers : cmd.k = <<c>>
    BY <2>1 DEF ControlInv
  <2>3. Head(cmd.k) = c /\ c \notin ReqPcs \ {"connect"}
    BY <2>2, <1>c, StackFacts DEF StartCallers
  <2>4. CASE cmd' = Goto("started") /\ cmd.pc = "start"
    BY <2>4, <1>b DEF Requesting
  <2>5. CASE cmd' = Call("stop", "startFailed")
    BY <2>5, <1>a, <1>b
  <2>6. CASE cmd' = Return(TRUE)
    <3>1. cmd'.pc = c /\ cmd'.err
      BY <2>3, <2>6, <1>b
    <3>2. QED
      BY <2>3, <3>1 DEF Requesting
  <2>7. CASE cmd' = Return(FALSE) /\ cmd.pc = "started"
    <3>1. cmd'.pc = c /\ cmd'.seq = cmd.seq
      BY <2>3, <2>7, <1>b
    <3>2. c = "connect"
      BY <2>3, <3>1, <1>a
    <3>3. QED
      BY <2>2, <2>7, <3>1, <3>2 DEF Requesting
  <2>8. QED
    BY ZenonT(60), <1>13, <2>4, <2>5, <2>6, <2>7 DEF hosted_wifi_start, StartReturns, StartFailed
<1>14. QED
  BY <1>1, <1>2, <1>3, <1>4, <1>5, <1>6, <1>7, <1>8, <1>9, <1>10, <1>11,
     <1>12, <1>13
  DEF Next, WifiStop, WifiStart, Scan, Auth, Session, Interface, Mode, Mgmt,
      CommandTask, EventLoop, WifiTask

\* What an event reports: the step raises the count of at most one sequence
\* number, whose event was still due and whose request is current.
MlmeStep ==
    \A k \in Seqs :
      /\ out'.mlme[k] # out.mlme[k] => out.mlme[k] = 0 /\ k > lib.since
      /\ out'.disc[k] # out.disc[k] => out.disc[k] = 0 /\ k > lib.since

\* A generation enters the session with the request that asks for its event,
\* leaves it with the event, and the stop of the Wi-Fi clears all of them.
LEMMA MlmeNext ==
    ASSUME TypeOK, ControlInv, MlmeInv, [Next]_vars
    PROVE  MlmeInv' /\ MlmeStep
<1>a. /\ host.n \in Seqs /\ Seqs = 1..MaxCmds /\ MaxCmds \in Nat /\ NoSeq = 0
      /\ out.mlme \in [Seqs -> Nat] /\ out.disc \in [Seqs -> Nat]
      /\ cmd.pc # "idle" => cmd.seq = host.n
      /\ lib.since \in 0..MaxCmds
  <2>1. host.n \in Seqs /\ out.mlme \in [Seqs -> Nat] /\ out.disc \in [Seqs -> Nat]
    BY DEF TypeOK, HostType
  <2>2. lib.since \in 0..MaxCmds
    BY DEF TypeOK, LibType
  <2>3. QED
    BY <2>1, <2>2, SeqFacts DEF Seqs, ControlInv
<1>b. s \in SessionRec /\ out \in OutRec /\ lib \in LibRec
  BY DEF TypeOK, SessionType, SessionRec, HostType, OutRec, LibType, LibRec
<1>g. /\ s.authGen \in 0..MaxCmds /\ s.assocGen \in 0..MaxCmds
      /\ s.connGen \in 0..MaxCmds /\ s.discGen \in 0..MaxCmds
  BY <1>b DEF SessionRec
<1>n. /\ NoSession.authGen = NoSeq /\ NoSession.assocGen = NoSeq
      /\ NoSession.connGen = NoSeq /\ NoSession.discGen = NoSeq
  BY DEF NoSession
<1>0. CASE UNCHANGED vars
  BY <1>0 DEF vars, MlmeInv, Due, MlmeStep, Requesting
<1> SUFFICES ASSUME Next PROVE MlmeInv' /\ MlmeStep
  BY <1>0
<1>r. Requesting' => esp_cmd_dispatch \/ (Requesting /\ cmd'.seq = cmd.seq)
  BY RequestingMove
<1>1. CASE GensKept /\ ~esp_cmd_dispatch
  <2>1. MlmeStep
    BY <1>1 DEF GensKept, MlmeStep
  <2>2. /\ lib'.since <= host'.n
        /\ \A k \in Seqs : k > host'.n => out'.mlme[k] = 0 /\ out'.disc[k] = 0
    BY <1>1 DEF GensKept, MlmeInv
  <2>3. /\ Due(s.authGen, out.mlme)' /\ Due(s.assocGen, out.mlme)'
        /\ Due(s.assocGen, out.disc)' /\ Due(s.connGen, out.disc)'
        /\ Due(s.discGen, out.disc)'
    BY <1>1 DEF GensKept, MlmeInv, Due
  <2>4. s'.authGen # NoSeq => s'.authGen # s'.assocGen
    BY <1>1 DEF GensKept, MlmeInv
  <2>5. ASSUME Requesting'
        PROVE  /\ cmd'.seq > lib'.since
               /\ out'.mlme[cmd'.seq] = 0 /\ out'.disc[cmd'.seq] = 0
               /\ cmd'.seq \notin {s'.authGen, s'.assocGen, s'.connGen, s'.discGen}
    <3>1. Requesting /\ cmd'.seq = cmd.seq
      BY <1>1, <1>r, <2>5
    <3>2. cmd.seq # NoSeq
      BY SMTT(60), <3>1, <1>a DEF Requesting
    <3>3. QED
      BY <1>1, <3>1, <3>2 DEF GensKept, MlmeInv
  <2>6. QED
    BY <2>1, <2>2, <2>3, <2>4, <2>5 DEF MlmeInv
<1>2. CASE esp_cmd_dispatch
  <2>1. /\ UNCHANGED <<out, lib, s>> /\ host'.n = host.n + 1 /\ cmd'.seq = host.n + 1
        /\ host.n + 1 \in Seqs
    <3>1. host.n < MaxCmds
      BY <1>2 DEF esp_cmd_dispatch
    <3>2. QED
      BY SMTT(60), <1>2, <3>1, <1>a, DispatchFacts
  <2>2. out.mlme[host.n + 1] = 0 /\ out.disc[host.n + 1] = 0
    BY SMTT(60), <2>1, <1>a DEF MlmeInv, Due
  <2>3. host.n + 1 \notin {s.authGen, s.assocGen, s.connGen, s.discGen}
    <3>1. /\ s.authGen <= host.n /\ s.assocGen <= host.n
          /\ s.connGen <= host.n /\ s.discGen <= host.n
      <4>1. host.n >= 0
        BY <1>a
      <4>2. QED
        BY <4>1, <1>a, <1>g DEF MlmeInv, Due
    <3>2. QED
      BY SMTT(60), <3>1, <1>a, <1>g
  <2>4. /\ lib'.since <= host'.n /\ cmd'.seq > lib'.since
        /\ \A k \in Seqs : k > host'.n => out'.mlme[k] = 0 /\ out'.disc[k] = 0
    BY SMTT(60), <2>1, <1>a DEF MlmeInv
  <2>5. /\ Due(s.authGen, out.mlme)' /\ Due(s.assocGen, out.mlme)'
        /\ Due(s.assocGen, out.disc)' /\ Due(s.connGen, out.disc)'
        /\ Due(s.discGen, out.disc)'
    <3>1. ASSUME NEW g \in 0..MaxCmds, NEW given, Due(g, given)
          PROVE  g # NoSeq => g > lib'.since /\ g <= host'.n /\ given[g] = 0
      BY <2>1, <3>1, <1>a DEF Due
    <3>2. QED
      BY <2>1, <3>1, <1>g DEF MlmeInv, Due
  <2>6. QED
    BY <2>1, <2>2, <2>3, <2>4, <2>5 DEF MlmeInv, MlmeStep
<1>3. CASE StopReturns
  <2>1. /\ UNCHANGED host /\ out'.mlme = out.mlme /\ out'.disc = out.disc
        /\ \/ UNCHANGED <<s, lib>>
           \/ s' = RetiredSession /\ lib' = StoppedLib
    BY <1>3, <1>b DEF StopReturns, mgmt_tx_fail_pending, OutRec
  <2>2. ~Requesting'
    <3>1. cmd.pc = "esp_wifi_stop" /\ ~esp_cmd_dispatch
      BY <1>3 DEF StopReturns, esp_cmd_dispatch
    <3>2. QED
      BY <3>1, <1>r DEF Requesting
  <2>3. CASE UNCHANGED <<s, lib>>
    BY <2>1, <2>2, <2>3, <1>a DEF MlmeInv, Due, MlmeStep
  <2>4. CASE s' = RetiredSession /\ lib' = StoppedLib
    <3>1. lib'.since = host.n
      BY <1>3, <2>4, <1>a, <1>b DEF StopReturns, StoppedLib, LibRec
    <3>2. /\ s'.authGen = NoSeq /\ s'.assocGen = NoSeq
          /\ s'.connGen = NoSeq /\ s'.discGen = NoSeq
      BY <2>4 DEF RetiredSession, NoSession
    <3>3. QED
      BY <2>1, <2>2, <3>1, <3>2, <1>a DEF MlmeInv, Due, MlmeStep
  <2>5. QED
    BY <2>1, <2>3, <2>4
<1>4. CASE process_auth_request
  <2>1. UNCHANGED <<host, out, lib>> /\ cmd.pc = "AUTH" /\ Requesting /\ ~Requesting'
    BY <1>4 DEF process_auth_request, Requesting, TypeOK, CmdType
  <2>2. CASE s' = s
    BY <2>1, <2>2 DEF MlmeInv, Due, MlmeStep
  <2>3. CASE s' = [s EXCEPT !.authGen = cmd.seq]
    <3>1. /\ s'.authGen = cmd.seq /\ s'.assocGen = s.assocGen
          /\ s'.connGen = s.connGen /\ s'.discGen = s.discGen
      BY <2>3, <1>b DEF SessionRec
    <3>2. QED
      BY <2>1, <3>1, <1>a DEF MlmeInv, Due, MlmeStep
  <2>4. QED
    BY <1>4, <2>2, <2>3 DEF process_auth_request
<1>5. CASE process_assoc_request \/ ConnectStarted
  <2>1. UNCHANGED <<host, out>> /\ cmd.pc \in {"ASSOC", "connect"} /\ ~Requesting'
    BY <1>5 DEF process_assoc_request, ConnectStarted, Requesting, TypeOK, CmdType
  <2>2. lib'.since = lib.since
    BY <1>5, <1>b DEF process_assoc_request, ConnectStarted, LibRec
  <2>3. \/ s' = s \/ s' = NoAssoc(s)
        \/ /\ Requesting
           /\ \E a \in Bssids : s' = [s EXCEPT !.ongoing = TRUE, !.assocGen = cmd.seq,
                                               !.assocBss = a]
    <3>1. CASE process_assoc_request
      <4>1. Requesting /\ lib.peer \in Bssids
        BY <3>1, <1>b DEF process_assoc_request, Requesting, LibRec
      <4>2. QED
        BY ZenonT(60), <3>1, <4>1 DEF process_assoc_request
    <3>2. CASE ConnectStarted
      <4>1. cmd.err \/ Requesting
        BY <3>2 DEF ConnectStarted, Requesting
      <4>2. cmd.r.ap \in Bssids
        BY RequestFacts, ValueFacts DEF TypeOK, CmdType, NoRequest
      <4>3. QED
        BY ZenonT(60), <3>2, <4>1, <4>2 DEF ConnectStarted
    <3>3. QED
      BY ZenonT(60), <1>5, <3>1, <3>2
  <2>4. CASE s' = s \/ s' = NoAssoc(s)
    <3>1. /\ s'.authGen = s.authGen /\ s'.assocGen \in {s.assocGen, NoSeq}
          /\ s'.connGen = s.connGen /\ s'.discGen = s.discGen
      BY <2>4, <1>b DEF SessionRec, NoAssoc
    <3>2. QED
      BY <2>1, <2>2, <3>1, <1>a DEF MlmeInv, Due, MlmeStep
  <2>5. ASSUME Requesting, NEW a \in Bssids,
               s' = [s EXCEPT !.ongoing = TRUE, !.assocGen = cmd.seq, !.assocBss = a]
        PROVE  MlmeInv' /\ MlmeStep
    <3>1. /\ s'.authGen = s.authGen /\ s'.assocGen = cmd.seq
          /\ s'.connGen = s.connGen /\ s'.discGen = s.discGen
      BY <2>5, <1>b DEF SessionRec
    <3>2. QED
      BY <2>1, <2>2, <2>5, <3>1, <1>a DEF MlmeInv, Due, MlmeStep
  <2>6. QED
    BY ZenonT(60), <2>3, <2>4, <2>5
<1>6. CASE process_disconnect
  <2>1. UNCHANGED <<host, out>> /\ cmd.pc = "DISCONNECT" /\ Requesting /\ ~Requesting'
    BY <1>6 DEF process_disconnect, Requesting, TypeOK, CmdType
  <2>2. lib'.since = lib.since
    BY <1>6, <1>b DEF process_disconnect, Left, LibRec
  <2>3. CASE s' = s
    BY <2>1, <2>2, <2>3 DEF MlmeInv, Due, MlmeStep
  <2>4. CASE s' = [NoAssoc(s) EXCEPT !.discGen = cmd.seq]
    <3>1. /\ s'.authGen = s.authGen /\ s'.assocGen = NoSeq
          /\ s'.connGen = s.connGen /\ s'.discGen = cmd.seq
      BY <2>4, <1>b DEF SessionRec, NoAssoc
    <3>2. QED
      BY <2>1, <2>2, <3>1, <1>a DEF MlmeInv, Due, MlmeStep
  <2>5. QED
    BY <1>6, <2>3, <2>4 DEF process_disconnect
<1>7. CASE sta_rx_auth
  <2>1. /\ UNCHANGED <<cmd, host, lib>> /\ s.authGen # NoSeq
        /\ s' = [s EXCEPT !.authGen = NoSeq, !.authBss = NoAp]
        /\ out' = out \/ out' = [out EXCEPT !.mlme[s.authGen] = @ + 1]
    BY <1>7 DEF sta_rx_auth
  <2>2. /\ s'.authGen = NoSeq /\ s'.assocGen = s.assocGen
        /\ s'.connGen = s.connGen /\ s'.discGen = s.discGen
    BY <2>1, <1>b DEF SessionRec
  <2>3. Requesting' <=> Requesting
    BY <2>1 DEF Requesting
  <2>4. s.authGen \in Seqs /\ out.mlme[s.authGen] = 0 /\ s.authGen > lib.since
        /\ s.authGen <= host.n
    BY <2>1, <1>a, <1>g DEF MlmeInv, Due
  <2>5. CASE out' = out
    BY <2>1, <2>2, <2>3, <2>5, <1>a DEF MlmeInv, Due, MlmeStep
  <2>6. CASE out' = [out EXCEPT !.mlme[s.authGen] = @ + 1]
    <3>1. out'.mlme = [out.mlme EXCEPT ![s.authGen] = 1] /\ out'.disc = out.disc
      BY <2>4, <2>6, <1>b DEF OutRec
    <3>2. MlmeStep
      BY <2>4, <3>1, <1>a DEF MlmeStep
    <3>3. MlmeInv'
      BY SMTT(60), <2>1, <2>2, <2>3, <2>4, <3>1, <1>a, <1>g DEF MlmeInv, Due
    <3>4. QED
      BY <3>2, <3>3
  <2>7. QED
    BY <2>1, <2>5, <2>6
<1>8. CASE AssocResponse
  <2>1. /\ UNCHANGED <<cmd, host>>
    BY <1>8 DEF AssocResponse
  <2>2. lib'.since = lib.since
    BY <1>8, <1>b DEF AssocResponse, Left, LibRec
  <2>3. Requesting' <=> Requesting
    BY <2>1 DEF Requesting
  <2>4. CASE UNCHANGED <<s, out>>
    BY <2>1, <2>2, <2>3, <2>4 DEF MlmeInv, Due, MlmeStep
  <2>5. CASE /\ s.assocGen # NoSeq
             /\ s'.authGen = s.authGen /\ s'.assocGen = NoSeq
             /\ s'.connGen \in {s.assocGen, s.connGen, NoSeq} /\ s'.discGen = s.discGen
             /\ out' = out \/ out' = [out EXCEPT !.mlme[s.assocGen] = @ + 1]
    <3>1. s.assocGen \in Seqs /\ out.mlme[s.assocGen] = 0 /\ s.assocGen > lib.since
          /\ s.assocGen <= host.n /\ out.disc[s.assocGen] = 0
      BY <2>5, <1>a, <1>g DEF MlmeInv, Due
    <3>2. CASE out' = out
      BY <2>1, <2>2, <2>3, <2>5, <3>1, <3>2, <1>a DEF MlmeInv, Due, MlmeStep
    <3>3. CASE out' = [out EXCEPT !.mlme[s.assocGen] = @ + 1]
      <4>1. out'.mlme = [out.mlme EXCEPT ![s.assocGen] = 1] /\ out'.disc = out.disc
        BY <3>1, <3>3, <1>b DEF OutRec
      <4>2. MlmeStep
        BY <3>1, <4>1, <1>a DEF MlmeStep
      <4>3. MlmeInv'
        BY SMTT(60), <2>1, <2>2, <2>3, <2>5, <3>1, <4>1, <1>a, <1>g DEF MlmeInv, Due
      <4>4. QED
        BY <4>2, <4>3
    <3>4. QED
      BY <2>5, <3>2, <3>3
  <2>6. PICK ok \in BOOLEAN : sta_rx_assoc(ok)
    BY <1>8 DEF AssocResponse
  <2>7. CASE is_valid_assoc_resp
    <3>1. /\ s.assocGen # NoSeq
          /\ out' = out \/ out' = [out EXCEPT !.mlme[s.assocGen] = @ + 1]
          /\ s' = [s EXCEPT !.connGen = CASE ok -> s.assocGen
                                          [] ~ok /\ ~s.connected -> NoSeq
                                          [] OTHER -> @,
                            !.ongoing = @ /\ ok,
                            !.assocGen = NoSeq, !.assocBss = NoAp]
      BY <2>6, <2>7 DEF sta_rx_assoc, is_valid_assoc_resp
    <3>2. /\ s'.authGen = s.authGen /\ s'.assocGen = NoSeq
          /\ s'.connGen \in {s.assocGen, s.connGen, NoSeq} /\ s'.discGen = s.discGen
      BY <3>1, <1>b DEF SessionRec
    <3>3. QED
      BY <2>5, <3>1, <3>2
  <2>8. CASE ~is_valid_assoc_resp
    BY <2>4, <2>6, <2>8 DEF sta_rx_assoc
  <2>9. QED
    BY <2>7, <2>8
<1>9. CASE OnDisconnected
  <2>1. UNCHANGED <<cmd, host, lib>>
    BY <1>9 DEF OnDisconnected
  <2>2. Requesting' <=> Requesting
    BY <2>1 DEF Requesting
  <2>3. CASE UNCHANGED <<s, out>>
    BY <2>1, <2>2, <2>3 DEF MlmeInv, Due, MlmeStep
  <2>4. ASSUME NEW bad \in BOOLEAN, handle_sta_disconnected_event(bad)
        PROVE  MlmeInv' /\ MlmeStep
    <3>1. s' = [NoSession EXCEPT !.authBss = s.authBss]
      BY <2>4 DEF handle_sta_disconnected_event
    <3>2. /\ s'.authGen = NoSeq /\ s'.assocGen = NoSeq
          /\ s'.connGen = NoSeq /\ s'.discGen = NoSeq
      BY <3>1 DEF NoSession
    <3>3. CASE out' = out
      BY <2>1, <2>2, <3>2, <3>3, <1>a DEF MlmeInv, Due, MlmeStep
    <3>4. ASSUME NEW g \in {s.discGen, s.connGen} \ {NoSeq},
                 out' = [out EXCEPT !.disc[g] = @ + 1]
          PROVE  MlmeInv' /\ MlmeStep
      <4>1. g \in Seqs /\ out.disc[g] = 0 /\ g > lib.since /\ g <= host.n
        BY <3>4, <1>a, <1>g DEF MlmeInv, Due
      <4>2. out'.disc = [out.disc EXCEPT ![g] = 1] /\ out'.mlme = out.mlme
        BY <3>4, <4>1, <1>b DEF OutRec
      <4>3. MlmeStep
        BY <4>1, <4>2, <1>a DEF MlmeStep
      <4>4. MlmeInv'
        BY SMTT(60), <2>1, <2>2, <3>2, <3>4, <4>1, <4>2, <1>a, <1>g DEF MlmeInv, Due
      <4>5. QED
        BY <4>3, <4>4
    <3>5. QED
      BY <2>4, <3>3, <3>4 DEF handle_sta_disconnected_event
  <2>5. QED
    BY <1>9, <2>3, <2>4 DEF OnDisconnected
<1>10. QED
  BY <1>1, <1>2, <1>3, <1>4, <1>5, <1>6, <1>7, <1>8, <1>9, GensElsewhere
  DEF MlmeSteps

\* After command 1 the session holds at most its generation.
LEMMA MlmeInit == Init => MlmeInv
<1> SUFFICES ASSUME Init PROVE MlmeInv
  OBVIOUS
<1>0. PICK mode \in Modes, style \in Styles, mon \in BOOLEAN, left \in Left1,
           ap \in Aps, b \in Bodies :
      LET sent == left = "frame"
          deferred == sent /\ style = "legacy"
      IN  /\ sent => mode = "APSTA"
          /\ mon => left \in {"nothing", "session"}
          /\ w = StartedWifi(mode, mon)
          /\ lib = StartedLib(mode, left, ap)
          /\ s = StartedSession(left, ap)
          /\ sc = [run |-> left = "scan", drain |-> FALSE, auth |-> FALSE,
                   owner |-> IF left = "scan" THEN 1 ELSE NoSeq]
          /\ tx = IF sent /\ ~deferred
                  THEN [NoTx EXCEPT !.pending = TRUE, !.accepted = TRUE,
                                    !.timers = {1}, !.cookie = 1]
                  ELSE NoTx
          /\ lg = IF deferred THEN [pending |-> TRUE, seq |-> 1] ELSE NoLg
          /\ host = [n |-> 1, wait |-> TRUE, style |-> style,
                     body |-> [k \in Seqs |-> IF sent /\ k = 1 THEN b ELSE "none"]]
          /\ out = [ans |-> [NoReport EXCEPT ![1] = IF deferred THEN 0 ELSE 1],
                    sts |-> NoReport,
                    mlme |-> [NoReport EXCEPT ![1] = IF left = "session" THEN 1 ELSE 0],
                    disc |-> NoReport,
                    acc |-> IF sent /\ ~deferred THEN {1} ELSE {},
                    acked |-> {}, lost |-> {}, scans |-> {}]
  BY DEF Init
<1>1. /\ lib = StartedLib(mode, left, ap) /\ s = StartedSession(left, ap)
      /\ host.n = 1
      /\ out.mlme = [NoReport EXCEPT ![1] = IF left = "session" THEN 1 ELSE 0]
      /\ out.disc = NoReport
  BY <1>0
<1>2. cmd.pc = "idle"
  BY DEF Init, CmdIdle
<1>3. lib.since = 0
  BY <1>1 DEF StartedLib
<1>4. /\ out.mlme[1] = (IF left = "session" THEN 1 ELSE 0) /\ out.disc[1] = 0
      /\ \A k \in Seqs : k # 1 => out.mlme[k] = 0 /\ out.disc[k] = 0
      /\ 1 \in Seqs
  BY <1>1, SeqFacts DEF NoReport
<1>5. /\ NoSession.authGen = NoSeq /\ NoSession.assocGen = NoSeq
      /\ NoSession.connGen = NoSeq /\ NoSession.discGen = NoSeq
  BY DEF NoSession
<1>6. /\ s.assocGen = NoSeq /\ s.discGen = NoSeq
      /\ s.authGen \in {1, NoSeq} /\ (s.authGen = 1 => left = "auth")
      /\ s.connGen \in {1, NoSeq}
  <2>1. CASE left = "auth"
    BY <1>1, <2>1 DEF StartedSession, NoSession
  <2>2. CASE left = "session"
    <3>1. s = [NoSession EXCEPT !.connected = TRUE, !.connGen = 1]
      BY <1>1, <2>2 DEF StartedSession
    <3>2. QED
      BY <3>1, SeqFacts DEF NoSession
  <2>3. CASE left \notin {"auth", "session"}
    BY <1>1, <1>5, <2>3, SeqFacts DEF StartedSession
  <2>4. QED
    BY <2>1, <2>2, <2>3
<1>7. QED
  BY <1>1, <1>2, <1>3, <1>4, <1>6, SeqFacts DEF MlmeInv, Due, Requesting

\* The host never gets an authentication, association or disconnect event of
\* a request made before the last stop of the Wi-Fi, nor a second one for the
\* same request: the generation is taken out of the session with the event.
THEOREM MlmeEventsCurrent == Spec => MlmeCurrent
<1>1. Init => TypeOK /\ ControlInv /\ MlmeInv
  BY TypeInit, MlmeInit
<1>2. TypeOK /\ ControlInv /\ MlmeInv /\ [Next]_vars
      => (TypeOK /\ ControlInv /\ MlmeInv)' /\ MlmeStep
  BY TypeNext, MlmeNext
<1>3. QED
  BY <1>1, <1>2, PTL DEF Spec, MlmeCurrent, MlmeStep

=============================================================================
