----------------------------- MODULE FwCommand -----------------------------
(***************************************************************************)
(* The firmware's Wi-Fi command processor (network_adapter/main/cmd.c).    *)
(*                                                                         *)
(* Four contexts share its static variables: the command task (one host    *)
(* command at a time), the event loop (a FIFO), the callbacks that the     *)
(* Wi-Fi task makes, and the timer task.  The Wi-Fi library itself is      *)
(* external: `lib' keeps what cmd.c relies on, and its incarnation         *)
(* `lib.inc' tells the events of one esp_wifi_start from the next.         *)
(***************************************************************************)
EXTENDS Naturals, Sequences, FiniteSets

CONSTANTS
    Aps,         \* BSSIDs of access points
    NoAp,        \* the all-zero BSSID
    Bodies,      \* management frames that differ in header or body prefix
    Robust,      \* those that the library may encrypt
    Header,      \* frame type and addresses of a robust frame
    Ops,         \* the command codes the host uses
    Styles,      \* "marked" (asynchronous status) or "legacy" hosts
    Modes,       \* Wi-Fi modes the firmware may be in at the start
    MaxCmds,     \* bound: commands the host sends
    MaxFaults,   \* bound: calls that fail
    FaultKinds   \* which calls may fail

ASSUME MaxCmdsAssumption == MaxCmds \in Nat \ {0} /\ MaxFaults \in Nat
ASSUME ApAssumption == NoAp \notin Aps
ASSUME ModeAssumption == Modes \subseteq {"STA", "APSTA"}
ASSUME StyleAssumption == Styles \subseteq {"marked", "legacy"}
ASSUME RobustAssumption == Robust \subseteq Bodies

Seqs == 1..MaxCmds
NoSeq == 0

VARIABLES
    cmd,     \* the command task: where it is, the request, its call stack
    w,       \* the Wi-Fi life cycle flags
    sc,      \* scan ownership
    s,       \* the station session
    tx,      \* s_hosted_mgmt and s_hosted_mgmt_draining
    lg,      \* the legacy in-flight slot
    lib,     \* the Wi-Fi library
    evq,     \* the default event loop
    fin,     \* frames taken by a context that has not reported them yet
    host,    \* the host: requests sent, style, what each frame contained
    out,     \* what the host has been given
    up,      \* FALSE after esp_restart
    faults

vars == <<cmd, w, sc, s, tx, lg, lib, evq, fin, host, out, up, faults>>

-----------------------------------------------------------------------------
(* Data. *)

Requests ==
    [c : {"SCAN", "MGMT_TX", "MONITOR", "DEINIT", "INIT", "SET_MODE"},
     ap : {NoAp}, x : {"a", "b"}]
  \union [c : {"AUTH"}, ap : Aps, x : {"open", "commit", "confirm"}]
  \union [c : {"CONNECT"}, ap : Aps, x : {"a"}]
  \union [c : {"ASSOC", "DISCONNECT", "AP_CONFIG"}, ap : {NoAp}, x : {"a"}]

NoRequest == [c |-> "none", ap |-> NoAp, x |-> "a"]

\* x of a request that names an interface or a mode.
ModeOf(r) == IF r.x = "a" THEN "STA" ELSE "APSTA"

CmdIdle == [pc |-> "idle", seq |-> NoSeq, r |-> NoRequest, k |-> <<>>,
            err |-> FALSE, was |-> FALSE, cb |-> FALSE, old |-> "NULL"]

NoTx == [pending |-> FALSE, accepted |-> FALSE, completed |-> FALSE,
         ack |-> FALSE, cookie |-> NoSeq, draining |-> FALSE, timers |-> {}]

NoLg == [pending |-> FALSE, seq |-> NoSeq]

NoSession ==
    [ongoing |-> FALSE, connected |-> FALSE,
     authGen |-> NoSeq, assocGen |-> NoSeq, connGen |-> NoSeq,
     discGen |-> NoSeq, authBss |-> NoAp, assocBss |-> NoAp, apBss |-> NoAp]

\* The association fields every handler clears together.
NoAssoc(t) == [t EXCEPT !.ongoing = FALSE, !.assocGen = NoSeq, !.assocBss = NoAp]

Event(k, id) == [k |-> k, inc |-> lib.inc, id |-> id]

CanFail(kind) == kind \in FaultKinds /\ faults < MaxFaults

\* A call that returns an error only as one of the bounded faults.
Outcome(kind, bad) ==
    /\ bad => CanFail(kind)
    /\ faults' = IF bad THEN faults + 1 ELSE faults

Goto(pc) == [cmd EXCEPT !.pc = pc]
Respond == [cmd EXCEPT !.pc = "resp"]
\* A subroutine returns to the pc on top of the stack.
Return(err) == [cmd EXCEPT !.pc = Head(cmd.k), !.k = Tail(cmd.k), !.err = err]
Call(pc, k) == [cmd EXCEPT !.pc = pc, !.k = <<k>> \o cmd.k]

Restart == up' = FALSE

-----------------------------------------------------------------------------
(* Marked management frames: the single s_hosted_mgmt transaction. *)

\* Reports a transaction that its caller owns; an undeliverable status
\* restarts the firmware.
Report(k, ack, bad) ==
    /\ Outcome("send", bad)
    /\ up' = ~bad
    /\ out' = IF bad THEN out
              ELSE [out EXCEPT !.sts[k] = @ + 1,
                               !.acked = IF ack THEN @ \union {k} ELSE @]

\* Whoever takes the transaction clears it.  The timers of earlier frames stay:
\* xTimerStop only queues a request to the timer task, and its result is
\* ignored.  A timer that is stopped in time is one that never expires.
Cleared == [NoTx EXCEPT !.timers = tx.timers]

hosted_mgmt_begin(k) ==
    tx' = [Cleared EXCEPT !.pending = TRUE, !.cookie = k]

\* Mutant: the abort forgets the cookie.
AbortKeepsCookie == tx' = [tx EXCEPT !.pending = FALSE]

hosted_mgmt_abort_pending == tx' = Cleared

\* Fails and reports what is pending; with nothing pending it only ends a drain.
hosted_mgmt_fail_pending ==
    \/ /\ tx.pending
       /\ \E bad \in BOOLEAN : Report(tx.cookie, FALSE, bad)
       /\ tx' = Cleared
    \/ ~tx.pending /\ tx' = Cleared /\ UNCHANGED <<out, up, faults>>

\* Frames that the callback cannot tell apart once they are encrypted.
SameHeader(b, c) == b \in Robust /\ c \in Robust /\ Header[b] = Header[c]

\* The callback matches on header addresses and a prefix of the body; the body
\* of a protected frame is ciphertext and is not compared.
hosted_mgmt_data_matches(f, prot) ==
    IF prot THEN SameHeader(host.body[f], host.body[tx.cookie])
    ELSE host.body[f] = host.body[tx.cookie]

\* The destination address decides.  At most one tracked legacy frame is on the
\* air (AirInv), so comparing the bodies answers the same.
mgmt_tx_token_matches(f) == host.body[f] = host.body[lg.seq]

-----------------------------------------------------------------------------
(* hosted_wifi_stop: a barrier between two incarnations of the Wi-Fi. *)

\* A scan that is cancelled leaves a completion to be drained.
hosted_scan_abort ==
    /\ sc' = [sc EXCEPT !.run = FALSE, !.drain = @ \/ sc.run]
    /\ IF sc.run /\ lib.scan # NoSeq
       THEN /\ lib' = [lib EXCEPT !.scan = NoSeq]
            /\ evq' = Append(evq, Event("SCAN_DONE", lib.scan))
       ELSE UNCHANGED <<lib, evq>>

hosted_wifi_stop ==
    /\ cmd.pc = "stop"
    /\ w' = [w EXCEPT !.ack = FALSE, !.stopping = TRUE,
                      !.ackPend = w.started /\ lib.inited]
    /\ hosted_scan_abort
    /\ cmd' = Goto("esp_wifi_stop")
    /\ UNCHANGED <<s, tx, lg, fin, host, out, up, faults>>

\* What the library does when it stops: everything in flight is cancelled and
\* the producers are quiet, but STA_STOP is posted asynchronously.
StoppedEvents ==
    (IF lib.conn # "idle" THEN <<Event("DISCONNECTED", NoSeq)>> ELSE <<>>)
 \o (IF lib.scan # NoSeq THEN <<Event("SCAN_DONE", lib.scan)>> ELSE <<>>)
 \o (IF lib.on /\ lib.mode = "APSTA" THEN <<Event("AP_STOP", NoSeq)>> ELSE <<>>)

StoppedLib ==
    [lib EXCEPT !.on = FALSE, !.conn = "idle", !.scan = NoSeq, !.air = {},
                !.since = cmd.seq, !.staStop = IF lib.on THEN lib.inc ELSE @]

\* Mutant: the stop leaves the request generations.
GenerationsKept == [s EXCEPT !.ongoing = FALSE]

\* What the stop clears in the session: both BSSIDs of an earlier request stay.
RetiredSession ==
    [NoSession EXCEPT !.authBss = s.authBss, !.apBss = s.apBss]

\* The legacy waiter is failed: its callback will not come.
mgmt_tx_fail_pending(lose) ==
    /\ lg' = NoLg
    /\ out' = CASE ~lg.pending -> out
                [] lg.pending /\ lose -> [out EXCEPT !.lost = @ \union {lg.seq}]
                [] OTHER -> [out EXCEPT !.ans[lg.seq] = @ + 1]

\* A radio that was not running may be reported as such: the state is reconciled
\* all the same, but to SET_MODE and AP_CONFIG this is an error.
StopReturns ==
    /\ cmd.pc = "esp_wifi_stop"
    /\ \E fault \in {"none", "stop", "send"}, idle \in BOOLEAN :
         /\ Outcome(fault, fault # "none")
         /\ idle => fault # "stop" /\ ~lib.on /\ Head(cmd.k) \in {"mode", "rolledBack"}
         /\ IF fault = "stop"
            THEN /\ UNCHANGED <<w, s, lg, lib, evq, out>>
                 /\ cmd' = [Goto("fence") EXCEPT !.err = TRUE]
            ELSE /\ w' = [w EXCEPT !.started = FALSE, !.apUp = FALSE,
                                   !.staInit = FALSE, !.cb = FALSE]
                 /\ s' = RetiredSession
                 /\ mgmt_tx_fail_pending(fault = "send")
                 /\ lib' = StoppedLib
                 /\ evq' = evq \o StoppedEvents
                 /\ cmd' = [Goto(IF w.ackPend /\ ~idle THEN "stopAck" ELSE "fence")
                              EXCEPT !.err = idle]
    /\ UNCHANGED <<sc, tx, fin, host, up>>

\* Mutant: the stop does not wait for STA_STOP.
NoStaStopWait ==
    /\ cmd.pc = "stopAck"
    /\ cmd' = Goto("fence")
    /\ UNCHANGED <<w, sc, s, tx, lg, lib, evq, fin, host, out, up, faults>>

\* The wait for STA_STOP ends with its event, or the budget of the command is
\* used up and the firmware restarts.
StaStopAcked ==
    /\ cmd.pc = "stopAck"
    /\ \/ w.ack /\ cmd' = Goto("fence") /\ UNCHANGED <<up, faults>>
       \/ ~w.ack /\ Outcome("slow", TRUE) /\ Restart /\ UNCHANGED cmd
    /\ UNCHANGED <<w, sc, s, tx, lg, lib, evq, fin, host, out>>

PostFence ==
    /\ cmd.pc = "fence"
    /\ w' = [w EXCEPT !.ackPend = FALSE, !.ack = FALSE]
    /\ \E bad \in BOOLEAN :
         /\ Outcome("slow", bad)
         /\ up' = ~bad
         /\ evq' = IF bad THEN evq ELSE Append(evq, Event("FENCE", NoSeq))
    /\ cmd' = Goto("fenceAck")
    /\ UNCHANGED <<sc, s, tx, lg, lib, fin, host, out>>

FenceAcked ==
    /\ cmd.pc = "fenceAck"
    /\ \/ /\ w.ack
          /\ w' = [w EXCEPT !.stopping = FALSE, !.ack = FALSE]
          /\ cmd' = Return(cmd.err)
          /\ UNCHANGED <<up, faults>>
       \/ ~w.ack /\ Outcome("slow", TRUE) /\ Restart /\ UNCHANGED <<w, cmd>>
    /\ UNCHANGED <<sc, s, tx, lg, lib, evq, fin, host, out>>

-----------------------------------------------------------------------------
(* hosted_wifi_start *)

StartedEvents(mode, inc) ==
    <<[k |-> "STA_START", inc |-> inc, id |-> NoSeq]>>
 \o IF mode = "APSTA" THEN <<[k |-> "AP_START", inc |-> inc, id |-> NoSeq]>>
    ELSE <<>>

\* The START events may be dispatched before esp_wifi_start returns.
hosted_wifi_start ==
    /\ cmd.pc = "start"
    /\ \E bad \in BOOLEAN :
         /\ Outcome("start", bad)
         /\ IF bad \/ lib.on
            THEN UNCHANGED <<lib, evq>>
            ELSE /\ lib' = [lib EXCEPT !.on = TRUE, !.inc = @ + 1]
                 /\ evq' = evq \o StartedEvents(lib.mode, lib.inc + 1)
         /\ cmd' = IF bad THEN Return(TRUE) ELSE Goto("started")
    /\ UNCHANGED <<w, sc, s, tx, lg, fin, host, out, up>>

channel_transition_active == s.ongoing \/ sc.run

\* The callback and the monitor must be restored, or the Wi-Fi stops again.
StartReturns ==
    /\ cmd.pc = "started"
    /\ \E bad \in BOOLEAN :
         /\ Outcome("cb", bad)
         /\ w' = [w EXCEPT !.started = TRUE, !.cb = ~bad]
         /\ cmd' = IF bad \/ (w.mon /\ channel_transition_active)
                   THEN Call("stop", "startFailed")
                   ELSE Return(FALSE)
    /\ UNCHANGED <<sc, s, tx, lg, lib, evq, fin, host, out, up>>

StartFailed ==
    /\ cmd.pc = "startFailed"
    /\ cmd' = Return(TRUE)
    /\ UNCHANGED <<w, sc, s, tx, lg, lib, evq, fin, host, out, up, faults>>

\* A mode change of a running Wi-Fi starts the access point at once.
SetMode(mode) ==
    /\ lib' = [lib EXCEPT !.mode = mode]
    /\ evq' = IF lib.on /\ mode = "APSTA" /\ lib.mode # "APSTA"
              THEN Append(evq, Event("AP_START", NoSeq)) ELSE evq

\* esp_wifi_disconnect and wifi_deauthenticate_sta.
Left(l) == [l EXCEPT !.conn = "idle"]
LeftEvents(l, q) ==
    IF l.conn = "idle" THEN q ELSE Append(q, Event("DISCONNECTED", NoSeq))

-----------------------------------------------------------------------------
(* The command task: one action per step of a handler between two points   *)
(* where another context can see or change what it uses.                    *)

At(pc) == cmd.pc = pc

\* esp_cmd_dispatch.  The host keeps one command in flight.
Waiting == host.wait /\ out.ans[host.n] = 0

esp_cmd_dispatch ==
    /\ At("idle") /\ ~Waiting /\ host.n < MaxCmds
    /\ \E r \in Requests, b \in Bodies :
         /\ r.c \in Ops
         /\ cmd' = [CmdIdle EXCEPT !.pc = r.c, !.r = r, !.seq = host.n + 1]
         /\ host' = [host EXCEPT
              !.n = @ + 1, !.wait = TRUE,
              !.body[host.n + 1] =
                  CASE r.c # "MGMT_TX" -> "none"
                    [] r.x = "b" /\ host.style = "legacy" -> "broadcast"
                    [] OTHER -> b]
    /\ UNCHANGED <<w, sc, s, tx, lg, lib, evq, fin, out, up, faults>>

\* The host's command timeout.
HostGivesUp ==
    /\ At("idle") /\ Waiting
    /\ host' = [host EXCEPT !.wait = FALSE]
    /\ UNCHANGED <<cmd, w, sc, s, tx, lg, lib, evq, fin, out, up, faults>>

Answered == [out EXCEPT !.ans[cmd.seq] = @ + 1]
Lost == [out EXCEPT !.lost = @ \union {cmd.seq}]

\* A lost INIT response takes the Wi-Fi down again.
send_command_resp ==
    /\ At("resp")
    /\ \E bad \in BOOLEAN :
         /\ Outcome("send", bad)
         /\ out' = IF bad THEN Lost ELSE Answered
         /\ cmd' = IF bad /\ cmd.r.c = "INIT" THEN Call("stop", "deinitialize")
                   ELSE CmdIdle
    /\ UNCHANGED <<w, sc, s, tx, lg, lib, evq, fin, host, up>>

\* esp_wifi_deinit refuses a radio that did not stop.
deinitialize_wifi ==
    /\ At("deinitialize")
    /\ lib' = IF lib.on THEN lib
              ELSE [lib EXCEPT !.inited = FALSE, !.mode = "NULL"]
    /\ cmd' = CmdIdle
    /\ UNCHANGED <<w, sc, s, tx, lg, evq, fin, host, out, up, faults>>

-----------------------------------------------------------------------------
(* Scan and monitor *)

\* While a monitor captures, only a scan of its own channel (x = "a") is
\* allowed.
monitor_channel_allowed == ~w.mon \/ cmd.r.x = "a"

process_start_scan ==
    /\ At("SCAN")
    /\ IF /\ ~sc.run /\ ~sc.drain /\ monitor_channel_allowed
          /\ w.started /\ ~w.stopping /\ lib.mode # "NULL"
       THEN /\ sc' = [sc EXCEPT !.run = TRUE, !.owner = cmd.seq]
            /\ cmd' = Goto("scanStart")
       ELSE cmd' = Respond /\ UNCHANGED sc
    /\ UNCHANGED <<w, s, tx, lg, lib, evq, fin, host, out, up, faults>>

\* Ownership was published before the library starts to scan.
ScanStart ==
    /\ At("scanStart")
    /\ \E bad \in BOOLEAN :
         /\ Outcome("radio", bad)
         /\ IF bad \/ lib.scan # NoSeq
            THEN sc' = [sc EXCEPT !.run = FALSE] /\ UNCHANGED lib
            ELSE lib' = [lib EXCEPT !.scan = cmd.seq] /\ UNCHANGED sc
    /\ cmd' = Respond
    /\ UNCHANGED <<w, s, tx, lg, evq, fin, host, out, up>>

\* Capture is enabled on the channel of a running radio only; a call that
\* fails is rolled back, and a rollback that fails restarts the firmware.
esp_hosted_monitor_config(enable, bad) ==
    CASE bad -> w.mon
      [] ~bad /\ ~enable -> FALSE
      [] OTHER -> w.mon \/ (lib.on /\ ~channel_transition_active)

process_monitor_config ==
    /\ At("MONITOR")
    /\ \E bad \in BOOLEAN :
         /\ Outcome("radio", bad)
         /\ w' = [w EXCEPT !.mon = esp_hosted_monitor_config(cmd.r.x = "a", bad)]
         /\ up' \in IF bad THEN BOOLEAN ELSE {TRUE}
    /\ cmd' = Respond
    /\ UNCHANGED <<sc, s, tx, lg, lib, evq, fin, host, out>>

-----------------------------------------------------------------------------
(* Authentication and association *)

\* SAE confirm and a commit retry for the same BSSID continue an attempt.
AuthContinues ==
    cmd.r.x = "confirm" \/ (cmd.r.x = "commit" /\ lib.peer = cmd.r.ap)

\* The generation and the BSSIDs are written one after the other, while the
\* Wi-Fi task reads them.
process_auth_request ==
    /\ At("AUTH")
    /\ IF s.ongoing /\ ~AuthContinues
       THEN cmd' = Respond /\ UNCHANGED s
       ELSE s' = [s EXCEPT !.authGen = cmd.seq] /\ cmd' = Goto("authBss")
    /\ UNCHANGED <<w, sc, tx, lg, lib, evq, fin, host, out, up, faults>>

AuthBssid ==
    /\ At("authBss")
    /\ s' = [s EXCEPT !.authBss = cmd.r.ap, !.assocBss = cmd.r.ap]
    /\ cmd' = Goto("authSend")
    /\ UNCHANGED <<w, sc, tx, lg, lib, evq, fin, host, out, up, faults>>

AuthRejected(t) == [t EXCEPT !.authGen = NoSeq, !.authBss = NoAp]

\* A continuation sends its frame; a new attempt first looks the AP up, which
\* an explicit scan forbids.
AuthSend ==
    /\ At("authSend")
    /\ LET continue == cmd.r.x = "confirm" \/ (s.ongoing /\ cmd.r.x = "commit")
           refused == IF continue THEN lib.conn # "auth" ELSE sc.run \/ sc.drain
       IN \E bad \in BOOLEAN :
            /\ Outcome("radio", bad)
            /\ bad => continue
            /\ s' = IF bad \/ refused THEN AuthRejected(s) ELSE s
            /\ cmd' = CASE bad \/ refused -> Respond
                        [] continue -> Goto("authDone")
                        [] OTHER -> Goto("authLookup")
            /\ sc' = [sc EXCEPT !.auth = ~(bad \/ refused \/ continue)]
    /\ UNCHANGED <<w, tx, lg, lib, evq, fin, host, out, up>>

\* The blocking lookup ends; when the AP was found esp_wifi_connect follows.
AuthConnect ==
    /\ At("authLookup")
    /\ sc' = [sc EXCEPT !.auth = FALSE]
    /\ \E found, bad \in BOOLEAN :
         /\ found => lib.on
         /\ bad => found
         /\ Outcome("radio", bad)
         /\ LET ok == found /\ ~bad /\ lib.conn = "idle"
            IN /\ s' = IF ok THEN [s EXCEPT !.apBss = cmd.r.ap]
                       ELSE AuthRejected(IF found THEN [s EXCEPT !.apBss = cmd.r.ap]
                                         ELSE s)
               /\ lib' = [lib EXCEPT !.peer = IF found THEN cmd.r.ap ELSE @,
                                     !.conn = IF ok THEN "auth" ELSE @]
               /\ cmd' = IF ok THEN Goto("authDone") ELSE Respond
    /\ UNCHANGED <<w, tx, lg, evq, fin, host, out, up>>

AuthDone ==
    /\ At("authDone")
    /\ s' = [s EXCEPT !.ongoing = TRUE]
    /\ cmd' = Respond
    /\ UNCHANGED <<w, sc, tx, lg, lib, evq, fin, host, out, up, faults>>

\* The flags are set before the request is sent, and cleared when it fails;
\* a failure before that, of the IE setting, leaves them.
process_assoc_request ==
    /\ At("ASSOC")
    /\ \E bad \in BOOLEAN :
         /\ Outcome("radio", bad)
         /\ bad => s.assocGen = NoSeq
         /\ LET ok == ~bad /\ lib.conn \in {"auth", "up"}
            IN IF s.assocGen # NoSeq
               THEN UNCHANGED <<s, lib>>
               ELSE /\ \/ s' = IF ok THEN [s EXCEPT !.ongoing = TRUE,
                                                    !.assocGen = cmd.seq,
                                                    !.assocBss = lib.peer]
                               ELSE NoAssoc(s)
                       \/ bad /\ s' = s
                    /\ lib' = IF ok THEN [lib EXCEPT !.conn = "assoc"] ELSE lib
    /\ cmd' = Respond
    /\ UNCHANGED <<w, sc, tx, lg, evq, fin, host, out, up>>

process_sta_connect ==
    /\ At("CONNECT")
    /\ lib' = IF lib.inited THEN [lib EXCEPT !.peer = cmd.r.ap] ELSE lib
    /\ cmd' = IF lib.inited THEN Call("start", "connect") ELSE Respond
    /\ UNCHANGED <<w, sc, s, tx, lg, evq, fin, host, out, up, faults>>

ConnectStarted ==
    /\ At("connect")
    /\ \E bad \in BOOLEAN :
         /\ Outcome("radio", bad)
         /\ bad => ~cmd.err
         /\ LET ok == ~bad /\ lib.conn = "idle"
            IN IF cmd.err
               THEN UNCHANGED <<s, lib>>
               ELSE /\ s' = IF ok THEN [s EXCEPT !.ongoing = TRUE,
                                                 !.assocGen = cmd.seq,
                                                 !.assocBss = cmd.r.ap]
                            ELSE NoAssoc(s)
                    /\ lib' = IF ok THEN [lib EXCEPT !.conn = "assoc"] ELSE lib
    /\ cmd' = Respond
    /\ UNCHANGED <<w, sc, tx, lg, evq, fin, host, out, up>>

process_disconnect ==
    /\ At("DISCONNECT")
    /\ IF w.staInit /\ (s.connected \/ s.ongoing)
       THEN /\ s' = [NoAssoc(s) EXCEPT !.discGen = cmd.seq]
            /\ lib' = Left(lib) /\ evq' = LeftEvents(lib, evq)
       ELSE UNCHANGED <<s, lib, evq>>
    /\ cmd' = Respond
    /\ UNCHANGED <<w, sc, tx, lg, fin, host, out, up, faults>>

-----------------------------------------------------------------------------
(* Interfaces and modes: every handler that stops and starts the Wi-Fi. *)

\* For the AP the station is disconnected first; then the mode may fail, or the
\* reset of the station's configuration when the mode is already set.
process_init_interface ==
    /\ At("INIT")
    /\ \E fault \in {"none", "mode", "config"} :
         LET mode == ModeOf(cmd.r)
             left == mode = "APSTA"
             change == lib.inited /\ (~w.started \/ (left /\ lib.mode # "APSTA"))
             set == change /\ fault # "mode"
         IN /\ Outcome("mode", fault # "none")
            /\ fault # "none" => change
            /\ fault = "config" => left
            /\ lib' = [IF change /\ left THEN Left(lib) ELSE lib
                          EXCEPT !.mode = IF set THEN mode ELSE @]
            /\ evq' = (IF change /\ left THEN LeftEvents(lib, evq) ELSE evq)
                      \o (IF set /\ left /\ lib.on
                          THEN <<Event("AP_START", NoSeq)>> ELSE <<>>)
            /\ cmd' = IF change /\ fault = "none" THEN Call("start", "resp") ELSE Respond
    /\ UNCHANGED <<w, sc, s, tx, lg, fin, host, out, up>>

process_deinit_interface ==
    /\ At("DEINIT")
    /\ hosted_mgmt_fail_pending
    /\ cmd' = Goto("retire")
    /\ UNCHANGED <<w, sc, s, lg, lib, evq, fin, host>>

\* An idle station under a monitor keeps the radio; anything else stops it.
monitor_sta_idle ==
    /\ ModeOf(cmd.r) = "STA" /\ w.mon /\ w.started /\ ~w.stopping
    /\ ~s.ongoing /\ ~sc.run /\ ~sc.drain /\ ~sc.auth
    /\ lib.mode = "STA" /\ lib.conn # "up"

DeinitRetires ==
    /\ At("retire")
    /\ IF ModeOf(cmd.r) = "STA"
       THEN lib' = Left(lib) /\ evq' = LeftEvents(lib, evq)
       ELSE UNCHANGED <<lib, evq>>
    /\ s' = RetiredSession
    /\ cmd' = CASE ~w.mon -> Call("stop", "deinit")
                [] monitor_sta_idle -> Respond
                [] OTHER -> Call("stop", "rebuild")
    /\ UNCHANGED <<w, sc, tx, lg, fin, host, out, up, faults>>

\* A monitor gets the Wi-Fi back in station mode; a step that fails, as each
\* does without an initialised library, restarts the firmware.
MonitorRebuild ==
    /\ At("rebuild")
    /\ \E bad \in BOOLEAN :
         /\ Outcome("mode", bad)
         /\ up' = ~(bad \/ cmd.err \/ ~lib.inited)
         /\ SetMode("STA")
    /\ cmd' = Call("start", "deinit")
    /\ UNCHANGED <<w, sc, s, tx, lg, fin, host, out>>

DeinitDone ==
    /\ At("deinit")
    /\ up' = ~cmd.err
    /\ cmd' = Respond
    /\ UNCHANGED <<w, sc, s, tx, lg, lib, evq, fin, host, out, faults>>

Target == IF cmd.r.c = "AP_CONFIG" THEN "APSTA" ELSE ModeOf(cmd.r)

Snapshot(c) == [c EXCEPT !.was = w.started, !.cb = w.cb, !.old = lib.mode,
                         !.err = FALSE]

process_set_mode ==
    /\ At("SET_MODE")
    /\ cmd' = CASE ~lib.inited -> Respond
                [] /\ lib.inited /\ lib.mode = Target /\ w.started
                   /\ (Target = "APSTA" => w.cb) -> Respond
                [] lib.inited /\ lib.mode # Target -> Snapshot(Call("stop", "mode"))
                [] OTHER -> Snapshot(Goto("modeCb"))
    /\ UNCHANGED <<w, sc, s, tx, lg, lib, evq, fin, host, out, up, faults>>

process_set_ap_config ==
    /\ At("AP_CONFIG")
    /\ cmd' = IF lib.inited THEN Snapshot(Call("stop", "mode")) ELSE Respond
    /\ UNCHANGED <<w, sc, s, tx, lg, lib, evq, fin, host, out, up, faults>>

ModeStopped ==
    /\ At("mode")
    /\ \E bad \in BOOLEAN :
         /\ Outcome("mode", bad)
         /\ bad => ~cmd.err
         /\ IF cmd.err \/ bad THEN UNCHANGED <<lib, evq>> ELSE SetMode(Target)
         /\ cmd' = CASE cmd.err -> Respond
                     [] bad -> Goto("rollback")
                     [] OTHER -> Goto("modeCb")
    /\ UNCHANGED <<w, sc, s, tx, lg, fin, host, out, up>>

ModeCallback ==
    /\ At("modeCb")
    /\ \E bad \in BOOLEAN :
         /\ Outcome("cb", bad)
         /\ bad => Target = "APSTA" /\ ~w.cb
         /\ w' = [w EXCEPT !.cb = @ \/ (Target = "APSTA" /\ ~bad)]
         /\ cmd' = CASE bad -> Goto("rollback")
                     [] ~bad /\ ~w.started -> Call("start", "modeDone")
                     [] OTHER -> Goto("modeDone")
    /\ UNCHANGED <<sc, s, tx, lg, lib, evq, fin, host, out, up>>

\* Only a committed transition fails the pending management frame.
ModeDone ==
    /\ At("modeDone")
    /\ IF cmd.err
       THEN cmd' = Goto("rollback") /\ UNCHANGED <<tx, out, up, faults>>
       ELSE cmd' = Respond /\ hosted_mgmt_fail_pending
    /\ UNCHANGED <<w, sc, s, lg, lib, evq, fin, host>>

ModeRollback ==
    /\ At("rollback")
    /\ \E bad \in BOOLEAN : Outcome("mode", bad) /\ up' = ~bad
    /\ SetMode(cmd.old)
    /\ w' = [w EXCEPT !.cb = @ /\ cmd.cb]
    /\ cmd' = [CASE cmd.was /\ ~w.started -> Call("start", "rolledBack")
                 [] ~cmd.was /\ w.started -> Call("stop", "rolledBack")
                 [] OTHER -> Goto("rolledBack")
                EXCEPT !.err = FALSE]
    /\ UNCHANGED <<sc, s, tx, lg, fin, host, out>>

\* A rollback that fails restarts the firmware.
ModeRolledBack ==
    /\ At("rolledBack")
    /\ up' = ~cmd.err
    /\ cmd' = Respond
    /\ UNCHANGED <<w, sc, s, tx, lg, lib, evq, fin, host, out, faults>>

-----------------------------------------------------------------------------
(* Management transmission of a host that asks for asynchronous status.     *)
(* x = "a" is a unicast frame that waits for its acknowledgement.           *)

Tracked == cmd.r.x = "a"
Marked == host.style = "marked"

\* ensure_cb may fail, which answers BUSY.
process_mgmt_tx ==
    /\ At("MGMT_TX") /\ Marked
    /\ \E bad \in BOOLEAN :
         LET admitted == w.apUp /\ ~tx.pending /\ ~tx.draining
         IN /\ Outcome("cb", bad)
            /\ bad => admitted /\ ~w.cb
            /\ IF admitted /\ ~bad
               THEN /\ w' = [w EXCEPT !.cb = TRUE]
                    /\ IF Tracked THEN hosted_mgmt_begin(cmd.seq) ELSE UNCHANGED tx
                    /\ cmd' = Goto("mgmtSend")
               ELSE cmd' = Respond /\ UNCHANGED <<w, tx>>
    /\ UNCHANGED <<sc, s, lg, lib, evq, fin, host, out, up>>

Transmit(bad) == IF bad THEN lib' = lib
                 ELSE lib' = [lib EXCEPT !.air = @ \union {cmd.seq}]

MgmtSend ==
    /\ At("mgmtSend")
    /\ \E bad \in BOOLEAN :
         /\ Outcome("tx", bad)
         /\ Transmit(bad)
         /\ IF bad /\ Tracked THEN hosted_mgmt_abort_pending ELSE UNCHANGED tx
         /\ cmd' = IF bad THEN Respond ELSE Goto("mgmtAccept")
    /\ UNCHANGED <<w, sc, s, lg, evq, fin, host, out, up>>

hosted_send_mgmt_accept ==
    /\ At("mgmtAccept")
    /\ \E bad \in BOOLEAN :
         /\ Outcome("send", bad)
         /\ IF bad /\ Tracked THEN hosted_mgmt_abort_pending ELSE UNCHANGED tx
         /\ out' = IF bad THEN Lost
                   ELSE [Answered EXCEPT !.acc = @ \union {cmd.seq}]
         /\ cmd' = CASE bad -> CmdIdle
                     [] ~bad /\ Tracked -> Goto("mgmtTimer")
                     [] OTHER -> Goto("mgmtStatus")
    /\ UNCHANGED <<w, sc, s, lg, lib, evq, fin, host, up>>

OwnPending == tx.pending /\ tx.cookie = cmd.seq

\* Mutant: the acceptance does not start the timer.
TimerNotStarted ==
    /\ At("mgmtTimer")
    /\ cmd' = Goto("mgmtAccepted")
    /\ UNCHANGED <<w, sc, s, tx, lg, lib, evq, fin, host, out, up, faults>>

\* The timer starts only after the acceptance.
MgmtTimer ==
    /\ At("mgmtTimer")
    /\ \E bad \in BOOLEAN :
         /\ Outcome("timer", bad)
         /\ bad => OwnPending
         /\ IF OwnPending /\ ~bad
            THEN tx' = [tx EXCEPT !.timers = @ \union {cmd.seq}] /\ cmd' = Goto("mgmtAccepted")
            ELSE UNCHANGED tx /\ cmd' = Goto("mgmtUntimed")
    /\ UNCHANGED <<w, sc, s, lg, lib, evq, fin, host, out, up>>

\* Without a timer, the frame is reported at once if it is still pending.
MgmtUntimed ==
    /\ At("mgmtUntimed")
    /\ IF tx.pending
       THEN tx' = Cleared /\ \E bad \in BOOLEAN : Report(tx.cookie, FALSE, bad)
       ELSE UNCHANGED <<tx, out, up, faults>>
    /\ cmd' = CmdIdle
    /\ UNCHANGED <<w, sc, s, lg, lib, evq, fin, host>>

\* A callback that came before the acceptance left its result behind.
hosted_mgmt_mark_accepted ==
    /\ At("mgmtAccepted")
    /\ CASE OwnPending /\ tx.completed ->
              /\ \E bad \in BOOLEAN : Report(cmd.seq, tx.ack, bad)
              /\ tx' = Cleared
         [] OwnPending /\ ~tx.completed ->
              tx' = [tx EXCEPT !.accepted = TRUE] /\ UNCHANGED <<out, up, faults>>
         [] OTHER -> UNCHANGED <<tx, out, up, faults>>
    /\ cmd' = CmdIdle
    /\ UNCHANGED <<w, sc, s, lg, lib, evq, fin, host>>

\* A frame nobody waits for is reported unacknowledged, best effort.
MgmtStatus ==
    /\ At("mgmtStatus")
    /\ \E bad \in BOOLEAN :
         /\ Outcome("send", bad)
         /\ out' = IF bad THEN out ELSE [out EXCEPT !.sts[cmd.seq] = @ + 1]
    /\ cmd' = CmdIdle
    /\ UNCHANGED <<w, sc, s, tx, lg, lib, evq, fin, host, up>>

\* The callback of timer t takes whatever is pending, its own frame or a later
\* one, and starts the drain in the same section.
hosted_mgmt_take_timeout(t) ==
    IF tx.pending
    THEN /\ tx' = [NoTx EXCEPT !.draining = TRUE, !.timers = tx.timers \ {t}]
         /\ fin' = fin \union {[k |-> tx.cookie, ack |-> FALSE,
                                by |-> IF t = tx.cookie THEN "timer" ELSE "stale"]}
    ELSE tx' = [tx EXCEPT !.timers = @ \ {t}] /\ UNCHANGED fin

\* One timer task runs all callbacks.
hosted_mgmt_timeout_cb(t) ==
    /\ \A f \in fin : f.by = "wifi"
    /\ hosted_mgmt_take_timeout(t)
    /\ UNCHANGED <<cmd, w, sc, s, lg, lib, evq, host, out, up, faults>>

TimerTask == \E t \in tx.timers : hosted_mgmt_timeout_cb(t)

\* The timer task restarts the firmware after its report.
hosted_mgmt_finish_owned ==
    /\ \E f \in fin, bad \in BOOLEAN :
         /\ Outcome("send", bad)
         /\ out' = IF bad THEN out
                   ELSE [out EXCEPT !.sts[f.k] = @ + 1,
                                    !.acked = IF f.ack THEN @ \union {f.k} ELSE @]
         /\ up' = ~(bad \/ f.by # "wifi")
         /\ fin' = fin \ {f}
    /\ UNCHANGED <<cmd, w, sc, s, tx, lg, lib, evq, host>>

-----------------------------------------------------------------------------
(* Legacy hosts: the response itself is deferred to the callback. *)

\* Mutant: a second frame takes the slot of the first.
InflightOverwritten ==
    lg' = [pending |-> TRUE, seq |-> cmd.seq] /\ cmd' = Goto("lgSend")

mgmt_tx_inflight_begin ==
    IF lg.pending
    THEN cmd' = Respond /\ UNCHANGED lg
    ELSE lg' = [pending |-> TRUE, seq |-> cmd.seq] /\ cmd' = Goto("lgSend")

process_mgmt_tx_unmarked ==
    /\ At("MGMT_TX") /\ ~Marked
    /\ \E bad \in BOOLEAN :
         /\ Outcome("cb", bad)
         /\ bad => w.apUp /\ ~w.cb
         /\ IF w.apUp /\ ~bad
            THEN w' = [w EXCEPT !.cb = TRUE] /\ mgmt_tx_inflight_begin
            ELSE cmd' = Respond /\ UNCHANGED <<w, lg>>
    /\ UNCHANGED <<sc, s, tx, lib, evq, fin, host, out, up>>

UnmarkedSend ==
    /\ At("lgSend")
    /\ \E bad \in BOOLEAN :
         /\ Outcome("tx", bad)
         /\ Transmit(bad)
         /\ IF bad \/ ~Tracked
            THEN lg' = NoLg /\ cmd' = Respond
            ELSE UNCHANGED lg /\ cmd' = CmdIdle
    /\ UNCHANGED <<w, sc, s, tx, evq, fin, host, out, up>>

-----------------------------------------------------------------------------
(* The Wi-Fi task: completed transmissions *)

\* Mutant: a completion is reported before its frame was accepted.
CallbackBeforeAccept(f, prot, ack) ==
    /\ IF hosted_mgmt_data_matches(f, prot)
       THEN /\ tx' = Cleared
            /\ fin' = fin \union {[k |-> tx.cookie, ack |-> ack, by |-> "wifi"]}
       ELSE UNCHANGED <<tx, fin>>
    /\ UNCHANGED <<lg, out, faults>>

mgmt_txcb_marked(f, prot, ack) ==
    /\ CASE ~hosted_mgmt_data_matches(f, prot) -> UNCHANGED <<tx, fin>>
         [] hosted_mgmt_data_matches(f, prot) /\ ~tx.accepted ->
              tx' = [tx EXCEPT !.completed = TRUE, !.ack = ack] /\ UNCHANGED fin
         [] OTHER ->
              /\ tx' = Cleared
              /\ fin' = fin \union {[k |-> tx.cookie, ack |-> ack, by |-> "wifi"]}
    /\ UNCHANGED <<lg, out, faults>>

\* A broadcast was answered when it was sent; its late callback takes nothing.
mgmt_txcb_unmarked(f) ==
    /\ IF lg.pending /\ host.body[f] # "broadcast" /\ mgmt_tx_token_matches(f)
       THEN /\ lg' = NoLg
            /\ \E bad \in BOOLEAN :
                 /\ Outcome("send", bad)
                 /\ out' = IF bad THEN [out EXCEPT !.lost = @ \union {lg.seq}]
                           ELSE [out EXCEPT !.ans[lg.seq] = @ + 1]
       ELSE UNCHANGED <<lg, out, faults>>
    /\ UNCHANGED <<tx, fin>>

\* A drain swallows one completion.  Without our callback the library keeps
\* the completion to itself.  Only robust frames are sent protected.
mgmt_txcb ==
    /\ \E f \in lib.air, prot, ack \in BOOLEAN :
         /\ prot => host.body[f] \in Robust
         /\ ack => host.body[f] # "broadcast"
         /\ lib' = [lib EXCEPT !.air = @ \ {f},
                               !.acked = IF ack THEN @ \union {f} ELSE @]
         /\ CASE ~w.cb -> UNCHANGED <<tx, lg, fin, out, faults>>
              [] w.cb /\ tx.draining ->
                   /\ tx' = [tx EXCEPT !.draining = FALSE]
                   /\ UNCHANGED <<lg, fin, out, faults>>
              [] w.cb /\ ~tx.draining /\ tx.pending -> mgmt_txcb_marked(f, prot, ack)
              [] OTHER -> mgmt_txcb_unmarked(f)
    /\ UNCHANGED <<cmd, w, sc, s, evq, host, up>>

-----------------------------------------------------------------------------
(* The Wi-Fi task: received management frames *)

\* An AUTH frame answers the outstanding request of its sender only.
sta_rx_auth ==
    /\ lib.on /\ s.authGen # NoSeq
    /\ \E ap \in Aps, bad \in BOOLEAN :
         /\ s.authBss = ap
         /\ Outcome("send", bad)
         /\ up' = ~bad
         /\ out' = IF bad THEN out ELSE [out EXCEPT !.mlme[s.authGen] = @ + 1]
    /\ s' = [s EXCEPT !.authGen = NoSeq, !.authBss = NoAp]
    /\ UNCHANGED <<cmd, w, sc, tx, lg, lib, evq, fin, host>>

\* The association response of the library's peer.
is_valid_assoc_resp == s.assocGen # NoSeq /\ s.assocBss = lib.peer

sta_rx_assoc(ok) ==
    IF is_valid_assoc_resp
    THEN \E bad \in BOOLEAN :
           /\ Outcome("send", bad)
           /\ up' = ~bad
           /\ out' = IF bad THEN out ELSE [out EXCEPT !.mlme[s.assocGen] = @ + 1]
           /\ s' = [s EXCEPT !.connGen = CASE ok -> s.assocGen
                                           [] ~ok /\ ~s.connected -> NoSeq
                                           [] OTHER -> @,
                             !.ongoing = @ /\ ok,
                             !.assocGen = NoSeq, !.assocBss = NoAp]
    ELSE UNCHANGED <<s, out, up, faults>>

AssocResponse ==
    /\ lib.conn = "assoc"
    /\ \E ok \in BOOLEAN :
         /\ sta_rx_assoc(ok)
         /\ IF ok THEN lib' = [lib EXCEPT !.conn = "joined"] /\ UNCHANGED evq
            ELSE lib' = Left(lib) /\ evq' = LeftEvents(lib, evq)
    /\ UNCHANGED <<cmd, w, sc, tx, lg, fin, host>>

-----------------------------------------------------------------------------
(* The library posts events *)

LibConnected ==
    /\ lib.conn = "joined"
    /\ lib' = [lib EXCEPT !.conn = "up"]
    /\ evq' = Append(evq, Event("CONNECTED", NoSeq))
    /\ UNCHANGED <<cmd, w, sc, s, tx, lg, fin, host, out, up, faults>>

LibDisconnected ==
    /\ lib.conn # "idle"
    /\ lib' = Left(lib) /\ evq' = LeftEvents(lib, evq)
    /\ UNCHANGED <<cmd, w, sc, s, tx, lg, fin, host, out, up, faults>>

LibScanDone ==
    /\ lib.scan # NoSeq
    /\ lib' = [lib EXCEPT !.scan = NoSeq]
    /\ evq' = Append(evq, Event("SCAN_DONE", lib.scan))
    /\ UNCHANGED <<cmd, w, sc, s, tx, lg, fin, host, out, up, faults>>

\* A customised archive posts a completion for the blocking AUTH lookup, which
\* needs a running radio.
LibLookupDone ==
    /\ lib.on /\ sc.auth /\ CanFail("archive")
    /\ faults' = faults + 1
    /\ evq' = Append(evq, Event("SCAN_DONE", NoSeq))
    /\ UNCHANGED <<cmd, w, sc, s, tx, lg, lib, fin, host, out, up>>

LibStaStop ==
    /\ lib.staStop # 0
    /\ lib' = [lib EXCEPT !.staStop = 0]
    /\ evq' = Append(evq, [k |-> "STA_STOP", inc |-> lib.staStop, id |-> NoSeq])
    /\ UNCHANGED <<cmd, w, sc, s, tx, lg, fin, host, out, up, faults>>

-----------------------------------------------------------------------------
(* The event loop: wifi_event_handler and hosted_scan_fence_handler *)

Dispatched(kinds) ==
    /\ evq # <<>> /\ Head(evq).k \in kinds
    /\ evq' = Tail(evq)

\* Events that a stop in progress, or a stopped Wi-Fi, makes stale.
Running == w.started /\ ~w.stopping

OnStart ==
    /\ Dispatched({"STA_START", "AP_START"})
    /\ w' = IF w.stopping THEN w
            ELSE IF Head(evq).k = "STA_START" THEN [w EXCEPT !.staInit = TRUE]
            ELSE [w EXCEPT !.apUp = TRUE]
    /\ UNCHANGED <<cmd, sc, s, tx, lg, lib, fin, host, out, up, faults>>

OnConnected ==
    /\ Dispatched({"CONNECTED"})
    /\ s' = IF Running THEN [NoAssoc(s) EXCEPT !.connected = TRUE] ELSE s
    /\ UNCHANGED <<cmd, w, sc, tx, lg, lib, fin, host, out, up, faults>>

handle_sta_disconnected_event(bad) ==
    LET seq == IF s.discGen # NoSeq THEN s.discGen ELSE s.connGen
    IN /\ out' = IF bad \/ seq = NoSeq THEN out
                 ELSE [out EXCEPT !.disc[seq] = @ + 1]
       /\ s' = [NoSession EXCEPT !.authBss = s.authBss]
       /\ up' = ~bad

OnDisconnected ==
    /\ Dispatched({"DISCONNECTED"})
    /\ IF Running
       THEN \E bad \in BOOLEAN :
              Outcome("send", bad) /\ handle_sta_disconnected_event(bad)
       ELSE UNCHANGED <<s, out, up, faults>>
    /\ UNCHANGED <<cmd, w, sc, tx, lg, lib, fin, host>>

\* A completion retires a cancelled scan before it may complete a new one.
OnScanDone ==
    /\ Dispatched({"SCAN_DONE"})
    /\ IF sc.auth THEN UNCHANGED <<sc, out, faults>>
       ELSE IF sc.drain
       THEN sc' = [sc EXCEPT !.drain = FALSE] /\ UNCHANGED <<out, faults>>
       ELSE /\ sc' = [sc EXCEPT !.run = FALSE]
            /\ \E bad \in BOOLEAN :
                 /\ Outcome("send", bad)
                 /\ bad => sc.run
                 /\ out' = IF sc.run /\ ~bad
                           THEN [out EXCEPT !.scans = @ \union {sc.owner}]
                           ELSE out
    /\ UNCHANGED <<cmd, w, s, tx, lg, lib, fin, host, up>>

OnApStop ==
    /\ Dispatched({"AP_STOP"})
    /\ w' = IF Running THEN w ELSE [w EXCEPT !.apUp = FALSE]
    /\ UNCHANGED <<cmd, sc, s, tx, lg, lib, fin, host, out, up, faults>>

\* STA_STOP acknowledges the stop that waits for it; later it is ignored.
OnStaStop ==
    /\ Dispatched({"STA_STOP"})
    /\ w' = [w EXCEPT !.ack = @ \/ w.ackPend, !.ackPend = FALSE,
                      !.staInit = @ /\ Running]
    /\ s' = IF Running THEN s ELSE NoAssoc(s)
    /\ UNCHANGED <<cmd, sc, tx, lg, lib, fin, host, out, up, faults>>

hosted_scan_fence_handler ==
    /\ Dispatched({"FENCE"})
    /\ sc' = [sc EXCEPT !.drain = FALSE]
    /\ w' = [w EXCEPT !.ack = TRUE]
    /\ UNCHANGED <<cmd, s, tx, lg, lib, fin, host, out, up, faults>>

-----------------------------------------------------------------------------
(* Command 1 has been handled: what it may have left behind. *)

Left1 == {"nothing", "scan", "auth", "session", "frame"}

StartedWifi(mode, mon) ==
    [started |-> TRUE, stopping |-> FALSE, ackPend |-> FALSE, ack |-> FALSE,
     cb |-> TRUE, apUp |-> mode = "APSTA", staInit |-> TRUE, mon |-> mon]

StartedLib(mode, left, ap) ==
    [inited |-> TRUE, on |-> TRUE, inc |-> 1, mode |-> mode,
     scan |-> IF left = "scan" THEN 1 ELSE NoSeq,
     conn |-> CASE left = "auth" -> "auth" [] left = "session" -> "up"
                [] OTHER -> "idle",
     peer |-> IF left \in {"auth", "session"} THEN ap ELSE NoAp,
     air |-> IF left = "frame" THEN {1} ELSE {},
     acked |-> {}, staStop |-> 0, since |-> 0]

StartedSession(left, ap) ==
    CASE left = "auth" -> [NoSession EXCEPT !.ongoing = TRUE, !.authGen = 1,
                             !.authBss = ap, !.assocBss = ap, !.apBss = ap]
      [] left = "session" -> [NoSession EXCEPT !.connected = TRUE, !.connGen = 1]
      [] OTHER -> NoSession

NoReport == [k \in Seqs |-> 0]

Init ==
    /\ cmd = CmdIdle
    /\ \E mode \in Modes, style \in Styles, mon \in BOOLEAN, left \in Left1,
          ap \in Aps, b \in Bodies :
         LET sent == left = "frame"
             deferred == sent /\ style = "legacy"
         IN /\ sent => mode = "APSTA"
            /\ mon => left \in {"nothing", "session"}
            /\ w = StartedWifi(mode, mon)
            /\ lib = StartedLib(mode, left, ap)
            /\ s = StartedSession(left, ap)
            /\ sc = [run |-> left = "scan", drain |-> FALSE, auth |-> FALSE,
                     owner |-> IF left = "scan" THEN 1 ELSE NoSeq]
            /\ tx = IF sent /\ ~deferred
                    THEN [NoTx EXCEPT !.pending = TRUE, !.accepted = TRUE,
                                      !.timers = {1}, !.cookie = 1]
                    ELSE NoTx
            /\ lg = IF deferred THEN [pending |-> TRUE, seq |-> 1] ELSE NoLg
            /\ host = [n |-> 1, wait |-> TRUE, style |-> style,
                       body |-> [k \in Seqs |-> IF sent /\ k = 1 THEN b ELSE "none"]]
            /\ out = [ans |-> [NoReport EXCEPT ![1] = IF deferred THEN 0 ELSE 1],
                      sts |-> NoReport,
                      mlme |-> [NoReport EXCEPT ![1] = IF left = "session" THEN 1 ELSE 0],
                      disc |-> NoReport,
                      acc |-> IF sent /\ ~deferred THEN {1} ELSE {},
                      acked |-> {}, lost |-> {}, scans |-> {}]
    /\ evq = <<>> /\ fin = {}
    /\ up = TRUE /\ faults = 0

WifiStop == hosted_wifi_stop \/ StopReturns \/ StaStopAcked \/ PostFence \/ FenceAcked
WifiStart == hosted_wifi_start \/ StartReturns \/ StartFailed
Scan == process_start_scan \/ ScanStart \/ process_monitor_config
Auth == process_auth_request \/ AuthBssid \/ AuthSend \/ AuthConnect \/ AuthDone
Session ==
    process_assoc_request \/ process_sta_connect \/ ConnectStarted \/ process_disconnect
Interface ==
    \/ process_init_interface \/ process_deinit_interface \/ DeinitRetires
    \/ MonitorRebuild \/ DeinitDone
Mode ==
    \/ process_set_mode \/ process_set_ap_config \/ ModeStopped \/ ModeCallback
    \/ ModeDone \/ ModeRollback \/ ModeRolledBack
Mgmt ==
    \/ process_mgmt_tx \/ MgmtSend \/ hosted_send_mgmt_accept \/ MgmtTimer
    \/ MgmtUntimed \/ hosted_mgmt_mark_accepted \/ MgmtStatus
    \/ process_mgmt_tx_unmarked \/ UnmarkedSend

CommandTask ==
    \/ send_command_resp \/ deinitialize_wifi \/ WifiStop \/ WifiStart
    \/ Scan \/ Auth \/ Session \/ Interface \/ Mode \/ Mgmt

EventLoop ==
    \/ OnStart \/ OnConnected \/ OnDisconnected \/ OnScanDone \/ OnApStop
    \/ OnStaStop \/ hosted_scan_fence_handler

WifiTask == mgmt_txcb \/ sta_rx_auth \/ AssocResponse \/ LibConnected \/ LibDisconnected

Next ==
    /\ up
    /\ \/ esp_cmd_dispatch \/ HostGivesUp \/ CommandTask \/ EventLoop \/ WifiTask
       \/ LibScanDone \/ LibLookupDone \/ LibStaStop
       \/ TimerTask \/ hosted_mgmt_finish_owned

Spec == Init /\ [][Next]_vars

\* The tasks run, the timer of a pending frame expires, and the library ends its
\* scans and posts its STA_STOP.  Transmissions need never complete, access points never answer.
FairSpec ==
    /\ Spec
    /\ WF_vars(up /\ CommandTask)
    /\ WF_vars(up /\ EventLoop)
    /\ WF_vars(up /\ LibScanDone)
    /\ WF_vars(up /\ LibStaStop)
    /\ WF_vars(up /\ tx.cookie \in tx.timers /\ hosted_mgmt_timeout_cb(tx.cookie))
    /\ WF_vars(up /\ hosted_mgmt_finish_owned)

-----------------------------------------------------------------------------
(* Properties *)

StopPcs == {"stop", "esp_wifi_stop", "stopAck", "fence", "fenceAck"}
StartPcs == {"start", "started", "startFailed"}
\* Where hosted_wifi_stop and hosted_wifi_start return to.
StopCallers == {"deinitialize", "deinit", "rebuild", "mode", "rolledBack"}
StartCallers == {"connect", "resp", "deinit", "modeDone", "rolledBack"}
\* The host has its answer already: what remains is the status of the frame.
AfterAnswer == {"mgmtTimer", "mgmtUntimed", "mgmtAccepted", "mgmtStatus"}
Commands == {"SCAN", "MGMT_TX", "MONITOR", "DEINIT", "INIT", "SET_MODE", "AUTH",
             "CONNECT", "ASSOC", "DISCONNECT", "AP_CONFIG"}
Pcs ==
    Commands \union StopPcs \union StartPcs \union StopCallers
    \union StartCallers \union AfterAnswer
    \union {"idle", "scanStart", "authBss", "authSend", "authLookup", "authDone",
            "retire", "modeCb", "rollback", "mgmtSend", "mgmtAccept", "lgSend"}

WifiModes == {"NULL", "STA", "APSTA"}
Bssids == Aps \union {NoAp}
Events ==
    [k : {"STA_START", "AP_START", "CONNECTED", "DISCONNECTED", "SCAN_DONE",
          "AP_STOP", "STA_STOP", "FENCE"}, inc : Nat, id : 0..MaxCmds]

CmdType ==
    /\ cmd \in [pc : Pcs, seq : 0..MaxCmds, r : Requests \union {NoRequest},
                k : Seq(StopCallers \union StartCallers \union {"startFailed"}),
                err : BOOLEAN, was : BOOLEAN, cb : BOOLEAN, old : WifiModes]
    /\ cmd.pc = "idle" => cmd = CmdIdle

FlagType ==
    /\ w \in [started : BOOLEAN, stopping : BOOLEAN, ackPend : BOOLEAN,
              ack : BOOLEAN, cb : BOOLEAN, apUp : BOOLEAN, staInit : BOOLEAN,
              mon : BOOLEAN]
    /\ sc \in [run : BOOLEAN, drain : BOOLEAN, auth : BOOLEAN, owner : 0..MaxCmds]
    /\ up \in BOOLEAN /\ faults \in 0..MaxFaults

SessionType ==
    s \in [ongoing : BOOLEAN, connected : BOOLEAN,
           authGen : 0..MaxCmds, assocGen : 0..MaxCmds, connGen : 0..MaxCmds,
           discGen : 0..MaxCmds, authBss : Bssids, assocBss : Bssids,
           apBss : Bssids]

\* A pending transaction has its cookie.
FrameType ==
    /\ tx \in [pending : BOOLEAN, accepted : BOOLEAN, completed : BOOLEAN,
               ack : BOOLEAN, cookie : 0..MaxCmds, draining : BOOLEAN,
               timers : SUBSET Seqs]
    /\ (tx.pending <=> tx.cookie # NoSeq)
    /\ lg \in [pending : BOOLEAN, seq : 0..MaxCmds]
    /\ (lg.pending <=> lg.seq # NoSeq)
    /\ fin \subseteq [k : Seqs, ack : BOOLEAN, by : {"wifi", "timer", "stale"}]

LibType ==
    lib \in [inited : BOOLEAN, on : BOOLEAN, inc : Nat, mode : WifiModes,
             scan : 0..MaxCmds, conn : {"idle", "auth", "assoc", "joined", "up"},
             peer : Bssids, air : SUBSET Seqs, acked : SUBSET Seqs,
             staStop : Nat, since : 0..MaxCmds]

HostType ==
    /\ host \in [n : Seqs, wait : BOOLEAN, style : Styles,
                 body : [Seqs -> Bodies \union {"none", "broadcast"}]]
    /\ out \in [ans : [Seqs -> Nat], sts : [Seqs -> Nat], mlme : [Seqs -> Nat],
                disc : [Seqs -> Nat], acc : SUBSET Seqs, acked : SUBSET Seqs,
                lost : SUBSET Seqs, scans : SUBSET (0..MaxCmds)]

\* The state record of each context keeps its shape, only known events are
\* posted, and a pending management transaction always has its cookie.
TypeOK ==
    /\ CmdType /\ FlagType /\ SessionType /\ FrameType /\ LibType /\ HostType
    /\ evq \in Seq(Events)

\* Frames whose completions the callback may take for each other.
Alike(b, c) == b = c \/ SameHeader(b, c)
AckedBodies(set, b) == Cardinality({k \in set : Alike(host.body[k], b)})

\* A frame gets at most one status, after its acceptance and never for a frame
\* that was refused, unless the timer of an earlier frame took it, which ends in
\* a restart; and no acknowledgement is reported that the air did not give, or
\* twice, to a frame or to one that looks the same when it is encrypted.
StatusTruthful ==
    /\ \A k \in Seqs : out.sts[k] <= 1 /\ (out.sts[k] = 1 => k \in out.acc \/ ~up)
    /\ \A f \in fin : f.k \in out.acc \/ f.by = "stale"
    /\ \A b \in Bodies : AckedBodies(out.acked, b) <= AckedBodies(lib.acked, b)

\* No command is answered twice, and none is forgotten: it is answered unless
\* the answer could not be queued, its handler is still running, or it is the
\* legacy frame whose callback owns the answer.
AnsweredOnce ==
    \A k \in 1..host.n :
        /\ out.ans[k] <= 1
        /\ up /\ out.ans[k] = 0 =>
             \/ k \in out.lost
             \/ lg.pending /\ lg.seq = k
             \/ k = cmd.seq

\* An event posted by a stopped incarnation of the Wi-Fi changes nothing in
\* the next one, and the completion of a scan is given to the host only for
\* the scan that the library completed.  The completion that a customised
\* archive posts for an AUTH lookup (id NoSeq) is outside the claim: dispatched
\* after the lookup it is taken for the completion of the next scan.
StaleEventsInert ==
    [][/\ evq # <<>> /\ evq' = Tail(evq)
       => /\ Head(evq).inc # lib.inc =>
                /\ UNCHANGED <<s, out>>
                /\ w'.apUp = w.apUp /\ w'.staInit = w.staInit
          /\ out'.scans # out.scans => Head(evq).id \in {sc.owner, NoSeq}]_vars

\* Authentication, association and disconnect events carry the sequence number
\* of a request made since the Wi-Fi was last stopped, each at most once.
MlmeCurrent ==
    [][\A k \in Seqs :
         /\ out'.mlme[k] # out.mlme[k] => out.mlme[k] = 0 /\ k > lib.since
         /\ out'.disc[k] # out.disc[k] => out.disc[k] = 0 /\ k > lib.since]_vars

\* Every handler returns, every accepted frame that is tracked gets its
\* status, and scan ownership is released, unless the firmware restarts.
Settles ==
    /\ (cmd.pc # "idle") ~> (cmd.pc = "idle" \/ ~up)
    /\ tx.accepted ~> (~tx.pending \/ ~up)
    /\ (fin # {}) ~> (fin = {} \/ ~up)
    /\ (sc.run \/ sc.drain) ~> (~(sc.run \/ sc.drain) \/ ~up)

-----------------------------------------------------------------------------
(* Inductive forms of the properties above, and what MlmeCurrent rests on.  *)

\* The task works on the host's last command, and every subroutine has a
\* caller to return to.
ControlInv ==
    /\ cmd.pc # "idle" => cmd.seq = host.n
    /\ cmd.pc \notin StopPcs \union StartPcs => cmd.k = <<>>
    /\ cmd.pc \in StartPcs => \E c \in StartCallers : cmd.k = <<c>>
    /\ cmd.pc \in StopPcs =>
         \/ \E c \in StopCallers : cmd.k = <<c>>
         \/ \E c \in StartCallers : cmd.k = <<"startFailed", c>>

\* Who owns the answer of a command: its handler, or the legacy slot from the
\* moment the handler has sent the frame.  A handler that undoes an INIT whose
\* response was lost no longer owes one.
AnswerInv ==
    /\ \A k \in Seqs : out.ans[k] <= 1 /\ (out.ans[k] = 1 => k <= host.n)
    /\ cmd.pc \notin AfterAnswer \union {"idle"} => out.ans[cmd.seq] = 0
    /\ cmd.pc \in AfterAnswer => out.ans[cmd.seq] = 1
    /\ cmd.pc = "deinitialize" \/ cmd.k = <<"deinitialize">> => cmd.seq \in out.lost
    /\ lg.pending => /\ host.style = "legacy"
                     /\ lg.seq <= host.n /\ out.ans[lg.seq] = 0
                     /\ cmd.seq = lg.seq => cmd.pc = "lgSend"
    /\ cmd.pc = "lgSend" => lg.pending /\ lg.seq = cmd.seq
    /\ AnsweredOnce

\* A legacy frame on the air is a broadcast, or the one in the slot: the
\* callback of an earlier frame never answers for a later one.
AirInv ==
    /\ lib.air \union lib.acked \subseteq 1..host.n
    /\ lib.air \cap lib.acked = {}
    /\ cmd.pc \in {"MGMT_TX", "mgmtSend", "lgSend"} =>
         /\ cmd.r.c = "MGMT_TX" /\ cmd.seq \notin lib.air \union lib.acked
    /\ cmd.pc = "mgmtSend" => Marked
    /\ cmd.pc \in {"MGMT_TX", "lgSend"} /\ ~Marked /\ ~Tracked =>
         host.body[cmd.seq] = "broadcast"
    /\ ~Marked =>
         \A f \in lib.air : host.body[f] = "broadcast" \/ (lg.pending /\ lg.seq = f)

\* No context but the handler has seen the frame of the command.
Unwatched ==
    \/ cmd.pc \in {"MGMT_TX", "mgmtStatus"}
    \/ cmd.pc \in {"mgmtSend", "mgmtAccept"} /\ ~Tracked

\* Who owns the status of a frame: the transaction, a context that took it
\* from there, or the handler of a frame nobody waits for.  A frame is taken
\* before its acceptance only by the timer of an earlier one.
StatusInv ==
    /\ \A k \in Seqs : out.sts[k] <= 1 /\ (out.sts[k] = 1 => k \in out.acc \/ ~up)
    /\ out.acc \subseteq 1..host.n
    /\ cmd.pc \notin AfterAnswer \union {"idle"} => cmd.seq \notin out.acc
    /\ cmd.pc \in AfterAnswer => cmd.seq \in out.acc
    /\ tx.pending => /\ tx.cookie <= host.n /\ out.sts[tx.cookie] = 0
                     /\ \A f \in fin : f.k # tx.cookie
                     /\ \/ tx.cookie \in out.acc
                        \/ /\ cmd.pc \in {"mgmtSend", "mgmtAccept"}
                           /\ tx.cookie = cmd.seq
    /\ tx.accepted => tx.pending /\ tx.cookie \in out.acc
    /\ tx.timers \subseteq out.acc
    /\ \A f \in fin : /\ out.sts[f.k] = 0
                      /\ f.k <= host.n
                      /\ (f.k \in out.acc \/ f.by = "stale")
    /\ \A f, g \in fin : f.k = g.k => f = g
    /\ cmd.pc \in {"mgmtSend", "mgmtAccept"} /\ ~Tracked => ~tx.pending
    /\ Unwatched => \A f \in fin : f.k # cmd.seq
    /\ cmd.pc = "mgmtTimer" => Tracked
    /\ cmd.pc = "mgmtStatus" => ~tx.pending /\ out.sts[cmd.seq] = 0

\* Acknowledgements reported, or on their way to be.
AcksOwed ==
    out.acked \union {f.k : f \in {g \in fin : g.ack}}
    \union (IF tx.pending /\ tx.completed /\ tx.ack THEN {tx.cookie} ELSE {})

AckInv ==
    /\ AcksOwed \subseteq 1..host.n
    /\ \A b \in Bodies : AckedBodies(AcksOwed, b) <= AckedBodies(lib.acked, b)

\* A handler that may still write its sequence number as a generation.
Requesting ==
    \/ cmd.pc \in {"AUTH", "ASSOC", "DISCONNECT", "CONNECT"}
    \/ cmd.pc \in {"start", "started"} /\ cmd.k = <<"connect">>
    \/ cmd.pc = "connect" /\ ~cmd.err

\* A generation was written since the last stop, and its event is still due.
Due(g, given) == g # NoSeq => g > lib.since /\ g <= host.n /\ given[g] = 0

\* Every generation in the session is due, an event of each kind for each.
MlmeInv ==
    /\ lib.since <= host.n
    /\ \A k \in Seqs : k > host.n => out.mlme[k] = 0 /\ out.disc[k] = 0
    /\ Due(s.authGen, out.mlme) /\ Due(s.assocGen, out.mlme)
    /\ Due(s.assocGen, out.disc) /\ Due(s.connGen, out.disc) /\ Due(s.discGen, out.disc)
    /\ s.authGen # NoSeq => s.authGen # s.assocGen
    /\ Requesting => /\ cmd.seq > lib.since
                     /\ out.mlme[cmd.seq] = 0 /\ out.disc[cmd.seq] = 0
                     /\ cmd.seq \notin {s.authGen, s.assocGen, s.connGen, s.discGen}


(* Inductive forms of StaleEventsInert. *)

\* The indices of the events of one kind that wait to be dispatched.
Posted(kind) == {i \in 1..Len(evq) : evq[i].k = kind}

\* Steps that only a handler of an initialised library reaches.
InitedPcs == {"mode", "modeCb", "modeDone", "rollback", "rolledBack", "connect"}

\* The flag of the command task and the radio agree outside a start; a radio
\* that is off has nothing in flight.
RadioInv ==
    /\ lib.on => lib.inited /\ (w.started \/ cmd.pc = "started")
    /\ w.started => lib.on
    /\ ~lib.on => lib.conn = "idle" /\ lib.scan = NoSeq
    /\ cmd.pc \in {"scanStart", "started"} => lib.on
    /\ cmd.pc = "connect" /\ ~cmd.err => lib.on

\* Without an initialised library no handler starts the Wi-Fi.
InitedInv ==
    up /\ ~lib.inited =>
      /\ cmd.pc \notin InitedPcs \union StartPcs
      /\ cmd.pc \in StopPcs =>
           cmd.k \in {<<"deinitialize">>, <<"deinit">>, <<"rebuild">>}

\* The barrier of hosted_wifi_stop: the producers are quiet before the fence is
\* posted, and nothing is posted behind it.
FenceInv ==
    /\ \A i \in 1..Len(evq) : evq[i].inc = lib.inc
    /\ lib.staStop \in {0, lib.inc}
    /\ lib.on => lib.staStop = 0 /\ Posted("STA_STOP") = {}
    /\ lib.staStop # 0 => cmd.pc = "stopAck" /\ ~w.ack /\ Posted("STA_STOP") = {}
    /\ w.ackPend => cmd.pc \in {"esp_wifi_stop", "stopAck", "fence"}
    /\ cmd.pc = "esp_wifi_stop" => (lib.on <=> w.ackPend) /\ ~w.ack
    /\ Posted("FENCE") # {} => cmd.pc = "fenceAck" /\ ~w.ack
    /\ \A i, j \in Posted("FENCE") : i = j
    /\ ~lib.on /\ cmd.pc \notin StopPcs => evq = <<>>
    /\ ~lib.on /\ cmd.pc = "fenceAck" =>
         IF w.ack THEN evq = <<>> ELSE Posted("FENCE") \subseteq {Len(evq)}

\* What hosted_wifi_stop is for: no event waits that an earlier incarnation
\* posted, and after a stop none waits at all until the next start.
QueueQuiet ==
    /\ \A i \in 1..Len(evq) : evq[i].inc = lib.inc
    /\ ~lib.on /\ cmd.pc \notin StopPcs => evq = <<>>

\* The library owes at most one completion, that of the running scan or of the
\* cancelled one.
ScanInv ==
    /\ lib.scan # NoSeq =>
         /\ sc.run /\ lib.scan = sc.owner /\ Posted("SCAN_DONE") = {}
    /\ \A i, j \in Posted("SCAN_DONE") : i = j
    /\ \A i \in Posted("SCAN_DONE") :
         IF sc.run THEN evq[i].id = sc.owner ELSE sc.drain
    /\ ~(sc.run /\ sc.drain)
    /\ sc.auth => cmd.pc = "authLookup" /\ ~sc.run /\ ~sc.drain
    /\ cmd.pc = "scanStart" =>
         /\ sc.run /\ sc.owner = cmd.seq /\ lib.scan = NoSeq
         /\ Posted("SCAN_DONE") = {}
    /\ cmd.pc \in StopPcs \ {"stop"} => ~sc.run
    /\ \A i \in Posted("SCAN_DONE"), j \in Posted("FENCE") : i < j

=============================================================================
