---------------------------- MODULE MCFwRecovery ----------------------------
(* Model values for checking FwRecovery; see the cfg files for each run.    *)
EXTENDS FwRecovery

\* Every fault the environment of the driver can inject.
AllFaults == {"bus", "stateful", "crash", "hang", "lose", "cmd", "parse",
              "gpio", "enqueue", "publish", "endpoint", "radio", "timeout",
              "malformed", "ack", "otafile"}

=============================================================================
