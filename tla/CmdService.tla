----------------------------- MODULE CmdService -----------------------------
(***************************************************************************)
(* What the command mailbox of host/esp_cmd.c promises its callers: a call *)
(* is submitted to the firmware or refused, one call at a time; its        *)
(* outcome is decided once, before it returns; only a submitted call can   *)
(* be answered.                                                            *)
(***************************************************************************)
CONSTANT Callers

VARIABLE call   \* how far each caller's command has come

Outcomes == {"answered", "failed"}

Init == call = [t \in Callers |-> "idle"]

Begin(t) == call[t] = "idle" /\ call' = [call EXCEPT ![t] = "open"]

\* One command is with the firmware at a time.
Submit(t) == /\ call[t] = "open"
             /\ \A u \in Callers : call[u] # "sent"
             /\ call' = [call EXCEPT ![t] = "sent"]

Answer(t) == call[t] = "sent" /\ call' = [call EXCEPT ![t] = "answered"]

\* A timeout or a refusal fails one call, shutdown all of them at once.
Fail(S) == /\ \A t \in S : call[t] \in {"open", "sent"}
           /\ call' = [t \in Callers |-> IF t \in S THEN "failed"
                                                    ELSE call[t]]

\* A call that cannot be allocated a buffer returns without an outcome.
Return(t) == /\ call[t] \in Outcomes \cup {"open"}
             /\ call' = [call EXCEPT ![t] = "idle"]

Next == \/ \E t \in Callers : Begin(t) \/ Submit(t) \/ Answer(t) \/ Return(t)
        \/ \E S \in SUBSET Callers : Fail(S)

Spec == Init /\ [][Next]_call

=============================================================================
