---------------------------- MODULE MCFwCommand ----------------------------
(* The command processor on a small instance. *)
EXTENDS FwCommand, TLC

AllOps == {"SCAN", "MGMT_TX", "MONITOR", "DEINIT", "INIT", "SET_MODE", "AUTH",
           "ASSOC", "CONNECT", "DISCONNECT", "AP_CONFIG"}
AllFaults == {"send", "stop", "start", "cb", "mode", "slow", "tx", "timer", "radio",
              "archive"}
\* Robust frames of one type to one peer.
OneHeader == [b \in Robust |-> "h"]
\* No action singles out an access point, or one of two frames with one header.
Symmetry == Permutations(Aps) \union Permutations(Bodies)
=============================================================================
