---------------------------- MODULE MCCmdMailbox ----------------------------
(* Small instances of the command mailbox. *)
EXTENDS CmdMailbox, TLC

AllFaults == {"alloc", "refused", "tx", "mute", "publish"}

\* Callers are compared only for equality, and so are nodes.
Symmetry == Permutations(Users) \cup Permutations(Nodes)

=============================================================================
