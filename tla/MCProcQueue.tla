---------------------------- MODULE MCProcQueue ----------------------------
(* Small instances of ProcQueue for TLC. *)
EXTENDS ProcQueue, TLC

OwnerSymmetry == Permutations(BaseOwner)
=============================================================================
