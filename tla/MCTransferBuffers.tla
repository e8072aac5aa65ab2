-------------------------- MODULE MCTransferBuffers --------------------------
(***************************************************************************)
(* One request more than twice the permits, so that requests can begin     *)
(* while workers of earlier ones still run; the same users as lanes.       *)
(***************************************************************************)
EXTENDS TransferBuffers, TLC

UserSymmetry == Permutations(Users)
=============================================================================
