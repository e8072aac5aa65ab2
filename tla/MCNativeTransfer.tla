--------------------------- MODULE MCNativeTransfer ---------------------------
(***************************************************************************)
(* Small instances of NativeTransfer: identifiers are model values, so the *)
(* runs without a liveness property may use their symmetry.                *)
(***************************************************************************)
EXTENDS NativeTransfer, TLC

TransferSymmetry == Permutations(Transfers)
=============================================================================
