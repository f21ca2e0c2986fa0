----------------------------- MODULE MCTransfer ------------------------------
(***************************************************************************)
(* A bounded instance of Transfer; its calls are interchangeable.          *)
(***************************************************************************)
EXTENDS Transfer, TLC

TransferSymmetry == Permutations(Transfers)

=============================================================================
