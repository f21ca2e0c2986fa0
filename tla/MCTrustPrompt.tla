---------------------------- MODULE MCTrustPrompt ----------------------------
(***************************************************************************)
(* Bounded instances of TrustPrompt.                                       *)
(***************************************************************************)
EXTENDS TrustPrompt

=============================================================================
