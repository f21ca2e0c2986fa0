---------------------------- MODULE MCSessionTabs ----------------------------
(***************************************************************************)
(* A bounded instance of SessionTabs; its calls are interchangeable.       *)
(***************************************************************************)
EXTENDS SessionTabs, TLC

CallSymmetry == Permutations(Calls)

=============================================================================
