----------------------------- MODULE MCGroupTree -----------------------------
(***************************************************************************)
(* Bounded instances of GroupTree.                                         *)
(***************************************************************************)
EXTENDS GroupTree, TLC

TreeSymmetry == Permutations(Groups) \cup Permutations(Profiles) \cup Permutations(Calls)

=============================================================================
