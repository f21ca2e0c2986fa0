--------------------------- MODULE MCProfileStore ---------------------------
(***************************************************************************)
(* Bounded instances of ProfileStore.                                      *)
(***************************************************************************)
EXTENDS ProfileStore, TLC

CallSymmetry == Permutations(Calls)

=============================================================================
