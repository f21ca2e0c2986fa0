------------------------------ MODULE MCSshPool ------------------------------
(***************************************************************************)
(* Bounded instances of SshPool.  Calls of one kind are interchangeable.   *)
(***************************************************************************)
EXTENDS SshPool, TLC

CallSymmetry == Permutations(Shells) \cup Permutations(Files) \cup Permutations(Edits)

=============================================================================
