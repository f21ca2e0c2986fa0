---------------------------- MODULE MCRemoteFiles ----------------------------
(***************************************************************************)
(* A bounded instance of RemoteFiles; the viewers are interchangeable.     *)
(***************************************************************************)
EXTENDS RemoteFiles, TLC

EditorSymmetry == Permutations(Editors)

=============================================================================
