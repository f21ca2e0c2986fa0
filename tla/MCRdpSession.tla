---------------------------- MODULE MCRdpSession ----------------------------
(***************************************************************************)
(* Bounded instances of RdpSession.                                        *)
(***************************************************************************)
EXTENDS RdpSession

=============================================================================
