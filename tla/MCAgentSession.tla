--------------------------- MODULE MCAgentSession ---------------------------
(* TLC instance of AgentSession.                                           *)
EXTENDS AgentSession

=============================================================================
