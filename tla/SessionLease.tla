---------------------------- MODULE SessionLease ----------------------------
(***************************************************************************)
(* What a connection pool promises to the calls of get_or_connect() for    *)
(* one profile (lib/src/ssh/pool.rs, lib/src/agent/pool.rs), without its   *)
(* locks, evictions and connects: a call is given a session that is up at  *)
(* a moment between its begin and its answer, and that is either the       *)
(* cached one or nobody else's; only a session that was given is cached.   *)
(***************************************************************************)
EXTENDS Naturals

CONSTANTS Calls, Sessions, None

VARIABLES
  cached,  \* the session in the pool
  dead,    \* sessions that are down
  phase,   \* each call: "idle", "waiting", "given" or "over"
  given    \* the session a call was given

vars == <<cached, dead, phase, given>>

Init ==
  /\ cached = None /\ dead = {}
  /\ phase = [c \in Calls |-> "idle"]
  /\ given = [c \in Calls |-> None]

Ask(c) ==
  /\ phase[c] = "idle"
  /\ phase' = [phase EXCEPT ![c] = "waiting"]
  /\ UNCHANGED <<cached, dead, given>>

Give(c, s) ==
  /\ phase[c] \in {"idle", "waiting"}
  /\ s \notin dead
  /\ s = cached \/ \A d \in Calls : given[d] # s
  /\ phase' = [phase EXCEPT ![c] = "given"]
  /\ given' = [given EXCEPT ![c] = s]
  /\ UNCHANGED <<cached, dead>>

Cache(c) ==
  /\ phase[c] = "given"
  /\ cached' = given[c]
  /\ UNCHANGED <<dead, phase, given>>

Forget ==
  /\ cached' = None
  /\ UNCHANGED <<dead, phase, given>>

\* The call has its answer, or an error; the session of a failed connect is
\* down.
End(c) ==
  /\ phase[c] \in {"waiting", "given"}
  /\ phase' = [phase EXCEPT ![c] = "over"]
  /\ given' = [given EXCEPT ![c] = None]
  /\ dead \subseteq dead' /\ dead' \subseteq Sessions
  /\ UNCHANGED cached

Die ==
  /\ dead \subseteq dead' /\ dead' \subseteq Sessions
  /\ UNCHANGED <<cached, phase, given>>

Next ==
  \/ \E c \in Calls : \/ Ask(c) \/ Cache(c) \/ End(c)
                      \/ \E s \in Sessions : Give(c, s)
  \/ Forget \/ Die

Spec == Init /\ [][Next]_vars

=============================================================================
