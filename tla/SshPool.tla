------------------------------- MODULE SshPool -------------------------------
(***************************************************************************)
(* SshConnectionPool (lib/src/ssh/pool.rs): the cache that maps a          *)
(* connection profile to its one SSH session, the cache of file operations *)
(* bound to that session, the terminals opened on it (ssh/session.rs) and  *)
(* the Tauri commands that use them (lib.rs); and AgentConnectionPool      *)
(* (lib/src/agent/pool.rs), the same for a profile of an Agent, without a  *)
(* cache of file operations and without a goodbye.                         *)
(*                                                                         *)
(* No operation touches two profiles, so the module is about one of them,  *)
(* which is of one kind.  Each call is a task of its own; a step ends      *)
(* where the code awaits.                                                  *)
(***************************************************************************)
EXTENDS Naturals

CONSTANTS
  Shells,       \* calls of ssh_open_shell, and the terminals they open
  Files,        \* calls of get_file_ops, each using what it was given
  Edits,        \* calls of connection_update or connection_delete
  MaxSessions   \* BOUND: connects that succeed

Getters == Shells \cup Files
Calls   == Getters \cup Edits
Sids    == 1..MaxSessions
None    == 0
Deleted == 0

ASSUME PoolAssumption ==
  /\ Shells \cap Files = {} /\ Getters \cap Edits = {}
  /\ MaxSessions \in Nat

VARIABLES
  kind,        \* the kind of the profile, "ssh" or "agent": the pool it uses
  profile,     \* version of the stored profile, or Deleted
  sessions,    \* the cached session
  fileOps,     \* the session the cached RemoteFileOps wraps
  made,        \* sessions connected so far; session numbers are 1..made
  dead,        \* sessions whose is_alive() is false
  version,     \* the profile version a session was connected with
  pc,          \* where each call is
  sess,        \* the Arc<SshSession> a call holds
  ops,         \* the session of the Arc<RemoteFileOps> a call holds
  shell,       \* the terminals
  on,          \* the session each terminal lives on
  deadBefore,  \* history: sessions that were dead when a call began
  raced        \* history: has a connecting call met another call?

poolVars  == <<kind, profile, sessions, fileOps>>
sessVars  == <<made, dead, version>>
shellVars == <<shell, on>>
vars == <<poolVars, sessVars, pc, sess, ops, shellVars, deadBefore, raced>>

Connecting == {"evict", "evictOps", "lookup", "connect", "insert"}
Dropping   == {"dropOps", "dropSession", "disconnecting"}
Returned   == {"using", "ok", "failed"}

InFlight(c) == pc[c] \in Connecting \cup Dropping \cup {"got", "newOps"}
Quiet == \A c \in Calls : ~InFlight(c)

Init ==
  /\ kind       \in {"ssh", "agent"}
  /\ profile    \in {Deleted, 1}
  /\ sessions   = None
  /\ fileOps    = None
  /\ made       = 0
  /\ dead       = {}
  /\ version    = [s \in Sids |-> Deleted]
  /\ pc         = [c \in Calls |-> "idle"]
  /\ sess       = [c \in Calls |-> None]
  /\ ops        = [c \in Calls |-> None]
  /\ shell      = [c \in Shells |-> "none"]
  /\ on         = [c \in Shells |-> None]
  /\ deadBefore = [c \in Calls |-> {}]
  /\ raced      = FALSE

----------------------------------------------------------------------------
(* Helpers.                                                                *)

Goto(c, l) == pc' = [pc EXCEPT ![c] = l]

\* disconnect() awaits the session's goodbye inside the `if let` that holds
\* the write guard of `sessions`.
SessionsFree == \A c \in Calls : pc[c] # "disconnecting"

\* Some Arc still owns the session, and with it the command sender of each of
\* its terminals.
Held(s) ==
  \/ sessions = s \/ fileOps = s
  \/ \E c \in Calls : sess[c] = s \/ ops[c] = s

\* Two calls in flight, one of them connecting.
Race == \E c, d \in Calls : c # d /\ pc[c] \in Connecting /\ InFlight(d)

\* The history variables follow every step.
Noted ==
  /\ deadBefore' = [c \in Calls |-> CASE pc'[c] \in {"idle", "ok", "failed"} -> {}
                                     [] pc[c] = "idle"                      -> dead
                                     [] OTHER                               -> deadBefore[c]]
  /\ raced' = (raced \/ Race')

\* Seeded bug: a dead session passes.
AnyCached(s) == s # None

Reusable(s) == s # None /\ s \notin dead

----------------------------------------------------------------------------
(* get_or_connect().                                                       *)

\* The fast path, or the decision to connect.
GetCached(c) ==
  /\ c \in Getters /\ pc[c] = "idle" /\ SessionsFree
  /\ IF Reusable(sessions)
     THEN sess' = [sess EXCEPT ![c] = sessions] /\ Goto(c, "got")
     ELSE Goto(c, "evict") /\ UNCHANGED sess
  /\ UNCHANGED <<poolVars, sessVars, ops, shellVars>>
  /\ Noted

EvictSession(c) ==
  /\ pc[c] = "evict" /\ SessionsFree
  /\ sessions' = None
  /\ Goto(c, IF kind = "ssh" THEN "evictOps" ELSE "lookup")
  /\ UNCHANGED <<kind, profile, fileOps, sessVars, sess, ops, shellVars>>
  /\ Noted

\* Seeded bug: the file operations bound to the evicted session stay.
OpsStay == fileOps

OpsEvicted == None

EvictOps(c) ==
  /\ pc[c] = "evictOps"
  /\ fileOps' = OpsEvicted
  /\ Goto(c, "lookup")
  /\ UNCHANGED <<kind, profile, sessions, sessVars, sess, ops, shellVars>>
  /\ Noted

\* The profile is read here and used until the session exists; the version
\* read is noted on the session to be.
Lookup(c) ==
  /\ pc[c] = "lookup"
  /\ \/ /\ profile # Deleted /\ made < MaxSessions
        /\ made' = made + 1
        /\ version' = [version EXCEPT ![made + 1] = profile]
        /\ sess' = [sess EXCEPT ![c] = made + 1]
        /\ Goto(c, "connect")
     \/ Goto(c, "failed") /\ UNCHANGED <<made, version, sess>>
  /\ UNCHANGED <<poolVars, dead, ops, shellVars>>
  /\ Noted

\* SshSession::connect() under CONNECT_TIMEOUT, or AgentSession::connect() under
\* none, then touch_last_connected().
Connect(c) ==
  /\ pc[c] = "connect"
  /\ Goto(c, "insert")
  /\ UNCHANGED <<poolVars, sessVars, sess, ops, shellVars>>
  /\ Noted

\* The secret, the network, the server's key, the login or the timeout.
ConnectFails(c) ==
  /\ pc[c] = "connect"
  /\ Goto(c, "failed")
  /\ sess' = [sess EXCEPT ![c] = None]
  /\ dead' = dead \cup {sess[c]}
  /\ UNCHANGED <<poolVars, made, version, ops, shellVars>>
  /\ Noted

\* Seeded bug: the new session is not cached.
NotCached(c) == sessions

Inserted(c) == sess[c]

Insert(c) ==
  /\ pc[c] = "insert" /\ SessionsFree
  /\ sessions' = Inserted(c)
  /\ Goto(c, "got")
  /\ UNCHANGED <<kind, profile, fileOps, sessVars, sess, ops, shellVars>>
  /\ Noted

----------------------------------------------------------------------------
(* get_file_ops(), and the use of what it returns.  agent_file_ops() wraps *)
(* the session anew each time.                                             *)

UseOps(c, s) ==
  /\ ops' = [ops EXCEPT ![c] = s]
  /\ sess' = [sess EXCEPT ![c] = None]
  /\ Goto(c, "using")

CachedOps(c) ==
  /\ c \in Files /\ pc[c] = "got"
  /\ IF kind = "agent" THEN UseOps(c, sess[c])
     ELSE IF fileOps # None THEN UseOps(c, fileOps)
     ELSE Goto(c, "newOps") /\ UNCHANGED <<ops, sess>>
  /\ UNCHANGED <<poolVars, sessVars, shellVars>>
  /\ Noted

NewOps(c) ==
  /\ pc[c] = "newOps"
  /\ fileOps' = sess[c]
  /\ UseOps(c, sess[c])
  /\ UNCHANGED <<kind, profile, sessions, sessVars, shellVars>>
  /\ Noted

DoneWithOps(c) ==
  /\ pc[c] = "using"
  /\ ops' = [ops EXCEPT ![c] = None]
  /\ Goto(c, "ok")
  /\ UNCHANGED <<poolVars, sessVars, sess, shellVars>>
  /\ Noted

----------------------------------------------------------------------------
(* connection_update() and connection_delete(), which end in disconnect().  *)

\* Seeded bug: disconnect() forgets what an edit was for.
ReturnsAtOnce(c) == "ok"

AfterEdit(c) == IF kind = "ssh" THEN "dropOps" ELSE "dropSession"

\* The manager's half.  Updating a deleted profile fails; deleting it again
\* does not.
Edit(c) ==
  /\ c \in Edits /\ pc[c] = "idle"
  /\ \/ /\ profile # Deleted
        /\ profile' = profile + 1
        /\ Goto(c, AfterEdit(c))
     \/ /\ profile = Deleted
        /\ Goto(c, "failed")
        /\ UNCHANGED profile
     \/ /\ profile' = Deleted
        /\ Goto(c, AfterEdit(c))
  /\ UNCHANGED <<kind, sessions, fileOps, sessVars, sess, ops, shellVars>>
  /\ Noted

DropOps(c) ==
  /\ pc[c] = "dropOps"
  /\ fileOps' = None
  /\ Goto(c, "dropSession")
  /\ UNCHANGED <<kind, profile, sessions, sessVars, sess, ops, shellVars>>
  /\ Noted

\* Seeded bug: disconnect() does not look whether a session was cached.
AlwaysDisconnects == "disconnecting"

\* Only an SSH session is told; the Agent's is dropped with its last Arc.
AfterDrop == IF sessions = None \/ kind = "agent" THEN "ok" ELSE "disconnecting"

DropSession(c) ==
  /\ pc[c] = "dropSession" /\ SessionsFree
  /\ sessions' = None
  /\ sess' = [sess EXCEPT ![c] = IF kind = "ssh" THEN sessions ELSE None]
  /\ Goto(c, AfterDrop)
  /\ UNCHANGED <<kind, profile, fileOps, sessVars, ops, shellVars>>
  /\ Noted

\* SshSession::disconnect(), after which the call drops its Arc.
Disconnect(c) ==
  /\ pc[c] = "disconnecting"
  /\ dead' = dead \cup {sess[c]}
  /\ sess' = [sess EXCEPT ![c] = None]
  /\ Goto(c, "ok")
  /\ UNCHANGED <<poolVars, made, version, ops, shellVars>>
  /\ Noted

----------------------------------------------------------------------------
(* Terminals: open_shell() of either session, the task that drives one,    *)
(* and the commands ssh_close_channel and agent_close_channel.             *)

OpenShell(c) ==
  /\ c \in Shells /\ pc[c] = "got"
  /\ \/ /\ sess[c] \notin dead
        /\ shell' = [shell EXCEPT ![c] = "open"]
        /\ on' = [on EXCEPT ![c] = sess[c]]
        /\ Goto(c, "ok")
     \/ Goto(c, "failed") /\ UNCHANGED shellVars
  /\ sess' = [sess EXCEPT ![c] = None]
  /\ UNCHANGED <<poolVars, sessVars, ops>>
  /\ Noted

\* Eof, Close or the end of the SSH session, or the Agent's StreamEnd: the driver
\* emits "disconnected".
DriverTells(c) ==
  /\ shell[c] \in {"open", "orphan"}
  /\ shell' = [shell EXCEPT ![c] = "told"]
  /\ UNCHANGED <<poolVars, sessVars, pc, sess, ops, on>>
  /\ Noted

\* The command sender is gone with the last Arc, or data() failed on a dead
\* session, or the connection to the Agent was lost, which clears its streams:
\* the driver leaves without a word.
DriverLeaves(c) ==
  /\ shell[c] \in {"open", "orphan"}
  /\ \/ ~Held(on[c]) \/ kind = "agent"
     \/ on[c] \in dead /\ sessions = on[c] /\ SessionsFree
  /\ shell' = [shell EXCEPT ![c] = "silent"]
  /\ UNCHANGED <<poolVars, sessVars, pc, sess, ops, on>>
  /\ Noted

\* Closing asks the session the pool holds now, whichever that is.
CloseShell(c) ==
  /\ shell[c] = "open" /\ SessionsFree
  /\ shell' = [shell EXCEPT ![c] = IF sessions = on[c] THEN "closed" ELSE "orphan"]
  /\ UNCHANGED <<poolVars, sessVars, pc, sess, ops, on>>
  /\ Noted

\* The network or the server ends a session and its task notices.
SessionDies(s) ==
  /\ s \in 1..made /\ s \notin dead
  /\ \A c \in Calls : sess[c] = s => pc[c] # "connect"
  /\ dead' = dead \cup {s}
  /\ UNCHANGED <<poolVars, made, version, pc, sess, ops, shellVars>>
  /\ Noted

----------------------------------------------------------------------------

GetStep(c) ==
  \/ EvictSession(c) \/ EvictOps(c) \/ Lookup(c)
  \/ Connect(c) \/ ConnectFails(c) \/ Insert(c)
  \/ CachedOps(c) \/ NewOps(c)

DropStep(c) == DropOps(c) \/ DropSession(c) \/ Disconnect(c)

Next ==
  \/ \E c \in Calls : \/ GetCached(c) \/ GetStep(c) \/ OpenShell(c) \/ DoneWithOps(c)
                      \/ Edit(c) \/ DropStep(c)
  \/ \E c \in Shells : DriverTells(c) \/ DriverLeaves(c) \/ CloseShell(c)
  \/ \E s \in Sids : SessionDies(s)

Spec == Init /\ [][Next]_vars

----------------------------------------------------------------------------
(* Properties.                                                             *)

\* Type invariant of the pool, the calls and the terminals.
TypeOK ==
  /\ kind \in {"ssh", "agent"}
  /\ profile \in Nat
  /\ sessions \in 0..made /\ fileOps \in 0..made
  /\ made \in 0..MaxSessions
  /\ dead \in SUBSET (1..made)
  /\ version \in [Sids -> Nat]
  /\ pc \in [Calls -> {"idle", "got", "newOps"} \cup Connecting \cup Dropping \cup Returned]
  /\ sess \in [Calls -> 0..made] /\ ops \in [Calls -> 0..made]
  /\ shell \in [Shells -> {"none", "open", "orphan", "told", "silent", "closed"}]
  /\ on \in [Shells -> 0..made]
  /\ deadBefore \in [Calls -> SUBSET (1..made)]
  /\ raced \in BOOLEAN

\* Where a call is, as the pool's users see it: it holds a session as soon as
\* its connect has succeeded.
Phase(c) ==
  CASE c \notin Getters \/ pc[c] = "idle"                         -> "idle"
    [] c \in Getters /\ pc[c] \in Connecting \ {"insert"}         -> "waiting"
    [] c \in Getters /\ pc[c] \in {"insert", "got", "newOps"}      -> "given"
    [] c \in Getters /\ pc[c] \in Returned                        -> "over"

Lease == INSTANCE SessionLease
           WITH Calls <- Calls, Sessions <- Sids, None <- None,
                cached <- sessions, dead <- dead,
                phase <- [c \in Calls |-> Phase(c)],
                given <- [c \in Calls |-> IF Phase(c) = "given" THEN sess[c] ELSE None]

\* Both pools implement SessionLease: get_or_connect() never answers with a
\* session that was down from the call's begin to its end, shares no session but
\* the cached one, and caches none that was not given to a call, however calls,
\* evictions, edits and losses interleave.
KeepsLease == Lease!Spec

\* What the comment in get_file_ops() promises: the file operations it hands
\* out do not wrap a session that was dead when the call began.
OpsAreFresh == \A c \in Files : pc[c] = "using" => ops[c] \notin deadBefore[c]

\* The same, as long as no call connects while another one is in flight.
OpsAreFreshIfAlone == raced \/ OpsAreFresh

\* An Agent's session is dropped while a transfer still holds it.
Abandoned == kind = "agent" /\ \E e \in Edits : pc[e] = "ok"

\* What a pool is for: the terminals of a profile that are still running live on
\* the session the pool holds, the one that write, resize and close reach.
OneSession ==
  Quiet => \A c \in Shells : shell[c] \in {"open", "orphan"} /\ on[c] \notin dead
                                => on[c] = sessions

\* It holds as long as no call connects while another one is in flight.  An edit
\* of an Agent's profile breaks it as well: nothing ends the session it drops.
OneSessionIfAlone == raced \/ Abandoned \/ OneSession

\* What the comment on SshConnectionPool promises: the terminals of one SSH
\* profile that are running, on sessions that are up, share one of them.
SharedSession ==
  kind = "ssh" =>
    \A c, d \in Shells :
      {shell[c], shell[d]} \subseteq {"open", "orphan"} /\ {on[c], on[d]} \cap dead = {}
        => on[c] = on[d]

\* Once an update or a delete has returned, no session connected with the old
\* profile is cached, unless a call was connecting meanwhile.
EditEvicts == raced \/ (Quiet /\ sessions # None => version[sessions] = profile)

=============================================================================
