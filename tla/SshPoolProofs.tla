---------------------------- MODULE SshPoolProofs ----------------------------
(***************************************************************************)
(* Type correctness of SshPool, that both pools implement SessionLease,    *)
(* and what SshPool promises to calls that no connecting call overlaps,    *)
(* for every set of calls and any number of sessions.                      *)
(***************************************************************************)
EXTENDS SshPool, TLAPS

USE PoolAssumption DEF Sids, None, Deleted

----------------------------------------------------------------------------
(* The parts of the inductive invariant.                                   *)

\* Edits take the steps of edits only, and the other calls none of them.
Roles ==
  /\ \A c \in Edits : pc[c] \in {"idle", "ok", "failed"} \cup Dropping
  /\ \A c \in Getters : pc[c] \notin Dropping

\* A session that is being connected is up, and only its call knows of it.
Fresh ==
  \A c \in Calls : pc[c] = "connect" =>
    /\ sess[c] \in 1..made /\ sess[c] \notin dead
    /\ sessions # sess[c]
    /\ \A d \in Calls \ {c} : sess[d] # sess[c]

\* disconnect() has a session to say goodbye to.
Closing == \A c \in Calls : pc[c] = "disconnecting" => sess[c] \in 1..made

IInv == TypeOK /\ Roles /\ Fresh /\ Closing

PoolStep(c) ==
  \/ GetCached(c) \/ GetStep(c) \/ OpenShell(c) \/ DoneWithOps(c) \/ Edit(c) \/ DropStep(c)

----------------------------------------------------------------------------
(* Types.                                                                  *)

LEMMA NotedTypes ==
  ASSUME TypeOK, Noted, made' \in Nat, made <= made'
  PROVE  deadBefore' \in [Calls -> SUBSET (1..made')] /\ raced' \in BOOLEAN
<1>1. raced' \in BOOLEAN
  BY Zenon DEF Noted
<1>2. dead \in SUBSET (1..made') /\ \A c \in Calls : deadBefore[c] \in SUBSET (1..made')
  BY DEF TypeOK
<1>3. deadBefore' \in [Calls -> SUBSET (1..made')]
  BY <1>2 DEF Noted
<1>4. QED  BY <1>1, <1>3

\* The range of session numbers only grows.
LEMMA Wider ==
  ASSUME TypeOK, NEW n \in 0..MaxSessions, made <= n
  PROVE  /\ sessions \in 0..n /\ fileOps \in 0..n
         /\ dead \in SUBSET (1..n)
         /\ sess \in [Calls -> 0..n] /\ ops \in [Calls -> 0..n]
         /\ on \in [Shells -> 0..n]
BY DEF TypeOK

LEMMA InitInv == Init => IInv
<1> SUFFICES ASSUME Init PROVE IInv
  OBVIOUS
<1>1. /\ sessions \in 0..made /\ fileOps \in 0..made /\ made \in 0..MaxSessions
      /\ dead \in SUBSET (1..made)
  <2>1. sessions = 0 /\ fileOps = 0 /\ made = 0 /\ dead = {}
    BY DEF Init
  <2>2. 0 \in 0..MaxSessions /\ 0 \in 0..0 /\ {} \in SUBSET (1..0)
    OBVIOUS
  <2>3. QED  BY <2>1, <2>2
<1>0. profile \in Nat /\ kind \in {"ssh", "agent"} /\ raced \in BOOLEAN
  <2>1. raced \in BOOLEAN
    BY Zenon DEF Init
  <2>2. kind \in {"ssh", "agent"} /\ profile \in {0, 1}
    BY Zenon DEF Init
  <2>3. QED  BY <2>1, <2>2
<1>2. /\ version \in [Sids -> Nat]
      /\ sess \in [Calls -> 0..made] /\ ops \in [Calls -> 0..made]
      /\ shell \in [Shells -> {"none", "open", "orphan", "told", "silent", "closed"}]
      /\ on \in [Shells -> 0..made]
      /\ deadBefore \in [Calls -> SUBSET (1..made)]
  BY DEF Init
<1>3. pc \in [Calls -> {"idle", "got", "newOps"} \cup Connecting \cup Dropping \cup Returned]
  BY DEF Init
<1>4. TypeOK
  BY <1>0, <1>1, <1>2, <1>3 DEF TypeOK
<1>5. Roles /\ Fresh /\ Closing
  BY DEF Init, Roles, Fresh, Closing, Dropping, Calls, Getters
<1>6. QED  BY <1>4, <1>5 DEF IInv

\* The program counters.
Labels == {"idle", "got", "newOps"} \cup Connecting \cup Dropping \cup Returned

LEMMA GotoTypes ==
  ASSUME TypeOK, NEW c \in Calls, NEW l \in Labels, Goto(c, l)
  PROVE  pc' \in [Calls -> Labels]
BY DEF TypeOK, Goto, Labels

LEMMA StepTypes ==
  ASSUME TypeOK, Fresh, Closing, NEW c \in Calls, PoolStep(c) PROVE TypeOK'
<1> USE DEF TypeOK, Connecting, Dropping, Returned
<1>1. CASE GetCached(c)
  <2>1. pc' \in [Calls -> Labels]
    BY <1>1, GotoTypes DEF GetCached, Labels
  <2>2. sess' \in [Calls -> 0..made]
    BY <1>1 DEF GetCached
  <2>3. QED  BY <1>1, <2>1, <2>2, NotedTypes DEF GetCached, poolVars, sessVars, shellVars, Labels
<1>2. CASE EvictSession(c)
  BY <1>2, NotedTypes DEF EvictSession, sessVars, shellVars, Goto
<1>3. CASE EvictOps(c)
  BY <1>3, NotedTypes DEF EvictOps, OpsEvicted, sessVars, shellVars, Goto
<1>4. CASE Lookup(c)
  <2>1. made' \in 0..MaxSessions /\ made <= made'
    BY <1>4 DEF Lookup
  <2>2. deadBefore' \in [Calls -> SUBSET (1..made')] /\ raced' \in BOOLEAN
    BY <1>4, <2>1, NotedTypes DEF Lookup
  <2>3. /\ sessions \in 0..made' /\ fileOps \in 0..made'
        /\ dead \in SUBSET (1..made')
        /\ sess \in [Calls -> 0..made'] /\ ops \in [Calls -> 0..made']
        /\ on \in [Shells -> 0..made']
    BY <2>1, Wider
  <2>4. pc' \in [Calls -> Labels]
    BY <1>4, GotoTypes DEF Lookup, Labels
  <2>5. version' \in [Sids -> Nat]
    BY <1>4 DEF Lookup
  <2>6. sess' \in [Calls -> 0..made']
    <3>1. sess' = sess \/ (made' = made + 1 /\ sess' = [sess EXCEPT ![c] = made'])
      BY <1>4 DEF Lookup
    <3>2. made' \in 0..made'
      BY <2>1
    <3>3. QED  BY <2>3, <3>1, <3>2
  <2>7. QED
    BY <1>4, <2>1, <2>2, <2>3, <2>4, <2>5, <2>6 DEF Lookup, poolVars, shellVars, Labels
<1>5. CASE Connect(c)
  BY <1>5, NotedTypes DEF Connect, poolVars, sessVars, shellVars, Goto
<1>6. CASE ConnectFails(c)
  <2>1. pc' \in [Calls -> Labels]
    BY <1>6, GotoTypes DEF ConnectFails, Labels
  <2>2. sess' \in [Calls -> 0..made]
    BY <1>6 DEF ConnectFails
  <2>3. dead' \in SUBSET (1..made)
    BY <1>6 DEF ConnectFails, Fresh
  <2>4. made' = made /\ deadBefore' \in [Calls -> SUBSET (1..made')] /\ raced' \in BOOLEAN
    BY <1>6, NotedTypes DEF ConnectFails
  <2>5. QED  BY <1>6, <2>1, <2>2, <2>3, <2>4 DEF ConnectFails, poolVars, shellVars, Labels
<1>7. CASE Insert(c)
  BY <1>7, NotedTypes DEF Insert, Inserted, sessVars, shellVars, Goto
<1>8. CASE CachedOps(c)
  <2>1. pc' \in [Calls -> Labels]
    BY <1>8, GotoTypes DEF CachedOps, UseOps, Labels
  <2>2. ASSUME NEW s \in 0..made, UseOps(c, s)
        PROVE  sess' \in [Calls -> 0..made] /\ ops' \in [Calls -> 0..made]
    BY <2>2 DEF UseOps
  <2>3. fileOps \in 0..made /\ sess[c] \in 0..made
    OBVIOUS
  <2>4. sess' \in [Calls -> 0..made] /\ ops' \in [Calls -> 0..made]
    BY <1>8, <2>2, <2>3 DEF CachedOps
  <2>5. made' = made /\ deadBefore' \in [Calls -> SUBSET (1..made')] /\ raced' \in BOOLEAN
    BY <1>8, NotedTypes DEF CachedOps, sessVars
  <2>6. QED  BY <1>8, <2>1, <2>4, <2>5 DEF CachedOps, poolVars, sessVars, shellVars, Labels
<1>9. CASE NewOps(c)
  BY <1>9, NotedTypes DEF NewOps, UseOps, sessVars, shellVars, Goto
<1>10. CASE OpenShell(c)
  <2>1. pc' \in [Calls -> Labels]
    BY <1>10, GotoTypes DEF OpenShell, Labels
  <2>2. /\ shell' \in [Shells -> {"none", "open", "orphan", "told", "silent", "closed"}]
        /\ on' \in [Shells -> 0..made]
    BY <1>10 DEF OpenShell, shellVars
  <2>3. sess' \in [Calls -> 0..made]
    BY <1>10 DEF OpenShell
  <2>4. made' = made /\ deadBefore' \in [Calls -> SUBSET (1..made')] /\ raced' \in BOOLEAN
    BY <1>10, NotedTypes DEF OpenShell, sessVars
  <2>5. QED  BY <1>10, <2>1, <2>2, <2>3, <2>4 DEF OpenShell, poolVars, sessVars, Labels
<1>11. CASE DoneWithOps(c)
  BY <1>11, NotedTypes DEF DoneWithOps, poolVars, sessVars, shellVars, Goto
<1>12. CASE Edit(c)
  <2>1. pc' \in [Calls -> Labels]
    BY <1>12, GotoTypes DEF Edit, AfterEdit, Labels
  <2>2. profile' \in Nat
    BY <1>12 DEF Edit
  <2>3. QED  BY <1>12, <2>1, <2>2, NotedTypes DEF Edit, sessVars, shellVars, Labels
<1>13. CASE DropOps(c)
  BY <1>13, NotedTypes DEF DropOps, sessVars, shellVars, Goto
<1>14. CASE DropSession(c)
  BY <1>14, NotedTypes DEF DropSession, AfterDrop, sessVars, shellVars, Goto
<1>15. CASE Disconnect(c)
  <2>1. pc' \in [Calls -> Labels]
    BY <1>15, GotoTypes DEF Disconnect, Labels
  <2>2. sess' \in [Calls -> 0..made]
    BY <1>15 DEF Disconnect
  <2>3. dead' \in SUBSET (1..made)
    BY <1>15 DEF Disconnect, Closing
  <2>4. made' = made /\ deadBefore' \in [Calls -> SUBSET (1..made')] /\ raced' \in BOOLEAN
    BY <1>15, NotedTypes DEF Disconnect
  <2>5. QED  BY <1>15, <2>1, <2>2, <2>3, <2>4 DEF Disconnect, poolVars, shellVars, Labels
<1>16. QED
  BY <1>1, <1>2, <1>3, <1>4, <1>5, <1>6, <1>7, <1>8, <1>9, <1>10, <1>11, <1>12, <1>13, <1>14,
     <1>15 DEF PoolStep, GetStep, DropStep

\* The driver tasks and the network.
LEMMA OtherTypes ==
  ASSUME TypeOK,
         \/ \E c \in Shells : DriverTells(c) \/ DriverLeaves(c) \/ CloseShell(c)
         \/ \E s \in Sids : SessionDies(s)
  PROVE  TypeOK'
<1> USE DEF TypeOK
<1>1. CASE \E c \in Shells : DriverTells(c) \/ DriverLeaves(c) \/ CloseShell(c)
  <2>1. PICK c \in Shells : DriverTells(c) \/ DriverLeaves(c) \/ CloseShell(c)
    BY <1>1
  <2>2. shell' \in [Shells -> {"none", "open", "orphan", "told", "silent", "closed"}]
    BY <2>1 DEF DriverTells, DriverLeaves, CloseShell
  <2>3. Noted /\ UNCHANGED <<poolVars, sessVars, pc, sess, ops, on>>
    BY <2>1 DEF DriverTells, DriverLeaves, CloseShell
  <2>4. QED  BY <2>2, <2>3, NotedTypes DEF poolVars, sessVars
<1>2. CASE \E s \in Sids : SessionDies(s)
  BY <1>2, NotedTypes DEF SessionDies, poolVars, shellVars
<1>3. QED  BY <1>1, <1>2

----------------------------------------------------------------------------
(* The rest of the invariant.                                              *)

LEMMA StepRoles ==
  ASSUME TypeOK, Roles, NEW c \in Calls, PoolStep(c) PROVE Roles'
<1> USE DEF TypeOK, Roles, Goto, Calls, Getters, Connecting, Dropping, Returned
<1>1. CASE GetCached(c) \/ GetStep(c)
  BY <1>1 DEF GetCached, GetStep, EvictSession, EvictOps, Lookup, Connect, ConnectFails, Insert,
     CachedOps, NewOps, UseOps
<1>2. CASE OpenShell(c) \/ DoneWithOps(c)
  BY <1>2 DEF OpenShell, DoneWithOps
<1>3. CASE Edit(c)
  BY <1>3 DEF Edit, AfterEdit
<1>4. CASE DropStep(c)
  BY <1>4 DEF DropStep, DropOps, DropSession, AfterDrop, Disconnect
<1>5. QED  BY <1>1, <1>2, <1>3, <1>4 DEF PoolStep

LEMMA StepFresh ==
  ASSUME TypeOK, Fresh, Closing, NEW c \in Calls, PoolStep(c) PROVE Fresh'
<1> USE DEF TypeOK, Fresh, Goto
<1>1. CASE GetCached(c)
  BY <1>1 DEF GetCached, poolVars, sessVars
<1>2. CASE EvictSession(c)
  BY <1>2 DEF EvictSession, sessVars
<1>3. CASE EvictOps(c)
  BY <1>3 DEF EvictOps, sessVars
<1>4. CASE Lookup(c)
  <2>1. CASE pc'[c] = "failed"
    BY <1>4, <2>1 DEF Lookup, poolVars
  <2>2. CASE pc'[c] # "failed"
    <3>1. /\ made' = made + 1 /\ sess' = [sess EXCEPT ![c] = made + 1]
          /\ pc' = [pc EXCEPT ![c] = "connect"]
          /\ UNCHANGED <<sessions, dead>>
      BY <1>4, <2>2 DEF Lookup, poolVars
    <3>2. made \in Nat /\ sessions <= made /\ made + 1 \notin dead
      OBVIOUS
    <3>3. \A d \in Calls : sess[d] \in Nat /\ sess[d] <= made
      OBVIOUS
    <3>4. QED  BY <3>1, <3>2, <3>3
  <2>3. QED  BY <2>1, <2>2
<1>5. CASE Connect(c)
  BY <1>5 DEF Connect, poolVars, sessVars
<1>6. CASE ConnectFails(c)
  BY <1>6 DEF ConnectFails, poolVars
<1>7. CASE Insert(c)
  BY <1>7 DEF Insert, Inserted, sessVars
<1>8. CASE CachedOps(c)
  BY <1>8 DEF CachedOps, UseOps, poolVars, sessVars
<1>9. CASE NewOps(c)
  BY <1>9 DEF NewOps, UseOps, sessVars
<1>10. CASE OpenShell(c)
  BY <1>10 DEF OpenShell, poolVars, sessVars
<1>11. CASE DoneWithOps(c)
  BY <1>11 DEF DoneWithOps, poolVars, sessVars
<1>12. CASE Edit(c)
  BY <1>12 DEF Edit, AfterEdit, sessVars
<1>13. CASE DropOps(c)
  BY <1>13 DEF DropOps, sessVars
<1>14. CASE DropSession(c)
  BY <1>14 DEF DropSession, AfterDrop, sessVars
<1>15. CASE Disconnect(c)
  BY <1>15 DEF Disconnect, poolVars
<1>16. QED
  BY <1>1, <1>2, <1>3, <1>4, <1>5, <1>6, <1>7, <1>8, <1>9, <1>10, <1>11, <1>12, <1>13, <1>14,
     <1>15 DEF PoolStep, GetStep, DropStep

LEMMA StepClosing ==
  ASSUME TypeOK, Closing, NEW c \in Calls, PoolStep(c) PROVE Closing'
<1> USE DEF TypeOK, Closing, Goto
<1>1. CASE DropSession(c)
  BY <1>1 DEF DropSession, AfterDrop, sessVars
<1>2. CASE GetCached(c) \/ Edit(c) \/ OpenShell(c) \/ DoneWithOps(c)
  BY <1>2 DEF GetCached, Edit, AfterEdit, OpenShell, DoneWithOps, sessVars
<1>3. CASE GetStep(c)
  <2>1. CASE Lookup(c)
    <3>1. made' \in {made, made + 1} /\ made \in Nat
      BY <2>1 DEF Lookup
    <3>2. \A d \in Calls \ {c} : pc'[d] = pc[d] /\ sess'[d] = sess[d]
      BY <2>1 DEF Lookup
    <3>3. pc'[c] # "disconnecting"
      BY <2>1 DEF Lookup
    <3>4. QED  BY <3>1, <3>2, <3>3
  <2>2. CASE EvictSession(c) \/ EvictOps(c) \/ Connect(c) \/ ConnectFails(c) \/ Insert(c)
    BY <2>2 DEF EvictSession, EvictOps, Connect, ConnectFails, Insert, sessVars
  <2>3. CASE CachedOps(c) \/ NewOps(c)
    BY <2>3 DEF CachedOps, NewOps, UseOps, sessVars
  <2>4. QED  BY <1>3, <2>1, <2>2, <2>3 DEF GetStep
<1>4. CASE DropOps(c) \/ Disconnect(c)
  BY <1>4 DEF DropOps, Disconnect, sessVars
<1>5. QED  BY <1>1, <1>2, <1>3, <1>4 DEF PoolStep, DropStep

LEMMA OtherSteps ==
  ASSUME IInv,
         \/ \E c \in Shells : DriverTells(c) \/ DriverLeaves(c) \/ CloseShell(c)
         \/ \E s \in Sids : SessionDies(s)
  PROVE  Roles' /\ Fresh' /\ Closing'
<1> USE DEF IInv, TypeOK, Roles, Fresh, Closing
<1>1. CASE \E c \in Shells : DriverTells(c) \/ DriverLeaves(c) \/ CloseShell(c)
  BY <1>1 DEF DriverTells, DriverLeaves, CloseShell, poolVars, sessVars
<1>2. CASE \E s \in Sids : SessionDies(s)
  BY <1>2 DEF SessionDies, poolVars
<1>3. QED  BY <1>1, <1>2

LEMMA NextInv == IInv /\ [Next]_vars => IInv'
<1> SUFFICES ASSUME IInv, [Next]_vars PROVE IInv'
  OBVIOUS
<1>1. CASE UNCHANGED vars
  BY <1>1 DEF IInv, TypeOK, Roles, Fresh, Closing, vars, poolVars, sessVars, shellVars
<1>2. ASSUME NEW c \in Calls, PoolStep(c) PROVE IInv'
  BY <1>2, StepTypes, StepRoles, StepFresh, StepClosing DEF IInv
<1>3. ASSUME \/ \E c \in Shells : DriverTells(c) \/ DriverLeaves(c) \/ CloseShell(c)
             \/ \E s \in Sids : SessionDies(s)
      PROVE  IInv'
  BY <1>3, OtherTypes, OtherSteps DEF IInv
<1>4. QED  BY <1>1, <1>2, <1>3 DEF Next, PoolStep

----------------------------------------------------------------------------
(* The refinement.                                                         *)

LEMMA PhaseNow ==
  ASSUME NEW c \in Calls
  PROVE  /\ c \notin Getters \/ pc[c] = "idle" => Phase(c) = "idle"
         /\ c \in Getters =>
              /\ pc[c] \in {"evict", "evictOps", "lookup", "connect"} => Phase(c) = "waiting"
              /\ pc[c] \in {"insert", "got", "newOps"} => Phase(c) = "given"
              /\ pc[c] \in {"using", "ok", "failed"} => Phase(c) = "over"
BY DEF Phase, Connecting, Returned

LEMMA PhaseNext ==
  ASSUME NEW c \in Calls
  PROVE  /\ c \notin Getters \/ pc'[c] = "idle" => Phase(c)' = "idle"
         /\ c \in Getters =>
              /\ pc'[c] \in {"evict", "evictOps", "lookup", "connect"} => Phase(c)' = "waiting"
              /\ pc'[c] \in {"insert", "got", "newOps"} => Phase(c)' = "given"
              /\ pc'[c] \in {"using", "ok", "failed"} => Phase(c)' = "over"
BY DEF Phase, Connecting, Returned

\* The state of the abstract pool, as the substitution makes it.
phaseOf == [c \in Calls |-> Phase(c)]
givenTo == [c \in Calls |-> IF Phase(c) = "given" THEN sess[c] ELSE None]

\* A step of one call changes the abstract state of that call only.
LEMMA OneCall ==
  ASSUME NEW c \in Calls, NEW p, Phase(c)' = p,
         \A d \in Calls \ {c} : pc'[d] = pc[d] /\ sess'[d] = sess[d]
  PROVE  /\ phaseOf' = [phaseOf EXCEPT ![c] = p]
         /\ givenTo' = [givenTo EXCEPT ![c] = IF p = "given" THEN sess'[c] ELSE None]
<1>1. \A d \in Calls \ {c} : Phase(d)' = Phase(d)
  BY DEF Phase
<1>2. phaseOf' = [phaseOf EXCEPT ![c] = p]
  BY <1>1 DEF phaseOf
<1>3. givenTo' = [givenTo EXCEPT ![c] = IF p = "given" THEN sess'[c] ELSE None]
  BY <1>1 DEF givenTo
<1>4. QED  BY <1>2, <1>3

\* The actions of SessionLease over that state.
LEMMA AbstractSteps ==
  /\ Lease!vars = <<sessions, dead, phaseOf, givenTo>>
  /\ \A c \in Calls :
       /\ Lease!Ask(c) <=> /\ phaseOf[c] = "idle"
                           /\ phaseOf' = [phaseOf EXCEPT ![c] = "waiting"]
                           /\ UNCHANGED <<sessions, dead, givenTo>>
       /\ Lease!Cache(c) <=> /\ phaseOf[c] = "given" /\ sessions' = givenTo[c]
                             /\ UNCHANGED <<dead, phaseOf, givenTo>>
       /\ Lease!End(c) <=> /\ phaseOf[c] \in {"waiting", "given"}
                           /\ phaseOf' = [phaseOf EXCEPT ![c] = "over"]
                           /\ givenTo' = [givenTo EXCEPT ![c] = None]
                           /\ dead \subseteq dead' /\ dead' \subseteq Sids
                           /\ UNCHANGED sessions
  /\ Lease!Forget <=> sessions' = None /\ UNCHANGED <<dead, phaseOf, givenTo>>
  /\ Lease!Die <=> /\ dead \subseteq dead' /\ dead' \subseteq Sids
                   /\ UNCHANGED <<sessions, phaseOf, givenTo>>
BY DEF Lease!vars, Lease!Ask, Lease!Cache, Lease!End, Lease!Forget, Lease!Die,
   phaseOf, givenTo

\* A step of the pool is a step of SessionLease or nothing to its callers.
LeaseStep == Lease!Next \/ UNCHANGED Lease!vars

LEMMA AbstractNext ==
  /\ \A c \in Calls : Lease!Ask(c) \/ Lease!Cache(c) \/ Lease!End(c) => LeaseStep
  /\ Lease!Forget \/ Lease!Die => LeaseStep
  /\ UNCHANGED <<sessions, dead, phaseOf, givenTo>> => LeaseStep
<1>1. UNCHANGED <<sessions, dead, phaseOf, givenTo>> => UNCHANGED Lease!vars
  BY DEF Lease!vars, phaseOf, givenTo
<1>2. QED  BY <1>1 DEF LeaseStep, Lease!Next

LEMMA GiveStep ==
  ASSUME NEW c \in Calls, NEW s \in Sids,
         phaseOf[c] \in {"idle", "waiting"}, s \notin dead,
         s = sessions \/ \A d \in Calls : givenTo[d] # s,
         phaseOf' = [phaseOf EXCEPT ![c] = "given"],
         givenTo' = [givenTo EXCEPT ![c] = s],
         UNCHANGED <<sessions, dead>>
  PROVE  LeaseStep
<1>1. Lease!Give(c, s)
  BY DEF Lease!Give, phaseOf, givenTo
<1>2. QED  BY <1>1 DEF LeaseStep, Lease!Next

LEMMA GetCachedStep ==
  ASSUME IInv, NEW c \in Calls, GetCached(c) PROVE LeaseStep
<1> USE DEF IInv, TypeOK
<1>1. c \in Getters /\ pc[c] = "idle" /\ phaseOf[c] = "idle" /\ givenTo[c] = None
  BY PhaseNow DEF GetCached, phaseOf, givenTo
<1>2. UNCHANGED <<sessions, dead>>
  BY DEF GetCached, poolVars, sessVars
<1>3. \A d \in Calls \ {c} : pc'[d] = pc[d] /\ sess'[d] = sess[d]
  BY DEF GetCached, Goto
<1>4. CASE Reusable(sessions)
  <2>1. pc'[c] = "got" /\ sess'[c] = sessions
    BY <1>4 DEF GetCached, Goto
  <2>2. Phase(c)' = "given"
    BY <2>1, <1>1, PhaseNext
  <2>3. /\ phaseOf' = [phaseOf EXCEPT ![c] = "given"]
        /\ givenTo' = [givenTo EXCEPT ![c] = sessions]
    BY <2>1, <2>2, <1>3, OneCall
  <2>4. sessions \in Sids /\ sessions \notin dead
    BY <1>4 DEF Reusable
  <2>5. QED  BY <2>3, <2>4, <1>1, <1>2, GiveStep
<1>5. CASE ~Reusable(sessions)
  <2>1. pc'[c] = "evict"
    BY <1>5 DEF GetCached, Goto
  <2>2. Phase(c)' = "waiting"
    BY <2>1, <1>1, PhaseNext
  <2>3. /\ phaseOf' = [phaseOf EXCEPT ![c] = "waiting"]
        /\ givenTo' = [givenTo EXCEPT ![c] = None]
    BY <2>2, <1>3, OneCall
  <2>4. givenTo' = givenTo
    BY <2>3, <1>1 DEF givenTo
  <2>5. QED  BY <2>3, <2>4, <1>1, <1>2, AbstractSteps, AbstractNext
<1>6. QED  BY <1>4, <1>5

\* Steps before the connect: evictions and the lookup.
LEMMA WaitingStep ==
  ASSUME IInv, NEW c \in Calls, EvictSession(c) \/ EvictOps(c) \/ Lookup(c)
  PROVE  LeaseStep
<1> USE DEF IInv, TypeOK
<1>1. c \in Getters
  BY DEF EvictSession, EvictOps, Lookup, Roles, Calls, Dropping
<1>2. phaseOf[c] = "waiting" /\ givenTo[c] = None
  BY <1>1, PhaseNow DEF EvictSession, EvictOps, Lookup, phaseOf, givenTo
<1>3. \A d \in Calls \ {c} : pc'[d] = pc[d] /\ sess'[d] = sess[d]
  BY DEF EvictSession, EvictOps, Lookup, Goto
<1>4. dead' = dead
  BY DEF EvictSession, EvictOps, Lookup, sessVars
<1>5. CASE pc'[c] # "failed"
  <2>1. Phase(c)' = "waiting"
    BY <1>1, <1>5, PhaseNext DEF EvictSession, EvictOps, Lookup, Goto
  <2>2. /\ phaseOf' = [phaseOf EXCEPT ![c] = "waiting"]
        /\ givenTo' = [givenTo EXCEPT ![c] = None]
    BY <2>1, <1>3, OneCall
  <2>3. phaseOf' = phaseOf /\ givenTo' = givenTo
    BY <2>2, <1>2 DEF phaseOf, givenTo
  <2>4. sessions' = sessions \/ sessions' = None
    BY DEF EvictSession, EvictOps, Lookup, poolVars
  <2>5. QED  BY <2>3, <2>4, <1>4, AbstractSteps, AbstractNext
<1>6. CASE pc'[c] = "failed"
  <2>1. Phase(c)' = "over"
    BY <1>1, <1>6, PhaseNext
  <2>2. /\ phaseOf' = [phaseOf EXCEPT ![c] = "over"]
        /\ givenTo' = [givenTo EXCEPT ![c] = None]
    BY <2>1, <1>3, OneCall
  <2>3. sessions' = sessions
    BY <1>6 DEF EvictSession, EvictOps, Lookup, poolVars, Goto
  <2>4. dead \subseteq dead' /\ dead' \subseteq Sids
    BY <1>4
  <2>5. Lease!End(c)
    BY <2>2, <2>3, <2>4, <1>2, AbstractSteps
  <2>6. QED  BY <2>5, AbstractNext
<1>7. QED  BY <1>5, <1>6

\* The connect gives a session that is up and nobody else's.
LEMMA ConnectStep ==
  ASSUME IInv, NEW c \in Calls, Connect(c) PROVE LeaseStep
<1> USE DEF IInv, TypeOK
<1>1. c \in Getters
  BY DEF Connect, Roles, Calls, Dropping
<1>2. phaseOf[c] = "waiting"
  BY <1>1, PhaseNow DEF Connect, phaseOf
<1>3. \A d \in Calls \ {c} : pc'[d] = pc[d] /\ sess'[d] = sess[d]
  BY DEF Connect, Goto
<1>4. pc'[c] = "insert" /\ sess' = sess /\ UNCHANGED <<sessions, dead>>
  BY DEF Connect, Goto, poolVars, sessVars
<1>5. sess[c] \in Sids /\ sess[c] \notin dead
  BY DEF Connect, Fresh
<1>6. \A d \in Calls : givenTo[d] # sess[c]
  BY <1>2, <1>5 DEF Connect, Fresh, givenTo, phaseOf
<1>7. Phase(c)' = "given"
  BY <1>1, <1>4, PhaseNext
<1>8. /\ phaseOf' = [phaseOf EXCEPT ![c] = "given"]
      /\ givenTo' = [givenTo EXCEPT ![c] = sess[c]]
  BY <1>3, <1>4, <1>7, OneCall
<1>9. QED  BY <1>2, <1>4, <1>5, <1>6, <1>8, GiveStep

\* What ends a call: a failed connect, file operations or a terminal.
LEMMA EndStep ==
  ASSUME IInv, NEW c \in Calls,
         \/ ConnectFails(c) \/ NewOps(c) \/ OpenShell(c)
         \/ CachedOps(c) /\ pc'[c] # "newOps"
  PROVE  LeaseStep
<1> USE DEF IInv, TypeOK
<1>1. c \in Getters
  BY DEF ConnectFails, NewOps, OpenShell, CachedOps, Roles, Calls, Dropping
<1>2. phaseOf[c] \in {"waiting", "given"}
  BY <1>1, PhaseNow DEF ConnectFails, NewOps, OpenShell, CachedOps, phaseOf
<1>3. \A d \in Calls \ {c} : pc'[d] = pc[d] /\ sess'[d] = sess[d]
  BY DEF ConnectFails, NewOps, OpenShell, CachedOps, UseOps, Goto
<1>4. pc'[c] \in {"using", "ok", "failed"}
  BY DEF ConnectFails, NewOps, OpenShell, CachedOps, UseOps, Goto
<1>5. sessions' = sessions
  BY DEF ConnectFails, NewOps, OpenShell, CachedOps, poolVars
<1>6. dead \subseteq dead' /\ dead' \subseteq Sids
  <2>1. dead \subseteq Sids /\ \A s \in 1..made : s \in Sids
    OBVIOUS
  <2>2. CASE ConnectFails(c)
    <3>1. dead' = dead \cup {sess[c]} /\ sess[c] \in 1..made
      BY <2>2 DEF ConnectFails, Fresh
    <3>2. QED  BY <2>1, <3>1
  <2>3. CASE ~ConnectFails(c)
    <3>1. dead' = dead
      BY <2>3 DEF NewOps, OpenShell, CachedOps, sessVars
    <3>2. QED  BY <2>1, <3>1
  <2>4. QED  BY <2>2, <2>3
<1>7. Phase(c)' = "over"
  BY <1>1, <1>4, PhaseNext
<1>8. /\ phaseOf' = [phaseOf EXCEPT ![c] = "over"]
      /\ givenTo' = [givenTo EXCEPT ![c] = None]
  BY <1>3, <1>7, OneCall
<1>9. QED  BY <1>2, <1>5, <1>6, <1>8, AbstractSteps, AbstractNext

\* The insertion caches what the call was given.
LEMMA InsertStep ==
  ASSUME IInv, NEW c \in Calls, Insert(c) PROVE LeaseStep
<1> USE DEF IInv, TypeOK
<1>1. c \in Getters
  BY DEF Insert, Roles, Calls, Dropping
<1>2. phaseOf[c] = "given" /\ givenTo[c] = sess[c]
  BY <1>1, PhaseNow DEF Insert, phaseOf, givenTo
<1>3. \A d \in Calls \ {c} : pc'[d] = pc[d] /\ sess'[d] = sess[d]
  BY DEF Insert, Goto
<1>4. pc'[c] = "got" /\ sess' = sess /\ sessions' = sess[c] /\ dead' = dead
  BY DEF Insert, Inserted, Goto, sessVars
<1>5. Phase(c)' = "given"
  BY <1>1, <1>4, PhaseNext
<1>6. /\ phaseOf' = [phaseOf EXCEPT ![c] = "given"]
      /\ givenTo' = [givenTo EXCEPT ![c] = sess[c]]
  BY <1>3, <1>4, <1>5, OneCall
<1>7. phaseOf' = phaseOf /\ givenTo' = givenTo
  BY <1>2, <1>6 DEF phaseOf, givenTo
<1>8. QED  BY <1>2, <1>4, <1>7, AbstractSteps, AbstractNext

\* Steps whose callers are not in get_or_connect().
LEMMA StutterStep ==
  ASSUME IInv, NEW c \in Calls,
         \/ CachedOps(c) /\ pc'[c] = "newOps"
         \/ DoneWithOps(c) \/ Edit(c) \/ DropStep(c)
  PROVE  LeaseStep
<1> USE DEF IInv, TypeOK
<1>1. \A d \in Calls \ {c} : pc'[d] = pc[d] /\ sess'[d] = sess[d]
  BY DEF CachedOps, UseOps, DoneWithOps, Edit, DropStep, DropOps, DropSession, Disconnect, Goto
<1>2. CASE CachedOps(c) /\ pc'[c] = "newOps"
  <2>1. c \in Getters /\ pc[c] = "got"
    BY <1>2 DEF CachedOps, Getters
  <2>2. sess' = sess /\ UNCHANGED <<sessions, dead>>
    BY <1>2 DEF CachedOps, UseOps, Goto, poolVars, sessVars
  <2>3. phaseOf[c] = "given" /\ givenTo[c] = sess[c] /\ Phase(c)' = "given"
    BY <1>2, <2>1, PhaseNow, PhaseNext DEF phaseOf, givenTo
  <2>4. /\ phaseOf' = [phaseOf EXCEPT ![c] = "given"]
        /\ givenTo' = [givenTo EXCEPT ![c] = sess[c]]
    BY <1>1, <2>2, <2>3, OneCall
  <2>5. phaseOf' = phaseOf /\ givenTo' = givenTo
    BY <2>3, <2>4 DEF phaseOf, givenTo
  <2>6. QED  BY <2>2, <2>5, AbstractNext
<1>3. CASE DoneWithOps(c) \/ Edit(c) \/ DropStep(c)
  <2>1. \/ c \notin Getters
        \/ c \in Getters /\ pc[c] = "using" /\ pc'[c] = "ok"
    BY <1>3 DEF DoneWithOps, Edit, DropStep, DropOps, DropSession, Disconnect, Roles, Dropping, Goto
  <2>2. Phase(c) \in {"idle", "over"} /\ Phase(c)' = Phase(c)
    BY <2>1, PhaseNow, PhaseNext
  <2>3. phaseOf' = phaseOf /\ givenTo' = givenTo
    <3>1. phaseOf[c] = Phase(c) /\ givenTo[c] = None
      BY <2>2 DEF phaseOf, givenTo
    <3>2. /\ phaseOf' = [phaseOf EXCEPT ![c] = Phase(c)]
          /\ givenTo' = [givenTo EXCEPT ![c] = IF Phase(c) = "given" THEN sess'[c] ELSE None]
      BY <1>1, <2>2, OneCall
    <3>3. givenTo' = [givenTo EXCEPT ![c] = None]
      BY <2>2, <3>2
    <3>4. QED  BY <3>1, <3>2, <3>3 DEF phaseOf, givenTo
  <2>4. \/ UNCHANGED <<sessions, dead>>
        \/ sessions' = None /\ dead' = dead
        \/ sessions' = sessions /\ dead \subseteq dead' /\ dead' \subseteq Sids
    <3>1. CASE ~Disconnect(c)
      BY <1>3, <3>1 DEF DoneWithOps, Edit, DropStep, DropOps, DropSession, poolVars, sessVars
    <3>2. CASE Disconnect(c)
      <4>1. dead \subseteq Sids /\ \A s \in 1..made : s \in Sids
        OBVIOUS
      <4>2. dead' = dead \cup {sess[c]} /\ sess[c] \in 1..made /\ sessions' = sessions
        BY <3>2 DEF Disconnect, Closing, poolVars
      <4>3. QED  BY <4>1, <4>2
    <3>3. QED  BY <3>1, <3>2
  <2>5. QED  BY <2>3, <2>4, AbstractSteps, AbstractNext
<1>4. QED  BY <1>2, <1>3

LEMMA OtherStep ==
  ASSUME IInv,
         \/ \E c \in Shells : DriverTells(c) \/ DriverLeaves(c) \/ CloseShell(c)
         \/ \E s \in Sids : SessionDies(s)
         \/ UNCHANGED vars
  PROVE  LeaseStep
<1> USE DEF IInv, TypeOK
<1>1. UNCHANGED <<pc, sess, sessions>>
  BY DEF DriverTells, DriverLeaves, CloseShell, SessionDies, vars, poolVars
<1>2. phaseOf' = phaseOf /\ givenTo' = givenTo
  BY <1>1 DEF phaseOf, givenTo, Phase
<1>3. dead' = dead \/ (dead \subseteq dead' /\ dead' \subseteq Sids)
  <2>1. dead \subseteq Sids
    OBVIOUS
  <2>2. dead' = dead \/ \E s \in Sids : dead' = dead \cup {s}
    BY DEF DriverTells, DriverLeaves, CloseShell, SessionDies, vars, sessVars
  <2>3. QED  BY <2>1, <2>2
<1>4. QED  BY <1>1, <1>2, <1>3, AbstractSteps, AbstractNext

LEMMA EveryStep == IInv /\ [Next]_vars => LeaseStep
<1> SUFFICES ASSUME IInv, [Next]_vars PROVE LeaseStep
  OBVIOUS
<1>1. ASSUME NEW c \in Calls, PoolStep(c) PROVE LeaseStep
  BY <1>1, GetCachedStep, WaitingStep, ConnectStep, EndStep, InsertStep, StutterStep
     DEF PoolStep, GetStep
<1>2. QED  BY <1>1, OtherStep DEF Next, PoolStep

LEMMA LeaseBegins == Init => Lease!Init
<1> SUFFICES ASSUME Init PROVE Lease!Init
  OBVIOUS
<1>1. \A c \in Calls : Phase(c) = "idle"
  BY PhaseNow DEF Init
<1>2. QED  BY <1>1 DEF Init, Lease!Init

----------------------------------------------------------------------------

LEMMA Invariance == Spec => []IInv
BY InitInv, NextInv, PTL DEF Spec

\* Every variable stays in its type: no session is used that was not connected.
THEOREM PoolTypes == Spec => []TypeOK
<1>1. IInv => TypeOK
  BY DEF IInv
<1>2. QED  BY <1>1, Invariance, PTL

\* Both pools implement SessionLease, for every number of calls, edits and
\* sessions: no call is answered with a session that was down all along, and two
\* calls share no session but the cached one.
THEOREM PoolsKeepLease == Spec => KeepsLease
<1>1. IInv /\ [Next]_vars => [Lease!Next]_(Lease!vars)
  BY EveryStep DEF LeaseStep
<1>2. QED  BY <1>1, LeaseBegins, Invariance, PTL DEF Spec, KeepsLease, Lease!Spec

----------------------------------------------------------------------------
(* The parts of the invariant that holds while no call overlaps a          *)
(* connecting one.                                                         *)

\* A call that has been given a session and not used it yet.
Holding(c) == pc[c] \in {"got", "newOps"}

\* Two calls overlap, one of them connecting, only if the history says so.
NoRace == raced \/ ~Race

\* A session that is connected or held is one, and was not down when its call
\* began; a terminal is on one; an Agent's pool has no file operations.
Own ==
  /\ \A c \in Calls : pc[c] \in {"connect", "insert"} \/ Holding(c) =>
       sess[c] \in 1..made /\ sess[c] \notin deadBefore[c]
  /\ \A c \in Shells : shell[c] \in {"open", "orphan"} => on[c] \in 1..made
  /\ kind = "agent" => fileOps = None /\ \A c \in Calls : pc[c] # "newOps"

\* An edit has still to drop the session made with the old profile.
Dropped == \E e \in Edits : pc[e] \in {"dropOps", "dropSession"}

\* What the pool holds is made with the profile, and so is what will be.
CurrentProfile ==
  /\ sessions # None => version[sessions] = profile \/ Dropped
  /\ \A c \in Calls : pc[c] \in {"connect", "insert"} => version[sess[c]] = profile

\* All that is cached or held is one session, and what is used was fresh.
OneSource ==
  /\ sessions # None /\ fileOps # None => fileOps = sessions
  /\ \A c \in Calls : Holding(c) => /\ sessions # None => sess[c] = sessions
                                    /\ fileOps # None => sess[c] = fileOps
  /\ \A c, d \in Calls : Holding(c) /\ Holding(d) => sess[c] = sess[d]
  /\ \A c \in Calls : pc[c] \in {"lookup", "connect", "insert"} => fileOps = None
  /\ \A c \in Files : pc[c] = "using" => ops[c] \notin deadBefore[c]

\* An edit is saying goodbye to the session.
Leaving(s) == \E e \in Edits : pc[e] = "disconnecting" /\ sess[e] = s

\* A session that is up and has a terminal, or will have one, is the pool's or
\* about to end, and the pool evicts none that is up.
NoneLeft ==
  /\ \A c \in Shells : shell[c] \in {"open", "orphan"} =>
       on[c] \in dead \/ on[c] = sessions \/ Leaving(on[c])
  /\ \A c \in Calls : Holding(c) => sess[c] \in dead \/ sess[c] = sessions \/ Leaving(sess[c])
  /\ \A c \in Calls : pc[c] = "evict" => sessions = None \/ sessions \in dead
  /\ \A c \in Calls : pc[c] \in {"evictOps", "lookup", "connect", "insert"} => sessions = None

----------------------------------------------------------------------------
(* What each step does.                                                    *)

LEMMA OthersStay ==
  ASSUME TypeOK, NEW c \in Calls, PoolStep(c)
  PROVE  \A d \in Calls \ {c} : pc'[d] = pc[d] /\ sess'[d] = sess[d] /\ ops'[d] = ops[d]
<1> USE DEF TypeOK, Goto
<1>1. CASE GetCached(c) \/ OpenShell(c) \/ DoneWithOps(c) \/ Edit(c)
  BY <1>1 DEF GetCached, OpenShell, DoneWithOps, Edit
<1>2. CASE GetStep(c)
  BY <1>2 DEF GetStep, EvictSession, EvictOps, Lookup, Connect, ConnectFails, Insert, CachedOps,
     NewOps, UseOps
<1>3. CASE DropStep(c)
  BY <1>3 DEF DropStep, DropOps, DropSession, Disconnect
<1>4. QED  BY <1>1, <1>2, <1>3 DEF PoolStep

LEMMA GetCachedDoes ==
  ASSUME TypeOK, Roles, NEW c \in Calls, GetCached(c)
  PROVE  /\ pc[c] = "idle" /\ c \in Getters
         /\ \/ pc'[c] = "got" /\ sess'[c] = sessions /\ sessions # None /\ sessions \notin dead
            \/ pc'[c] = "evict" /\ sess' = sess /\ (sessions = None \/ sessions \in dead)
         /\ UNCHANGED <<kind, profile, sessions, fileOps, made, dead, version, shell, on, ops>>
BY DEF TypeOK, Roles, Calls, Getters, Dropping, Goto, GetCached, Reusable, poolVars, sessVars, shellVars

LEMMA EvictSessionDoes ==
  ASSUME TypeOK, Roles, NEW c \in Calls, EvictSession(c)
  PROVE  /\ pc[c] = "evict" /\ sessions' = None
         /\ \/ pc'[c] = "evictOps"
            \/ pc'[c] = "lookup" /\ kind # "ssh"
         /\ UNCHANGED <<kind, profile, fileOps, made, dead, version, shell, on, sess, ops>>
BY DEF TypeOK, Roles, Calls, Getters, Dropping, Goto, EvictSession, sessVars, shellVars

LEMMA EvictOpsDoes ==
  ASSUME TypeOK, Roles, NEW c \in Calls, EvictOps(c)
  PROVE  /\ pc[c] = "evictOps" /\ fileOps' = None /\ pc'[c] = "lookup"
         /\ UNCHANGED <<kind, profile, sessions, made, dead, version, shell, on, sess, ops>>
BY DEF TypeOK, Roles, Calls, Getters, Dropping, Goto, EvictOps, OpsEvicted, sessVars, shellVars

LEMMA LookupDoes ==
  ASSUME TypeOK, Roles, NEW c \in Calls, Lookup(c)
  PROVE  /\ pc[c] = "lookup"
         /\ \/ /\ pc'[c] = "connect" /\ sess'[c] = made + 1 /\ made' = made + 1
               /\ made + 1 \in Sids /\ version' = [version EXCEPT ![made + 1] = profile]
            \/ pc'[c] = "failed" /\ UNCHANGED <<made, version, sess>>
         /\ UNCHANGED <<kind, profile, sessions, fileOps, dead, shell, on, ops>>
BY DEF TypeOK, Roles, Calls, Getters, Dropping, Goto, Lookup, poolVars, shellVars

LEMMA ConnectDoes ==
  ASSUME TypeOK, Roles, NEW c \in Calls, Connect(c)
  PROVE  /\ pc[c] = "connect" /\ pc'[c] = "insert"
         /\ UNCHANGED <<kind, profile, sessions, fileOps, made, dead, version, shell, on, sess, ops>>
BY DEF TypeOK, Roles, Calls, Getters, Dropping, Goto, Connect, poolVars, sessVars, shellVars

LEMMA ConnectFailsDoes ==
  ASSUME TypeOK, Roles, NEW c \in Calls, ConnectFails(c)
  PROVE  /\ pc[c] = "connect" /\ pc'[c] = "failed" /\ dead' = dead \cup {sess[c]}
         /\ sess'[c] = None
         /\ UNCHANGED <<kind, profile, sessions, fileOps, made, version, shell, on, ops>>
BY DEF TypeOK, Roles, Calls, Getters, Dropping, Goto, ConnectFails, poolVars, shellVars

LEMMA InsertDoes ==
  ASSUME TypeOK, Roles, NEW c \in Calls, Insert(c)
  PROVE  /\ pc[c] = "insert" /\ pc'[c] = "got" /\ sessions' = sess[c]
         /\ UNCHANGED <<kind, profile, fileOps, made, dead, version, shell, on, sess, ops>>
BY DEF TypeOK, Roles, Calls, Getters, Dropping, Goto, Insert, Inserted, sessVars, shellVars

LEMMA CachedOpsDoes ==
  ASSUME TypeOK, Roles, NEW c \in Calls, CachedOps(c)
  PROVE  /\ pc[c] = "got" /\ c \in Files
         /\ \/ pc'[c] = "using" /\ ops'[c] = sess[c] /\ kind = "agent"
            \/ pc'[c] = "using" /\ ops'[c] = fileOps /\ fileOps # None
            \/ pc'[c] = "newOps" /\ sess' = sess /\ fileOps = None /\ kind # "agent"
         /\ UNCHANGED <<kind, profile, sessions, fileOps, made, dead, version, shell, on>>
BY DEF TypeOK, Roles, Calls, Getters, Dropping, Goto, CachedOps, UseOps, poolVars, sessVars, shellVars

LEMMA NewOpsDoes ==
  ASSUME TypeOK, Roles, NEW c \in Calls, NewOps(c)
  PROVE  /\ pc[c] = "newOps" /\ pc'[c] = "using" /\ fileOps' = sess[c] /\ ops'[c] = sess[c]
         /\ UNCHANGED <<kind, profile, sessions, made, dead, version, shell, on>>
BY DEF TypeOK, Roles, Calls, Getters, Dropping, Goto, NewOps, UseOps, sessVars, shellVars

LEMMA OpenShellDoes ==
  ASSUME TypeOK, Roles, NEW c \in Calls, OpenShell(c)
  PROVE  /\ pc[c] = "got" /\ c \in Shells
         /\ \/ /\ pc'[c] = "ok" /\ shell' = [shell EXCEPT ![c] = "open"]
               /\ on' = [on EXCEPT ![c] = sess[c]]
            \/ pc'[c] = "failed" /\ UNCHANGED <<shell, on>>
         /\ UNCHANGED <<kind, profile, sessions, fileOps, made, dead, version, ops>>
BY DEF TypeOK, Roles, Calls, Getters, Dropping, Goto, OpenShell, poolVars, sessVars, shellVars

LEMMA DoneWithOpsDoes ==
  ASSUME TypeOK, Roles, NEW c \in Calls, DoneWithOps(c)
  PROVE  /\ pc[c] = "using" /\ pc'[c] = "ok"
         /\ UNCHANGED <<kind, profile, sessions, fileOps, made, dead, version, shell, on, sess>>
BY DEF TypeOK, Roles, Calls, Getters, Dropping, Goto, DoneWithOps, poolVars, sessVars, shellVars

LEMMA EditDoes ==
  ASSUME TypeOK, Roles, NEW c \in Calls, Edit(c)
  PROVE  /\ pc[c] = "idle" /\ c \in Edits
         /\ \/ pc'[c] \in {"dropOps", "dropSession"}
            \/ pc'[c] = "failed" /\ profile' = profile
         /\ UNCHANGED <<kind, sessions, fileOps, made, dead, version, shell, on, sess, ops>>
BY DEF TypeOK, Roles, Calls, Getters, Dropping, Goto, Edit, AfterEdit, sessVars, shellVars

LEMMA DropOpsDoes ==
  ASSUME TypeOK, Roles, NEW c \in Calls, DropOps(c)
  PROVE  /\ pc[c] = "dropOps" /\ pc'[c] = "dropSession" /\ fileOps' = None
         /\ UNCHANGED <<kind, profile, sessions, made, dead, version, shell, on, sess, ops>>
BY DEF TypeOK, Roles, Calls, Getters, Dropping, Goto, DropOps, sessVars, shellVars

LEMMA DropSessionDoes ==
  ASSUME TypeOK, Roles, NEW c \in Calls, DropSession(c)
  PROVE  /\ pc[c] = "dropSession" /\ c \in Edits /\ sessions' = None
         /\ \/ pc'[c] = "ok" /\ (sessions = None \/ kind = "agent")
            \/ pc'[c] = "disconnecting" /\ sess'[c] = sessions
         /\ UNCHANGED <<kind, profile, fileOps, made, dead, version, shell, on, ops>>
BY DEF TypeOK, Roles, Calls, Getters, Dropping, Goto, DropSession, AfterDrop, sessVars, shellVars

LEMMA DisconnectDoes ==
  ASSUME TypeOK, Roles, NEW c \in Calls, Disconnect(c)
  PROVE  /\ pc[c] = "disconnecting" /\ pc'[c] = "ok" /\ dead' = dead \cup {sess[c]}
         /\ UNCHANGED <<kind, profile, sessions, fileOps, made, version, shell, on, ops>>
BY DEF TypeOK, Roles, Calls, Getters, Dropping, Goto, Disconnect, poolVars, shellVars

----------------------------------------------------------------------------
(* Overlaps.                                                               *)

LEMMA StepNoted ==
  ASSUME NEW c \in Calls, PoolStep(c) PROVE Noted
BY DEF PoolStep, GetStep, DropStep, GetCached, EvictSession, EvictOps, Lookup, Connect, ConnectFails,
   Insert, CachedOps, NewOps, OpenShell, DoneWithOps, Edit, DropOps, DropSession, Disconnect

\* What was dead when a call began is noted once.
LEMMA DeadBefores ==
  ASSUME Noted, NEW d \in Calls, pc'[d] \notin {"idle", "ok", "failed"}
  PROVE  deadBefore'[d] = IF pc[d] = "idle" THEN dead ELSE deadBefore[d]
BY DEF Noted

\* Nothing has overlapped so far, and nothing does after the step.
LEMMA StillAlone ==
  ASSUME NoRace, Noted, ~raced'
  PROVE  /\ ~raced
         /\ \A c, d \in Calls : c # d /\ pc[c] \in Connecting => ~InFlight(d)
         /\ \A c, d \in Calls : c # d /\ pc'[c] \in Connecting => ~InFlight(d)'
<1>1. ~raced /\ ~Race'
  BY DEF Noted
<1>2. ~Race
  BY <1>1 DEF NoRace
<1>3. QED  BY <1>1, <1>2 DEF Race

LEMMA NextNoRace == NoRace /\ [Next]_vars => NoRace'
<1> SUFFICES ASSUME NoRace, [Next]_vars PROVE NoRace'
  OBVIOUS
<1>1. CASE UNCHANGED vars
  BY <1>1 DEF NoRace, Race, InFlight, vars
<1>2. CASE Next
  <2>1. Noted
    BY <1>2, StepNoted DEF Next, PoolStep, DriverTells, DriverLeaves, CloseShell, SessionDies
  <2>2. QED  BY <2>1 DEF Noted, NoRace
<1>3. QED  BY <1>1, <1>2

----------------------------------------------------------------------------
(* The steps of the calls.                                                 *)

LEMMA CallsAre == Shells \subseteq Calls /\ Files \subseteq Calls /\ Edits \subseteq Calls
BY DEF Calls, Getters

LEMMA StepOwn ==
  ASSUME IInv, Own, NEW c \in Calls, PoolStep(c)
  PROVE  Own'
<1> USE CallsAre DEF Own, Holding
<1>0. TypeOK /\ Roles
  BY DEF IInv
<1>1. \A d \in Calls \ {c} : pc'[d] = pc[d] /\ sess'[d] = sess[d] /\ ops'[d] = ops[d]
  BY <1>0, OthersStay
<1>2. \A d \in Calls : pc'[d] \notin {"idle", "ok", "failed"} =>
        deadBefore'[d] = IF pc[d] = "idle" THEN dead ELSE deadBefore[d]
  BY StepNoted, DeadBefores
<1>11. CASE GetCached(c)
  <2>1. sessions # None => sessions \in 1..made
    BY <1>0 DEF TypeOK
  <2>2. QED  BY <1>0, <2>1, <1>11, <1>1, <1>2, GetCachedDoes
<1>12. CASE EvictSession(c)
  BY <1>0, <1>12, <1>1, <1>2, EvictSessionDoes
<1>13. CASE EvictOps(c)
  BY <1>0, <1>13, <1>1, <1>2, EvictOpsDoes
<1>14. CASE Lookup(c)
  <2>1. made \in Nat /\ \A d \in Calls : deadBefore[d] \subseteq 1..made
    BY <1>0 DEF TypeOK
  <2>2. \A s \in 1..made : s \in 1..made'
    BY <1>0, <1>14, <2>1, LookupDoes
  <2>3. pc'[c] = "connect" => sess'[c] \in 1..made' /\ sess'[c] \notin 1..made
    BY <1>0, <1>14, <2>1, LookupDoes
  <2>4. deadBefore'[c] \subseteq 1..made \/ pc'[c] = "failed"
    BY <1>0, <1>14, <2>1, <1>2, LookupDoes
  <2>5. QED  BY <1>0, <1>14, <1>1, <1>2, <2>2, <2>3, <2>4, LookupDoes
<1>15. CASE Connect(c)
  BY <1>0, <1>15, <1>1, <1>2, ConnectDoes
<1>16. CASE ConnectFails(c)
  BY <1>0, <1>16, <1>1, <1>2, ConnectFailsDoes
<1>17. CASE Insert(c)
  BY <1>0, <1>17, <1>1, <1>2, InsertDoes
<1>18. CASE CachedOps(c)
  BY <1>0, <1>18, <1>1, <1>2, CachedOpsDoes
<1>19. CASE NewOps(c)
  BY <1>0, <1>19, <1>1, <1>2, NewOpsDoes
<1>20. CASE OpenShell(c)
  BY <1>0, <1>20, <1>1, <1>2, OpenShellDoes DEF TypeOK
<1>21. CASE DoneWithOps(c)
  BY <1>0, <1>21, <1>1, <1>2, DoneWithOpsDoes
<1>22. CASE Edit(c)
  BY <1>0, <1>22, <1>1, <1>2, EditDoes
<1>23. CASE DropOps(c)
  BY <1>0, <1>23, <1>1, <1>2, DropOpsDoes
<1>24. CASE DropSession(c)
  BY <1>0, <1>24, <1>1, <1>2, DropSessionDoes
<1>25. CASE Disconnect(c)
  BY <1>0, <1>25, <1>1, <1>2, DisconnectDoes
<1>26. QED
  BY <1>11, <1>12, <1>13, <1>14, <1>15, <1>16, <1>17, <1>18, <1>19,
     <1>20, <1>21, <1>22, <1>23, <1>24, <1>25
     DEF PoolStep, GetStep, DropStep

LEMMA StepProfile ==
  ASSUME IInv, NoRace, CurrentProfile, NEW c \in Calls, PoolStep(c), ~raced'
  PROVE  CurrentProfile'
<1> USE CallsAre DEF CurrentProfile, Dropped
<1>0. TypeOK /\ Roles
  BY DEF IInv
<1>1. \A d \in Calls \ {c} : pc'[d] = pc[d] /\ sess'[d] = sess[d] /\ ops'[d] = ops[d]
  BY <1>0, OthersStay
<1>2. /\ pc[c] \in Connecting => \A d \in Calls \ {c} : ~InFlight(d)
      /\ pc'[c] \in Connecting => \A d \in Calls \ {c} : ~InFlight(d)
      /\ InFlight(c)' => \A d \in Calls \ {c} : pc[d] \notin Connecting
      /\ InFlight(c) => \A d \in Calls \ {c} : pc[d] \notin Connecting
  BY <1>1, StepNoted, StillAlone DEF InFlight, Connecting
<1>11. CASE GetCached(c)
  BY <1>0, <1>11, <1>1, <1>2, GetCachedDoes
<1>12. CASE EvictSession(c)
  BY <1>0, <1>12, <1>1, <1>2, EvictSessionDoes
<1>13. CASE EvictOps(c)
  BY <1>0, <1>13, <1>1, <1>2, EvictOpsDoes
<1>14. CASE Lookup(c)
  <2>1. made \in Nat /\ sessions \in 0..made /\ version \in [Sids -> Nat]
    BY <1>0 DEF TypeOK
  <2>2. \A d \in Calls \ {c} : pc[d] \notin Connecting
    BY <1>0, <1>2, <1>14, LookupDoes DEF InFlight, Connecting
  <2>3. sessions # None => version'[sessions] = version[sessions]
    BY <1>0, <1>14, <2>1, LookupDoes
  <2>4. pc'[c] = "connect" => version'[sess'[c]] = profile
    BY <1>0, <1>14, <2>1, LookupDoes
  <2>5. QED  BY <1>0, <1>14, <1>1, <2>2, <2>3, <2>4, LookupDoes DEF Connecting
<1>15. CASE Connect(c)
  BY <1>0, <1>15, <1>1, <1>2, ConnectDoes
<1>16. CASE ConnectFails(c)
  BY <1>0, <1>16, <1>1, <1>2, ConnectFailsDoes
<1>17. CASE Insert(c)
  BY <1>0, <1>17, <1>1, <1>2, InsertDoes
<1>18. CASE CachedOps(c)
  BY <1>0, <1>18, <1>1, <1>2, CachedOpsDoes
<1>19. CASE NewOps(c)
  BY <1>0, <1>19, <1>1, <1>2, NewOpsDoes
<1>20. CASE OpenShell(c)
  BY <1>0, <1>20, <1>1, <1>2, OpenShellDoes
<1>21. CASE DoneWithOps(c)
  BY <1>0, <1>21, <1>1, <1>2, DoneWithOpsDoes
<1>22. CASE Edit(c)
  BY <1>0, <1>22, <1>1, <1>2, EditDoes DEF InFlight, Dropping, Connecting
<1>23. CASE DropOps(c)
  BY <1>0, <1>23, <1>1, <1>2, DropOpsDoes DEF Roles, Dropping
<1>24. CASE DropSession(c)
  BY <1>0, <1>24, <1>1, <1>2, DropSessionDoes
<1>25. CASE Disconnect(c)
  BY <1>0, <1>25, <1>1, <1>2, DisconnectDoes
<1>26. QED
  BY <1>11, <1>12, <1>13, <1>14, <1>15, <1>16, <1>17, <1>18, <1>19,
     <1>20, <1>21, <1>22, <1>23, <1>24, <1>25
     DEF PoolStep, GetStep, DropStep

LEMMA StepSource ==
  ASSUME IInv, Own, NoRace, OneSource, NEW c \in Calls, PoolStep(c), ~raced'
  PROVE  OneSource'
<1> USE CallsAre DEF OneSource, Holding
<1>0. TypeOK /\ Roles
  BY DEF IInv
<1>1. \A d \in Calls \ {c} : pc'[d] = pc[d] /\ sess'[d] = sess[d] /\ ops'[d] = ops[d]
  BY <1>0, OthersStay
<1>2. /\ pc[c] \in Connecting => \A d \in Calls \ {c} : ~InFlight(d)
      /\ pc'[c] \in Connecting => \A d \in Calls \ {c} : ~InFlight(d)
      /\ InFlight(c)' => \A d \in Calls \ {c} : pc[d] \notin Connecting
      /\ InFlight(c) => \A d \in Calls \ {c} : pc[d] \notin Connecting
  BY <1>1, StepNoted, StillAlone DEF InFlight, Connecting
<1>9. \A d \in Calls : pc'[d] \notin {"idle", "ok", "failed"} =>
        deadBefore'[d] = IF pc[d] = "idle" THEN dead ELSE deadBefore[d]
  BY StepNoted, DeadBefores
<1>11. CASE GetCached(c)
  BY <1>0, <1>11, <1>9, <1>1, <1>2, GetCachedDoes DEF InFlight, Connecting
<1>12. CASE EvictSession(c)
  <2>1. kind # "ssh" => fileOps = None
    BY <1>0 DEF Own, TypeOK
  <2>2. QED  BY <2>1, <1>0, <1>12, <1>9, <1>1, <1>2, EvictSessionDoes DEF InFlight, Connecting
<1>13. CASE EvictOps(c)
  BY <1>0, <1>13, <1>9, <1>1, <1>2, EvictOpsDoes DEF InFlight, Connecting
<1>14. CASE Lookup(c)
  BY <1>0, <1>14, <1>9, <1>1, <1>2, LookupDoes DEF InFlight, Connecting
<1>15. CASE Connect(c)
  BY <1>0, <1>15, <1>9, <1>1, <1>2, ConnectDoes DEF InFlight, Connecting
<1>16. CASE ConnectFails(c)
  BY <1>0, <1>16, <1>9, <1>1, <1>2, ConnectFailsDoes DEF InFlight, Connecting
<1>17. CASE Insert(c)
  BY <1>0, <1>17, <1>9, <1>1, <1>2, InsertDoes DEF InFlight, Connecting
<1>18. CASE CachedOps(c)
  BY <1>0, <1>18, <1>9, <1>1, <1>2, CachedOpsDoes DEF InFlight, Connecting, Own
<1>19. CASE NewOps(c)
  <2>1. \A d \in Calls : pc[d] \notin Connecting
    BY <1>0, <1>19, <1>2, NewOpsDoes DEF InFlight, Connecting
  <2>2. sess[c] \notin deadBefore[c]
    BY <1>0, <1>19, NewOpsDoes DEF Own
  <2>3. \A d \in Calls : pc'[d] \notin {"lookup", "connect", "insert"}
    BY <2>1, <1>0, <1>19, <1>1, NewOpsDoes DEF Connecting
  <2>4. \A d \in Calls : Holding(d)' => d # c /\ Holding(d) /\ sess'[d] = sess[d]
    BY <1>0, <1>19, <1>1, NewOpsDoes
  <2>5. \A d \in Files : pc'[d] = "using" => ops'[d] \notin deadBefore'[d]
    BY <2>2, <1>0, <1>19, <1>9, <1>1, NewOpsDoes
  <2>6. /\ sessions' = sessions /\ fileOps' = sess[c] /\ Holding(c)
    BY <1>0, <1>19, NewOpsDoes
  <2>7. QED  BY <2>3, <2>4, <2>5, <2>6
<1>20. CASE OpenShell(c)
  BY <1>0, <1>20, <1>9, <1>1, <1>2, OpenShellDoes DEF InFlight, Connecting
<1>21. CASE DoneWithOps(c)
  BY <1>0, <1>21, <1>9, <1>1, <1>2, DoneWithOpsDoes DEF InFlight, Connecting
<1>22. CASE Edit(c)
  BY <1>0, <1>22, <1>9, <1>1, <1>2, EditDoes DEF InFlight, Connecting
<1>23. CASE DropOps(c)
  BY <1>0, <1>23, <1>9, <1>1, <1>2, DropOpsDoes DEF InFlight, Connecting
<1>24. CASE DropSession(c)
  BY <1>0, <1>24, <1>9, <1>1, <1>2, DropSessionDoes DEF InFlight, Connecting
<1>25. CASE Disconnect(c)
  BY <1>0, <1>25, <1>9, <1>1, <1>2, DisconnectDoes DEF InFlight, Connecting
<1>26. QED
  BY <1>11, <1>12, <1>13, <1>14, <1>15, <1>16, <1>17, <1>18, <1>19,
     <1>20, <1>21, <1>22, <1>23, <1>24, <1>25
     DEF PoolStep, GetStep, DropStep

LEMMA StepLeft ==
  ASSUME IInv, Own, NoRace, NoneLeft, NEW c \in Calls, PoolStep(c), ~raced', ~Abandoned'
  PROVE  NoneLeft'
<1> USE CallsAre DEF NoneLeft, Leaving, Holding
<1>0. TypeOK /\ Roles
  BY DEF IInv
<1>1. \A d \in Calls \ {c} : pc'[d] = pc[d] /\ sess'[d] = sess[d] /\ ops'[d] = ops[d]
  BY <1>0, OthersStay
<1>2. /\ pc[c] \in Connecting => \A d \in Calls \ {c} : ~InFlight(d)
      /\ pc'[c] \in Connecting => \A d \in Calls \ {c} : ~InFlight(d)
      /\ InFlight(c)' => \A d \in Calls \ {c} : pc[d] \notin Connecting
      /\ InFlight(c) => \A d \in Calls \ {c} : pc[d] \notin Connecting
  BY <1>1, StepNoted, StillAlone DEF InFlight, Connecting
<1>11. CASE GetCached(c)
  BY <1>0, <1>11, <1>1, <1>2, GetCachedDoes DEF InFlight, Connecting
<1>12. CASE EvictSession(c)
  BY <1>0, <1>12, <1>1, <1>2, EvictSessionDoes DEF InFlight, Connecting
<1>13. CASE EvictOps(c)
  BY <1>0, <1>13, <1>1, <1>2, EvictOpsDoes DEF InFlight, Connecting
<1>14. CASE Lookup(c)
  BY <1>0, <1>14, <1>1, <1>2, LookupDoes DEF InFlight, Connecting
<1>15. CASE Connect(c)
  BY <1>0, <1>15, <1>1, <1>2, ConnectDoes DEF InFlight, Connecting
<1>16. CASE ConnectFails(c)
  BY <1>0, <1>16, <1>1, <1>2, ConnectFailsDoes DEF InFlight, Connecting
<1>17. CASE Insert(c)
  <2>1. /\ \A d \in Calls \ {c} : ~InFlight(d)
        /\ sessions = None /\ \A d \in Shells : shell[d] \in {"open", "orphan"} => on[d] # None
    BY <1>0, <1>17, <1>2, InsertDoes DEF Connecting, Own
  <2>2. \A d \in Shells : shell[d] \in {"open", "orphan"} => on[d] \in dead
    BY <2>1, <1>0, <1>17, InsertDoes DEF InFlight, Dropping
  <2>3. QED  BY <2>1, <2>2, <1>0, <1>17, <1>1, InsertDoes DEF InFlight, Connecting
<1>18. CASE CachedOps(c)
  BY <1>0, <1>18, <1>1, <1>2, CachedOpsDoes DEF InFlight, Connecting
<1>19. CASE NewOps(c)
  BY <1>0, <1>19, <1>1, <1>2, NewOpsDoes DEF InFlight, Connecting
<1>20. CASE OpenShell(c)
  <2>1. \A s \in 0..made : Leaving(s) => Leaving(s)'
    BY <1>0, <1>20, <1>1, OpenShellDoes
  <2>2. \A d \in Shells : shell'[d] \in {"open", "orphan"} =>
          \/ shell[d] \in {"open", "orphan"} /\ on'[d] = on[d]
          \/ Holding(c) /\ on'[d] = sess[c]
    BY <1>0, <1>20, OpenShellDoes DEF TypeOK
  <2>3. /\ \A d \in Calls : sess[d] \in 0..made
        /\ \A d \in Shells : on[d] \in 0..made
    BY <1>0 DEF TypeOK
  <2>4. \A d \in Calls : pc'[d] \notin {"ok", "failed"} => d # c /\ pc'[d] = pc[d] /\ sess'[d] = sess[d]
    BY <1>0, <1>20, <1>1, OpenShellDoes
  <2>5. sessions' = sessions /\ dead' = dead
    BY <1>0, <1>20, OpenShellDoes
  <2>6. \A d \in Shells : shell'[d] \in {"open", "orphan"} =>
          (on[d] \in dead \/ on[d] = sessions \/ Leaving(on[d]))'
    BY <2>1, <2>2, <2>3, <2>5
  <2>7. \A d \in Calls : Holding(d)' =>
          (sess[d] \in dead \/ sess[d] = sessions \/ Leaving(sess[d]))'
    BY <2>1, <2>3, <2>4, <2>5
  <2>8. QED  BY <2>4, <2>5, <2>6, <2>7
<1>21. CASE DoneWithOps(c)
  BY <1>0, <1>21, <1>1, <1>2, DoneWithOpsDoes DEF InFlight, Connecting
<1>22. CASE Edit(c)
  BY <1>0, <1>22, <1>1, <1>2, EditDoes DEF InFlight, Connecting
<1>23. CASE DropOps(c)
  BY <1>0, <1>23, <1>1, <1>2, DropOpsDoes DEF InFlight, Connecting
<1>24. CASE DropSession(c)
  <2>1. \A s \in 1..made : s = sessions => Leaving(s)'
    BY <1>0, <1>24, DropSessionDoes DEF Abandoned
  <2>2. \A s \in 0..made : Leaving(s) => Leaving(s)'
    BY <1>0, <1>24, <1>1, DropSessionDoes
  <2>3. /\ \A d \in Shells : shell[d] \in {"open", "orphan"} => on[d] \in 1..made
        /\ \A d \in Calls : Holding(d) => sess[d] \in 1..made
        /\ made \in Nat
    BY <1>0 DEF Own, TypeOK
  <2>4. sessions' = None /\ dead' = dead /\ shell' = shell /\ on' = on
    BY <1>0, <1>24, DropSessionDoes
  <2>5. \A d \in Calls : pc'[d] \notin {"ok", "disconnecting"} => pc'[d] = pc[d] /\ sess'[d] = sess[d]
    BY <1>0, <1>24, <1>1, DropSessionDoes
  <2>6. \A s \in 1..made : s \in dead \/ s = sessions \/ Leaving(s) => s \in dead \/ Leaving(s)'
    BY <2>1, <2>2, <2>3
  <2>7. /\ \A d \in Shells : shell'[d] \in {"open", "orphan"} => (on[d] \in dead \/ Leaving(on[d]))'
        /\ \A d \in Calls : Holding(d)' => (sess[d] \in dead \/ Leaving(sess[d]))'
    BY <2>3, <2>4, <2>5, <2>6
  <2>8. QED  BY <2>4, <2>7
<1>25. CASE Disconnect(c)
  BY <1>0, <1>25, <1>1, <1>2, DisconnectDoes DEF InFlight, Connecting
<1>26. QED
  BY <1>11, <1>12, <1>13, <1>14, <1>15, <1>16, <1>17, <1>18, <1>19,
     <1>20, <1>21, <1>22, <1>23, <1>24, <1>25
     DEF PoolStep, GetStep, DropStep

----------------------------------------------------------------------------
(* The steps of the drivers and of the network.                            *)

Outside ==
  \/ \E c \in Shells : DriverTells(c) \/ DriverLeaves(c) \/ CloseShell(c)
  \/ \E s \in Sids : SessionDies(s)
  \/ UNCHANGED vars

LEMMA OutsideDoes ==
  ASSUME TypeOK, Outside
  PROVE  /\ UNCHANGED <<kind, profile, sessions, fileOps, made, version, pc, sess, ops, on>>
         /\ raced' = (raced \/ Race') \/ UNCHANGED vars
         /\ \A s \in dead : s \in dead'
         /\ \A d \in Shells : shell'[d] \in {"open", "orphan"} => shell[d] \in {"open", "orphan"}
         /\ \A d \in Calls : pc[d] \notin {"idle", "ok", "failed"} => deadBefore'[d] = deadBefore[d]
<1>1. ASSUME NEW c \in Shells, DriverTells(c) \/ DriverLeaves(c) \/ CloseShell(c)
      PROVE  /\ UNCHANGED <<kind, profile, sessions, fileOps, made, version, pc, sess, ops, on, dead>>
             /\ \A d \in Shells : shell'[d] \in {"open", "orphan"} => shell[d] \in {"open", "orphan"}
             /\ Noted
  BY <1>1 DEF TypeOK, DriverTells, DriverLeaves, CloseShell, poolVars, sessVars
<1>2. ASSUME NEW s \in Sids, SessionDies(s)
      PROVE  /\ UNCHANGED <<kind, profile, sessions, fileOps, made, version, pc, sess, ops, on, shell>>
             /\ \A t \in dead : t \in dead'
             /\ Noted
  BY <1>2 DEF SessionDies, poolVars, shellVars
<1>3. CASE UNCHANGED vars
  BY <1>3 DEF vars, poolVars, sessVars, shellVars
<1>4. CASE Noted /\ pc' = pc
  <2>1. raced' = (raced \/ Race')
    BY <1>4 DEF Noted
  <2>2. \A d \in Calls : pc[d] \notin {"idle", "ok", "failed"} => deadBefore'[d] = deadBefore[d]
    BY <1>4, DeadBefores
  <2>3. QED  BY <1>1, <1>2, <1>3, <2>1, <2>2 DEF Outside
<1>5. QED  BY <1>1, <1>2, <1>3, <1>4 DEF Outside

LEMMA OutsideOwn == TypeOK /\ Own /\ Outside => Own'
BY OutsideDoes, CallsAre DEF Own, Holding

LEMMA OutsideProfile == TypeOK /\ CurrentProfile /\ Outside => CurrentProfile'
BY OutsideDoes, CallsAre DEF CurrentProfile, Dropped

LEMMA OutsideSource == TypeOK /\ OneSource /\ Outside => OneSource'
BY OutsideDoes, CallsAre DEF OneSource, Holding

LEMMA OutsideLeft == TypeOK /\ NoneLeft /\ Outside => NoneLeft'
BY OutsideDoes, CallsAre DEF NoneLeft, Leaving, Holding

----------------------------------------------------------------------------
(* The invariant, and the properties it implies.                           *)

AInv == /\ NoRace /\ Own
        /\ raced \/ CurrentProfile
        /\ raced \/ OneSource
        /\ raced \/ Abandoned \/ NoneLeft

\* What has happened to the profile stays happened.
LEMMA HistoryStays ==
  ASSUME IInv, [Next]_vars
  PROVE  (raced => raced') /\ (Abandoned => Abandoned')
<1>0. TypeOK /\ Roles
  BY DEF IInv
<1>1. CASE Outside
  <2>1. kind' = kind /\ pc' = pc
    BY <1>0, <1>1, OutsideDoes
  <2>2. raced' = (raced \/ Race') \/ raced' = raced
    BY <1>0, <1>1, OutsideDoes DEF vars
  <2>3. raced => raced'
    BY <2>2, Zenon
  <2>4. Abandoned => Abandoned'
    BY <2>1 DEF Abandoned
  <2>5. QED  BY <2>3, <2>4
<1>2. ASSUME NEW c \in Calls, PoolStep(c)
      PROVE  (raced => raced') /\ (Abandoned => Abandoned')
  <2>1. raced => raced'
    BY <1>2, StepNoted DEF Noted
  <2>2. kind' = kind /\ pc[c] # "ok"
    BY <1>0, <1>2, GetCachedDoes, EvictSessionDoes, EvictOpsDoes, LookupDoes, ConnectDoes,
       ConnectFailsDoes, InsertDoes, CachedOpsDoes, NewOpsDoes, OpenShellDoes, DoneWithOpsDoes,
       EditDoes, DropOpsDoes, DropSessionDoes, DisconnectDoes DEF PoolStep, GetStep, DropStep
  <2>3. Abandoned => Abandoned'
    BY <1>0, <1>2, <2>2, OthersStay, CallsAre DEF Abandoned
  <2>4. QED  BY <2>1, <2>3
<1>3. QED  BY <1>1, <1>2 DEF Next, PoolStep, Outside

LEMMA InitAlone == Init => AInv
<1> SUFFICES ASSUME Init PROVE AInv
  OBVIOUS
<1>1. /\ sessions = None /\ fileOps = None
      /\ \A c \in Calls : pc[c] = "idle"
      /\ \A c \in Shells : shell[c] = "none"
  BY DEF Init
<1>2. NoRace
  BY <1>1 DEF NoRace, Race, Connecting
<1>3. Own /\ CurrentProfile /\ OneSource /\ NoneLeft
  BY <1>1, CallsAre DEF Own, CurrentProfile, OneSource, NoneLeft, Holding
<1>4. QED  BY <1>2, <1>3 DEF AInv

LEMMA NextAlone == IInv /\ AInv /\ [Next]_vars => AInv'
<1> SUFFICES ASSUME IInv, AInv, [Next]_vars PROVE AInv'
  OBVIOUS
<1>1. NoRace' /\ (raced => raced') /\ (Abandoned => Abandoned')
  BY NextNoRace, HistoryStays DEF AInv
<1>2. CASE Outside
  BY <1>1, <1>2, OutsideOwn, OutsideProfile, OutsideSource, OutsideLeft DEF AInv, IInv
<1>3. ASSUME NEW c \in Calls, PoolStep(c) PROVE AInv'
  <2>1. Own'
    BY <1>3, StepOwn DEF AInv
  <2>2. raced' \/ CurrentProfile'
    BY <1>1, <1>3, StepProfile DEF AInv
  <2>3. raced' \/ OneSource'
    BY <1>1, <1>3, StepSource DEF AInv
  <2>4. raced' \/ Abandoned' \/ NoneLeft'
    BY <1>1, <1>3, StepLeft DEF AInv
  <2>5. QED  BY <1>1, <2>1, <2>2, <2>3, <2>4 DEF AInv
<1>4. QED  BY <1>2, <1>3 DEF Next, PoolStep, Outside

LEMMA AloneInvariance == Spec => []AInv
<1>1. Init => AInv
  BY InitAlone
<1>2. IInv /\ AInv /\ [Next]_vars => AInv'
  BY NextAlone
<1>3. QED  BY <1>1, <1>2, Invariance, PTL DEF Spec

\* As long as no call connects while another one is in flight, the file
\* operations that get_file_ops() hands out do not wrap a session that was dead
\* when the call began: everything cached or held is then one session, and the
\* evicting call has dropped the operations of the old one before it connects.
THEOREM FreshOpsAlone == Spec => []OpsAreFreshIfAlone
<1>1. AInv => OpsAreFreshIfAlone
  BY CallsAre DEF AInv, OneSource, OpsAreFreshIfAlone, OpsAreFresh
<1>2. QED  BY <1>1, AloneInvariance, PTL

\* As long as no call connects while another one is in flight, and no Agent's
\* session was dropped by an edit, the running terminals of a profile live on
\* the session the pool holds, which write, resize and close reach.
THEOREM OneSessionAlone == Spec => []OneSessionIfAlone
<1>1. AInv => OneSessionIfAlone
  BY CallsAre DEF AInv, NoneLeft, Leaving, OneSessionIfAlone, OneSession, Quiet, InFlight, Dropping
<1>2. QED  BY <1>1, AloneInvariance, PTL

\* Once connection_update or connection_delete has returned, no session that was
\* connected with the old profile is cached, unless a call connected meanwhile.
THEOREM EditsEvict == Spec => []EditEvicts
<1>1. AInv => EditEvicts
  BY CallsAre DEF AInv, CurrentProfile, Dropped, EditEvicts, Quiet, InFlight, Dropping
<1>2. QED  BY <1>1, AloneInvariance, PTL

=============================================================================
