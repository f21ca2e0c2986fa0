----------------------------- MODULE SessionTabs -----------------------------
(***************************************************************************)
(* The session tabs of the window (stores/remoteSessionStore.ts) and the   *)
(* terminals of the back end they stand for.  Opening and reconnecting are *)
(* calls that await the back end between their first look at the tabs and  *)
(* their update of them; clicks and status events come in between.         *)
(*                                                                         *)
(* A terminal tab's id is the id of its channel; `key` names the tab on    *)
(* the screen across reconnects, which change its id.                      *)
(***************************************************************************)
EXTENDS Naturals, Sequences, SequencesExt, FiniteSetsExt

CONSTANTS
  Calls,     \* calls of open*Terminal and reconnect*Terminal
  MaxIds     \* BOUND: channels and tabs made

ASSUME TabsAssumption == MaxIds \in Nat

Ids   == 1..MaxIds
NoId  == 0
Kinds == {"ssh", "agent", "other"}     \* other: sftp, agent-browse, rdp
Tabs  == [id : Ids, key : Ids, kind : Kinds, disc : BOOLEAN]

VARIABLES
  tabs,       \* the tabs, in order
  activeId,   \* the tab on show
  multi,      \* multiExecEnabled
  excluded,   \* multiExecExcluded
  made,       \* ids made so far
  live,       \* channels whose shell is running
  statuses,   \* "disconnected" events on their way
  closing,    \* close commands on their way
  lost,       \* channels of sessions the back end's pool no longer holds
  pc,         \* where each call is
  kind,       \* the kind of terminal it opens
  target,     \* the tab it reconnects
  opened,     \* the channel the back end has opened for it
  unwanted,   \* history: keys of the tabs the user has excluded on screen
  overtaken   \* history: reconnects whose tab was closed, or reconnected again, under them

tabVars   == <<tabs, activeId>>
multiVars == <<multi, excluded, unwanted>>
backVars  == <<live, statuses, closing, lost>>
callVars  == <<pc, kind, target, opened>>
vars == <<tabs, activeId, multi, excluded, made, live, statuses, closing, lost, pc, kind,
          target, opened, unwanted, overtaken>>

Init ==
  /\ tabs      = <<>>
  /\ activeId  = NoId
  /\ multi     = FALSE
  /\ excluded  = {}
  /\ made      = 0
  /\ live      = {}
  /\ statuses  = {}
  /\ closing   = {}
  /\ lost      = {}
  /\ pc        = [c \in Calls |-> "idle"]
  /\ kind      = [c \in Calls |-> "ssh"]
  /\ target    = [c \in Calls |-> NoId]
  /\ opened    = [c \in Calls |-> NoId]
  /\ unwanted  = {}
  /\ overtaken = {}

----------------------------------------------------------------------------
(* Helpers.                                                                *)

TabSet == ToSet(tabs)
HasTab(id) == \E t \in TabSet : t.id = id
Position(id) == CHOOSE k \in DOMAIN tabs : tabs[k].id = id
Tab(id) == tabs[Position(id)]
IsTerminal(t) == t.kind \in {"ssh", "agent"}

AddTab(t) == tabs' = Append(tabs, t) /\ activeId' = t.id

MapTabs(F(_)) == tabs' = [k \in DOMAIN tabs |-> F(tabs[k])]

\* The reconnects of the tab that are in flight.
Reconnectors(id) == {c \in Calls : pc[c] \in {"connecting", "opened"} /\ target[c] = id}

----------------------------------------------------------------------------
(* openSshTerminal(), openAgentTerminal() and the two reconnects.          *)

StartOpen(c, k) ==
  /\ pc[c] = "idle" /\ k # "other"
  /\ pc' = [pc EXCEPT ![c] = "connecting"]
  /\ kind' = [kind EXCEPT ![c] = k]
  /\ UNCHANGED <<tabVars, multiVars, made, backVars, target, opened, overtaken>>

\* The overlay with the button is on a tab marked disconnected.
StartReconnect(c, id) ==
  /\ pc[c] = "idle" /\ HasTab(id) /\ IsTerminal(Tab(id)) /\ Tab(id).disc
  /\ pc' = [pc EXCEPT ![c] = "connecting"]
  /\ kind' = [kind EXCEPT ![c] = Tab(id).kind]
  /\ target' = [target EXCEPT ![c] = id]
  /\ overtaken' = IF Reconnectors(id) = {} THEN overtaken
                   ELSE overtaken \cup Reconnectors(id) \cup {c}
  /\ UNCHANGED <<tabVars, multiVars, made, backVars, opened>>

\* Seeded bug: an id is handed out twice.
NotAdvanced(n) == n

Advanced(n) == n + 1

\* connect and open_shell, at the back end.
BackEndOpens(c) ==
  /\ pc[c] = "connecting"
  /\ \/ /\ made < MaxIds
        /\ made' = Advanced(made)
        /\ live' = live \cup {made + 1}
        /\ opened' = [opened EXCEPT ![c] = made + 1]
        /\ pc' = [pc EXCEPT ![c] = "opened"]
     \/ pc' = [pc EXCEPT ![c] = "failed"] /\ UNCHANGED <<made, live, opened>>
  /\ UNCHANGED <<tabVars, multiVars, statuses, closing, lost, kind, target, overtaken>>

FinishOpen(c) ==
  /\ pc[c] = "opened" /\ target[c] = NoId
  /\ AddTab([id |-> opened[c], key |-> opened[c], kind |-> kind[c], disc |-> FALSE])
  /\ pc' = [pc EXCEPT ![c] = "done"]
  /\ UNCHANGED <<multiVars, made, backVars, kind, target, opened, overtaken>>

\* Seeded bug: the tab on show keeps the id it had.
ActiveStays(old, new) == activeId

ActiveAfter(old, new) == IF activeId = old THEN new ELSE activeId

\* Seeded bug: the overlay stays.
KeepsOverlay(t, id) == [t EXCEPT !.id = id]

Reconnected(t, id) == [t EXCEPT !.id = id, !.disc = FALSE]

FinishReconnect(c) ==
  /\ pc[c] = "opened" /\ target[c] # NoId
  /\ MapTabs(LAMBDA t : IF t.id = target[c]
                        THEN Reconnected(t, opened[c]) ELSE t)
  /\ activeId' = ActiveAfter(target[c], opened[c])
  /\ pc' = [pc EXCEPT ![c] = "done"]
  /\ UNCHANGED <<multiVars, made, backVars, kind, target, opened, overtaken>>

----------------------------------------------------------------------------
(* The synchronous operations.                                             *)

\* openSftp(), openAgentBrowse(), openRdp().
OpenOther ==
  /\ made < MaxIds
  /\ made' = Advanced(made)
  /\ AddTab([id |-> made + 1, key |-> made + 1, kind |-> "other", disc |-> FALSE])
  /\ UNCHANGED <<multiVars, backVars, callVars, overtaken>>

\* Seeded bug: only SSH terminals are closed at the back end.
SshOnly(t) == t.kind = "ssh"

ClosesChannel(t) == IsTerminal(t)

\* closeTab(), up to its await.  Its filter() takes out the one tab of that id:
\* ActiveIsOpen says that there are never two.
CloseTab(id) ==
  /\ HasTab(id)
  /\ LET rest == RemoveAt(tabs, Position(id)) IN
     /\ tabs' = rest
     /\ activeId' = IF activeId # id THEN activeId
                    ELSE IF rest = <<>> THEN NoId ELSE Last(rest).id
  /\ closing' = IF ClosesChannel(Tab(id)) THEN closing \cup {id} ELSE closing
  /\ overtaken' = overtaken \cup Reconnectors(id)
  /\ UNCHANGED <<multiVars, made, live, statuses, lost, callVars>>

SetActive(id) ==
  /\ HasTab(id) /\ activeId # id
  /\ activeId' = id
  /\ UNCHANGED <<tabs, multiVars, made, backVars, callVars, overtaken>>

ToggleMultiExec ==
  /\ multi' = ~multi
  /\ UNCHANGED <<tabVars, excluded, unwanted, made, backVars, callVars, overtaken>>

\* The checkbox of an SSH terminal.
ToggleExcluded(id) ==
  /\ HasTab(id) /\ Tab(id).kind = "ssh"
  /\ excluded' = SymDiff(excluded, {id})
  /\ unwanted' = IF id \in excluded THEN unwanted \ {Tab(id).key}
                                     ELSE unwanted \cup {Tab(id).key}
  /\ UNCHANGED <<tabVars, multi, made, backVars, callVars, overtaken>>

\* broadcastInput(): the terminals that receive what is typed in the terminal
\* `source` of the multi-exec grid.
Recipients(source) ==
  {t \in TabSet : multi /\ t.kind = "ssh" /\ t.id # source.id /\ ~t.disc
                        /\ t.id \notin excluded}

----------------------------------------------------------------------------
(* The back end's side of a channel, and its status events.                *)

\* The pool replaces or forgets the session of a channel, which runs on
\* (SshPool models when).
PoolDrops(id) ==
  /\ id \in live \ lost
  /\ lost' = lost \cup {id}
  /\ UNCHANGED <<tabVars, multiVars, made, live, statuses, closing, callVars, overtaken>>

\* A session that is no longer the pool's is not found, or another one is found
\* that does not know the channel: the front end only logs what comes back.
ShellsAfterClose(id) == IF id \in lost THEN live ELSE live \ {id}

\* ssh_close_channel and agent_close_channel.
BackEndCloses(id) ==
  /\ id \in closing
  /\ closing' = closing \ {id}
  /\ live' = ShellsAfterClose(id)
  /\ UNCHANGED <<tabVars, multiVars, made, statuses, lost, callVars, overtaken>>

\* The shell ends by itself and its driver emits "disconnected".
ShellEnds(id) ==
  /\ id \in live
  /\ live' = live \ {id}
  /\ statuses' = statuses \cup {id}
  /\ UNCHANGED <<tabVars, multiVars, made, closing, lost, callVars, overtaken>>

\* TerminalView's listener calls markDisconnected(); an event for a channel
\* without a tab yet is lost.
Deliver(id) ==
  /\ id \in statuses
  /\ statuses' = statuses \ {id}
  /\ MapTabs(LAMBDA t : IF t.id = id /\ IsTerminal(t) THEN [t EXCEPT !.disc = TRUE]
                                                             ELSE t)
  /\ UNCHANGED <<activeId, multiVars, made, live, closing, lost, callVars, overtaken>>

----------------------------------------------------------------------------

Next ==
  \/ \E c \in Calls : \/ \E k \in Kinds : StartOpen(c, k)
                      \/ \E id \in Ids : StartReconnect(c, id)
                      \/ BackEndOpens(c) \/ FinishOpen(c) \/ FinishReconnect(c)
  \/ OpenOther
  \/ \E id \in Ids : CloseTab(id) \/ SetActive(id) \/ ToggleExcluded(id)
  \/ ToggleMultiExec
  \/ \E id \in Ids : PoolDrops(id) \/ BackEndCloses(id) \/ ShellEnds(id) \/ Deliver(id)

Spec == Init /\ [][Next]_vars

----------------------------------------------------------------------------
(* Properties.                                                             *)

\* Type invariant of the tabs, the calls and the channels.
TypeOK ==
  /\ tabs \in Seq(Tabs)
  /\ activeId \in Ids \cup {NoId}
  /\ multi \in BOOLEAN
  /\ excluded \in SUBSET Ids /\ unwanted \in SUBSET Ids
  /\ made \in 0..MaxIds
  /\ live \in SUBSET (1..made) /\ statuses \in SUBSET (1..made)
  /\ closing \in SUBSET (1..made) /\ lost \in SUBSET (1..made)
  /\ pc \in [Calls -> {"idle", "connecting", "opened", "done", "failed"}]
  /\ kind \in [Calls -> {"ssh", "agent"}]
  /\ target \in [Calls -> Ids \cup {NoId}] /\ opened \in [Calls -> Ids \cup {NoId}]
  /\ overtaken \in SUBSET Calls

\* The tab on show is one of the tabs, and there is one whenever there are
\* tabs, however reconnects change ids under clicks and closes.
ActiveIsOpen ==
  /\ tabs = <<>> <=> activeId = NoId
  /\ tabs # <<>> => \E k \in DOMAIN tabs : tabs[k].id = activeId
  /\ \A j, k \in DOMAIN tabs : tabs[j].id = tabs[k].id => j = k

\* Every running shell has its tab, or a close command or an opening call that
\* will see to it: no shell is left running that the user cannot reach.  Two are,
\* and no others: the one whose session the pool dropped before the close
\* command came, and the one opened by a reconnect whose tab was closed, or
\* reconnected again, in the meantime.
NoOrphanShell ==
  \A id \in live \ lost : \/ HasTab(id)
                          \/ id \in closing
                          \/ \E c \in Calls : pc[c] = "opened" /\ opened[c] = id
                          \/ \E c \in overtaken : opened[c] = id

\* With multi-exec on, what is typed in an SSH terminal that the user has not
\* excluded reaches every other one whose shell is running and that is not
\* excluded either, whichever of several reconnects, closes and status events
\* comes first.
BroadcastReaches ==
  multi => \A s \in TabSet : \A t \in TabSet \ {s} :
    /\ s.kind = "ssh" /\ s.key \notin unwanted
    /\ t.kind = "ssh" /\ t.key \notin unwanted /\ t.id \in live
    => t \in Recipients(s)

\* An excluded terminal takes no part in the broadcast: what is typed in it goes
\* to it alone.  (HomeShell.tsx:182 and :199 tell the user so; broadcastInput()
\* looks at the exclusion of the receivers only.)
ExcludedSendsNothing ==
  \A s \in TabSet : s.kind = "ssh" /\ s.key \in unwanted => Recipients(s) = {}

\* And nothing that is typed in another terminal reaches it.  (The exclusion is
\* kept under the id of the channel, which a reconnect changes.)
ExcludedReceivesNothing ==
  \A s, t \in TabSet : t.key \in unwanted => t \notin Recipients(s)

=============================================================================
