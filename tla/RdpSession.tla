----------------------------- MODULE RdpSession -----------------------------
(***************************************************************************)
(* One RDP tab: the view in the window (RdpView.tsx), the session of       *)
(* RdpSessionManager (lib/src/rdp/mod.rs), the FreeRDP client process it   *)
(* starts, that process's windows, and the watcher thread that embeds      *)
(* whichever of them is the largest.                                       *)
(*                                                                         *)
(* The commands of the view are invoked without being awaited and run on   *)
(* the threads of the runtime in any order.  The bounds of the panel in    *)
(* the main window are the number of the layout they were measured in;     *)
(* position_window() adds the place of the main window on the screen at    *)
(* that moment.  The client and its windows are external; windows are      *)
(* numbered by size.                                                       *)
(***************************************************************************)
EXTENDS Naturals, Sequences, SequencesExt

CONSTANTS
  MaxWindows,  \* BOUND: windows of the client
  MaxLayouts,  \* BOUND: layouts of the panel
  MaxCmds,     \* BOUND: commands of the view under way
  MaxMoves     \* BOUND: moves of the main window

ASSUME RdpAssumption == /\ MaxWindows \in Nat /\ MaxLayouts \in Nat \ {0}
                        /\ MaxCmds \in Nat \ {0} /\ MaxMoves \in Nat

Windows == 1..MaxWindows
NoWindow == 0
Unopened == 0               \* place of a window to come
Anywhere == MaxLayouts + 1  \* place a client gives its window

VARIABLES
  view,       \* the component: "mounted", "gone", or "closed" with the program
  visible,    \* its property: is the tab the active one?
  layout,     \* the panel's current layout
  main,       \* where the main window is on the screen
  dirty,      \* an animation frame with a set_bounds is requested
  idRef,      \* is sessionIdRef set?
  cmds,       \* commands under way
  stage,      \* connect()
  asked,      \* the layout connect() was called with
  proc,       \* the client: "none", "running" or "ended"
  wins,       \* its windows
  vis,        \* which windows are visible
  place,      \* the layout each window is placed for
  from,       \* where the main window was when it was placed
  session,    \* the entry in `sessions`: "none", "open", "removed"
  hwnd,       \* hwnd of the session
  lastBounds, \* last_bounds of the session
  watch,      \* the watcher: "none", "polls", "attach", "store", "done"
  found,      \* the window the watcher found
  stray,      \* history: has connect() failed after the client had a window?
  moved,      \* history: has the main window moved since a window was placed?
  upset       \* history: see Upsets

viewVars  == <<view, visible, layout, dirty, idRef>>
placeVars == <<place, from, moved>>
procVars  == <<proc, wins, vis, placeVars>>
sessVars  == <<session, hwnd, lastBounds>>
rdpVars == <<viewVars, main, cmds, stage, asked, procVars, sessVars, watch, found, stray, upset>>

RdpInit ==
  /\ view = "mounted" /\ visible = TRUE /\ layout = 1 /\ dirty = FALSE /\ idRef = FALSE
  /\ cmds = <<>> /\ stage = "start" /\ asked = 1
  /\ proc = "none" /\ wins = {} /\ place = [w \in Windows |-> Unopened]
  /\ vis = [w \in Windows |-> FALSE]
  /\ main = 0 /\ from = [w \in Windows |-> 0] /\ moved = FALSE
  /\ session = "none" /\ hwnd = NoWindow /\ lastBounds = 0
  /\ watch = "none" /\ found = NoWindow
  /\ stray = FALSE /\ upset = FALSE

----------------------------------------------------------------------------
(* Helpers.                                                                *)

Cmd(k, b) == [kind |-> k, bounds |-> b]

\* find_window_for_process(): the largest window of the client.
Largest == IF wins = {} THEN NoWindow ELSE CHOOSE w \in wins : \A v \in wins : v <= w

\* What makes the window stray from the view, although every step is in
\* order: the tab is left or resized before the session has an id, commands
\* overtake each other, or windows come, go or are embedded while the tab is
\* hidden or a command runs.
Upsets ==
  \/ ~idRef /\ stage # "start" /\ (visible' # visible \/ layout' # layout)
  \/ cmds # <<>> /\ Len(cmds') < Len(cmds) /\ cmds' # Tail(cmds)
  \/ wins' # wins /\ (~visible \/ cmds # <<>>)
  \/ watch \in {"attach", "store"} /\ (~visible' \/ cmds' # <<>>)

Noted == upset' = (upset \/ Upsets)

----------------------------------------------------------------------------
(* connect().                                                              *)

\* The effect of the mount calls connect() with the bounds it measures; the
\* profile or its secret may be missing, or the program not found.
Connect ==
  /\ stage = "start" /\ view = "mounted"
  /\ asked' = layout
  /\ \/ stage' = "waiting" /\ proc' = "running"
     \/ stage' = "failed" /\ UNCHANGED proc
  /\ UNCHANGED <<viewVars, main, cmds, wins, vis, placeVars, sessVars, watch, found, stray>>
  /\ Noted

\* The blocking task finds a window, or kills the client after 15 seconds.
FindWindow ==
  /\ stage = "waiting" /\ view # "closed"
  /\ \/ /\ Largest # NoWindow
        /\ stage' = "found" /\ found' = Largest
        /\ UNCHANGED <<proc, wins, vis>>
     \/ /\ stage' = "failed"
        /\ proc' = "ended" /\ wins' = {} /\ vis' = [w \in Windows |-> FALSE]
        /\ UNCHANGED found
  /\ UNCHANGED <<viewVars, main, cmds, asked, placeVars, sessVars, watch, stray>>
  /\ Noted

\* attach_owned_window() sets WS_VISIBLE whatever the window was.
Attached(w) == IF w \in wins THEN [vis EXCEPT ![w] = TRUE] ELSE vis

\* position_window(): the bounds and the place of the main window at this
\* moment; it fails on a window that is gone.
Placed(w, b) ==
  IF w \in wins
  THEN /\ place' = [place EXCEPT ![w] = b]
       /\ from' = [from EXCEPT ![w] = main]
       /\ moved' = FALSE
  ELSE UNCHANGED placeVars

\* The window is embedded and the session entered.  On an error of the main
\* window's handle, of its scale factor or of position_window(), `?` drops the
\* Child, which does not end the client.
Embed ==
  /\ stage = "found" /\ view # "closed"
  /\ \/ /\ found \in wins
        /\ vis' = Attached(found) /\ Placed(found, asked)
        /\ session' = "open" /\ hwnd' = found /\ lastBounds' = asked
        /\ watch' = "polls" /\ stage' = "answer"
        /\ UNCHANGED stray
     \/ /\ vis' \in {vis, Attached(found)}
        /\ stage' = "failed" /\ stray' = TRUE
        /\ UNCHANGED <<sessVars, watch, placeVars>>
  /\ UNCHANGED <<viewVars, main, cmds, asked, proc, wins, found>>
  /\ Noted

\* Seeded bug: a view that is gone does nothing with the session it is given.
Forgotten == cmds

\* What the view does with the answer: the component may be gone by now.
Answered == Append(cmds, IF view = "gone" THEN Cmd("disconnect", 0) ELSE Cmd("show", asked))

Answer ==
  /\ stage = "answer" /\ view # "closed"
  /\ stage' = "done"
  /\ idRef' = (view = "mounted")
  /\ cmds' = Answered
  /\ UNCHANGED <<view, visible, layout, main, dirty, asked, procVars, sessVars, watch, found, stray>>
  /\ Noted

----------------------------------------------------------------------------
(* The view.                                                               *)

\* Invoked only with an id; the bound leaves room for the answer and the end.
Invoke(c) == cmds' = IF idRef THEN Append(cmds, c) ELSE cmds

\* Seeded bug: a tab that is left is hidden by its style only.
NotHidden == Cmd("bounds", layout)

OnLeave == Cmd("hide", 0)

\* The tab is left or chosen.  Chosen again, the observer reports the size.
Toggle ==
  /\ view = "mounted" /\ Len(cmds) < MaxCmds
  /\ visible' = ~visible
  /\ dirty' = ~visible
  /\ Invoke(IF visible THEN OnLeave ELSE Cmd("show", layout))
  /\ UNCHANGED <<view, layout, main, idRef, stage, asked, procVars, sessVars, watch, found, stray>>
  /\ Noted

\* The panel changes its size, by itself or with the main window: the observer
\* and the resize event report it, while the tab is the active one.
Resize ==
  /\ view = "mounted" /\ layout < MaxLayouts
  /\ layout' = layout + 1
  /\ dirty' = visible
  /\ UNCHANGED <<view, visible, main, idRef, cmds, stage, asked, procVars, sessVars, watch, found, stray>>
  /\ Noted

\* The main window is moved on the screen; nothing listens for that.
MoveMain ==
  /\ view # "closed" /\ main < MaxMoves
  /\ main' = main + 1 /\ moved' = TRUE
  /\ UNCHANGED <<viewVars, cmds, stage, asked, proc, wins, vis, place, from, sessVars, watch,
                 found, stray>>
  /\ Noted

\* The animation frame.
Sync ==
  /\ dirty /\ view = "mounted" /\ Len(cmds) < MaxCmds
  /\ dirty' = FALSE
  /\ Invoke(Cmd("bounds", layout))
  /\ UNCHANGED <<view, visible, layout, main, idRef, stage, asked, procVars, sessVars, watch, found,
                 stray>>
  /\ Noted

\* The tab is closed: the clean-up of the effects.
Unmount ==
  /\ view = "mounted" /\ stage # "start"
  /\ view' = "gone" /\ dirty' = FALSE
  /\ Invoke(Cmd("disconnect", 0))
  /\ UNCHANGED <<visible, layout, main, idRef, stage, asked, procVars, sessVars, watch, found, stray>>
  /\ Noted

\* The program ends.  Nothing calls disconnect_all(), and no effect of the
\* view is cleaned up.
Exit ==
  /\ view # "closed"
  /\ view' = "closed" /\ watch' = "none" /\ cmds' = <<>>
  /\ UNCHANGED <<visible, layout, main, dirty, idRef, stage, asked, procVars, sessVars, found, stray>>
  /\ Noted

----------------------------------------------------------------------------
(* The commands: set_bounds(), show(), hide() and disconnect().            *)

ClientGone == proc' = "ended" /\ wins' = {} /\ vis' = [w \in Windows |-> FALSE]

\* Seeded bug: the Child is dropped, which ends nothing.
DropChild == UNCHANGED <<proc, wins, vis>>

Kill == ClientGone

Run(c) ==
  IF session # "open" THEN UNCHANGED <<procVars, sessVars, watch>> ELSE
  CASE c.kind = "bounds" ->
         /\ lastBounds' = c.bounds /\ Placed(hwnd, c.bounds)
         /\ UNCHANGED <<proc, wins, vis, session, hwnd, watch>>
    [] c.kind = "show" ->
         /\ lastBounds' = c.bounds /\ Placed(hwnd, c.bounds) /\ vis' = Attached(hwnd)
         /\ UNCHANGED <<proc, wins, session, hwnd, watch>>
    [] c.kind = "hide" ->
         /\ vis' = IF hwnd \in wins THEN [vis EXCEPT ![hwnd] = FALSE] ELSE vis
         /\ UNCHANGED <<proc, wins, placeVars, sessVars, watch>>
    [] c.kind = "disconnect" ->
         /\ session' = "removed" /\ watch' = "done" /\ Kill
         /\ UNCHANGED <<placeVars, hwnd, lastBounds>>

\* set_bounds() and show() fail on the main window's handle or scale factor, or
\* in position_window(), when the new bounds are stored already.  The view does
\* not look at the result.
RunFails(c) ==
  /\ session = "open" /\ c.kind \in {"bounds", "show"}
  /\ lastBounds' \in {lastBounds, c.bounds}
  /\ UNCHANGED <<procVars, session, hwnd, watch>>

RunCommand(i) ==
  /\ i \in 1..Len(cmds)
  /\ cmds' = RemoveAt(cmds, i)
  /\ UNCHANGED <<viewVars, main, stage, asked, found, stray>>
  /\ \/ Run(cmds[i]) /\ Noted
     \/ RunFails(cmds[i]) /\ upset' = TRUE

----------------------------------------------------------------------------
(* watch_and_reembed().  A session that is removed has set `stop`; what the  *)
(* thread still does then is done to windows that no longer exist.          *)

Poll ==
  /\ watch = "polls" /\ Largest \notin {NoWindow, hwnd}
  /\ found' = Largest /\ watch' = "attach"
  /\ UNCHANGED <<viewVars, main, cmds, stage, asked, procVars, sessVars, stray>>
  /\ Noted

\* The window is placed again with the last bounds, unless the scale factor or
\* position_window() fails, which the watcher ignores.
Reattach ==
  /\ watch = "attach"
  /\ vis' = Attached(found) /\ watch' = "store"
  /\ UNCHANGED <<viewVars, main, cmds, stage, asked, proc, wins, sessVars, found, stray>>
  /\ \/ Placed(found, lastBounds) /\ Noted
     \/ UNCHANGED placeVars /\ upset' = TRUE

Store ==
  /\ watch = "store"
  /\ hwnd' = found /\ watch' = "polls"
  /\ UNCHANGED <<viewVars, main, cmds, stage, asked, procVars, session, lastBounds, found, stray>>
  /\ Noted

----------------------------------------------------------------------------
(* The client.                                                             *)

WindowOpens(w) ==
  /\ proc = "running" /\ place[w] = Unopened
  /\ wins' = wins \cup {w}
  /\ vis' \in {[vis EXCEPT ![w] = b] : b \in BOOLEAN}
  /\ place' = [place EXCEPT ![w] = Anywhere]
  /\ UNCHANGED <<viewVars, main, cmds, stage, asked, proc, from, moved, sessVars, watch, found,
                 stray>>
  /\ Noted

WindowCloses(w) ==
  /\ w \in wins
  /\ wins' = wins \ {w} /\ vis' = [vis EXCEPT ![w] = FALSE]
  /\ UNCHANGED <<viewVars, main, cmds, stage, asked, proc, placeVars, sessVars, watch, found,
                 stray>>
  /\ Noted

\* The server ends the session or the client breaks.  The entry stays, and
\* status() says "connected" for ever after.
ClientEnds ==
  /\ proc = "running"
  /\ ClientGone
  /\ UNCHANGED <<viewVars, main, cmds, stage, asked, placeVars, sessVars, watch, found, stray>>
  /\ Noted

----------------------------------------------------------------------------

Watcher == Poll \/ Reattach \/ Store

RdpNext ==
  \/ Connect \/ FindWindow \/ Embed \/ Answer
  \/ Toggle \/ Resize \/ MoveMain \/ Sync \/ Unmount \/ Exit
  \/ \E i \in 1..MaxCmds + 1 : RunCommand(i)
  \/ Watcher
  \/ \E w \in Windows : WindowOpens(w) \/ WindowCloses(w)
  \/ ClientEnds

\* The runtime runs what was spawned, and the wait for a window has an end.
RdpFairness ==
  /\ WF_rdpVars(FindWindow) /\ WF_rdpVars(Embed) /\ WF_rdpVars(Answer)
  /\ WF_rdpVars(\E i \in 1..MaxCmds + 1 : RunCommand(i))

RdpFairSpec == RdpInit /\ [][RdpNext]_rdpVars /\ RdpFairness

----------------------------------------------------------------------------
(* Properties.                                                             *)

\* The types of the view, the session, the watcher and the client; windows belong
\* to a running client, and a session that was removed has ended its client.
SessionTypeOK ==
  /\ view \in {"mounted", "gone", "closed"} /\ visible \in BOOLEAN
  /\ layout \in 1..MaxLayouts /\ dirty \in BOOLEAN /\ idRef \in BOOLEAN
  /\ cmds \in Seq([kind : {"show", "hide", "bounds", "disconnect"}, bounds : 0..MaxLayouts])
  /\ Len(cmds) <= MaxCmds + 1
  /\ stage \in {"start", "waiting", "found", "answer", "done", "failed"} /\ asked \in 1..MaxLayouts
  /\ proc \in {"none", "running", "ended"} /\ wins \in SUBSET Windows
  /\ vis \in [Windows -> BOOLEAN] /\ (\A w \in Windows : vis[w] => w \in wins)
  /\ (proc # "running" => wins = {}) /\ (session = "removed" => proc = "ended")
  /\ place \in [Windows -> 0..Anywhere]
  /\ session \in {"none", "open", "removed"} /\ hwnd \in 0..MaxWindows
  /\ lastBounds \in 0..MaxLayouts
  /\ watch \in {"none", "polls", "attach", "store", "done"} /\ found \in 0..MaxWindows
  /\ stray \in BOOLEAN /\ upset \in BOOLEAN

\* Type invariant.
RdpTypeOK ==
  /\ SessionTypeOK
  /\ main \in 0..MaxMoves /\ from \in [Windows -> 0..MaxMoves] /\ moved \in BOOLEAN

\* Closing the tab ends the client, even when connect() had not answered yet,
\* unless connect() failed with the client running or the program ends first.
ClosedTabEndsClient ==
  view = "gone" ~> (proc # "running" \/ stray \/ view = "closed")

\* Until the client of a closed tab has ended, connect() has still to answer or
\* the command that ends it is under way, whatever overtakes it and whatever the
\* windows and the watcher do; the same exceptions.
GoneIsEnding ==
  view = "gone" /\ proc = "running"
    => \/ stage \in {"waiting", "found", "answer"}
       \/ session = "open" /\ \E k \in DOMAIN cmds : cmds[k].kind = "disconnect"
       \/ stray

\* Nothing is on its way between the view, the session and the watcher.
Settled ==
  /\ view = "mounted" /\ idRef /\ cmds = <<>> /\ ~dirty
  /\ watch = "polls" /\ Largest \in {NoWindow, hwnd}

\* The window of the active tab is the largest of its client, visible and
\* over the panel as it is now, and a tab that is not the active one has no
\* window over the others, however often the client changes windows, the panel
\* its layout and the user the tab.  Two exceptions: something of Upsets or a
\* failed positioning has happened, or the main window has moved since a window
\* was placed last.
WindowFollowsTab ==
  Settled /\ Largest # NoWindow
    => \/ upset
       \/ visible /\ vis[hwnd] /\ place[hwnd] = layout /\ (moved \/ from[hwnd] = main)
       \/ ~visible /\ ~vis[hwnd]

\* The window stays over the panel when the main window moves, as rdp/mod.rs:74-76
\* has it ("continually").  (Nothing reports the move.)
StaysOnPanel ==
  Settled /\ Largest # NoWindow /\ visible
    => upset \/ (place[hwnd] = layout /\ from[hwnd] = main)

\* A tab that is not the active one has no window over the others
\* (RdpView.tsx:9-10).  (show() follows the answer of connect() if the tab was the
\* active one when it was called.)
HiddenTabHasNoWindow ==
  Settled /\ Largest # NoWindow /\ ~visible => ~vis[hwnd]

\* The client of an open session ends with the program, as rdp/mod.rs:96-99 and
\* :446-447 have it.  (disconnect_all() has no caller.)
ProgramEndsClient ==
  view = "closed" /\ session = "open" => proc # "running"

=============================================================================
