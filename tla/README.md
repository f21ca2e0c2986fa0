# Formal models of roc_desk-ssh

TLA+ models of the connection tool in this repository: SSH terminals, SFTP
transfers, Windows Agent sessions and RDP. The back end is a set of Tauri
commands written in async Rust (`lib/`), the front end is React with Zustand
stores (`src-web/`). Nearly everything hard in it happens between two awaits:
two commands in flight over one cached session, an answer that is late, a
connection lost without a word, a user who closes what is still being opened.
The models are about that; what is on the screen, in a file or on the wire is
data, kept only as far as a property tells it apart.

All paths below are relative to the root of the repository. Line numbers of
each definition are in `PROJECT.json` under `map`.

## The system

| Part | Where | State | Operations | Talks to |
|---|---|---|---|---|
| Agent session | `lib/src/agent/session.rs`, `agent/fsops.rs`, `protocol/` | `pending` (stream id to channel), `next_stream_id`, `shell_channels`, the outgoing queue, a writer task and a reader task | `request`, `request_streamed`, `write_stream`, `open_shell`, `write_shell`, `resize_shell`, `close_shell`, `is_alive` | the Agent over TLS frames; the tabs by events |
| SSH pool | `lib/src/ssh/pool.rs` | `sessions`, `file_ops` | `get_or_connect`, `get_file_ops`, `get`, `disconnect`, `evict` | the profile manager, the verifier, the sessions |
| SSH session | `lib/src/ssh/session.rs`, `handler.rs` | `channels`, `exec_lock`, a driver task per terminal | `connect`, `open_shell`, `write`, `resize`, `close_channel`, `exec`, `open_sftp`, `disconnect`, `is_alive` | russh; the tabs by events |
| Agent pool | `lib/src/agent/pool.rs` | `sessions` | `get_or_connect`, `get`, `disconnect` | as the SSH pool |
| Trust on first use | `lib/src/ssh/known_hosts.rs`, `agent/handshake.rs`, two repos, `stores/connectionStore.ts` | fingerprint tables, waiting prompts, one dialog slot each | `verify`, `resolve`, the confirm commands | the handshake it suspends; the user |
| Tabs | `src-web/src/stores/remoteSessionStore.ts`, `TerminalView.tsx` | `tabs`, `activeId`, multi-exec | open, close, reconnect, mark, broadcast | the shell commands, status events |
| SFTP transfers | `lib/src/fsops/remote.rs`, `lib/src/lib.rs` | `cancelled_transfers`, the files, `transfer_log`, the cached SFTP channel | `sftp_download_entry`, `sftp_upload_entry`, `transfer_cancel` | the pool, two file systems |
| SFTP file editing | `lib/src/fsops/remote.rs`, `ssh/session.rs`, `SftpFileViewer.tsx` | the slot with the SFTP channel, each viewer's text and date | `with_sftp`, `read_bytes_for_editor`, `write_file_bytes` | the server's files |
| Agent transfers | `lib/src/fsops/mod.rs` | none | `copy_between` | an Agent session |
| Profiles | `lib/src/connection/mod.rs`, `db/repo/connections_repo.rs` | a table and the keyring | create, update, delete, resolve | both pools, which they disconnect |
| Groups | `lib/src/connection/mod.rs`, `db/repo/connection_groups_repo.rs`, `stores/sessionTreeStore.ts` | a forest, and the front end's copy of it | create, update (rename, move), delete | the tree in the window |
| RDP | `lib/src/rdp/mod.rs`, `RdpView.tsx` | child processes, their windows, a watcher thread each | connect, bounds, show, hide, disconnect | `wfreerdp.exe` |
| Browsing | `stores/sftpStore.ts`, `agentBrowseStore.ts`, `localFsStore.ts` | directory shown, selection | `navigate`, `select` | list commands |
| The rest | host statistics, back-off, migrations, UI | | | |

What makes each correct:

- Agent session: frames reach the call they answer, in order; every call
  returns; nothing is left registered; what is reported as done was done.
- SSH pool: one session per profile, never a dead one, and file operations of
  that session; edits of a profile end the session made with the old one.
- Trust: only what the user saw and approved is trusted, a change is shown as
  one, and an answer always ends the handshake that waits for it.
- Tabs: the tabs and the running shells correspond, whatever reconnects do to ids.
- Transfers: a completed file is the source, retries lose nothing, the history
  tells what happened.
- File editing: a save never replaces silently what its author has not seen, and
  is never refused without a reason.
- Profiles and groups: no profile without its secret, no cycle, both copies agree.
- RDP: no process without a session, no window over a hidden tab.

The hazards, each at its line with the properties that cover it or the reason
why none does, are in `PROJECT.json` under `hazards`. A property that exempts a
hazard is not listed for it.

## The modules

| Module | Models | Composed with |
|---|---|---|
| `AgentSession` | one Agent connection: calls, both tasks, the link, an Agent at the other end | |
| `AgentSessionProofs` | proofs about it | `EXTENDS AgentSession` |
| `SessionLease` | what a pool promises to its callers, abstractly | |
| `SshPool` | both pools, SSH and Agent, of one profile: callers, edits, sessions and their terminals | implements `SessionLease` |
| `SshPoolProofs` | proofs that it implements `SessionLease`, and of its properties when calls do not overlap | `EXTENDS SshPool` |
| `TrustPrompt` | verifier, registry, table, event queue and dialog | back end and front end in one module |
| `TrustPromptProofs` | proofs of its safety properties | `EXTENDS TrustPrompt` |
| `SessionTabs` | the store, the calls it awaits, and the life of the channels | front end and back end in one module |
| `SessionTabsProofs` | proofs of its four properties, and of the safety properties of `RdpSession` | `EXTENDS SessionTabs, RdpSession` |
| `Transfer` | concurrent transfers of entries over SFTP or an Agent: cancel, errors, crashes, the history | its lost Agent is that of `AgentSession` |
| `TransferProofs` | proofs of its four properties | `EXTENDS Transfer` |
| `RemoteFiles` | viewers that read and save one remote file, the SFTP channel, the server | |
| `RemoteFilesProofs` | proofs of its three properties | `EXTENDS RemoteFiles` |
| `ProfileStore` | a profile's row and its secret, and the calls that edit or use them | its edits are those of `SshPool` |
| `ProfileStoreProofs` | proofs of its four properties | `EXTENDS ProfileStore` |
| `GroupTree` | the tree of groups in the table and in the window, statement by statement | back end and front end in one module |
| `GroupTreeProofs` | proofs of its three properties | `EXTENDS GroupTree` |
| `RdpSession` | view, manager, watcher thread, client process and its windows | front end and back end in one module |
| `MC*` | constants and symmetry for TLC | `EXTENDS` the module |

A step of a model ends where the code awaits, releases a lock or finishes a
statement that other threads can run between: what lies between two such points
is one action, with every assignment the code makes there.
Each action names its function; helpers that are not an action are one
expression of the code (`Offset`, `Reusable`, `Delivers`, ...). Variables marked
`history` in their declaration are not in the program: they note what a
property needs to compare with. Operators under a comment `Seeded bug` belong
to no specification: each replaces the definition after it in a mutant, to show
that a property can tell them apart.

### AgentSession

`pending`, `nextId`, `outq` and the two tasks are the fields of the same names
in `AgentSession` and `from_stream()`. A call is a model value; `phase` is its
program counter and `inbox` its oneshot or mpsc channel. `Begin` allocates an id
and inserts the registration (in the code the id is taken just before the lock:
nobody can see the difference, since an id is used by its call only).
`SendControl`, `SendContent`, `Answered`, `TimeOut`, `ReadStep`, `OpenShell` and
`ShellTask` are the parts of the calls between awaits; `WriterStep`,
`ReaderStep`, `ReaderFails`, `ReaderClears` the two tasks. `LinkDown` may cut
the connection at any time and lose any tail of the frames on their way; a write
after that may vanish or fail. The Agent is external: it answers requests, sends
the content of a file in order, may send undecodable frames and may stay silent.
Frames carry the call they were made for in a field `op` that no action of the
client reads, only the properties do; a chunk is its number `n` in the content,
which both ends keep as they receive it, so that `local` and `remote` show what
was lost, repeated or swapped on the way.

Abstracted: the bodies of requests and responses, the handshake (a request like
any other), the mapping from a terminal's local id to its stream id (one to one;
`CloseShell` and `UseShell` act on the call itself).

### SshPool and SessionLease

Pools never relate two profiles except by their locks, so the module is about
one profile, of `kind` "ssh" or "agent". The locks are modelled by the one guard
that is held across an await (`SessionsFree`: the write guard of `sessions` in
`disconnect()`, which in the 2021 edition lives to the end of the `if let`). The
guards of `file_ops` are never held across one and are no state of the model, so
nothing is said about a deadlock between the two locks.
The Agent's pool takes the same steps without the second cache, the timeout and
the goodbye: `EvictOps`, `NewOps`, `DropOps` and `Disconnect` are not taken.
Sessions are numbered in the order of their connects. `Held` says whether some
`Arc` still owns a session: a driver task leaves silently when it does not. The
ends of a session (`SessionDies`) are those the code notices, the ones
`is_alive()` reports.

`SessionLease` states what the pools promise without their steps: a call of
`get_or_connect()` is answered with a session that was up at some moment between
its beginning and its answer; the session is the cached one or nobody else's; the
pool caches only what it has given. `Lease` in `SshPool` maps a call's program
counter to the phases idle, waiting, given and over: a session counts as given
from the moment its connect has succeeded, which is before it is cached, since
another call's insertion may come in between.

### TrustPrompt

A check is one `verify()` call. Prompt events travel in a queue, the front end
keeps one slot and overwrites it; the confirm command and the clearing of the
slot after its await are separate steps. A click is one press of a button of the
dialog, with a confirm command of its own: the buttons stay enabled during the
await, so a prompt may be answered twice and differently, and the end of any command
clears whatever prompt the slot holds by then. `kind` chooses between the SSH
verifier, whose connect has a timeout, and the Agent's, which has none.
When the timeout of an SSH connect fires, the task of russh that runs the check
may end with it or go on: both are modelled.

### SessionTabs

A tab's `id` is its channel id and changes at a reconnect, as in the store;
`key` is the tab as the user knows it. The calls of the store are split at their
awaits of the back end; `Deliver` is the listener of `TerminalView` calling
`markDisconnected`. The overlay with the reconnect button is not disabled while
a reconnect runs, so a second one may start. `PoolDrops` is the pool replacing or
forgetting the session of a channel (`SshPool` has when): a close command that comes
after it does not find the channel and ends nothing (`ShellsAfterClose`), and the tab
is gone all the same. The `find()` and the `filter()` of
`closeTab()` look for an id; as no two tabs ever have the same (part of
`ActiveIsOpen`, and proved), both come down to the one position of that id.

### Transfer

A file is a sequence of chunks, each marked with the version of the source it
comes from; version v is v chunks long, so versions differ in length and in
content. Download and upload are one state machine. Over SFTP (`via` "sftp") a
file is resumed from the size of what is there, and a size request that fails
makes the offset 0 (`unwrap_or(0)`, `_ => 0`). To and from an Agent
`copy_between()` reads a file whole, which a lost connection may cut short
without an error (the finding below), and writes it whole. `log` is the row of
`transfer_log`. A transfer reads one version from beginning to end; a source that
changes during the transfer is not modelled.

### RemoteFiles

A step is one SFTP request. The mutex of `with_sftp()` covers the handshake
only (`Lock`, `Handshake`), so the requests of two calls interleave freely, and the
check of the date, the `create()` that cuts the file off, the write and the
second `metadata()` of a save are four steps that anyone may come between. The
server dates by whole seconds. A date carries two notes in the model: `blind`
(it may be shared by a later change, because its second is not over, or by what
another one wrote) and `changed` (the file has changed since it was learned).

### ProfileStore

One profile: whether its row is there, whether it refers to a secret, and the
secret in the keyring. `create()`, `update()`, `delete()` and the connecting
commands are split at each statement and each keyring operation; every one may
fail, and calls interleave as the threads of the pool do. `with` notes which
secret the fields of the row were saved with, so that "this host with that
password" can be told from a pair that belongs together.

### GroupTree

One step per SQL statement, because no transaction spans two of them: the
iterations of `is_descendant()`, the four statements of `delete()`, and the
assignment of the store after its await. `shown` is the window's copy, from which
the dialogs take what they send. The foreign keys are enforced by the bundled
SQLite (`Refers`, `Erase`). `Depth` is the 64 of `is_descendant()`.

### RdpSession

The view invokes its commands without awaiting them and the runtime runs them in
any order, so `cmds` is a sequence of which `RunCommand` takes any member. `Connect`,
`FindWindow`, `Embed` and `Answer` are the parts of `connect()`; `Poll`, `Reattach`
and `Store` are the watcher, which releases the lock between the window it
found and the handle it stores. The bounds of the panel are the number of the layout
they were measured in (`layout`), and are about the main window; `position_window()`
adds the place of the main window on the screen at that moment (`main`), which the model
keeps beside each window's bounds (`place` and `from`). A change of size is reported by the
observer or the resize event (`Resize`); a move of the main window is not
(`MoveMain`). The handle of the main window, its scale factor and positioning may fail:
`connect()` then gives up and leaves the client (`stray`), `set_bounds()` and `show()`
return before or after they have stored the bounds (`RunFails`), the watcher goes on. The
client may open, close and replace windows and end at any
time; windows are numbered by size, as the watcher embeds the largest. `stage` is the
program counter of `connect()`, and some names begin with `Rdp` so that a module can
extend this one beside another.

## The runs

| Run | Shows | Bounds |
|---|---|---|
| `agent_session` | routing, clean-up, order and acknowledgement of all four kinds of call | one call of each kind, 2 chunks, 2 ids: any two of them run |
| `agent_session_live` | calls return; a lost connection ends reads; closed terminals end | a read, a write, a terminal, 1 chunk, 2 ids: any two of them run |
| `agent_truncated_read` | counterexample: a cut read reports success | as above |
| `ssh_pool` | both pools implement `SessionLease`; freshness, one session, edits evict | a terminal, two file users, an edit, 2 sessions, both kinds |
| `trust_prompt` | approval, warning, and that an answer is not lost and ends its check | 2 checks, 2 hosts, 2 fingerprints, 2 clicks, every initial table, both kinds |
| `session_tabs` | tabs and shells correspond; multi-exec reaches whom it should | 3 calls, 3 ids |
| `transfer` | exact resume, true history, no restart from the beginning | 2 transfers, 2 files, 2 versions, both kinds |
| `remote_files` | no silent overwrite, no refusal without a reason, one handshake | 2 viewers, 3 seconds, 2 texts after the first |
| `profile_store` | a reference always has its secret; row and keyring agree | 3 calls of any kind, every initial state |
| `group_tree` | forest; window and table agree | every forest of 3 groups, 1 profile, 2 calls, walks of 2 |
| `group_rename` | counterexample: a rename after a deletion moves a group | as above, walks of 3 |
| `rdp_session` | the window follows the tab; a closed tab ends its client | 2 windows, 2 layouts, 3 commands under way, 1 move |

Why these are enough: the properties relate at most two calls and what happens
to a third party between their steps, so two actors of a kind and one of each
other kind meet in every order. In `ssh_pool` two sessions let a session be cached
and replaced under a slow call. In `session_tabs` three ids allow a tab, its
reconnect and a second reconnect or another tab. Two chunks tell an order from a
repetition; two versions of lengths one and two give a shorter, an equal and a
longer destination. In `remote_files` three seconds give a date that is old, one
that is current and one that is not over, and two texts one from each viewer or
one from outside. In `group_tree` three groups are the least with a cycle that a
move of one cannot see in one step, and a walk of two is outgrown by three
groups, so that the limit is met. In `profile_store` three calls allow an edit
between the two writes of another with a connect beside. In `rdp_session` two
windows are a splash screen and the desktop, and one move tells the old place of the
main window from the new. Two clicks in `trust_prompt` are two answers to one prompt or
one to each of two. Runs state `CHECK_DEADLOCK FALSE`
because every model stops when its calls are used up. Symmetry is used only for sets of
interchangeable members, in runs without liveness properties.

Properties worth explaining:

- `KeepsLease` holds without exemptions: whatever overlaps, a pool never answers
  with a session that was dead all along, and two calls never share a session
  that is not the cached one.
- `OneSessionIfAlone`, `OpsAreFreshIfAlone`, `EditEvicts` hold as long as no
  call connects while another is in flight (`raced`): the check and the insertion
  in `get_or_connect()` are not one step. `OneSessionIfAlone` also exempts an edited
  Agent profile (`Abandoned`), whose old session nobody ends.
  What the code does in the overlap is shown by `SharedSession` and `OpsAreFresh`,
  which `pool.rs` promises without it.
- `NoOrphanShell` exempts two shells: the one whose session the pool dropped before
  the close command came (`lost`), and the one opened by a reconnect whose tab was
  closed or reconnected again in the meantime (the call is in `overtaken`); both are
  left running by the code.
- `BroadcastReaches` is about what is typed in a terminal that is not excluded, and
  relates the exclusions the user has set (`unwanted`, by tab) to the ids they are stored
  under, across reconnects. `ExcludedSendsNothing` and `ExcludedReceivesNothing` are
  the other half of the promise, which the code does not keep.
- `ChangeIsWarned` exempts two checks of one host that overlapped; `ChangeIsAlwaysWarned`
  is the promise without that. `NoAnswerLost` and `AnswerEndsCheck` have no exemption.
- `ResumedIsExact` and `LogIsTrue` exempt transfers that met another one, a
  destination of another version, or a truncated read (`tainted`).
- `NoSilentOverwrite` names, for a save that replaces something unseen, the only
  four causes the code leaves: a torn file, a change after the check (`met`), a
  check that failed and was ignored (`skipped`), a date that cannot tell (`blind`).
- `ForestIfAlone` exempts overlapping moves or deletions (`raced`) and chains of more
  groups than the walk of `is_descendant()` (`deep`); `StoreAgreesIfAlone` exempts, beside
  overlaps, a deletion that stopped half way (`halfway`) and one after which the
  window puts the subgroups elsewhere (`drifted`). No failure of any statement and
  nothing else the stale copy makes the window send breaks the forest.
- `CredentialKept` has no exemption but a delete that got as far as the keyring; the
  agreement of row and keyring needs that no edit overlapped or failed half way.
- `WindowFollowsTab` exempts what `Upsets` names: the tab is left or resized before
  it has its session id, commands overtake each other, windows come or are embedded
  while the tab is hidden or a command runs; further a positioning that failed, and, as to the
  place on the screen, a main window that has moved since a window was placed last. `StaysOnPanel`
  and `HiddenTabHasNoWindow` are promises of the sources without these. `ClosedTabEndsClient`
  exempts a `connect()` that fails after the client was started, and the end of the
  program, of which `ProgramEndsClient` is the promise.

## Fairness

Only what the tokio runtime and the event loop of the window guarantee: a task
that can make a step makes it (weak fairness of the calls, of the two tasks of a
session, of the delivery of events and of the rest of a command after its
await), and timers fire (`TimeOut` of a waiting call is part of its fairness in
`AgentSession`). A reader blocked on a connection that is down sees its end
(`ReaderFails` while the link is down). In `RdpSession` the parts of `connect()` go
on (the wait for a window ends after 15 seconds) and commands that were invoked
are run. Nothing is assumed of the user, the network, the Agent or the client
process. In `TrustPrompt` the timeout has no fairness: it exists for one of the two
kinds only, and `AnswerEndsCheck` does not need it.

## Findings

Two runs end in a counterexample to something the repository says of itself;
`PROJECT.json` quotes the lines.

1. `read_streamed()` returns a truncated file as success when the connection is
   lost in the middle (`agent_truncated_read`).
2. After the deletion of a group that had a parent, the window shows its
   subgroups at the top while the table has them one level up; renaming such a
   subgroup then moves it to the top (`group_rename`).

## Promises that are not kept

The conditional properties of the runs exempt what the code does in an overlap or at an
edge. Nine times a comment or a text on the screen promises the same without the
condition. Each promise is a property of the module, and the configuration refutes
it: `tlc -config SshPoolShared.cfg MCSshPool` and so on ends in the trace described.
They are not among the runs of `PROJECT.json`.

| Promise | Property, configuration | What the code does |
|---|---|---|
| `ssh/pool.rs:23-24`: the terminals of a host share one session | `SharedSession`, `SshPoolShared.cfg` | Two calls that begin before either has inserted both connect; the second insertion (`pool.rs:82`) replaces the first session, whose terminals go on |
| `ssh/pool.rs:109-112`: operations of a dead session are not handed out | `OpsAreFresh`, `SshPoolFresh.cfg` | `get_file_ops()` caches the operations of a session that has died since it was checked (`pool.rs:118`), beside a live session another call has connected; later calls find them |
| `ssh/known_hosts.rs:32-33`: a changed fingerprint is shown as one | `ChangeIsAlwaysWarned`, `TrustPromptOverlap.cfg` | Two checks of one unknown host are both in the branch "Unknown"; the second `save()` (`known_hosts.rs:68`) replaces what the first one stored |
| `HostKeyDialog.tsx:88`: the warning of a change closes by a choice only | `ClosedByChoice`, `TrustPromptReplaced.cfg` | The next prompt takes its place (`connectionStore.ts:50`), or the end of an earlier answer clears it (`:32`) |
| `remoteSessionStore.ts:20-21`, `HomeShell.tsx:182`, `:199`: what is typed in an excluded terminal is not broadcast | `ExcludedSendsNothing`, `SessionTabsSource.cfg` | `broadcastInput()` (`remoteSessionStore.ts:168-177`) looks at the exclusion of the receivers only |
| the same lines: an excluded terminal does not receive | `ExcludedReceivesNothing`, `SessionTabsReconnect.cfg` | The exclusion is kept under an id that a reconnect changes (`:143`); the box is then shown unticked, though nobody unticked it |
| `rdp/mod.rs:75-76`: the window is kept over the panel | `StaysOnPanel`, `RdpSessionMoved.cfg` | Moving the main window changes neither the panel's size nor the window's (`RdpView.tsx:116-118`), so nothing places it again |
| `RdpView.tsx:9-10`: a tab that is left has its window hidden | `HiddenTabHasNoWindow`, `RdpSessionHidden.cfg` | The answer of `connect()` is followed by `show()` if the tab was active when it was called (`RdpView.tsx:56`); the watcher shows what it embeds |
| `rdp/mod.rs:97-99`, `:446-447`: the end of the program ends the clients | `ProgramEndsClient`, `RdpSessionExit.cfg` | `disconnect_all()` has no caller |

## Known limits

What the code does in other cases that conditional properties exempt, or that the
models leave out.

- `is_alive()` of an Agent session stays true after a loss that no write has met;
  each request then ends by its timeout, a streamed read that begins after the
  reader has left has none.
- `write_frame()` refuses a payload over 16 MiB (`frame.rs:69-74`) and thereby ends the writer
  task with the connection up; `write_shell()` sends what it is given in one frame. Not
  modelled, as are no other sizes. That the reader also removes the registration of a
  plain request at a StreamEnd (`session.rs:217`) is modelled by what can happen: no such
  frame comes for one.
- A profile edited during a connect leaves a session made with the old version. The
  Agent's pool has no timeout around its connect.
- An edit of an Agent's profile forgets its session without ending it; closing a
  terminal of a session that was replaced or forgotten ends nothing.
- A tab closed, or reconnected again, during a reconnect leaves the new channel
  without a tab.
- Resuming by size alone keeps the beginning of another file or version.
- A prompt that another one replaced is not shown again; its handshake waits for
  the timeout of the SSH connect, and for ever with an Agent.
- Two overlapping edits of a profile may leave the host of one with the secret of
  the other.
- A move of groups that overlaps another may make a cycle, which hides the groups;
  so may a chain of more than 64.
- An error in `connect()` of RDP after the client has a window leaves the process;
  `status()` never says that the client has ended.
- The slot of `RemoteFileOps` keeps a channel that has died.
- A file renamed onto the one a viewer edits keeps its own date (`rename()`,
  `remote.rs:689-700`), which may be the one the viewer knows; and on a server that
  sends no dates every date is 0 (`remote.rs:411-413`) and the check of a save always
  passes. `RemoteFiles` has neither: its dates are those of a server that sets them.

## Proofs

### AgentSessionProofs

For all sets of calls, any number of chunks and any bound on the ids:

- `SessionTypes`: `Spec => []TypeOK`,
- `NoAnswerCrosses`: `Spec => []NoCrossTalk`,
- `ReturnsUnregistered`: `Spec => []NoStaleRegistration`,
- `ChunksStayInOrder`: `Spec => []OrderedPrefix`,
- `AckedMeansWhole`: `Spec => []AckedWriteIsWhole`,
- `ClosedTerminalIsEnding`: `Spec => []ClosedShellIsEnding`.

The only assumption is `AgentAssumption`: the sets of calls are disjoint, `NoOp`
is not a call, `Chunks` is a positive natural and `MaxStreams` a natural.

`NoCrossTalk` is not inductive: a frame reaches the channel that its stream id
is registered for, so one has to know that ids are never shared (`IdsAssigned`),
that a registration and every frame in either direction carries the id of its
call (`PendingRouted`, `OutRouted`, `InRouted`), and that the Agent answers only
what was asked (`SrvBegan`). These with the types are `RoutingInv`. For
`NoStaleRegistration` one also has to know that the reader removes a
registration in the same step in which it delivers the frame that ends the call
(`EndUnregisters`); together they are `IInv`. There is one lemma per action and
one step in it per conjunct the action can disturb.

`OrderedPrefix` and `AckedWriteIsWhole` are about numbers that travel: `OrderedPrefix` cannot be kept without
knowing what is in the channel and on its way. A queue is read as a sequence of
numbered frames in which those of one call stand without a gap (`InOrder`, from the
frame that is due) up to the last one sent (`UpTo`); the lemmas `HeadDue`,
`TailOrder`, `AppendOther`, `AppendNext` and `PrefixOrder` say what taking, adding and losing
frames leave of that. For a stream `StreamOf` joins what was consumed, the channel and
the way from the Agent: the opening answer comes first and once, the chunks follow
in order and the end has the number after the last chunk. It is claimed of the way
only while the stream is registered, of the channel only while somebody listens,
and `UpTo` only while the connection is up: that is where the code gives up the
rest. For a write `WriteOf` joins the outgoing queue, from the part the Agent awaits,
what the Agent received, and the answers on their way back, none of which says
"ok" before the Agent holds everything. Both need that a request is the first frame
of its call (`AskedOf`). The whole is `OrderInv`.

`ClosedShellIsEnding` adds to it only that the writer task runs while the connection
is up (`LeavingInv`). That the Agent does not start a closed terminal again comes from
`AskedOf`: when its StreamEnd is taken from the queue, its request was taken before.

### SshPoolProofs

For all sets of terminals, file users and edits and any number of sessions:

- `PoolTypes`: `Spec => []TypeOK`,
- `PoolsKeepLease`: `Spec => KeepsLease`, the refinement of `SessionLease`,
- `FreshOpsAlone`: `Spec => []OpsAreFreshIfAlone`,
- `OneSessionAlone`: `Spec => []OneSessionIfAlone`,
- `EditsEvict`: `Spec => []EditEvicts`.

The assumption is `PoolAssumption`: the three sets of calls are disjoint and
`MaxSessions` is a natural.

The refinement needs little about the pool: which steps each kind of call can be
at (`Roles`), that a session being connected is up and known to its call alone
(`Fresh`), and that `disconnect()` has a session to say goodbye to (`Closing`).
`Fresh` is what makes a connect that succeeds an answer of the abstract pool: the
session counts as given from then on, so that no other call may hold it already.
The initial states map to initial states (`LeaseBegins`), and each step maps to one
of `SessionLease` or to a stutter (`EveryStep`); the steps that an observer of the
pool cannot see, `EvictOps` and `Edit` for instance, are the stutters.

The other three hold only while calls do not overlap a connecting one, so their
invariant `AInv` says what is then true: every overlap was noted (`NoRace`); what is
cached and what is held is one session, and the file operations are gone before
the new session is looked for (`OneSource`); what is cached was made with the
profile of now, or an edit has still to drop it (`CurrentProfile`); and a session
that is up and has a terminal is cached or being told goodbye (`NoneLeft`). Each
action has a lemma that says what it changes (`GetCachedDoes`, ...), and the lemma
about each part of the invariant has one case per action.

### SessionTabsProofs

For any set of calls and any number of ids:

- `TabTypes`: `Spec => []TypeOK`,
- `ActiveTabIsOpen`: `Spec => []ActiveIsOpen`,
- `NoShellIsOrphan`: `Spec => []NoOrphanShell`,
- `BroadcastReachesShown`: `Spec => []BroadcastReaches`.

The assumption is `TabsAssumption`: `MaxIds` is a natural. Ids are handed out once and in
order (`Numbered`), so a channel that the back end has opened and that no tab shows yet
is nowhere else either, not even among the excluded (`Apart`), and the tab that takes
its id keeps the list free of doubles (`Distinct`). `NoOrphanShell` needs that a tab with the
overlay has no shell (`Ended`) and that a reconnect which was not overtaken finds its tab
still there, with the overlay, and is alone with it (`Waiting`): then the id it
overwrites is that of an ended shell. Both are claimed of each call until something overtakes
it (`overtaken`), and of the shells whose session the pool still holds. `BroadcastReaches` needs that an exclusion is kept
under the id of the tab the user unticked (`Shown`). First come lemmas on the three ways the list
changes: a tab is added (`AddedTab`), taken out (`ClosedTab`), or all are mapped (`MappedTabs`).

The module also proves those of `RdpSession`, which it extends as well: neither model
reads the other's variables, but both are about lists an element is taken from, and
share the lemmas on them. For any number of windows, layouts and commands under way:

- `RdpTypes`: `RdpFairSpec => []RdpTypeOK`,
- `WindowFollows`: `RdpFairSpec => []WindowFollowsTab`,
- `GoneTabIsEnding`: `RdpFairSpec => []GoneIsEnding`.

The assumption is `RdpAssumption`: `MaxWindows` is a natural, `MaxLayouts` and `MaxCmds` positive
ones. `WindowFollowsTab` says that the window is right when no command is under way; what
is true before that is a statement about the list. Of the commands that show or hide,
the last one says what the tab is, and if there is none the window is so already
(`ShownAsTab`); the same of those that place it (`PlacedAsPanel`). `Upsets` notes a command
that overtakes another one; unless it does, the one taken is as good as the first
(`FirstOrSame`), and the last of a kind stays or was the only one. Where the main window was
is a matter of its own, which no part of these claims: while it has not moved since a
window was placed last, a window placed by the code was placed where the main
window still is (`Anchored`, with what holds during `connect()` in `PlacingInvariant`).
`Embedding` says the same of a window found and not yet stored, `Opened` that what is
embedded was opened, and `Stages` what can be there at each part of `connect()`. `Calm`
claims the three only of a mounted view that nothing upset. `GoneIsEnding` adds that a
view that is gone has left a disconnect among the commands (`Ending`), which no other
command that is taken removes (`OthersStay`). That a list has a first and a set of
windows a largest member is drawn from the well-foundedness of `<` (`LeastNat`).

### ProfileStoreProofs

For any set of calls:

- `ProfileTypes`: `Spec => []TypeOK`,
- `ReferenceHasSecret`: `Spec => []CredentialKept`,
- `StoresAgree`: `Spec => []StoresAgreeIfAlone`,
- `ConnectUsesItsSecret`: `Spec => []ConnectsWithItsSecret`.

The assumption is `ProfileAssumption`. `CredentialKept` rests on the order of two
writes: a row about to be written refers to a secret that is already there
(`Armed`), which no failure of another call undoes. The other two need how far row
and keyring are apart at each step of an edit (`Between`), that they agree when no
edit is in flight (`Settled`), and that an edit in flight is alone unless the
history says otherwise (`Alone`).

### TrustPromptProofs

For any number of checks, hosts, fingerprints and clicks:

- `PromptTypes`: `Spec => []TypeOK`,
- `TrustIsGiven`: `Spec => []OnlyApproved`,
- `AnswersArrive`: `Spec => []NoAnswerLost`,
- `NoUnseenChange`: `Spec => ChangeIsWarned`, an action property.

The assumption is `TrustAssumption`: there is a host, and the absent fingerprint and
the absent check are no fingerprint and no check. What the user approved is what
the click was about, and the click, the command it invokes and the answer in the
channel are three different moments: `Clicked` ties the three to what was approved, and
`Looked` says that none of them is about a check that has not looked its host up.
What a prompt calls the old fingerprint is the one in the table while no other
check of that host runs (`Uncrossed`). `NoAnswerLost` holds whatever prompts collide and
however often one is answered: an answer addresses the check it was clicked for, not
the slot; it needs that a waiting check is registered until the first command about it
has run, which leaves the answer in its channel (`Heard`), and that no event or click is
about a check that has not asked (`Asked`, `Made`).

### TransferProofs

For any set of transfers and any number of files and versions:

- `TransferTypes`: `Spec => []TypeOK`,
- `CompletedIsWhole`: `Spec => []ResumedIsExact`,
- `HistoryIsTrue`: `Spec => []LogIsTrue`,
- `RetryResumes`: `Spec => RetryKeepsProgress`, an action property.

The assumption is `TransferAssumption`: there is a file and a version. That a finished
file is exact is not inductive: one has to know what a file in progress is, which is
the beginning of the version copied, as long as the position says (`Copied`), that
nobody else writes it unless the history says so (`Alone`), at which steps the
position, the file and the outcome may stand where (`Stages`), and which files are
counted (`Counts`). `Logged` is what makes the row agree with the count.

### RemoteFilesProofs

For any set of viewers and any number of seconds and texts:

- `FileTypes`: `Spec => []TypeOK`,
- `RefusalHasReason`: `Spec => []NoFalseConflict`,
- `NothingUnseenIsLost`: `Spec => NoSilentOverwrite`, an action property.

The assumption is `RemoteFilesAssumption`. The heart of it is when a date proves that a
file is the same. `Dated` says what a learned date tells: one that is not `blind` is
past, and if the file has changed since, the file is gone or has a later date; if it
has not, the date is the file's. `Known` says that without a change the file still
holds what the viewer's text comes from. `Checked` and `Written` carry this over the
requests of a save, and `Opening` that a handshake finds the slot empty.

### GroupTreeProofs

For any number of groups and calls and any bound of the walk:

- `TreeTypes`: `Spec => []TypeOK`,
- `GroupsStayForest`: `Spec => []ForestIfAlone`,
- `StoreAgrees`: `Spec => []StoreAgreesIfAlone`.

The assumption is `GroupTreeAssumption`: `Depth` is positive and the marks for the root, a
group not yet created and a deleted one are no groups and differ. A forest is a
set of groups in which every nonempty part has a member whose parent is outside,
so that no induction is needed. What the walk of `is_descendant()` has seen is a chain from
the new parent upwards (`Walking`); if it reaches the top without meeting the
group, there is a set of groups that holds the new parent and the parents of its
members but not the group (`Clear`), and the move closes no cycle. A walk that ends at
its bound has seen a chain longer than that, which is what `deep` notes (`Deepness`);
`raced` notes the calls that would disturb what it has seen (`Overlaps`). `StoreAgrees` needs which calls are
under way, what they will still write, and what the window will make of it
(`Targets`, `Agrees`, `Answers`).

### Left to TLC

Out of the prover's reach are the liveness properties, which need fairness. Every
invariant and action property of a passing run is stated by a theorem.

Of three liveness properties the safety half is proved instead: `ClosedShellIsEnding` of
`ClosedShellEnds`, `NoAnswerLost` of `AnswerEndsCheck` and `GoneIsEnding` of
`ClosedTabEndsClient`. Whatever has still to happen is registered or queued somewhere
until it has, whatever overtakes it: no step loses it. That fairness then makes it
happen is what TLC checks. `NoAnswerLost` is also an invariant of a run; the other two
are in none, as the runs check the stronger liveness properties, and the bugs that break
the one break the other.

## Plan

What would come next:

1. `SshExec`: the exec lock inside its timeout and the polling of host statistics
   over a silent connection.
2. Entries that are directories at one side of a transfer and files at the other.

## Not modelled

- Host statistics and `exec()`: a parser of command output and a polling bar.
- `reconnect.rs`: a sequence of delays that nothing calls.
- The browsing stores: one panel's list, replaced by whichever answer is last.
- Commands and functions nothing calls: `sftp_download`, `sftp_upload`,
  `agent_download`, `agent_upload`, `ssh_disconnect`, `agent_disconnect`, `evict()`,
  `disconnect_all()`.
- Closures of the user interface: the "retry" button of the viewer and Ctrl+S run the
  handler of the render they were made in.
- `reset()` of the tabs, which the embedding application calls; `load()` of the tree.
- Terminal highlighting, encodings and paths (pure text), migrations (SQL text),
  styles, the bundled `wfreerdp.exe`, generated schemas.
