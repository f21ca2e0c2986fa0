---------------------------- MODULE AgentSession ----------------------------
(***************************************************************************)
(* One TLS connection to an Agent (lib/src/agent/session.rs) carrying many *)
(* logical streams.  A writer task drains the queue of outgoing frames, a  *)
(* reader task dispatches incoming frames by stream id through `pending`,  *)
(* and every call is a task of its own.  The Agent at the other end is     *)
(* external: it follows the frame order the client's readers document.     *)
(*                                                                         *)
(* A frame carries, beside its stream id, the call `op` it was made for,   *)
(* and a chunk is its number `n` in the file: the program sees neither,    *)
(* the properties do.                                                      *)
(***************************************************************************)
EXTENDS Naturals, Sequences

CONSTANTS
  Requests,    \* calls of request(): one Control frame out, one back
  Reads,       \* calls of request_streamed() drained by read_streamed()
  Writes,      \* calls of write_stream()
  Shells,      \* calls of open_shell(), and the terminals they open
  NoOp,        \* the absence of a call
  Chunks,      \* BOUND: DataChunk frames of a file, of a shell's output
  MaxStreams   \* BOUND: stream ids handed out (2^32 - 1 before the u32 wraps)

Ops     == Requests \cup Reads \cup Writes \cup Shells
Oneshot == Requests \cup Writes
Ids     == 1..MaxStreams

ASSUME AgentAssumption ==
  /\ Requests \cap Reads = {} /\ Requests \cap Writes = {} /\ Requests \cap Shells = {}
  /\ Reads \cap Writes = {} /\ Reads \cap Shells = {} /\ Writes \cap Shells = {}
  /\ NoOp \notin Ops
  /\ Chunks \in Nat \ {0}
  /\ MaxStreams \in Nat

VARIABLES
  nextId,    \* next_stream_id
  id,        \* stream id of each call, 0 before it has one
  phase,     \* how far each call has come
  pending,   \* the registrations: stream id -> the call whose channel it holds
  inbox,     \* frames sent into a call's channel and not yet received from it
  local,     \* chunks a read or a shell has consumed, a write has queued
  told,      \* shells whose tab was sent the "disconnected" status
  outq,      \* out_tx/out_rx
  writer,    \* the writer task
  reader,    \* the reader task
  link,      \* the TCP/TLS connection
  inq,       \* frames on their way from the Agent
  srv,       \* the Agent's progress on each call (external)
  remote     \* chunks the Agent has produced for, or received from, each call

callVars  == <<nextId, id, phase, local, told>>
agentVars == <<srv, remote>>
vars == <<nextId, id, phase, pending, inbox, local, told, outq, writer, reader,
          link, inq, srv, remote>>

Terminal  == {"ok", "error", "closed"}
Phases    == {"idle", "registered", "sending", "waiting", "open"} \cup Terminal
OutFrames == [id : Ids, op : Ops, type : {"request", "data", "end"}, n : 0..Chunks]
InFrames  == [id : Ids, op : Ops, type : {"meta", "ok", "error", "bad", "data", "end"},
              n : 0..Chunks]

\* Seeded bug: the counter starts at 0.
FirstIdIsZero == 0

FirstId == 1

Init ==
  /\ nextId  = FirstId
  /\ id      = [o \in Ops |-> 0]
  /\ phase   = [o \in Ops |-> "idle"]
  /\ pending = [i \in Ids |-> NoOp]
  /\ inbox   = [o \in Ops |-> <<>>]
  /\ local   = [o \in Ops |-> <<>>]
  /\ told    = {}
  /\ outq    = <<>>
  /\ writer  = "running"
  /\ reader  = "running"
  /\ link    = "up"
  /\ inq     = <<>>
  /\ srv     = [o \in Ops |-> "idle"]
  /\ remote  = [o \in Ops |-> <<>>]

----------------------------------------------------------------------------
(* Helpers.                                                                *)

Registered(o) == \E i \in Ids : pending[i] = o

\* The receiving half of a call's channel yields nothing more: the only sender
\* lives in the registration.
Disconnected(o) == inbox[o] = <<>> /\ ~Registered(o)

Unregister(i) == pending' = [pending EXCEPT ![i] = NoOp]

Become(o, p) == phase' = [phase EXCEPT ![o] = p]

IsAlive == writer = "running"          \* !out_tx.is_closed()

Queue(o, t, n) == outq' = Append(outq, [id |-> id[o], op |-> o, type |-> t, n |-> n])

----------------------------------------------------------------------------
(* The calls.  A call allocates its id and registers under the lock of     *)
(* `pending` before it sends anything.                                     *)

\* Seeded bug: the counter is read and never advanced.
SameId(n) == n

NextId(n) == n + 1      \* fetch_add

Begin(o) ==
  /\ phase[o] = "idle"
  /\ nextId \in Ids
  /\ nextId' = NextId(nextId)
  /\ id' = [id EXCEPT ![o] = nextId]
  /\ pending' = [pending EXCEPT ![nextId] = o]
  /\ Become(o, "registered")
  /\ UNCHANGED <<inbox, local, told, outq, writer, reader, link, inq, srv, remote>>

SendControl(o) ==
  /\ phase[o] = "registered"
  /\ IF IsAlive
     THEN /\ Queue(o, "request", 0)
          /\ Become(o, IF o \in Writes THEN "sending" ELSE "waiting")
          /\ UNCHANGED pending
     ELSE /\ Unregister(id[o])
          /\ Become(o, "error")
          /\ UNCHANGED outq
  /\ UNCHANGED <<nextId, id, inbox, local, told, writer, reader, link, inq, srv, remote>>

\* Seeded bug: the last chunk is left out.
AllButLastQueued(o) == Len(local[o]) + 1 < Chunks

ContentLeft(o) == Len(local[o]) < Chunks

\* write_stream(): the chunks, then StreamEnd, each refused once the queue is closed.
SendContent(o) ==
  /\ o \in Writes /\ phase[o] = "sending"
  /\ IF ~IsAlive
     THEN /\ Unregister(id[o])
          /\ Become(o, "error")
          /\ UNCHANGED <<outq, local>>
     ELSE /\ UNCHANGED pending
          /\ IF ContentLeft(o)
             THEN /\ Queue(o, "data", Len(local[o]) + 1)
                  /\ local' = [local EXCEPT ![o] = Append(@, Len(@) + 1)]
                  /\ UNCHANGED phase
             ELSE /\ Queue(o, "end", 0)
                  /\ Become(o, "waiting")
                  /\ UNCHANGED local
  /\ UNCHANGED <<nextId, id, inbox, told, writer, reader, link, inq, srv, remote>>

\* A oneshot receiver resolves: with the answer, or with an error once the
\* sender is gone.
Answered(o) ==
  /\ o \in Oneshot /\ phase[o] = "waiting"
  /\ \/ /\ inbox[o] # <<>>
        /\ Become(o, IF Head(inbox[o]).type = "ok" THEN "ok" ELSE "error")
        /\ inbox' = [inbox EXCEPT ![o] = Tail(@)]
     \/ /\ Disconnected(o)
        /\ Become(o, "error")
        /\ UNCHANGED inbox
  /\ UNCHANGED <<nextId, id, pending, local, told, outq, writer, reader, link, inq, srv,
                 remote>>

\* Seeded bug: open_shell() waits without a timeout.
OneshotTimeout(o) == o \in Oneshot

\* REQUEST_TIMEOUT or EXEC_TIMEOUT runs out.  read_streamed() has no timeout.
HasTimeout(o) == o \in Oneshot \cup Shells

TimeOut(o) ==
  /\ HasTimeout(o) /\ phase[o] = "waiting"
  /\ inbox[o] = <<>>
  /\ Unregister(id[o])
  /\ Become(o, "error")
  /\ UNCHANGED <<nextId, id, inbox, local, told, outq, writer, reader, link, inq, srv,
                 remote>>

\* read_streamed(): one turn of its loop; it ends with what it has when the
\* channel is disconnected.
ReadStep(o) ==
  /\ o \in Reads /\ phase[o] = "waiting"
  /\ \/ /\ inbox[o] # <<>>
        /\ inbox' = [inbox EXCEPT ![o] = Tail(@)]
        /\ LET f == Head(inbox[o]) IN
           /\ phase' = [phase EXCEPT ![o] =
                          CASE f.type \in {"ok", "error"} -> "error"
                            [] f.type = "end"             -> "ok"
                            [] OTHER                      -> @]
           /\ local' = [local EXCEPT ![o] = IF f.type = "data" THEN Append(@, f.n) ELSE @]
     \/ /\ Disconnected(o)
        /\ Become(o, "ok")
        /\ UNCHANGED <<inbox, local>>
  /\ UNCHANGED <<nextId, id, pending, told, outq, writer, reader, link, inq, srv, remote>>

\* open_shell() waits for the first frame before it admits the terminal.
OpenShell(o) ==
  /\ o \in Shells /\ phase[o] = "waiting"
  /\ \/ /\ inbox[o] # <<>>
        /\ inbox' = [inbox EXCEPT ![o] = Tail(@)]
        /\ IF Head(inbox[o]).type = "ok"
           THEN Become(o, "open") /\ UNCHANGED pending
           ELSE Become(o, "error") /\ Unregister(id[o])
     \/ /\ Disconnected(o)
        /\ Become(o, "error")
        /\ Unregister(id[o])
        /\ UNCHANGED inbox
  /\ UNCHANGED <<nextId, id, local, told, outq, writer, reader, link, inq, srv, remote>>

\* The task spawned by open_shell() forwards output to the tab; only an End
\* frame makes it tell the tab.  It outlives close_shell() to drain its channel.
ShellTask(o) ==
  /\ o \in Shells /\ phase[o] \in {"open", "closed"}
  /\ inbox[o] # <<>> /\ o \notin told
  /\ inbox' = [inbox EXCEPT ![o] = Tail(@)]
  /\ LET f == Head(inbox[o]) IN
     /\ local' = [local EXCEPT ![o] = IF f.type = "data" THEN Append(@, f.n) ELSE @]
     /\ told' = IF f.type = "end" THEN told \cup {o} ELSE told
  /\ UNCHANGED <<nextId, id, phase, pending, outq, writer, reader, link, inq, srv, remote>>

\* write_shell() and resize_shell(): a frame for a shell the table still holds.
UseShell(o) ==
  /\ o \in Shells /\ phase[o] = "open" /\ IsAlive
  /\ \A k \in 1..Len(outq) : outq[k].op # o      \* BOUND: one keystroke queued
  /\ Queue(o, "data", 0)
  /\ UNCHANGED <<callVars, pending, inbox, writer, reader, link, inq, agentVars>>

\* Seeded bug: the terminal is only forgotten locally.
ForgetShell(o) == UNCHANGED outq

SendEnd(o) == IF IsAlive THEN Queue(o, "end", 0) ELSE UNCHANGED outq

CloseShell(o) ==
  /\ o \in Shells /\ phase[o] = "open"
  /\ Become(o, "closed")
  /\ Unregister(id[o])
  /\ SendEnd(o)
  /\ UNCHANGED <<nextId, id, inbox, local, told, writer, reader, link, inq, srv, remote>>

----------------------------------------------------------------------------
(* The two tasks of from_stream(), and the connection under them.          *)

\* What the Agent does with a frame that reaches it (external).
AgentReceive(f) ==
  /\ srv' = [srv EXCEPT ![f.op] =
       CASE f.type = "request" -> IF f.op \in Writes THEN "receiving" ELSE "running"
         [] f.type = "end"     -> IF f.op \in Writes /\ @ = "receiving" THEN "running"
                                  ELSE "ended"
         [] OTHER              -> @]
  /\ remote' = [remote EXCEPT ![f.op] =
       IF f.type = "data" /\ f.op \in Writes /\ srv[f.op] = "receiving"
       THEN Append(@, f.n) ELSE @]

\* write_frame(): on a lost connection the bytes may still vanish into a
\* buffer, or the write fails, which ends the task and closes the queue.
WriterStep ==
  /\ writer = "running" /\ outq # <<>>
  /\ \/ /\ link = "up"
        /\ AgentReceive(Head(outq))
        /\ outq' = Tail(outq)
        /\ UNCHANGED writer
     \/ /\ link = "down"
        /\ outq' = Tail(outq)
        /\ UNCHANGED <<writer, srv, remote>>
     \/ /\ link = "down"
        /\ outq' = <<>>
        /\ writer' = "stopped"
        /\ UNCHANGED <<srv, remote>>
  /\ UNCHANGED <<callVars, pending, inbox, reader, link, inq>>

\* Seeded bug: a oneshot registration is not removed with its answer.
EndsStream(o, f) == f.type = "end" \/ (o \in Reads /\ f.type \in {"ok", "error"})

\* Does a frame end the registration it is delivered to?
EndsRegistration(o, f) ==
  \/ o \in Oneshot
  \/ f.type = "end"
  \/ o \in Reads /\ f.type \in {"ok", "error"}

\* Seeded bug: a bounded channel and try_send(), which drops what does not fit.
DeliversIfRoom(o, f) ==
  /\ o # NoOp
  /\ f.type # "bad"
  /\ o \in Oneshot => f.type \notin {"data", "end"}
  /\ f.type = "data" => inbox[o] = <<>>

\* Is a frame put into the channel?  A oneshot channel takes Control frames
\* only, and a Control frame that cannot be decoded is skipped.
Delivers(o, f) ==
  /\ o # NoOp
  /\ f.type # "bad"
  /\ o \in Oneshot => f.type \notin {"data", "end"}

ReaderStep ==
  /\ reader = "running" /\ inq # <<>>
  /\ inq' = Tail(inq)
  /\ LET f == Head(inq)
         o == pending[f.id] IN
     IF Delivers(o, f)
     THEN /\ inbox' = [inbox EXCEPT ![o] = Append(@, f)]
          /\ IF EndsRegistration(o, f) THEN Unregister(f.id) ELSE UNCHANGED pending
     ELSE UNCHANGED <<inbox, pending>>
  /\ UNCHANGED <<callVars, outq, writer, reader, link, agentVars>>

\* read_frame() fails: the connection is gone and drained, or the next bytes
\* are not a frame.
ReaderFails ==
  /\ reader = "running"
  /\ link = "down" => inq = <<>>
  /\ reader' = "clearing"
  /\ UNCHANGED <<callVars, pending, inbox, outq, writer, link, inq, agentVars>>

\* Seeded bug: the reader task ends without clearing the registrations.
KeptRegistrations == pending

NoRegistrations == [i \in Ids |-> NoOp]

ReaderClears ==
  /\ reader = "clearing"
  /\ reader' = "stopped"
  /\ pending' = NoRegistrations
  /\ UNCHANGED <<callVars, inbox, outq, writer, link, inq, agentVars>>

\* The connection is lost, with any of the frames still on the way.
LinkDown ==
  /\ link = "up"
  /\ link' = "down"
  /\ \E k \in 0..Len(inq) : inq' = SubSeq(inq, 1, k)
  /\ UNCHANGED <<callVars, pending, inbox, outq, writer, reader, agentVars>>

----------------------------------------------------------------------------
(* The Agent (external).                                                   *)

AgentSend(o, t, n) == inq' = Append(inq, [id |-> id[o], op |-> o, type |-> t, n |-> n])

AgentSets(o, s) == srv' = [srv EXCEPT ![o] = s]

AgentAnswer(o) ==
  /\ link = "up" /\ srv[o] \in {"receiving", "running"}
  /\ \/ /\ o \in Oneshot
        /\ \E t \in {"ok", "error", "bad"} :
             /\ t # "error" => srv[o] = "running"
             /\ AgentSend(o, t, 0)
        /\ AgentSets(o, "ended")
     \/ /\ o \in Reads \cup Shells
        /\ AgentSend(o, IF o \in Reads THEN "meta" ELSE "ok", 0)
        /\ AgentSets(o, "streaming")
     \/ /\ o \in Reads \cup Shells
        /\ AgentSend(o, "error", 0)
        /\ AgentSets(o, "ended")
  /\ UNCHANGED <<callVars, pending, inbox, outq, writer, reader, link, remote>>

AgentStream(o) ==
  /\ link = "up" /\ srv[o] = "streaming"
  /\ \/ /\ Len(remote[o]) < Chunks
        /\ remote' = [remote EXCEPT ![o] = Append(@, Len(@) + 1)]
        /\ AgentSend(o, "data", Len(remote[o]) + 1)
        /\ UNCHANGED srv
     \/ /\ o \in Reads => Len(remote[o]) = Chunks
        /\ AgentSend(o, "end", 0)
        /\ AgentSets(o, "ended")
        /\ UNCHANGED remote
  /\ UNCHANGED <<callVars, pending, inbox, outq, writer, reader, link>>

----------------------------------------------------------------------------

CallStep(o) ==
  \/ SendControl(o) \/ SendContent(o) \/ Answered(o) \/ TimeOut(o) \/ ReadStep(o)
  \/ OpenShell(o)   \/ ShellTask(o)

Next ==
  \/ \E o \in Ops : \/ Begin(o) \/ CallStep(o) \/ UseShell(o) \/ CloseShell(o)
                    \/ AgentAnswer(o) \/ AgentStream(o)
  \/ WriterStep \/ ReaderStep \/ ReaderFails \/ ReaderClears \/ LinkDown

Spec == Init /\ [][Next]_vars

\* The tokio runtime runs every task that can make progress, and its timers
\* fire.  Nothing is assumed of the user, of the network or of the Agent; a
\* reader blocked on a lost connection does see it end.
Fairness ==
  /\ \A o \in Ops : WF_vars(CallStep(o))
  /\ WF_vars(WriterStep) /\ WF_vars(ReaderStep) /\ WF_vars(ReaderClears)
  /\ WF_vars(ReaderFails /\ link = "down")

FairSpec == Spec /\ Fairness

----------------------------------------------------------------------------
(* Properties.                                                             *)

\* Type invariant of the session's state.
TypeOK ==
  /\ nextId \in 1..(MaxStreams + 1)
  /\ id \in [Ops -> 0..MaxStreams]
  /\ phase \in [Ops -> Phases]
  /\ pending \in [Ids -> Ops \cup {NoOp}]
  /\ inbox \in [Ops -> Seq(InFrames)]
  /\ local \in [Ops -> Seq(Nat)]
  /\ told \in SUBSET Shells
  /\ outq \in Seq(OutFrames)
  /\ writer \in {"running", "stopped"}
  /\ reader \in {"running", "clearing", "stopped"}
  /\ link \in {"up", "down"}
  /\ inq \in Seq(InFrames)
  /\ srv \in [Ops -> {"idle", "receiving", "running", "streaming", "ended"}]
  /\ remote \in [Ops -> Seq(Nat)]

\* A frame put into a call's channel answers that very call: late answers,
\* timed-out calls and reused registrations never cross (from_stream()'s
\* dispatch by stream id).
NoCrossTalk == \A o \in Ops : \A k \in 1..Len(inbox[o]) : inbox[o][k].op = o

\* A call that has returned left no registration behind, whichever of its
\* error paths, the reader or a timeout ended it.
NoStaleRegistration ==
  \A i \in Ids : pending[i] # NoOp => phase[pending[i]] \notin Terminal \cup {"idle"}

\* What a read or a terminal has been handed is a prefix of what the Agent
\* sent: no chunk is skipped, repeated or out of order across the channel, and
\* a tab told that its shell ended has been handed the whole output.
OrderedPrefix ==
  \A o \in Reads \cup Shells :
     /\ Len(local[o]) <= Len(remote[o])
     /\ \A k \in 1..Len(local[o]) : local[o][k] = k
     /\ o \in told => Len(local[o]) = Len(remote[o])

\* A write_stream() that reports success was received whole by the Agent, every
\* chunk once and in order.
AckedWriteIsWhole ==
  \A o \in Writes : phase[o] = "ok" =>
     Len(remote[o]) = Chunks /\ \A k \in 1..Chunks : remote[o][k] = k

\* Every call but a streamed read returns, whatever the Agent and the network
\* do (REQUEST_TIMEOUT).
CallReturns ==
  \A o \in Oneshot \cup Shells : phase[o] = "registered" ~> phase[o] \in Terminal \cup {"open"}

\* A streamed read, which has no timeout, still ends when the reader task
\* stops after it registered: that is what `pending.clear()` is for.
LossEndsReads ==
  \A o \in Reads : (reader = "clearing" /\ phase[o] = "waiting") ~> phase[o] \in Terminal

\* A terminal the user closed is ended at the Agent too, unless the
\* connection is lost (close_shell() sends StreamEnd).
ClosedShellEnds == \A o \in Shells : phase[o] = "closed" ~> (srv[o] = "ended" \/ link = "down")

\* Until then its StreamEnd is queued, whatever the user typed before, and no
\* request behind it starts the terminal again.
ClosedShellIsEnding ==
  \A o \in Shells : phase[o] = "closed" /\ link = "up" =>
    srv[o] = "ended" \/ \E k \in 1..Len(outq) : outq[k].op = o /\ outq[k].type = "end"

\* What read_streamed() documents: it returns after StreamEnd, so with the
\* whole file.  The code does not achieve it.
ReadIsWhole == \A o \in Reads : phase[o] = "ok" => Len(local[o]) = Chunks

----------------------------------------------------------------------------
(* The inductive invariant behind NoCrossTalk and NoStaleRegistration.     *)

\* A call has a stream id from the moment it begins, and no other call has it.
IdsAssigned ==
  /\ \A o \in Ops : id[o] < nextId /\ (phase[o] = "idle" <=> id[o] = 0)
  /\ \A o, p \in Ops : id[o] = id[p] /\ id[o] # 0 => o = p

\* Registrations and frames carry the stream id of the call they are about,
\* and the Agent only knows of calls that began.
PendingRouted == \A i \in Ids : pending[i] # NoOp => id[pending[i]] = i
OutRouted == \A k \in 1..Len(outq) : outq[k].id = id[outq[k].op]
InRouted == \A k \in 1..Len(inq) : inq[k].id = id[inq[k].op]
SrvBegan == \A o \in Ops : srv[o] # "idle" => id[o] # 0

\* The frame that ends a call is delivered together with the removal of its
\* registration, so a call that can still return is told apart by its channel.
EndUnregisters ==
  \A o \in Ops :
    /\ phase[o] = "idle" => inbox[o] = <<>>
    /\ o \in Oneshot /\ inbox[o] # <<>> => ~Registered(o)
    /\ o \in Reads => \A k \in 1..Len(inbox[o]) :
                        inbox[o][k].type \in {"ok", "error", "end"} => ~Registered(o)

RoutingInv ==
  TypeOK /\ IdsAssigned /\ PendingRouted /\ OutRouted /\ InRouted /\ SrvBegan /\ NoCrossTalk
IInv == RoutingInv /\ EndUnregisters /\ NoStaleRegistration

=============================================================================
