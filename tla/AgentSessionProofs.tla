------------------------- MODULE AgentSessionProofs -------------------------
(***************************************************************************)
(* The six invariants of AgentSession, for every set of calls and every    *)
(* bound: types, that no answer reaches a call it was not made for, that a *)
(* call which returned left no registration, the order of chunks, what the *)
(* success of a write means, and that a closed terminal is being ended.    *)
(***************************************************************************)
EXTENDS AgentSession, SequenceTheorems, TLAPS

USE AgentAssumption

----------------------------------------------------------------------------
(* The parts of the inductive invariant about the order of chunks.         *)

Streams == Reads \cup Shells
Opening == {"meta", "ok", "error"}

\* The frames in own, numbered by num, stand in a queue without a gap from due on ...
Fits(q, own, num, due, k) ==
  /\ due <= num[q[k]]
  /\ \A j \in 1..(k - 1) : q[j] \in own => num[q[j]] < num[q[k]]
  /\ \A i \in due..(num[q[k]] - 1) : \E j \in 1..(k - 1) : q[j] \in own /\ num[q[j]] = i

InOrder(q, own, num, due) ==
  \A k \in 1..Len(q) : q[k] \in own => Fits(q, own, num, due, k)

\* ... and reach to last.
UpTo(q, own, num, due, last) ==
  \A i \in due..last : \E j \in 1..Len(q) : q[j] \in own /\ num[q[j]] = i

\* What a stream's content is made of: its chunks, and the end after the r-th.
Content(o) == {f \in InFrames : f.op = o /\ f.type \in {"data", "end"}}
Place(r)   == [f \in InFrames |-> IF f.type = "data" THEN f.n ELSE r + 1]

\* The place of the next frame to reach a channel: an opening frame, which
\* comes first, has none.
Shift(o) == IF inbox[o] # <<>> /\ Head(inbox[o]).type \in Opening THEN 1 ELSE 0
Due(o)   == Len(local[o]) + Len(inbox[o]) - Shift(o) + 1

\* Its channel is read, and written.
Listens(o) == phase[o] \notin {"ok", "error"} /\ o \notin told
Hears(o)   == Registered(o) /\ o \notin told

\* The request is the first frame of a call, and the Agent knows nothing before.
AskedOf(o) ==
  /\ phase[o] \in {"idle", "registered"} =>
       srv[o] = "idle" /\ \A k \in 1..Len(outq) : outq[k].op # o
  /\ \A k \in 1..Len(outq) : outq[k].op = o /\ outq[k].type = "request" =>
       srv[o] = "idle" /\ \A j \in 1..(k - 1) : outq[j].op # o

\* Before its first answer the Agent has sent nothing.
SilentOf(o) ==
  srv[o] \in {"idle", "receiving", "running"} =>
    /\ inbox[o] = <<>> /\ local[o] = <<>> /\ remote[o] = <<>>
    /\ \A k \in 1..Len(inq) : inq[k].op # o

\* A frame of a stream, wherever it is.
Sound(o, f) ==
  /\ f.type # "bad"
  /\ f.type = "data" => f.n <= Len(remote[o])
  /\ f.type = "end" => srv[o] = "ended"

\* In a channel the content is numbered from what was consumed.
Numbered(o, k) ==
  IF inbox[o][k].type \in Opening THEN k = 1
  ELSE Place(Len(remote[o]))[inbox[o][k]] = Len(local[o]) + k - Shift(o)

ChannelOf(o) ==
  \A k \in 1..Len(inbox[o]) : Sound(o, inbox[o][k]) /\ (Listens(o) => Numbered(o, k))

\* On the way from the Agent it goes on from there, and reaches to the Agent's
\* last chunk while the connection is up.
OpensFirst(q, o) ==
  \A k \in 1..Len(q) : q[k].op = o /\ q[k].type \in Opening =>
    \A j \in 1..(k - 1) : q[j].op # o

Goes(o) ==
  /\ InOrder(inq, Content(o), Place(Len(remote[o])), Due(o))
  /\ link = "up" => UpTo(inq, Content(o), Place(Len(remote[o])), Due(o), Len(remote[o]))
  /\ OpensFirst(inq, o)
  /\ \A k \in 1..Len(inq) : inq[k].op = o /\ inq[k].type \in Opening => inbox[o] = <<>>

LineOf(o) ==
  /\ \A k \in 1..Len(inq) : inq[k].op = o => Sound(o, inq[k])
  /\ Hears(o) => Goes(o)

\* OrderedPrefix for one stream; a tab is told after the Agent's end.
PrefixOf(o) ==
  /\ Len(local[o]) <= Len(remote[o])
  /\ \A k \in 1..Len(local[o]) : local[o][k] = k
  /\ o \in told => Len(local[o]) = Len(remote[o]) /\ srv[o] = "ended"

StreamOf(o) == SilentOf(o) /\ ChannelOf(o) /\ LineOf(o) /\ PrefixOf(o)

\* A write's frames: the request, its chunks, the end.
Parts(w) == {f \in OutFrames : f.op = w}
Seat == [f \in OutFrames |->
           IF f.type = "request" THEN 0 ELSE IF f.type = "data" THEN f.n ELSE Chunks + 1]

\* The part the Agent waits for.
Awaited(w) == IF srv[w] = "idle" THEN 0 ELSE Len(remote[w]) + 1

\* What is queued goes on from what the Agent received, to the last chunk queued.
QueuedOf(w) ==
  /\ \A k \in 1..Len(outq) : outq[k].op = w =>
       /\ outq[k].type = "data" => outq[k].n \in 1..Len(local[w])
       /\ outq[k].type = "end" => phase[w] # "sending"
  /\ link = "up" /\ srv[w] \in {"idle", "receiving"} =>
       /\ InOrder(outq, Parts(w), Seat, Awaited(w))
       /\ phase[w] = "sending" => UpTo(outq, Parts(w), Seat, Awaited(w), Len(local[w]))

\* The Agent has received the chunks in order, and all of them before it acts.
ReceivedOf(w) ==
  /\ Len(remote[w]) <= Len(local[w]) /\ Len(local[w]) <= Chunks
  /\ phase[w] \in {"idle", "registered"} => local[w] = <<>>
  /\ \A k \in 1..Len(remote[w]) : remote[w][k] = k
  /\ srv[w] = "idle" => remote[w] = <<>>
  /\ srv[w] # "streaming"
  /\ srv[w] = "running" => Len(remote[w]) = Chunks

\* It says so only then.
Done(w) == srv[w] = "ended" /\ Len(remote[w]) = Chunks
AckedOf(w) ==
  /\ \A k \in 1..Len(inq) : inq[k].op = w /\ inq[k].type = "ok" => Done(w)
  /\ \A k \in 1..Len(inbox[w]) : inbox[w][k].type = "ok" => Done(w)
  /\ phase[w] = "ok" => Done(w)

WriteOf(w) == QueuedOf(w) /\ ReceivedOf(w) /\ AckedOf(w)

OrderInv ==
  /\ IInv
  /\ \A o \in Ops : AskedOf(o)
  /\ \A o \in Streams : StreamOf(o)
  /\ \A w \in Writes : WriteOf(w)

----------------------------------------------------------------------------
(* Queues of frames.                                                       *)

LEMMA AppendProp ==
  ASSUME NEW S, NEW q \in Seq(S), NEW e \in S
  PROVE  /\ Append(q, e) \in Seq(S)
         /\ Len(Append(q, e)) = Len(q) + 1
         /\ \A k \in 1..Len(q) : Append(q, e)[k] = q[k]
         /\ Append(q, e)[Len(q) + 1] = e
  OBVIOUS

LEMMA TailProp ==
  ASSUME NEW S, NEW q \in Seq(S), q # <<>>
  PROVE  /\ Tail(q) \in Seq(S)
         /\ Len(Tail(q)) = Len(q) - 1
         /\ \A k \in 1..Len(Tail(q)) : Tail(q)[k] = q[k + 1] /\ k + 1 \in 1..Len(q)
         /\ Head(q) = q[1] /\ Head(q) \in S /\ 1 \in 1..Len(q)
<1>1. Len(q) \in Nat /\ Len(q) # 0
  OBVIOUS
<1>2. /\ Head(q) \in S /\ Tail(q) \in Seq(S) /\ Len(Tail(q)) = Len(q) - 1
      /\ \A k \in 1..Len(Tail(q)) : Tail(q)[k] = q[k + 1]
  BY HeadTailProperties
<1>3. Head(q) = q[1]
  OBVIOUS
<1>4. QED  BY <1>1, <1>2, <1>3

LEMMA PrefixProp ==
  ASSUME NEW S, NEW q \in Seq(S), NEW n \in 0..Len(q)
  PROVE  /\ SubSeq(q, 1, n) \in Seq(S)
         /\ Len(SubSeq(q, 1, n)) = n
         /\ \A k \in 1..n : SubSeq(q, 1, n)[k] = q[k] /\ k \in 1..Len(q)
<1>1. \A i \in 1..n : q[i] \in S
  OBVIOUS
<1>2. n \in Int /\ 1 \in Int
  OBVIOUS
<1>3. /\ SubSeq(q, 1, n) \in Seq(S)
      /\ Len(SubSeq(q, 1, n)) = IF 1 <= n THEN n - 1 + 1 ELSE 0
      /\ \A i \in 1 .. n - 1 + 1 : SubSeq(q, 1, n)[i] = q[1 + i - 1]
  BY <1>1, <1>2, SubSeqProperties
<1>4. QED  BY <1>3

\* One more chunk for a call.
LEMMA ChunkProp ==
  ASSUME NEW f \in [Ops -> Seq(Nat)], NEW o \in Ops, NEW n \in Nat
  PROVE  [f EXCEPT ![o] = Append(@, n)] \in [Ops -> Seq(Nat)]
<1>1. Append(f[o], n) \in Seq(Nat)
  BY AppendProp
<1>2. QED  BY <1>1

LEMMA NextChunkProp ==
  ASSUME NEW f \in [Ops -> Seq(Nat)], NEW o \in Ops
  PROVE  [f EXCEPT ![o] = Append(@, Len(@) + 1)] \in [Ops -> Seq(Nat)]
<1>1. f[o] \in Seq(Nat) /\ Len(f[o]) + 1 \in Nat
  OBVIOUS
<1>2. [f EXCEPT ![o] = Append(@, Len(f[o]) + 1)] \in [Ops -> Seq(Nat)]
  BY <1>1, ChunkProp
<1>3. [f EXCEPT ![o] = Append(@, Len(@) + 1)] = [f EXCEPT ![o] = Append(@, Len(f[o]) + 1)]
  OBVIOUS
<1>4. QED  BY <1>2, <1>3

\* Every frame of a queue names a stream and a call.
LEMMA Frames ==
  ASSUME TypeOK
  PROVE  /\ \A k \in 1..Len(outq) : outq[k].id \in Ids /\ outq[k].op \in Ops
         /\ \A k \in 1..Len(inq) : inq[k].id \in Ids /\ inq[k].op \in Ops
<1>1. \A k \in 1..Len(outq) : outq[k] \in OutFrames
  BY DEF TypeOK
<1>2. \A k \in 1..Len(inq) : inq[k] \in InFrames
  BY DEF TypeOK
<1>3. QED  BY <1>1, <1>2 DEF OutFrames, InFrames

\* Queue() appends a frame that carries the call's own stream id.
LEMMA QueueProp ==
  ASSUME TypeOK, OutRouted, NEW o \in Ops, id[o] \in Ids, id' = id,
         NEW t \in {"request", "data", "end"}, NEW n \in 0..Chunks, Queue(o, t, n)
  PROVE  outq' \in Seq(OutFrames) /\ OutRouted'
<1> DEFINE f == [id |-> id[o], op |-> o, type |-> t, n |-> n]
<1>1. f \in OutFrames
  BY DEF OutFrames
<1>2. outq' = Append(outq, f) /\ outq \in Seq(OutFrames)
  BY DEF Queue, TypeOK
<1>3. outq' \in Seq(OutFrames)
  BY <1>1, <1>2, AppendProp
<1>4. ASSUME NEW k \in 1..Len(outq')
      PROVE  outq'[k].id = id'[outq'[k].op]
  <2>1. CASE k = Len(outq) + 1
    BY <2>1, <1>1, <1>2, AppendProp
  <2>2. CASE k # Len(outq) + 1
    <3>1. k \in 1..Len(outq) /\ outq'[k] = outq[k]
      BY <2>2, <1>1, <1>2, AppendProp
    <3>2. QED  BY <3>1 DEF OutRouted
  <2>3. QED  BY <2>1, <2>2
<1>5. QED  BY <1>3, <1>4 DEF OutRouted

\* AgentSend() does the same on the way back.
LEMMA AgentSendProp ==
  ASSUME TypeOK, InRouted, NEW o \in Ops, id[o] \in Ids, id' = id,
         NEW t \in {"meta", "ok", "error", "bad", "data", "end"}, NEW n \in 0..Chunks,
         AgentSend(o, t, n)
  PROVE  inq' \in Seq(InFrames) /\ InRouted'
<1> DEFINE f == [id |-> id[o], op |-> o, type |-> t, n |-> n]
<1>1. f \in InFrames
  BY DEF InFrames
<1>2. inq' = Append(inq, f) /\ inq \in Seq(InFrames)
  BY DEF AgentSend, TypeOK
<1>3. inq' \in Seq(InFrames)
  BY <1>1, <1>2, AppendProp
<1>4. ASSUME NEW k \in 1..Len(inq')
      PROVE  inq'[k].id = id'[inq'[k].op]
  <2>1. CASE k = Len(inq) + 1
    BY <2>1, <1>1, <1>2, AppendProp
  <2>2. CASE k # Len(inq) + 1
    <3>1. k \in 1..Len(inq) /\ inq'[k] = inq[k]
      BY <2>2, <1>1, <1>2, AppendProp
    <3>2. QED  BY <3>1 DEF InRouted
  <2>3. QED  BY <2>1, <2>2
<1>5. QED  BY <1>3, <1>4 DEF InRouted

\* Receiving the head of a call's channel leaves only frames it already held.
LEMMA InboxTailProp ==
  ASSUME TypeOK, NoCrossTalk, NEW o \in Ops, inbox[o] # <<>>,
         inbox' = [inbox EXCEPT ![o] = Tail(@)]
  PROVE  /\ inbox' \in [Ops -> Seq(InFrames)] /\ NoCrossTalk'
         /\ Head(inbox[o]) \in InFrames
<1>1. inbox[o] \in Seq(InFrames)
  BY DEF TypeOK
<1>2. /\ Tail(inbox[o]) \in Seq(InFrames)
      /\ \A k \in 1..Len(Tail(inbox[o])) : /\ Tail(inbox[o])[k] = inbox[o][k + 1]
                                           /\ k + 1 \in 1..Len(inbox[o])
      /\ Head(inbox[o]) \in InFrames
  BY <1>1, TailProp
<1>3. inbox' \in [Ops -> Seq(InFrames)] /\ inbox'[o] = Tail(inbox[o])
  BY <1>2 DEF TypeOK
<1>4. ASSUME NEW p \in Ops, NEW k \in 1..Len(inbox'[p])
      PROVE  inbox'[p][k].op = p
  <2>1. CASE p = o
    <3>1. k \in 1..Len(Tail(inbox[o])) /\ inbox'[p] = Tail(inbox[o])
      BY <2>1, <1>3
    <3>2. k + 1 \in 1..Len(inbox[o]) /\ inbox'[p][k] = inbox[o][k + 1]
      BY <3>1, <1>2
    <3>3. QED  BY <2>1, <3>2 DEF NoCrossTalk
  <2>2. CASE p # o
    BY <2>2 DEF NoCrossTalk, TypeOK
  <2>3. QED  BY <2>1, <2>2
<1>5. QED  BY <1>2, <1>3, <1>4 DEF NoCrossTalk

\* A call that has begun has a stream id.
LEMMA BegunHasId ==
  ASSUME TypeOK, IdsAssigned, NEW o \in Ops, phase[o] # "idle"
  PROVE  id[o] \in Ids
  BY DEF TypeOK, IdsAssigned, Ids

\* Removing a registration, or keeping them all, leaves the rest routed.
LEMMA UnregisterProp ==
  ASSUME TypeOK, PendingRouted, id' = id, NEW i, Unregister(i) \/ UNCHANGED pending
  PROVE  pending' \in [Ids -> Ops \cup {NoOp}] /\ PendingRouted'
  BY DEF TypeOK, PendingRouted, Unregister

----------------------------------------------------------------------------
(* One lemma per action: it keeps RoutingInv.                              *)

LEMMA RoutingInit == Init => RoutingInv
  BY DEF Init, RoutingInv, TypeOK, IdsAssigned, PendingRouted, OutRouted, InRouted,
         SrvBegan, NoCrossTalk, Phases, Terminal, FirstId, Ids

LEMMA BeginRouting ==
  ASSUME RoutingInv, NEW o \in Ops, Begin(o)
  PROVE  RoutingInv'
<1> USE DEF RoutingInv, Begin, NextId, Become
<1>1. TypeOK'
  <2>1. id' \in [Ops -> 0..MaxStreams]
    BY DEF TypeOK, Ids
  <2>2. pending' \in [Ids -> Ops \cup {NoOp}]
    BY DEF TypeOK
  <2>3. nextId' \in 1..(MaxStreams + 1)
    BY DEF TypeOK, Ids
  <2>4. phase' \in [Ops -> Phases]
    BY DEF TypeOK, Phases
  <2>5. QED  BY <2>1, <2>2, <2>3, <2>4 DEF TypeOK
<1>2. IdsAssigned'
  BY DEF TypeOK, IdsAssigned, Ids
<1>3. PendingRouted'
  BY DEF TypeOK, IdsAssigned, PendingRouted, Ids
<1>4. OutRouted'
  BY Frames DEF TypeOK, IdsAssigned, OutRouted, Ids
<1>5. InRouted'
  BY Frames DEF TypeOK, IdsAssigned, InRouted, Ids
<1>6. SrvBegan'
  BY DEF TypeOK, SrvBegan, Ids
<1>7. NoCrossTalk'
  BY DEF NoCrossTalk
<1>8. QED  BY <1>1, <1>2, <1>3, <1>4, <1>5, <1>6, <1>7

LEMMA SendControlRouting ==
  ASSUME RoutingInv, NEW o \in Ops, SendControl(o)
  PROVE  RoutingInv'
<1> USE DEF RoutingInv, SendControl
<1>1. id[o] \in Ids
  BY BegunHasId
<1>2. outq' \in Seq(OutFrames) /\ OutRouted'
  BY <1>1, QueueProp DEF TypeOK, OutRouted
<1>3. pending' \in [Ids -> Ops \cup {NoOp}] /\ PendingRouted'
  BY UnregisterProp
<1>4. phase' \in [Ops -> Phases]
  BY DEF TypeOK, Become, Phases, Terminal
<1>5. TypeOK'
  BY <1>2, <1>3, <1>4 DEF TypeOK
<1>6. IdsAssigned'
  BY DEF TypeOK, IdsAssigned, Become
<1>7. InRouted' /\ SrvBegan' /\ NoCrossTalk'
  BY DEF InRouted, SrvBegan, NoCrossTalk
<1>8. QED  BY <1>2, <1>3, <1>5, <1>6, <1>7

LEMMA SendContentRouting ==
  ASSUME RoutingInv, NEW o \in Ops, SendContent(o)
  PROVE  RoutingInv'
<1> USE DEF RoutingInv, SendContent
<1>1. id[o] \in Ids
  BY BegunHasId
<1>2. outq' \in Seq(OutFrames) /\ OutRouted'
  <2>1. ContentLeft(o) => Len(local[o]) + 1 \in 0..Chunks
    <3>1. Len(local[o]) \in Nat
      BY DEF TypeOK
    <3>2. QED  BY <3>1 DEF ContentLeft
  <2>2. CASE ContentLeft(o) /\ Queue(o, "data", Len(local[o]) + 1)
    BY <1>1, <2>1, <2>2, QueueProp
  <2>3. CASE Queue(o, "end", 0)
    BY <1>1, <2>3, QueueProp
  <2>4. CASE UNCHANGED outq
    BY <2>4 DEF TypeOK, OutRouted
  <2>5. QED  BY <2>2, <2>3, <2>4
<1>3. pending' \in [Ids -> Ops \cup {NoOp}] /\ PendingRouted'
  BY UnregisterProp
<1>4. phase' \in [Ops -> Phases]
  BY DEF TypeOK, Become, Phases, Terminal
<1>5. local' \in [Ops -> Seq(Nat)]
  <2>1. local \in [Ops -> Seq(Nat)]
    BY DEF TypeOK
  <2>2. [local EXCEPT ![o] = Append(@, Len(@) + 1)] \in [Ops -> Seq(Nat)]
    BY <2>1, NextChunkProp
  <2>3. QED  BY <2>1, <2>2
<1>6. TypeOK'
  BY <1>2, <1>3, <1>4, <1>5 DEF TypeOK
<1>7. IdsAssigned'
  BY DEF TypeOK, IdsAssigned, Become
<1>8. InRouted' /\ SrvBegan' /\ NoCrossTalk'
  BY DEF InRouted, SrvBegan, NoCrossTalk
<1>9. QED  BY <1>2, <1>3, <1>6, <1>7, <1>8

LEMMA AnsweredRouting ==
  ASSUME RoutingInv, NEW o \in Ops, Answered(o)
  PROVE  RoutingInv'
<1> USE DEF RoutingInv, Answered
<1>1. inbox' \in [Ops -> Seq(InFrames)] /\ NoCrossTalk'
  BY InboxTailProp DEF TypeOK, NoCrossTalk
<1>2. phase' \in [Ops -> Phases]
  BY DEF TypeOK, Become, Phases, Terminal
<1>3. TypeOK'
  BY <1>1, <1>2 DEF TypeOK
<1>4. IdsAssigned'
  BY DEF TypeOK, IdsAssigned, Become
<1>5. PendingRouted' /\ OutRouted' /\ InRouted' /\ SrvBegan'
  BY DEF PendingRouted, OutRouted, InRouted, SrvBegan
<1>6. QED  BY <1>1, <1>3, <1>4, <1>5

LEMMA TimeOutRouting ==
  ASSUME RoutingInv, NEW o \in Ops, TimeOut(o)
  PROVE  RoutingInv'
<1> USE DEF RoutingInv, TimeOut
<1>1. pending' \in [Ids -> Ops \cup {NoOp}] /\ PendingRouted'
  BY UnregisterProp
<1>2. phase' \in [Ops -> Phases]
  BY DEF TypeOK, Become, Phases, Terminal
<1>3. TypeOK'
  BY <1>1, <1>2 DEF TypeOK
<1>4. IdsAssigned'
  BY DEF TypeOK, IdsAssigned, Become
<1>5. OutRouted' /\ InRouted' /\ SrvBegan' /\ NoCrossTalk'
  BY DEF OutRouted, InRouted, SrvBegan, NoCrossTalk
<1>6. QED  BY <1>1, <1>3, <1>4, <1>5

LEMMA ReadStepRouting ==
  ASSUME RoutingInv, NEW o \in Ops, ReadStep(o)
  PROVE  RoutingInv'
<1> USE DEF RoutingInv, ReadStep
<1>1. inbox' \in [Ops -> Seq(InFrames)] /\ NoCrossTalk'
  BY InboxTailProp DEF TypeOK, NoCrossTalk
<1>2. phase' \in [Ops -> Phases] /\ \A p \in Ops : phase'[p] = "idle" <=> phase[p] = "idle"
  BY DEF TypeOK, Become, Phases, Terminal
<1>3. local' \in [Ops -> Seq(Nat)]
  <2>1. local \in [Ops -> Seq(Nat)]
    BY DEF TypeOK
  <2>2. CASE inbox[o] # <<>> /\ inbox' = [inbox EXCEPT ![o] = Tail(@)]
                           /\ Head(inbox[o]).type = "data"
                           /\ local' = [local EXCEPT ![o] = Append(@, Head(inbox[o]).n)]
    <3>1. Head(inbox[o]) \in InFrames
      BY <2>2, InboxTailProp
    <3>2. Head(inbox[o]).n \in Nat
      BY <3>1 DEF InFrames
    <3>3. QED  BY <2>1, <2>2, <3>2, ChunkProp
  <2>3. CASE local' = [local EXCEPT ![o] = @] \/ local' = local
    BY <2>1, <2>3
  <2>4. QED  BY <2>2, <2>3
<1>4. TypeOK'
  BY <1>1, <1>2, <1>3 DEF TypeOK
<1>5. IdsAssigned'
  BY <1>2 DEF IdsAssigned
<1>6. PendingRouted' /\ OutRouted' /\ InRouted' /\ SrvBegan'
  BY DEF PendingRouted, OutRouted, InRouted, SrvBegan
<1>7. QED  BY <1>1, <1>4, <1>5, <1>6

LEMMA OpenShellRouting ==
  ASSUME RoutingInv, NEW o \in Ops, OpenShell(o)
  PROVE  RoutingInv'
<1> USE DEF RoutingInv, OpenShell
<1>1. inbox' \in [Ops -> Seq(InFrames)] /\ NoCrossTalk'
  BY InboxTailProp DEF TypeOK, NoCrossTalk
<1>2. pending' \in [Ids -> Ops \cup {NoOp}] /\ PendingRouted'
  BY UnregisterProp
<1>3. phase' \in [Ops -> Phases] /\ \A p \in Ops : phase'[p] = "idle" <=> phase[p] = "idle"
  BY DEF TypeOK, Become, Phases, Terminal
<1>4. TypeOK'
  BY <1>1, <1>2, <1>3 DEF TypeOK
<1>5. IdsAssigned'
  BY <1>3 DEF IdsAssigned
<1>6. OutRouted' /\ InRouted' /\ SrvBegan'
  BY DEF OutRouted, InRouted, SrvBegan
<1>7. QED  BY <1>1, <1>2, <1>4, <1>5, <1>6

LEMMA ShellTaskRouting ==
  ASSUME RoutingInv, NEW o \in Ops, ShellTask(o)
  PROVE  RoutingInv'
<1> USE DEF RoutingInv, ShellTask
<1>1. inbox' \in [Ops -> Seq(InFrames)] /\ NoCrossTalk' /\ Head(inbox[o]) \in InFrames
  BY InboxTailProp
<1>2. local' \in [Ops -> Seq(Nat)]
  <2>1. Head(inbox[o]).n \in Nat /\ local \in [Ops -> Seq(Nat)]
    BY <1>1 DEF InFrames, TypeOK
  <2>2. QED  BY <2>1, ChunkProp
<1>3. TypeOK'
  BY <1>1, <1>2 DEF TypeOK
<1>4. IdsAssigned' /\ PendingRouted' /\ OutRouted' /\ InRouted' /\ SrvBegan'
  BY DEF IdsAssigned, PendingRouted, OutRouted, InRouted, SrvBegan
<1>5. QED  BY <1>1, <1>3, <1>4

LEMMA UseShellRouting ==
  ASSUME RoutingInv, NEW o \in Ops, UseShell(o)
  PROVE  RoutingInv'
<1> USE DEF RoutingInv, UseShell, callVars, agentVars
<1>1. outq' \in Seq(OutFrames) /\ OutRouted'
  BY BegunHasId, QueueProp
<1>2. TypeOK'
  BY <1>1 DEF TypeOK
<1>3. IdsAssigned' /\ PendingRouted' /\ InRouted' /\ SrvBegan' /\ NoCrossTalk'
  BY DEF IdsAssigned, PendingRouted, InRouted, SrvBegan, NoCrossTalk
<1>4. QED  BY <1>1, <1>2, <1>3

LEMMA CloseShellRouting ==
  ASSUME RoutingInv, NEW o \in Ops, CloseShell(o)
  PROVE  RoutingInv'
<1> USE DEF RoutingInv, CloseShell
<1>1. outq' \in Seq(OutFrames) /\ OutRouted'
  <2>1. id[o] \in Ids
    BY BegunHasId
  <2>2. CASE Queue(o, "end", 0)
    BY <2>1, <2>2, QueueProp
  <2>3. CASE UNCHANGED outq
    BY <2>3 DEF TypeOK, OutRouted
  <2>4. QED  BY <2>2, <2>3 DEF SendEnd
<1>2. pending' \in [Ids -> Ops \cup {NoOp}] /\ PendingRouted'
  BY UnregisterProp
<1>3. phase' \in [Ops -> Phases]
  BY DEF TypeOK, Become, Phases, Terminal
<1>4. TypeOK'
  BY <1>1, <1>2, <1>3 DEF TypeOK
<1>5. IdsAssigned'
  BY DEF TypeOK, IdsAssigned, Become
<1>6. InRouted' /\ SrvBegan' /\ NoCrossTalk'
  BY DEF InRouted, SrvBegan, NoCrossTalk
<1>7. QED  BY <1>1, <1>2, <1>4, <1>5, <1>6

LEMMA AgentAnswerRouting ==
  ASSUME RoutingInv, NEW o \in Ops, AgentAnswer(o)
  PROVE  RoutingInv'
<1> USE DEF RoutingInv, AgentAnswer, callVars
<1>1. id[o] \in Ids
  BY DEF TypeOK, SrvBegan, Ids
<1>2. \E t \in {"meta", "ok", "error", "bad"} : AgentSend(o, t, 0)
  OBVIOUS
<1>3. inq' \in Seq(InFrames) /\ InRouted'
  BY <1>1, <1>2, AgentSendProp
<1>4. srv' \in [Ops -> {"idle", "receiving", "running", "streaming", "ended"}] /\ SrvBegan'
  BY <1>1 DEF TypeOK, AgentSets, SrvBegan, Ids
<1>5. TypeOK'
  BY <1>3, <1>4 DEF TypeOK
<1>6. IdsAssigned' /\ PendingRouted' /\ OutRouted' /\ NoCrossTalk'
  BY DEF IdsAssigned, PendingRouted, OutRouted, NoCrossTalk
<1>7. QED  BY <1>3, <1>4, <1>5, <1>6

LEMMA AgentStreamRouting ==
  ASSUME RoutingInv, NEW o \in Ops, AgentStream(o)
  PROVE  RoutingInv'
<1> USE DEF RoutingInv, AgentStream, callVars
<1>1. id[o] \in Ids
  BY DEF TypeOK, SrvBegan, Ids
<1>2. \E t \in {"data", "end"}, n \in 0..Chunks : AgentSend(o, t, n)
  BY DEF TypeOK
<1>3. inq' \in Seq(InFrames) /\ InRouted'
  BY <1>1, <1>2, AgentSendProp
<1>4. srv' \in [Ops -> {"idle", "receiving", "running", "streaming", "ended"}] /\ SrvBegan'
  BY <1>1 DEF TypeOK, AgentSets, SrvBegan, Ids
<1>5. remote' \in [Ops -> Seq(Nat)]
  <2>1. remote \in [Ops -> Seq(Nat)]
    BY DEF TypeOK
  <2>2. [remote EXCEPT ![o] = Append(@, Len(@) + 1)] \in [Ops -> Seq(Nat)]
    BY <2>1, NextChunkProp
  <2>3. QED  BY <2>1, <2>2
<1>6. TypeOK'
  BY <1>3, <1>4, <1>5 DEF TypeOK
<1>7. IdsAssigned' /\ PendingRouted' /\ OutRouted' /\ NoCrossTalk'
  BY DEF IdsAssigned, PendingRouted, OutRouted, NoCrossTalk
<1>8. QED  BY <1>3, <1>4, <1>6, <1>7

LEMMA WriterStepRouting ==
  ASSUME RoutingInv, WriterStep
  PROVE  RoutingInv'
<1> DEFINE f == Head(outq)
<1> USE DEF RoutingInv, WriterStep, callVars
<1>1. f \in OutFrames /\ f = outq[1] /\ 1 \in 1..Len(outq) /\ outq \in Seq(OutFrames)
  BY TailProp DEF TypeOK
<1>2. f.op \in Ops /\ f.id \in Ids /\ id[f.op] = f.id
  BY <1>1 DEF OutFrames, OutRouted
<1>3. outq' \in Seq(OutFrames) /\ OutRouted'
  <2>1. CASE outq' = Tail(outq)
    BY <1>1, <2>1, TailProp DEF OutRouted
  <2>2. CASE outq' = <<>>
    BY <2>2 DEF OutRouted
  <2>3. QED  BY <2>1, <2>2
<1>4. srv' \in [Ops -> {"idle", "receiving", "running", "streaming", "ended"}] /\ SrvBegan'
  <2>1. CASE AgentReceive(f)
    <3>1. \A o \in Ops : o # f.op => srv'[o] = srv[o]
      BY <2>1, <1>2 DEF TypeOK, AgentReceive
    <3>2. srv'[f.op] \in {"idle", "receiving", "running", "streaming", "ended"}
      BY <2>1, <1>2 DEF TypeOK, AgentReceive
    <3>3. srv' \in [Ops -> {"idle", "receiving", "running", "streaming", "ended"}]
      BY <2>1, <3>2, <1>2 DEF TypeOK, AgentReceive
    <3>4. QED  BY <3>1, <3>3, <1>2 DEF SrvBegan, Ids
  <2>2. CASE UNCHANGED srv
    BY <2>2 DEF TypeOK, SrvBegan
  <2>3. QED  BY <2>1, <2>2
<1>5. remote' \in [Ops -> Seq(Nat)]
  <2>1. remote \in [Ops -> Seq(Nat)]
    BY DEF TypeOK
  <2>2. [remote EXCEPT ![f.op] = Append(@, f.n)] \in [Ops -> Seq(Nat)]
    <3>1. f.n \in Nat
      BY <1>1 DEF OutFrames
    <3>2. QED  BY <1>2, <2>1, <3>1, ChunkProp
  <2>3. [remote EXCEPT ![f.op] = @] \in [Ops -> Seq(Nat)]
    BY <1>2, <2>1
  <2>4. CASE AgentReceive(f)
    BY <2>2, <2>3, <2>4 DEF AgentReceive
  <2>5. CASE UNCHANGED remote
    BY <2>1, <2>5
  <2>6. QED  BY <2>4, <2>5
<1>6. TypeOK'
  BY <1>3, <1>4, <1>5 DEF TypeOK
<1>7. IdsAssigned' /\ PendingRouted' /\ InRouted' /\ NoCrossTalk'
  BY DEF IdsAssigned, PendingRouted, InRouted, NoCrossTalk
<1>8. QED  BY <1>3, <1>4, <1>6, <1>7

LEMMA ReaderStepRouting ==
  ASSUME RoutingInv, ReaderStep
  PROVE  RoutingInv'
<1> DEFINE f == Head(inq)
           o == pending[f.id]
<1> USE DEF RoutingInv, ReaderStep, callVars, agentVars
<1>1. f \in InFrames /\ f = inq[1] /\ 1 \in 1..Len(inq) /\ inq \in Seq(InFrames)
  BY TailProp DEF TypeOK
<1>2. f.id \in Ids /\ f.op \in Ops /\ id[f.op] = f.id
  BY <1>1 DEF InFrames, InRouted
<1>3. inq' \in Seq(InFrames) /\ InRouted'
  BY <1>1, TailProp DEF InRouted
<1>4. pending' \in [Ids -> Ops \cup {NoOp}] /\ PendingRouted'
  BY UnregisterProp
<1>5. inbox' \in [Ops -> Seq(InFrames)] /\ NoCrossTalk'
  <2>1. CASE Delivers(o, f)
    <3>1. o \in Ops /\ o = f.op
      BY <2>1, <1>2 DEF Delivers, PendingRouted, IdsAssigned, TypeOK, Ids
    <3>2. inbox' = [inbox EXCEPT ![o] = Append(@, f)] /\ inbox[o] \in Seq(InFrames)
      BY <2>1, <3>1 DEF TypeOK
    <3>3. /\ Append(inbox[o], f) \in Seq(InFrames)
          /\ Len(Append(inbox[o], f)) = Len(inbox[o]) + 1
          /\ \A k \in 1..Len(inbox[o]) : Append(inbox[o], f)[k] = inbox[o][k]
          /\ Append(inbox[o], f)[Len(inbox[o]) + 1] = f
      BY <1>1, <3>2, AppendProp
    <3>4. inbox' \in [Ops -> Seq(InFrames)] /\ inbox'[o] = Append(inbox[o], f)
      BY <3>1, <3>2, <3>3 DEF TypeOK
    <3>5. \A k \in 1..Len(inbox'[o]) : inbox'[o][k].op = o
      BY <3>1, <3>2, <3>3, <3>4 DEF NoCrossTalk
    <3>6. \A p \in Ops \ {o} : inbox'[p] = inbox[p]
      BY <3>2 DEF TypeOK
    <3>7. QED  BY <3>4, <3>5, <3>6 DEF NoCrossTalk
  <2>2. CASE ~Delivers(o, f)
    BY <2>2 DEF NoCrossTalk, TypeOK
  <2>3. QED  BY <2>1, <2>2
<1>6. TypeOK'
  BY <1>3, <1>4, <1>5 DEF TypeOK
<1>7. IdsAssigned' /\ OutRouted' /\ SrvBegan'
  BY DEF IdsAssigned, OutRouted, SrvBegan
<1>8. QED  BY <1>3, <1>4, <1>5, <1>6, <1>7

LEMMA ReaderFailsRouting ==
  ASSUME RoutingInv, ReaderFails
  PROVE  RoutingInv'
  BY DEF RoutingInv, ReaderFails, callVars, agentVars, TypeOK, IdsAssigned, PendingRouted,
         OutRouted, InRouted, SrvBegan, NoCrossTalk

LEMMA ReaderClearsRouting ==
  ASSUME RoutingInv, ReaderClears
  PROVE  RoutingInv'
<1> USE DEF RoutingInv, ReaderClears, NoRegistrations, callVars, agentVars
<1>1. TypeOK'
  BY DEF TypeOK
<1>2. PendingRouted'
  BY DEF PendingRouted
<1>3. IdsAssigned' /\ OutRouted' /\ InRouted' /\ SrvBegan' /\ NoCrossTalk'
  BY DEF IdsAssigned, OutRouted, InRouted, SrvBegan, NoCrossTalk
<1>4. QED  BY <1>1, <1>2, <1>3

LEMMA LinkDownRouting ==
  ASSUME RoutingInv, LinkDown
  PROVE  RoutingInv'
<1> USE DEF RoutingInv, LinkDown, callVars, agentVars
<1>1. inq \in Seq(InFrames)
  BY DEF TypeOK
<1>2. PICK n \in 0..Len(inq) : inq' = SubSeq(inq, 1, n)
  OBVIOUS
<1>3. inq' \in Seq(InFrames) /\ InRouted'
  BY <1>1, <1>2, PrefixProp DEF InRouted
<1>4. TypeOK'
  BY <1>3 DEF TypeOK
<1>5. IdsAssigned' /\ PendingRouted' /\ OutRouted' /\ SrvBegan' /\ NoCrossTalk'
  BY DEF IdsAssigned, PendingRouted, OutRouted, SrvBegan, NoCrossTalk
<1>6. QED  BY <1>3, <1>4, <1>5

LEMMA RoutingStep == RoutingInv /\ [Next]_vars => RoutingInv'
<1> SUFFICES ASSUME RoutingInv, [Next]_vars PROVE RoutingInv'
  OBVIOUS
<1>1. ASSUME NEW o \in Ops, CallStep(o)
      PROVE  RoutingInv'
  BY <1>1, SendControlRouting, SendContentRouting, AnsweredRouting, TimeOutRouting,
     ReadStepRouting, OpenShellRouting, ShellTaskRouting DEF CallStep
<1>2. ASSUME NEW o \in Ops, Begin(o) \/ UseShell(o) \/ CloseShell(o) \/ AgentAnswer(o)
                            \/ AgentStream(o)
      PROVE  RoutingInv'
  BY <1>2, BeginRouting, UseShellRouting, CloseShellRouting, AgentAnswerRouting,
     AgentStreamRouting
<1>3. CASE WriterStep \/ ReaderStep \/ ReaderFails \/ ReaderClears \/ LinkDown
  BY <1>3, WriterStepRouting, ReaderStepRouting, ReaderFailsRouting, ReaderClearsRouting,
     LinkDownRouting
<1>4. CASE UNCHANGED vars
  BY <1>4 DEF vars, RoutingInv, TypeOK, IdsAssigned, PendingRouted, OutRouted, InRouted,
              SrvBegan, NoCrossTalk
<1>5. QED  BY <1>1, <1>2, <1>3, <1>4 DEF Next

\* The session's state keeps its types.
THEOREM SessionTypes == Spec => []TypeOK
<1>1. RoutingInv => TypeOK
  BY DEF RoutingInv
<1>2. QED  BY <1>1, RoutingInit, RoutingStep, PTL DEF Spec

\* Whatever the interleaving of calls, timeouts and losses, a frame handed to a
\* call is an answer to that call (the dispatch by stream id in from_stream()).
THEOREM NoAnswerCrosses == Spec => []NoCrossTalk
<1>1. RoutingInv => NoCrossTalk
  BY DEF RoutingInv
<1>2. QED  BY <1>1, RoutingInit, RoutingStep, PTL DEF Spec

----------------------------------------------------------------------------
(* A call that returned is not registered.                                 *)

\* Removing a call's registration removes its only one.
LEMMA UnregisteredProp ==
  ASSUME TypeOK, PendingRouted, NEW o \in Ops, id[o] \in Ids, Unregister(id[o])
  PROVE  ~Registered(o)' /\ \A p \in Ops : Registered(p)' => Registered(p)
  BY DEF TypeOK, PendingRouted, Unregister, Registered

\* EndUnregisters survives a step that registers nothing, un-begins nothing and
\* at most receives from one channel.
LEMMA EndUnregistersProp ==
  ASSUME TypeOK, EndUnregisters, NEW o \in Ops,
         \A p \in Ops : Registered(p)' => Registered(p),
         \A p \in Ops : phase'[p] = "idle" => phase[p] = "idle",
         \/ inbox' = inbox
         \/ inbox[o] # <<>> /\ inbox' = [inbox EXCEPT ![o] = Tail(@)]
  PROVE  EndUnregisters'
<1>1. CASE inbox' = inbox
  BY <1>1 DEF EndUnregisters
<1>2. CASE inbox[o] # <<>> /\ inbox' = [inbox EXCEPT ![o] = Tail(@)]
  <2>1. inbox[o] \in Seq(InFrames) /\ inbox'[o] = Tail(inbox[o])
    BY <1>2 DEF TypeOK
  <2>2. \A k \in 1..Len(inbox'[o]) : inbox'[o][k] = inbox[o][k + 1] /\ k + 1 \in 1..Len(inbox[o])
    <3>1. \A k \in 1..Len(Tail(inbox[o])) : /\ Tail(inbox[o])[k] = inbox[o][k + 1]
                                            /\ k + 1 \in 1..Len(inbox[o])
      BY <1>2, <2>1, TailProp
    <3>2. QED  BY <2>1, <3>1
  <2>3. \A p \in Ops \ {o} : inbox'[p] = inbox[p]
    BY <1>2 DEF TypeOK
  <2>4. ASSUME NEW p \in Ops, phase'[p] = "idle"
        PROVE  inbox'[p] = <<>>
    BY <1>2, <2>3, <2>4 DEF EndUnregisters
  <2>5. ASSUME NEW p \in Oneshot, inbox'[p] # <<>>
        PROVE  ~Registered(p)'
    BY <1>2, <2>3, <2>5 DEF EndUnregisters, Oneshot, Ops
  <2>6. ASSUME NEW p \in Reads, NEW k \in 1..Len(inbox'[p]),
               inbox'[p][k].type \in {"ok", "error", "end"}
        PROVE  ~Registered(p)'
    <3>1. p \in Ops
      BY DEF Ops
    <3>2. \E j \in 1..Len(inbox[p]) : inbox[p][j].type \in {"ok", "error", "end"}
      BY <2>2, <2>3, <2>6, <3>1
    <3>3. QED  BY <3>1, <3>2 DEF EndUnregisters
  <2>7. QED  BY <2>4, <2>5, <2>6 DEF EndUnregisters
<1>3. QED  BY <1>1, <1>2

\* A registration is that of a call that has begun and not returned.
LEMMA NoStaleProp ==
  ASSUME RoutingInv', \A p \in Ops : Registered(p)' => phase'[p] \notin Terminal \cup {"idle"}
  PROVE  NoStaleRegistration'
  BY DEF RoutingInv, TypeOK, NoStaleRegistration, Registered

LEMMA RegisteredPhase ==
  ASSUME NoStaleRegistration, NEW p \in Ops, Registered(p)
  PROVE  phase[p] \notin Terminal \cup {"idle"}
  BY DEF NoStaleRegistration, Registered

\* A step of one call, other than its beginning: it keeps the registrations of
\* the other calls and its own only while it has not returned.
LEMMA OneCallStale ==
  ASSUME IInv, RoutingInv', NEW o \in Ops,
         \A p \in Ops : Registered(p)' => Registered(p),
         \A p \in Ops \ {o} : phase'[p] = phase[p],
         phase[o] # "idle", phase'[o] # "idle",
         phase'[o] \in Terminal => ~Registered(o)',
         \/ inbox' = inbox
         \/ inbox[o] # <<>> /\ inbox' = [inbox EXCEPT ![o] = Tail(@)]
  PROVE  IInv'
<1>1. EndUnregisters'
  BY EndUnregistersProp DEF IInv, RoutingInv
<1>2. NoStaleRegistration'
  <2>1. ASSUME NEW p \in Ops, Registered(p)'
        PROVE  phase'[p] \notin Terminal \cup {"idle"}
    BY <2>1, RegisteredPhase DEF IInv
  <2>2. QED  BY <2>1, NoStaleProp
<1>3. QED  BY <1>1, <1>2 DEF IInv

\* A step that touches neither a channel nor a call, and registers nothing.
LEMMA ElsewhereStale ==
  ASSUME IInv, RoutingInv', inbox' = inbox, phase' = phase,
         \A p \in Ops : Registered(p)' => Registered(p)
  PROVE  IInv'
<1>1. EndUnregisters'
  BY DEF IInv, EndUnregisters, Oneshot, Ops
<1>2. NoStaleRegistration'
  BY RegisteredPhase, NoStaleProp DEF IInv
<1>3. QED  BY <1>1, <1>2 DEF IInv

LEMMA BeginStale ==
  ASSUME IInv, RoutingInv', NEW o \in Ops, Begin(o)
  PROVE  IInv'
<1> USE DEF IInv, RoutingInv, Begin, Become
<1>1. phase' = [phase EXCEPT ![o] = "registered"] /\ phase \in [Ops -> Phases]
  BY DEF TypeOK
<1>2. inbox[o] = <<>> /\ inbox' = inbox
  BY DEF EndUnregisters
<1>3. \A p \in Ops \ {o} : Registered(p)' => Registered(p)
  BY DEF Registered, TypeOK
<1>4. EndUnregisters'
  <2>1. inbox[o] \in Seq(InFrames) /\ Len(inbox[o]) = 0
    BY <1>2 DEF TypeOK
  <2>2. \A p \in Ops : phase'[p] = "idle" => inbox'[p] = <<>>
    BY <1>1, <1>2 DEF EndUnregisters
  <2>3. \A p \in Oneshot : inbox'[p] # <<>> => ~Registered(p)'
    BY <1>2, <1>3 DEF EndUnregisters, Oneshot, Ops
  <2>4. ASSUME NEW p \in Reads, NEW k \in 1..Len(inbox'[p]),
               inbox'[p][k].type \in {"ok", "error", "end"}
        PROVE  ~Registered(p)'
    <3>1. p \in Ops /\ p # o
      BY <1>2, <2>1, <2>4 DEF Ops
    <3>2. QED  BY <1>2, <1>3, <2>4, <3>1 DEF EndUnregisters
  <2>5. QED  BY <2>2, <2>3, <2>4 DEF EndUnregisters
<1>5. NoStaleRegistration'
  <2>1. ASSUME NEW p \in Ops, Registered(p)'
        PROVE  phase'[p] \notin Terminal \cup {"idle"}
    BY <1>1, <1>3, <2>1, RegisteredPhase DEF Terminal
  <2>2. QED  BY <2>1, NoStaleProp
<1>6. QED  BY <1>4, <1>5

LEMMA CallStepStale ==
  ASSUME IInv, RoutingInv', NEW o \in Ops, CallStep(o)
  PROVE  IInv'
<1> USE DEF IInv, RoutingInv
<1>1. phase \in [Ops -> Phases] /\ inbox \in [Ops -> Seq(InFrames)]
  BY DEF TypeOK
<1>2. phase[o] # "idle" => id[o] \in Ids
  BY BegunHasId
<1>3. CASE SendControl(o)
  <2>1. \A p \in Ops \ {o} : phase'[p] = phase[p]
    BY <1>1, <1>3 DEF SendControl, Become
  <2>2. phase[o] # "idle" /\ phase'[o] # "idle"
    BY <1>1, <1>3 DEF SendControl, Become
  <2>3. CASE Unregister(id[o])
    BY <1>2, <1>3, <2>1, <2>2, <2>3, UnregisteredProp, OneCallStale DEF SendControl
  <2>4. CASE UNCHANGED pending /\ phase'[o] \notin Terminal
    BY <1>3, <2>1, <2>2, <2>4, OneCallStale DEF SendControl, Registered
  <2>5. QED  BY <1>1, <1>3, <2>3, <2>4 DEF SendControl, Become, Terminal
<1>4. CASE SendContent(o)
  <2>1. \A p \in Ops \ {o} : phase'[p] = phase[p]
    BY <1>1, <1>4 DEF SendContent, Become
  <2>2. phase[o] # "idle" /\ phase'[o] # "idle"
    BY <1>1, <1>4 DEF SendContent, Become
  <2>3. CASE Unregister(id[o])
    BY <1>2, <1>4, <2>1, <2>2, <2>3, UnregisteredProp, OneCallStale DEF SendContent
  <2>4. CASE UNCHANGED pending /\ phase'[o] \notin Terminal
    BY <1>4, <2>1, <2>2, <2>4, OneCallStale DEF SendContent, Registered
  <2>5. QED  BY <1>1, <1>4, <2>3, <2>4 DEF SendContent, Become, Terminal
<1>5. CASE Answered(o)
  <2>1. ~Registered(o)
    BY <1>5 DEF Answered, Disconnected, EndUnregisters
  <2>2. \A p \in Ops : Registered(p)' <=> Registered(p)
    BY <1>5 DEF Answered, Registered
  <2>3. \A p \in Ops \ {o} : phase'[p] = phase[p]
    BY <1>1, <1>5 DEF Answered, Become
  <2>4. phase[o] # "idle" /\ phase'[o] # "idle"
    BY <1>1, <1>5 DEF Answered, Become
  <2>5. QED  BY <1>5, <2>1, <2>2, <2>3, <2>4, OneCallStale DEF Answered
<1>6. CASE TimeOut(o)
  BY <1>1, <1>2, <1>6, UnregisteredProp, OneCallStale DEF TimeOut, Become
<1>7. CASE ReadStep(o)
  <2>1. \A p \in Ops : Registered(p)' <=> Registered(p)
    BY <1>7 DEF ReadStep, Registered
  <2>2. \A p \in Ops \ {o} : phase'[p] = phase[p]
    BY <1>1, <1>7 DEF ReadStep, Become
  <2>3. phase[o] # "idle" /\ phase'[o] # "idle"
    BY <1>1, <1>7 DEF ReadStep, Become
  <2>4. phase'[o] \in Terminal => ~Registered(o)
    <3>1. CASE inbox[o] # <<>> /\ phase'[o] \in Terminal
      <4>1. Head(inbox[o]).type \in {"ok", "error", "end"}
        BY <1>1, <1>7, <3>1 DEF ReadStep, Terminal, Disconnected
      <4>2. inbox[o] \in Seq(InFrames)
        BY <1>1
      <4>3. Head(inbox[o]) = inbox[o][1] /\ 1 \in 1..Len(inbox[o])
        BY <3>1, <4>2, TailProp
      <4>4. o \in Reads
        BY <1>7 DEF ReadStep
      <4>5. QED  BY <4>1, <4>3, <4>4 DEF EndUnregisters
    <3>2. CASE inbox[o] = <<>>
      BY <1>7, <3>2 DEF ReadStep, Disconnected
    <3>3. QED  BY <3>1, <3>2
  <2>5. QED  BY <1>7, <2>1, <2>2, <2>3, <2>4, OneCallStale DEF ReadStep
<1>8. CASE OpenShell(o)
  BY <1>1, <1>2, <1>8, UnregisteredProp, OneCallStale
     DEF OpenShell, Become, Registered, Terminal
<1>9. CASE ShellTask(o)
  <2>1. \A p \in Ops : (Registered(p)' <=> Registered(p)) /\ phase'[p] = phase[p]
    BY <1>9 DEF ShellTask, Registered
  <2>2. phase[o] \in Terminal => ~Registered(o)
    BY RegisteredPhase
  <2>3. QED  BY <1>9, <2>1, <2>2, OneCallStale DEF ShellTask
<1>10. QED  BY <1>3, <1>4, <1>5, <1>6, <1>7, <1>8, <1>9 DEF CallStep

LEMMA CloseShellStale ==
  ASSUME IInv, RoutingInv', NEW o \in Ops, CloseShell(o)
  PROVE  IInv'
<1>1. phase \in [Ops -> Phases] /\ id[o] \in Ids
  BY BegunHasId DEF IInv, RoutingInv, TypeOK, CloseShell
<1>2. QED  BY <1>1, UnregisteredProp, OneCallStale DEF IInv, RoutingInv, CloseShell, Become

LEMMA ReaderStepStale ==
  ASSUME IInv, RoutingInv', ReaderStep
  PROVE  IInv'
<1> DEFINE f == Head(inq)
<1> USE DEF IInv, RoutingInv, ReaderStep, callVars, agentVars
<1>1. f \in InFrames /\ f.id \in Ids
  <2>1. f \in InFrames
    BY TailProp DEF TypeOK
  <2>2. QED  BY <2>1 DEF InFrames
<1>2. \A p \in Ops : (Registered(p)' => Registered(p)) /\ phase'[p] = phase[p]
  BY <1>1 DEF Registered, Unregister, TypeOK
<1>3. NoStaleRegistration'
  <2>1. ASSUME NEW p \in Ops, Registered(p)'
        PROVE  phase'[p] \notin Terminal \cup {"idle"}
    BY <2>1, <1>2, RegisteredPhase
  <2>2. QED  BY <2>1, NoStaleProp
<1>4. CASE ~Delivers(pending[f.id], f)
  BY <1>2, <1>4, ElsewhereStale
<1>5. CASE Delivers(pending[f.id], f)
  <2>0. PICK o \in Ops : o = pending[f.id]
    BY <1>1, <1>5 DEF Delivers, TypeOK
  <2>1. Registered(o) /\ f.id = id[o]
    BY <1>1, <1>5, <2>0 DEF Delivers, Registered, TypeOK, PendingRouted
  <2>2. phase[o] # "idle"
    BY <2>1, RegisteredPhase
  <2>3. inbox' = [inbox EXCEPT ![o] = Append(@, f)] /\ inbox[o] \in Seq(InFrames)
    BY <1>5, <2>0 DEF TypeOK
  <2>4. \A p \in Ops \ {o} : inbox'[p] = inbox[p]
    BY <2>3 DEF TypeOK
  <2>5. EndsRegistration(o, f) => ~Registered(o)'
    <3>1. EndsRegistration(o, f) => Unregister(id[o])
      BY <1>5, <2>0, <2>1
    <3>2. QED  BY <1>1, <2>1, <3>1, UnregisteredProp
  <2>6. ASSUME NEW p \in Ops, phase'[p] = "idle"
        PROVE  inbox'[p] = <<>>
    BY <1>2, <2>2, <2>4, <2>6 DEF EndUnregisters
  <2>7. ASSUME NEW p \in Oneshot, inbox'[p] # <<>>
        PROVE  ~Registered(p)'
    <3>1. p \in Ops
      BY DEF Oneshot, Ops
    <3>2. CASE p = o
      <4>1. EndsRegistration(o, f)
        BY <3>2 DEF EndsRegistration
      <4>2. QED  BY <2>5, <3>2, <4>1
    <3>3. CASE p # o
      BY <1>2, <2>4, <2>7, <3>1, <3>3 DEF EndUnregisters
    <3>4. QED  BY <3>2, <3>3
  <2>8. ASSUME NEW p \in Reads, NEW k \in 1..Len(inbox'[p]),
               inbox'[p][k].type \in {"ok", "error", "end"}
        PROVE  ~Registered(p)'
    <3>1. p \in Ops
      BY DEF Ops
    <3>2. CASE p = o
      <4>1. /\ inbox'[o] = Append(inbox[o], f)
            /\ Len(Append(inbox[o], f)) = Len(inbox[o]) + 1
            /\ \A j \in 1..Len(inbox[o]) : Append(inbox[o], f)[j] = inbox[o][j]
            /\ Append(inbox[o], f)[Len(inbox[o]) + 1] = f
        BY <1>1, <2>3, AppendProp DEF TypeOK
      <4>2. CASE k = Len(inbox[o]) + 1
        <5>1. o \in Reads /\ f.type \in {"ok", "error", "end"}
          BY <2>8, <3>2, <4>1, <4>2
        <5>2. EndsRegistration(o, f)
          BY <5>1 DEF EndsRegistration
        <5>3. QED  BY <2>5, <3>2, <5>2
      <4>3. CASE k # Len(inbox[o]) + 1
        <5>1. k \in 1..Len(inbox[o]) /\ inbox'[o][k] = inbox[o][k]
          BY <2>3, <3>2, <4>1, <4>3
        <5>2. QED  BY <1>2, <2>1, <2>8, <3>2, <5>1 DEF EndUnregisters
      <4>4. QED  BY <4>2, <4>3
    <3>3. CASE p # o
      BY <1>2, <2>4, <2>8, <3>1, <3>3 DEF EndUnregisters
    <3>4. QED  BY <3>2, <3>3
  <2>9. EndUnregisters'
    BY <2>6, <2>7, <2>8 DEF EndUnregisters
  <2>10. QED  BY <1>3, <2>9
<1>6. QED  BY <1>3, <1>4, <1>5

LEMMA StaleInit == Init => IInv
<1> SUFFICES ASSUME Init PROVE IInv
  OBVIOUS
<1>1. EndUnregisters /\ NoStaleRegistration
  BY DEF Init, EndUnregisters, NoStaleRegistration, Oneshot, Ops
<1>2. QED  BY <1>1, RoutingInit DEF IInv

LEMMA StaleStep == IInv /\ [Next]_vars => IInv'
<1> SUFFICES ASSUME IInv, [Next]_vars PROVE IInv'
  OBVIOUS
<1>1. RoutingInv'
  BY RoutingStep DEF IInv
<1>2. ASSUME NEW o \in Ops, Begin(o) \/ CallStep(o) \/ CloseShell(o)
      PROVE  IInv'
  BY <1>1, <1>2, BeginStale, CallStepStale, CloseShellStale
<1>3. ASSUME NEW o \in Ops, UseShell(o) \/ AgentAnswer(o) \/ AgentStream(o)
      PROVE  IInv'
  BY <1>1, <1>3, ElsewhereStale DEF UseShell, AgentAnswer, AgentStream, callVars, Registered
<1>4. CASE ReaderStep
  BY <1>1, <1>4, ReaderStepStale
<1>5. CASE ReaderClears
  <2>1. \A p \in Ops : ~Registered(p)'
    BY <1>5 DEF ReaderClears, NoRegistrations, Registered
  <2>2. QED  BY <1>1, <1>5, <2>1, ElsewhereStale DEF ReaderClears, callVars
<1>6. CASE WriterStep \/ ReaderFails \/ LinkDown
  BY <1>1, <1>6, ElsewhereStale DEF WriterStep, ReaderFails, LinkDown, callVars, Registered
<1>7. CASE UNCHANGED vars
  BY <1>1, <1>7, ElsewhereStale DEF vars, Registered
<1>8. QED  BY <1>2, <1>3, <1>4, <1>5, <1>6, <1>7 DEF Next

\* A call that has returned, by whatever path, has left no registration.
THEOREM ReturnsUnregistered == Spec => []NoStaleRegistration
<1>1. IInv => NoStaleRegistration
  BY DEF IInv
<1>2. QED  BY <1>1, StaleInit, StaleStep, PTL DEF Spec

----------------------------------------------------------------------------
(* Numbered frames in a queue.                                             *)

\* Whether the k-th frame fits depends on the frames up to it.
LEMMA SameFit ==
  ASSUME NEW q, NEW r, NEW own, NEW num, NEW due, NEW k \in Nat,
         r[k] = q[k], \A j \in 1..(k - 1) : r[j] = q[j], Fits(q, own, num, due, k)
  PROVE  Fits(r, own, num, due, k)
<1>1. \A j \in 1..(k - 1) : r[j] \in own => num[r[j]] < num[r[k]]
  BY DEF Fits
<1>2. ASSUME NEW i \in due..(num[r[k]] - 1)
      PROVE  \E j \in 1..(k - 1) : r[j] \in own /\ num[r[j]] = i
  <2>1. PICK j \in 1..(k - 1) : q[j] \in own /\ num[q[j]] = i
    BY <1>2 DEF Fits
  <2>2. QED  BY <2>1
<1>3. due <= num[r[k]]
  BY DEF Fits
<1>4. QED  BY <1>1, <1>2, <1>3 DEF Fits

LEMMA HeadDue ==
  ASSUME NEW S, NEW q \in Seq(S), NEW own, NEW num \in [S -> Int], NEW due \in Int,
         InOrder(q, own, num, due), q # <<>>, Head(q) \in own
  PROVE  num[Head(q)] = due
<1>1. Head(q) = q[1] /\ 1 \in 1..Len(q) /\ Head(q) \in S
  BY TailProp
<1>2. due <= num[q[1]] /\ \A i \in due..(num[q[1]] - 1) : \E j \in 1..(1 - 1) : TRUE
  BY <1>1 DEF InOrder, Fits
<1>3. num[q[1]] \in Int
  BY <1>1
<1>4. ~(due <= num[q[1]] - 1)
  <2>1. ASSUME due <= num[q[1]] - 1
        PROVE  FALSE
    <3>1. due \in due..(num[q[1]] - 1)
      BY <2>1, <1>3
    <3>2. \E j \in 1..(1 - 1) : TRUE
      BY <3>1, <1>2
    <3>3. QED  BY <3>2
  <2>2. QED  BY <2>1
<1>5. QED  BY <1>1, <1>2, <1>3, <1>4

\* Taking the head off a queue leaves the rest in order, from the next one on if
\* the head was one of own.
LEMMA TailOrder ==
  ASSUME NEW S, NEW q \in Seq(S), NEW own, NEW num \in [S -> Int], NEW due \in Int,
         InOrder(q, own, num, due), q # <<>>, NEW d \in Int,
         d = IF Head(q) \in own THEN due + 1 ELSE due
  PROVE  /\ InOrder(Tail(q), own, num, d)
         /\ \A last \in Int : UpTo(q, own, num, due, last) => UpTo(Tail(q), own, num, d, last)
<1> DEFINE t == Tail(q)
<1>1. /\ Len(t) = Len(q) - 1 /\ Head(q) = q[1] /\ 1 \in 1..Len(q)
      /\ \A k \in 1..Len(t) : t[k] = q[k + 1] /\ k + 1 \in 1..Len(q)
  BY TailProp
<1>2. \A k \in 1..Len(q) : q[k] \in S /\ num[q[k]] \in Int
  OBVIOUS
<1>3. Len(q) \in Nat /\ Len(t) \in Nat
  BY <1>1
<1>4. Head(q) \in own => num[q[1]] = due
  BY <1>1, HeadDue
<1> HIDE DEF t
<1>5. ASSUME NEW i \in Int, d <= i, NEW j \in 1..Len(q), q[j] \in own, num[q[j]] = i
      PROVE  (j - 1) \in 1..Len(t) /\ t[j - 1] = q[j]
  <2>1. j # 1
    BY <1>1, <1>4, <1>5
  <2>2. (j - 1) \in 1..Len(t)
    BY <2>1, <1>1, <1>3
  <2>3. t[j - 1] = q[(j - 1) + 1]
    BY <2>2, <1>1
  <2>4. QED  BY <2>2, <2>3
<1>6. InOrder(t, own, num, d)
  <2> SUFFICES ASSUME NEW k \in 1..Len(t), t[k] \in own
               PROVE  Fits(t, own, num, d, k)
    BY DEF InOrder
  <2>1. t[k] = q[k + 1] /\ k + 1 \in 1..Len(q) /\ num[t[k]] \in Int
    BY <1>1, <1>2
  <2>2. /\ due <= num[t[k]]
        /\ \A j \in 1..k : q[j] \in own => num[q[j]] < num[t[k]]
        /\ \A i \in due..(num[t[k]] - 1) : \E j \in 1..k : q[j] \in own /\ num[q[j]] = i
    <3>1. (k + 1) - 1 = k
      OBVIOUS
    <3>2. Fits(q, own, num, due, k + 1)
      BY <2>1 DEF InOrder
    <3>3. QED  BY <2>1, <3>1, <3>2 DEF Fits
  <2>3. d <= num[t[k]]
    <3>1. CASE Head(q) \in own
      <4>1. num[q[1]] < num[t[k]]
        BY <3>1, <1>1, <2>2
      <4>2. QED  BY <3>1, <4>1, <1>4, <2>1
    <3>2. CASE Head(q) \notin own
      BY <3>2, <2>2
    <3>3. QED  BY <3>1, <3>2
  <2>4. ASSUME NEW j \in 1..(k - 1), t[j] \in own
        PROVE  num[t[j]] < num[t[k]]
    <3>1. j \in 1..Len(t) /\ j + 1 \in 1..k
      BY <1>3
    <3>2. t[j] = q[j + 1]
      BY <3>1, <1>1
    <3>3. QED  BY <2>4, <3>1, <3>2, <2>2
  <2>5. ASSUME NEW i \in d..(num[t[k]] - 1)
        PROVE  \E j \in 1..(k - 1) : t[j] \in own /\ num[t[j]] = i
    <3>1. i \in Int /\ d <= i /\ i \in due..(num[t[k]] - 1)
      BY <2>1
    <3>2. PICK j \in 1..k : q[j] \in own /\ num[q[j]] = i
      BY <3>1, <2>2
    <3>3. j \in 1..Len(q)
      BY <1>1, <1>3
    <3>4. (j - 1) \in 1..Len(t) /\ t[j - 1] = q[j]
      BY <3>1, <3>2, <3>3, <1>5
    <3>5. (j - 1) \in 1..(k - 1)
      BY <3>4
    <3>6. QED  BY <3>2, <3>4, <3>5
  <2>6. QED  BY <2>3, <2>4, <2>5 DEF Fits
<1>7. ASSUME NEW last \in Int, UpTo(q, own, num, due, last)
      PROVE  UpTo(t, own, num, d, last)
  <2>1. ASSUME NEW i \in d..last
        PROVE  \E j \in 1..Len(t) : t[j] \in own /\ num[t[j]] = i
    <3>1. i \in Int /\ d <= i /\ i \in due..last
      OBVIOUS
    <3>2. PICK j \in 1..Len(q) : q[j] \in own /\ num[q[j]] = i
      BY <3>1, <1>7 DEF UpTo
    <3>3. (j - 1) \in 1..Len(t) /\ t[j - 1] = q[j]
      BY <3>1, <3>2, <1>5
    <3>4. QED  BY <3>2, <3>3
  <2>2. QED  BY <2>1 DEF UpTo
<1>8. QED  BY <1>6, <1>7 DEF t

\* A frame of others at the end changes nothing.
LEMMA AppendOther ==
  ASSUME NEW S, NEW q \in Seq(S), NEW own, NEW num \in [S -> Int], NEW due \in Int,
         InOrder(q, own, num, due), NEW f \in S, f \notin own
  PROVE  /\ InOrder(Append(q, f), own, num, due)
         /\ \A last \in Int : UpTo(q, own, num, due, last)
                                => UpTo(Append(q, f), own, num, due, last)
<1> DEFINE r == Append(q, f)
<1>1. /\ Len(r) = Len(q) + 1 /\ r[Len(q) + 1] = f
      /\ \A k \in 1..Len(q) : r[k] = q[k]
  BY AppendProp
<1>2. Len(q) \in Nat
  OBVIOUS
<1> HIDE DEF r
<1>3. \A k \in 1..Len(r) : r[k] \in own => k \in 1..Len(q)
  BY <1>1, <1>2
<1>4. InOrder(r, own, num, due)
  <2> SUFFICES ASSUME NEW k \in 1..Len(r), r[k] \in own
               PROVE  Fits(r, own, num, due, k)
    BY DEF InOrder
  <2>1. k \in 1..Len(q) /\ r[k] = q[k]
    BY <1>1, <1>3
  <2>2. \A j \in 1..(k - 1) : r[j] = q[j]
    BY <1>1, <1>2, <2>1
  <2>3. Fits(q, own, num, due, k)
    BY <2>1 DEF InOrder
  <2>4. QED  BY <2>1, <2>2, <2>3, SameFit
<1>5. ASSUME NEW last \in Int, UpTo(q, own, num, due, last)
      PROVE  UpTo(r, own, num, due, last)
  BY <1>1, <1>2, <1>5 DEF UpTo
<1>6. QED  BY <1>4, <1>5 DEF r

\* The next of own at the end.
LEMMA AppendNext ==
  ASSUME NEW S, NEW q \in Seq(S), NEW own, NEW num \in [S -> Int], NEW due \in Int,
         InOrder(q, own, num, due), NEW f \in S, f \in own, NEW last \in Int,
         num[f] = last + 1, due <= last + 1, UpTo(q, own, num, due, last),
         \A k \in 1..Len(q) : q[k] \in own => num[q[k]] <= last
  PROVE  /\ InOrder(Append(q, f), own, num, due)
         /\ UpTo(Append(q, f), own, num, due, last + 1)
<1> DEFINE r == Append(q, f)
<1>1. /\ Len(r) = Len(q) + 1 /\ r[Len(q) + 1] = f
      /\ \A k \in 1..Len(q) : r[k] = q[k]
  BY AppendProp
<1>2. Len(q) \in Nat
  OBVIOUS
<1> HIDE DEF r
<1>3. ASSUME NEW i \in due..last
      PROVE  \E j \in 1..Len(q) : r[j] \in own /\ num[r[j]] = i
  BY <1>1, <1>3 DEF UpTo
<1>4. InOrder(r, own, num, due)
  <2> SUFFICES ASSUME NEW k \in 1..Len(r), r[k] \in own
               PROVE  Fits(r, own, num, due, k)
    BY DEF InOrder
  <2>1. CASE k \in 1..Len(q)
    <3>1. r[k] = q[k] /\ \A j \in 1..(k - 1) : r[j] = q[j]
      BY <1>1, <1>2, <2>1
    <3>2. Fits(q, own, num, due, k)
      BY <2>1, <3>1 DEF InOrder
    <3>3. QED  BY <2>1, <3>1, <3>2, SameFit
  <2>2. CASE k = Len(q) + 1
    <3>1. r[k] = f /\ k - 1 = Len(q) /\ num[r[k]] - 1 = last
      BY <1>1, <1>2, <2>2
    <3>2. \A j \in 1..Len(q) : r[j] \in own => num[r[j]] < num[r[k]]
      <4>1. \A j \in 1..Len(q) : r[j] = q[j] /\ num[q[j]] \in Int
        BY <1>1
      <4>2. QED  BY <3>1, <4>1
    <3>3. QED  BY <3>1, <3>2, <1>3 DEF Fits
  <2>3. QED  BY <2>1, <2>2, <1>1, <1>2
<1>5. UpTo(r, own, num, due, last + 1)
  <2>1. ASSUME NEW i \in due..(last + 1)
        PROVE  \E j \in 1..Len(r) : r[j] \in own /\ num[r[j]] = i
    <3>1. CASE i = last + 1
      <4>1. Len(q) + 1 \in 1..Len(r)
        BY <1>1, <1>2
      <4>2. QED  BY <3>1, <4>1, <1>1
    <3>2. CASE i # last + 1
      <4>1. PICK j \in 1..Len(q) : r[j] \in own /\ num[r[j]] = i
        BY <3>2, <1>3
      <4>2. QED  BY <4>1, <1>1, <1>2
    <3>3. QED  BY <3>1, <3>2
  <2>2. QED  BY <2>1 DEF UpTo
<1>6. QED  BY <1>4, <1>5 DEF r

\* What is left of a queue that lost its end.
LEMMA PrefixOrder ==
  ASSUME NEW S, NEW q \in Seq(S), NEW own, NEW num \in [S -> Int], NEW due \in Int,
         InOrder(q, own, num, due), NEW n \in 0..Len(q)
  PROVE  InOrder(SubSeq(q, 1, n), own, num, due)
<1> DEFINE p == SubSeq(q, 1, n)
<1>1. Len(p) = n /\ \A k \in 1..n : p[k] = q[k] /\ k \in 1..Len(q)
  BY PrefixProp
<1> HIDE DEF p
<1>2. ASSUME NEW k \in 1..Len(p), p[k] \in own
      PROVE  Fits(p, own, num, due, k)
  <2>1. k \in 1..n /\ p[k] = q[k] /\ k \in 1..Len(q)
    BY <1>1
  <2>2. \A j \in 1..(k - 1) : p[j] = q[j]
    BY <1>1, <2>1
  <2>3. Fits(q, own, num, due, k)
    BY <1>2, <2>1 DEF InOrder
  <2>4. QED  BY <2>1, <2>2, <2>3, SameFit
<1>3. InOrder(p, own, num, due)
  BY <1>2 DEF InOrder
<1>4. QED  BY <1>3 DEF p

\* The numbers matter only where a frame of own stands.
LEMMA SameNumbers ==
  ASSUME NEW S, NEW q \in Seq(S), NEW own, NEW num, NEW num2, NEW due \in Int,
         \A k \in 1..Len(q) : q[k] \in own => num2[q[k]] = num[q[k]]
  PROVE  /\ InOrder(q, own, num, due) => InOrder(q, own, num2, due)
         /\ \A last \in Int : UpTo(q, own, num, due, last) => UpTo(q, own, num2, due, last)
<1>1. ASSUME InOrder(q, own, num, due), NEW k \in 1..Len(q), q[k] \in own
      PROVE  Fits(q, own, num2, due, k)
  <2>1. num2[q[k]] = num[q[k]]
    BY <1>1
  <2>2. \A j \in 1..(k - 1) : j \in 1..Len(q)
    OBVIOUS
  <2>3. QED  BY <1>1, <2>1, <2>2 DEF InOrder, Fits
<1>2. \A last \in Int : UpTo(q, own, num, due, last) => UpTo(q, own, num2, due, last)
  BY DEF UpTo
<1>3. QED  BY <1>1, <1>2 DEF InOrder

----------------------------------------------------------------------------
(* The order of one stream.                                                *)

LEMMA PlaceType ==
  ASSUME NEW r \in Nat
  PROVE  /\ Place(r) \in [InFrames -> Int]
         /\ \A f \in InFrames : Place(r)[f] = IF f.type = "data" THEN f.n ELSE r + 1
<1>1. \A f \in InFrames : (IF f.type = "data" THEN f.n ELSE r + 1) \in Int
  BY DEF InFrames
<1>2. QED  BY <1>1 DEF Place

LEMMA StreamTypes ==
  ASSUME TypeOK, NEW o \in Streams
  PROVE  /\ o \in Ops /\ inbox[o] \in Seq(InFrames) /\ inq \in Seq(InFrames)
         /\ local[o] \in Seq(Nat) /\ remote[o] \in Seq(Nat)
         /\ Len(inbox[o]) \in Nat /\ Len(local[o]) \in Nat /\ Len(remote[o]) \in Nat
         /\ Len(inq) \in Nat /\ Shift(o) \in {0, 1} /\ Due(o) \in Int
         /\ srv[o] \in {"idle", "receiving", "running", "streaming", "ended"}
<1>1. o \in Ops
  BY DEF Streams, Ops
<1>2. /\ inbox[o] \in Seq(InFrames) /\ inq \in Seq(InFrames)
      /\ local[o] \in Seq(Nat) /\ remote[o] \in Seq(Nat)
      /\ srv[o] \in {"idle", "receiving", "running", "streaming", "ended"}
  BY <1>1 DEF TypeOK
<1>3. /\ Len(inbox[o]) \in Nat /\ Len(local[o]) \in Nat /\ Len(remote[o]) \in Nat
      /\ Len(inq) \in Nat /\ Shift(o) \in {0, 1}
  BY <1>2 DEF Shift
<1>4. QED  BY <1>1, <1>2, <1>3 DEF Due

\* A frame of a stream opens it or belongs to its content.
LEMMA FrameKinds ==
  ASSUME NEW o, NEW f \in InFrames, f.op = o, f.type # "bad"
  PROVE  f \in Content(o) <=> f.type \notin Opening
  BY DEF InFrames, Content, Opening

\* What a step that takes, adds or loses frames of other calls leaves of a
\* queue, for the stream o.
Elsewhere(q, r, o) ==
  \/ r = q
  \/ \E f \in InFrames : f.op # o /\ r = Append(q, f)
  \/ q # <<>> /\ Head(q).op # o /\ r = Tail(q)

LEMMA ElsewhereProp ==
  ASSUME NEW q \in Seq(InFrames), NEW r, NEW o, Elsewhere(q, r, o)
  PROVE  /\ \A k \in 1..Len(r) : r[k].op = o => \E j \in 1..Len(q) : r[k] = q[j]
         /\ OpensFirst(q, o) => OpensFirst(r, o)
         /\ \A num \in [InFrames -> Int], due \in Int :
              InOrder(q, Content(o), num, due) =>
                /\ InOrder(r, Content(o), num, due)
                /\ \A last \in Int : UpTo(q, Content(o), num, due, last)
                                       => UpTo(r, Content(o), num, due, last)
<1>1. CASE r = q
  BY <1>1
<1>2. ASSUME NEW f \in InFrames, f.op # o, r = Append(q, f)
      PROVE  /\ \A k \in 1..Len(r) : r[k].op = o => \E j \in 1..Len(q) : r[k] = q[j]
             /\ OpensFirst(q, o) => OpensFirst(r, o)
             /\ \A num \in [InFrames -> Int], due \in Int :
                  InOrder(q, Content(o), num, due) =>
                    /\ InOrder(r, Content(o), num, due)
                    /\ \A last \in Int : UpTo(q, Content(o), num, due, last)
                                           => UpTo(r, Content(o), num, due, last)
  <2>1. /\ Len(r) = Len(q) + 1 /\ r[Len(q) + 1] = f /\ Len(q) \in Nat
        /\ \A k \in 1..Len(q) : r[k] = q[k]
    BY <1>2, AppendProp
  <2>2. \A k \in 1..Len(r) : r[k].op = o => k \in 1..Len(q)
    BY <1>2, <2>1
  <2>3. ASSUME OpensFirst(q, o), NEW k \in 1..Len(r), r[k].op = o, r[k].type \in Opening
        PROVE  \A j \in 1..(k - 1) : r[j].op # o
    <3>1. k \in 1..Len(q) /\ r[k] = q[k] /\ \A j \in 1..(k - 1) : r[j] = q[j]
      BY <2>1, <2>2, <2>3
    <3>2. QED  BY <2>3, <3>1 DEF OpensFirst
  <2>4. f \notin Content(o)
    BY <1>2 DEF Content
  <2>5. ASSUME NEW num \in [InFrames -> Int], NEW due \in Int,
               InOrder(q, Content(o), num, due)
        PROVE  /\ InOrder(r, Content(o), num, due)
               /\ \A last \in Int : UpTo(q, Content(o), num, due, last)
                                      => UpTo(r, Content(o), num, due, last)
    BY <1>2, <2>4, <2>5, AppendOther
  <2>6. \A k \in 1..Len(r) : r[k].op = o => \E j \in 1..Len(q) : r[k] = q[j]
    BY <2>1, <2>2
  <2>7. OpensFirst(q, o) => OpensFirst(r, o)
    BY <2>3 DEF OpensFirst
  <2>8. QED  BY <2>5, <2>6, <2>7
<1>3. CASE q # <<>> /\ Head(q).op # o /\ r = Tail(q)
  <2>1. /\ Len(r) = Len(q) - 1 /\ Head(q) = q[1] /\ Len(q) \in Nat
        /\ \A k \in 1..Len(r) : r[k] = q[k + 1] /\ k + 1 \in 1..Len(q)
    BY <1>3, TailProp
  <2>2. ASSUME OpensFirst(q, o), NEW k \in 1..Len(r), r[k].op = o, r[k].type \in Opening
        PROVE  \A j \in 1..(k - 1) : r[j].op # o
    <3>1. \A j \in 1..((k + 1) - 1) : q[j].op # o
      BY <2>1, <2>2 DEF OpensFirst
    <3>2. \A j \in 1..(k - 1) : r[j] = q[j + 1] /\ j + 1 \in 1..((k + 1) - 1)
      BY <2>1
    <3>3. QED  BY <3>1, <3>2
  <2>3. Head(q) \notin Content(o)
    BY <1>3 DEF Content
  <2>4. ASSUME NEW num \in [InFrames -> Int], NEW due \in Int,
               InOrder(q, Content(o), num, due)
        PROVE  /\ InOrder(r, Content(o), num, due)
               /\ \A last \in Int : UpTo(q, Content(o), num, due, last)
                                      => UpTo(r, Content(o), num, due, last)
    BY <1>3, <2>3, <2>4, TailOrder
  <2>5. \A k \in 1..Len(r) : r[k].op = o => \E j \in 1..Len(q) : r[k] = q[j]
    BY <2>1
  <2>6. OpensFirst(q, o) => OpensFirst(r, o)
    BY <2>2 DEF OpensFirst
  <2>7. QED  BY <2>4, <2>5, <2>6
<1>4. QED  BY <1>1, <1>2, <1>3 DEF Elsewhere

\* A step of others, or of the call itself with its channel left alone.
LEMMA StreamStays ==
  ASSUME TypeOK, NEW o \in Streams, StreamOf(o),
         inbox'[o] = inbox[o], local'[o] = local[o], remote'[o] = remote[o],
         (o \in told)' <=> o \in told, Registered(o)' => Registered(o),
         Listens(o)' => Listens(o),
         \/ srv'[o] = srv[o] \/ srv'[o] = "ended"
         \/ srv[o] = "idle" /\ srv'[o] \in {"receiving", "running"},
         \/ Elsewhere(inq, inq', o) /\ (link' = "up" => link = "up")
         \/ (\E n \in 0..Len(inq) : inq' = SubSeq(inq, 1, n)) /\ link' = "down"
  PROVE  StreamOf(o)'
<1> DEFINE num == Place(Len(remote[o]))
<1>1. /\ o \in Ops /\ inq \in Seq(InFrames) /\ Len(remote[o]) \in Nat /\ Due(o) \in Int
      /\ num \in [InFrames -> Int]
  BY StreamTypes, PlaceType
<1>2. Due(o)' = Due(o) /\ Shift(o)' = Shift(o)
  BY DEF Due, Shift
<1>3. \A f : Sound(o, f) => (Sound(o, f))'
  BY DEF Sound
<1>4. /\ \A k \in 1..Len(inq') : inq'[k].op = o => \E j \in 1..Len(inq) : inq'[k] = inq[j]
      /\ OpensFirst(inq, o) => OpensFirst(inq', o)
      /\ InOrder(inq, Content(o), num, Due(o)) => InOrder(inq', Content(o), num, Due(o))
      /\ link' = "up" => link = "up" /\ (InOrder(inq, Content(o), num, Due(o)) =>
           \A last \in Int : UpTo(inq, Content(o), num, Due(o), last)
                               => UpTo(inq', Content(o), num, Due(o), last))
  <2>1. CASE Elsewhere(inq, inq', o) /\ (link' = "up" => link = "up")
    BY <2>1, <1>1, ElsewhereProp
  <2>2. CASE (\E n \in 0..Len(inq) : inq' = SubSeq(inq, 1, n)) /\ link' = "down"
    <3>1. PICK n \in 0..Len(inq) : inq' = SubSeq(inq, 1, n)
      BY <2>2
    <3>2. Len(inq') = n /\ \A k \in 1..n : inq'[k] = inq[k] /\ k \in 1..Len(inq)
      BY <3>1, <1>1, PrefixProp
    <3>3. InOrder(inq, Content(o), num, Due(o)) => InOrder(inq', Content(o), num, Due(o))
      BY <3>1, <1>1, PrefixOrder
    <3>4. OpensFirst(inq, o) => OpensFirst(inq', o)
      BY <3>2 DEF OpensFirst
    <3>5. link' # "up"
      BY <2>2
    <3>6. QED  BY <3>2, <3>3, <3>4, <3>5
  <2>3. QED  BY <2>1, <2>2
<1> HIDE DEF num
<1>5. SilentOf(o)'
  BY <1>4 DEF StreamOf, SilentOf
<1>6. ChannelOf(o)'
  <2>1. \A k : (Numbered(o, k))' <=> Numbered(o, k)
    BY <1>2 DEF Numbered
  <2>2. QED  BY <2>1, <1>3 DEF StreamOf, ChannelOf
<1>7. LineOf(o)'
  <2>1. ASSUME NEW k \in 1..Len(inq'), inq'[k].op = o
        PROVE  (Sound(o, inq[k]))'
    <3>1. PICK j \in 1..Len(inq) : inq'[k] = inq[j]
      BY <2>1, <1>4
    <3>2. Sound(o, inq[j])
      BY <2>1, <3>1 DEF StreamOf, LineOf
    <3>3. QED  BY <3>1, <3>2 DEF Sound
  <2>2. ASSUME Hears(o)'
        PROVE  Goes(o)'
    <3>1. Goes(o)
      BY <2>2 DEF Hears, StreamOf, LineOf
    <3>2. InOrder(inq', Content(o), num, Due(o)) /\ OpensFirst(inq', o)
      BY <3>1, <1>4 DEF Goes, num
    <3>3. link' = "up" => UpTo(inq', Content(o), num, Due(o), Len(remote[o]))
      BY <3>1, <1>1, <1>4 DEF Goes, num
    <3>4. \A k \in 1..Len(inq') : inq'[k].op = o /\ inq'[k].type \in Opening => inbox'[o] = <<>>
      BY <3>1, <1>4 DEF Goes
    <3>5. QED  BY <3>2, <3>3, <3>4, <1>2 DEF Goes, num
  <2>3. QED  BY <2>1, <2>2 DEF LineOf
<1>8. PrefixOf(o)'
  BY DEF StreamOf, PrefixOf
<1>9. QED  BY <1>5, <1>6, <1>7, <1>8 DEF StreamOf

\* A stream's first content frame in a channel, and those behind it.
LEMMA NotOpeningBehind ==
  ASSUME TypeOK, NEW o \in Streams, ChannelOf(o), Listens(o),
         NEW k \in 1..Len(inbox[o]), k # 1
  PROVE  inbox[o][k].type \notin Opening
  BY DEF ChannelOf, Numbered

LEMMA OneMore ==
  ASSUME NEW a \in Int, NEW s \in Int, NEW k \in Int
  PROVE  a + (k + 1) - s = (a + 1 - s) + k - 0
  OBVIOUS

\* Receiving the head: an opening frame, or the next chunk.
LEMMA ConsumeOne ==
  ASSUME TypeOK, NEW o \in Streams, StreamOf(o), Listens(o), inbox[o] # <<>>,
         inbox'[o] = Tail(inbox[o]), remote'[o] = remote[o], srv'[o] = srv[o],
         inq' = inq, link' = link, (o \in told)' <=> o \in told,
         Registered(o)' => Registered(o), Head(inbox[o]).type # "end",
         local'[o] = IF Head(inbox[o]).type = "data"
                     THEN Append(local[o], Head(inbox[o]).n) ELSE local[o]
  PROVE  StreamOf(o)'
<1> DEFINE h == Head(inbox[o])
           t == Tail(inbox[o])
<1>1. /\ inbox[o] \in Seq(InFrames) /\ local[o] \in Seq(Nat) /\ remote[o] \in Seq(Nat)
      /\ Len(inbox[o]) \in Nat /\ Len(local[o]) \in Nat /\ Len(remote[o]) \in Nat
      /\ Shift(o) \in Int
  BY StreamTypes
<1>2. /\ Len(t) = Len(inbox[o]) - 1 /\ h = inbox[o][1] /\ h \in InFrames
      /\ 1 \in 1..Len(inbox[o]) /\ t \in Seq(InFrames)
      /\ \A k \in 1..Len(t) : t[k] = inbox[o][k + 1] /\ k + 1 \in 1..Len(inbox[o])
  BY <1>1, TailProp
<1> HIDE DEF t, h
<1>0. Len(inbox[o]) \in Int /\ Len(local[o]) \in Int /\ Shift(o) \in Int
  BY <1>1
<1>3. inbox'[o] = t
  BY DEF t
<1>4. \A k \in 1..Len(t) : t[k].type \notin Opening
  <2>1. ASSUME NEW k \in 1..Len(t)
        PROVE  t[k].type \notin Opening
    <3>1. t[k] = inbox[o][k + 1] /\ k + 1 \in 1..Len(inbox[o]) /\ k + 1 # 1
      BY <1>2
    <3>2. ChannelOf(o)
      BY DEF StreamOf
    <3>3. QED  BY <3>1, <3>2, NotOpeningBehind
  <2>2. QED  BY <2>1
<1>5. (Shift(o))' = 0
  <2>1. t # <<>> => Head(t) = t[1] /\ 1 \in 1..Len(t)
    BY <1>2
  <2>2. QED  BY <2>1, <1>3, <1>4 DEF Shift
<1>6. h.type \in Opening \cup {"data"} /\ Sound(o, h) /\ Numbered(o, 1)
  <2>1. Sound(o, h) /\ Numbered(o, 1)
    BY <1>2 DEF StreamOf, ChannelOf
  <2>2. QED  BY <2>1, <1>2 DEF Sound, InFrames, Opening, h
<1>7. Len(local'[o]) = Len(local[o]) + 1 - Shift(o) /\ Len(local'[o]) <= Len(remote[o])
      /\ \A k \in 1..Len(local'[o]) : local'[o][k] = k
  <2>1. CASE h.type \in Opening
    <3>1. Shift(o) = 1 /\ h.type # "data"
      BY <2>1 DEF Shift, h, Opening
    <3>2. local'[o] = local[o]
      BY <3>1 DEF h
    <3>3. Len(local[o]) <= Len(remote[o]) /\ \A k \in 1..Len(local[o]) : local[o][k] = k
      BY DEF StreamOf, PrefixOf
    <3>4. Len(local[o]) = Len(local[o]) + 1 - Shift(o)
      BY <3>1, <1>1
    <3>5. QED  BY <3>2, <3>3, <3>4
  <2>2. CASE h.type = "data"
    <3>1. Shift(o) = 0 /\ h.type \notin Opening
      BY <2>2 DEF Shift, h, Opening
    <3>2. h.n = Len(local[o]) + 1
      <4>1. Place(Len(remote[o]))[h] = Len(local[o]) + 1 - Shift(o)
        BY <1>6, <3>1, <1>2 DEF Numbered
      <4>2. Place(Len(remote[o]))[h] = h.n
        BY <2>2, <1>1, <1>2, PlaceType
      <4>3. QED  BY <4>1, <4>2, <3>1, <1>1
    <3>3. h.n <= Len(remote[o])
      BY <1>6, <2>2 DEF Sound
    <3>4. local'[o] = Append(local[o], h.n)
      BY <2>2 DEF h
    <3>5. /\ Len(Append(local[o], h.n)) = Len(local[o]) + 1
          /\ \A k \in 1..Len(local[o]) : Append(local[o], h.n)[k] = local[o][k]
          /\ Append(local[o], h.n)[Len(local[o]) + 1] = h.n
      BY <1>1, <3>2, AppendProp
    <3>6. \A k \in 1..Len(local[o]) : local[o][k] = k
      BY DEF StreamOf, PrefixOf
    <3>7. \A k \in 1..Len(local'[o]) : local'[o][k] = k
      <4>1. ASSUME NEW k \in 1..(Len(local[o]) + 1)
            PROVE  Append(local[o], h.n)[k] = k
        <5>1. CASE k = Len(local[o]) + 1
          BY <5>1, <3>2, <3>5
        <5>2. CASE k # Len(local[o]) + 1
          <6>1. k \in 1..Len(local[o])
            BY <5>2, <1>1
          <6>2. QED  BY <6>1, <3>5, <3>6
        <5>3. QED  BY <5>1, <5>2
      <4>2. QED  BY <4>1, <3>4, <3>5
    <3>8. QED  BY <3>1, <3>2, <3>3, <3>4, <3>5, <3>7, <1>1
  <2>3. QED  BY <1>6, <2>1, <2>2
<1>8. (Due(o))' = Due(o)
  <2>1. (Due(o))' = (Len(local[o]) + 1 - Shift(o)) + (Len(inbox[o]) - 1) - 0 + 1
    BY <1>2, <1>3, <1>5, <1>7 DEF Due
  <2>2. Due(o) = Len(local[o]) + Len(inbox[o]) - Shift(o) + 1
    BY DEF Due
  <2>3. QED  BY <2>1, <2>2, <1>0
<1>9. srv[o] \notin {"idle", "receiving", "running"}
  BY DEF StreamOf, SilentOf
<1>10. SilentOf(o)'
  BY <1>9 DEF SilentOf
<1>11. ChannelOf(o)'
  <2> SUFFICES ASSUME NEW k \in 1..Len(t)
               PROVE  (Sound(o, inbox[o][k]))' /\ (Numbered(o, k))'
    BY <1>3 DEF ChannelOf
  <2>1. Sound(o, t[k]) /\ Numbered(o, k + 1)
    BY <1>2 DEF StreamOf, ChannelOf
  <2>2. Place(Len(remote[o]))[t[k]] = Len(local[o]) + (k + 1) - Shift(o)
    BY <2>1, <1>2, <1>4 DEF Numbered
  <2>3. Place(Len(remote[o]))[t[k]] = Len(local'[o]) + k - 0
    <3>1. Len(local'[o]) = Len(local[o]) + 1 - Shift(o)
      BY <1>7
    <3>2. Len(local[o]) + (k + 1) - Shift(o) = (Len(local[o]) + 1 - Shift(o)) + k - 0
      <4>1. k \in Int
        OBVIOUS
      <4>2. QED  BY <4>1, <1>0, OneMore
    <3>3. QED  BY <2>2, <3>1, <3>2
  <2>4. (Numbered(o, k))'
    BY <2>3, <1>3, <1>4, <1>5 DEF Numbered
  <2>5. QED  BY <2>1, <2>4, <1>3 DEF Sound
<1>12. LineOf(o)'
  <2>1. \A f : Sound(o, f) => (Sound(o, f))'
    BY DEF Sound
  <2>2. ASSUME Hears(o)'
        PROVE  Goes(o)'
    <3>1. Goes(o)
      BY <2>2 DEF Hears, StreamOf, LineOf
    <3>2. \A k \in 1..Len(inq) : ~(inq[k].op = o /\ inq[k].type \in Opening)
      BY <3>1 DEF Goes
    <3>3. QED  BY <3>1, <3>2, <1>8 DEF Goes
  <2>3. QED  BY <2>1, <2>2 DEF StreamOf, LineOf
<1>13. PrefixOf(o)'
  <2>1. o \notin told
    BY DEF Listens
  <2>2. QED  BY <2>1, <1>7 DEF PrefixOf
<1>14. QED  BY <1>10, <1>11, <1>12, <1>13 DEF StreamOf

\* Receiving the last frame of a call that is not listened to any more.
LEMMA ConsumeLast ==
  ASSUME TypeOK, NEW o \in Streams, StreamOf(o), Listens(o), inbox[o] # <<>>,
         inbox'[o] = Tail(inbox[o]), remote'[o] = remote[o], srv'[o] = srv[o],
         inq' = inq, local'[o] = local[o], ~Listens(o)', ~Hears(o)',
         (o \in told)' => Head(inbox[o]).type = "end"
  PROVE  StreamOf(o)'
<1> DEFINE h == Head(inbox[o])
           t == Tail(inbox[o])
<1>1. /\ inbox[o] \in Seq(InFrames) /\ Len(local[o]) \in Nat /\ Len(remote[o]) \in Nat
      /\ Len(inbox[o]) \in Nat
  BY StreamTypes
<1>2. /\ Len(t) = Len(inbox[o]) - 1 /\ h = inbox[o][1] /\ h \in InFrames
      /\ 1 \in 1..Len(inbox[o])
      /\ \A k \in 1..Len(t) : t[k] = inbox[o][k + 1] /\ k + 1 \in 1..Len(inbox[o])
  BY <1>1, TailProp
<1>3. SilentOf(o)'
  BY DEF StreamOf, SilentOf
<1>4. \A f : Sound(o, f) => (Sound(o, f))'
  BY DEF Sound
<1>5. ChannelOf(o)'
  <2>1. \A k \in 1..Len(t) : Sound(o, t[k])
    BY <1>2 DEF StreamOf, ChannelOf
  <2>2. QED  BY <2>1, <1>4 DEF ChannelOf
<1>6. LineOf(o)'
  BY <1>4 DEF StreamOf, LineOf
<1>7. PrefixOf(o)'
  <2>1. CASE h.type = "end"
    <3>1. Shift(o) = 0 /\ h.type \notin Opening
      BY <2>1 DEF Shift, Opening
    <3>2. Sound(o, h) /\ Numbered(o, 1)
      BY <1>2 DEF StreamOf, ChannelOf
    <3>3. Place(Len(remote[o]))[h] = Len(local[o]) + 1 - 0
      BY <3>1, <3>2, <1>2 DEF Numbered
    <3>4. Place(Len(remote[o]))[h] = Len(remote[o]) + 1
      BY <2>1, <1>1, <1>2, PlaceType
    <3>5. srv[o] = "ended"
      BY <3>2, <2>1 DEF Sound
    <3>6. Len(local[o]) = Len(remote[o])
      BY <3>3, <3>4, <1>1
    <3>7. QED  BY <3>5, <3>6 DEF StreamOf, PrefixOf
  <2>2. CASE h.type # "end"
    BY <2>2 DEF StreamOf, PrefixOf
  <2>3. QED  BY <2>1, <2>2
<1>8. QED  BY <1>3, <1>5, <1>6, <1>7 DEF StreamOf

\* The reader hands the call its next frame.
LEMMA DeliverOne ==
  ASSUME TypeOK, NEW o \in Streams, StreamOf(o), Registered(o), Hears(o) => Listens(o),
         inq # <<>>, Head(inq).op = o, inq' = Tail(inq),
         inbox'[o] = Append(inbox[o], Head(inq)), local'[o] = local[o],
         remote'[o] = remote[o], srv'[o] = srv[o], link' = link, told' = told, phase' = phase
  PROVE  StreamOf(o)'
<1> DEFINE f == Head(inq)
           m == Len(inbox[o])
           num == Place(Len(remote[o]))
<1>1. /\ inbox[o] \in Seq(InFrames) /\ inq \in Seq(InFrames)
      /\ Len(local[o]) \in Nat /\ Len(remote[o]) \in Nat /\ m \in Nat
      /\ Shift(o) \in {0, 1} /\ Due(o) \in Int /\ num \in [InFrames -> Int]
  BY StreamTypes, PlaceType
<1>2. /\ Len(inq') = Len(inq) - 1 /\ f = inq[1] /\ f \in InFrames /\ 1 \in 1..Len(inq)
      /\ \A k \in 1..Len(inq') : inq'[k] = inq[k + 1] /\ k + 1 \in 1..Len(inq)
  BY <1>1, TailProp
<1>3. /\ Len(inbox'[o]) = m + 1 /\ inbox'[o][m + 1] = f
      /\ \A k \in 1..m : inbox'[o][k] = inbox[o][k]
  BY <1>1, <1>2, AppendProp
<1> HIDE DEF m, f, num
<1>0. m \in Int /\ Len(local[o]) \in Int /\ Shift(o) \in Int
  BY <1>1
<1>4. \A g : Sound(o, g) => (Sound(o, g))'
  BY DEF Sound
<1>5. Sound(o, f) /\ \A k \in 1..Len(inq') : inq'[k].op = o => (Sound(o, inq[k]))'
  <2>1. f.op = o
    BY DEF f
  <2>2. Sound(o, f)
    BY <1>2, <2>1 DEF StreamOf, LineOf
  <2>3. QED  BY <2>2, <1>2, <1>4 DEF StreamOf, LineOf
<1>6. SilentOf(o)'
  <2>1. f.op = o
    BY DEF f
  <2>2. srv[o] \notin {"idle", "receiving", "running"}
    BY <2>1, <1>2 DEF StreamOf, SilentOf
  <2>3. QED  BY <2>2 DEF SilentOf
<1>7. PrefixOf(o)'
  BY DEF StreamOf, PrefixOf
<1>8. Listens(o)' <=> Listens(o)
  BY DEF Listens
<1>9. \A k \in 1..Len(inbox'[o]) : (Sound(o, inbox[o][k]))'
  <2>1. \A k \in 1..m : Sound(o, inbox[o][k])
    BY DEF StreamOf, ChannelOf, m
  <2>2. QED  BY <2>1, <1>1, <1>3, <1>4, <1>5
<1>10. CASE ~Hears(o)
  <2>1. o \in told
    BY <1>10 DEF Hears
  <2>2. ~Listens(o)' /\ ~Hears(o)'
    BY <2>1 DEF Listens, Hears
  <2>3. ChannelOf(o)' /\ LineOf(o)'
    BY <2>2, <1>5, <1>9 DEF ChannelOf, LineOf
  <2>4. QED  BY <2>3, <1>6, <1>7 DEF StreamOf
<1>11. CASE Hears(o)
  <2>1. Goes(o) /\ Listens(o)
    BY <1>11 DEF StreamOf, LineOf
  <2>2. \A k \in 1..m : Numbered(o, k)
    BY <2>1 DEF StreamOf, ChannelOf, m
  <2>3. f.op = o /\ (f \in Content(o) <=> f.type \notin Opening)
    <3>1. f.op = o
      BY DEF f
    <3>2. QED  BY <3>1, <1>2, <1>5, FrameKinds DEF Sound
  <2>4. OpensFirst(inq', o) /\ \A k \in 1..Len(inq') : ~(inq'[k].op = o /\ inq'[k].type \in Opening)
    <3>1. \A k \in 1..Len(inq') : 1 \in 1..((k + 1) - 1)
      OBVIOUS
    <3>2. QED  BY <3>1, <1>2, <2>1, <2>3 DEF Goes, OpensFirst
  <2>5. CASE f.type \in Opening
    <3>1. inbox[o] = <<>> /\ m = 0 /\ Shift(o) = 0
      BY <2>1, <2>3, <2>5, <1>2 DEF Goes, m, Shift
    <3>2. inbox'[o] = <<f>>
      BY <3>1 DEF f
    <3>3. Shift(o)' = 1
      <4>1. inbox'[o] # <<>> /\ Head(inbox'[o]) = f
        BY <3>2
      <4>2. QED  BY <4>1, <2>5 DEF Shift
    <3>4. Due(o)' = Due(o)
      BY <3>1, <3>3, <1>1, <1>3 DEF Due, m
    <3>5. ChannelOf(o)'
      <4>1. \A k \in 1..Len(inbox'[o]) : k = 1 /\ inbox'[o][k] = f
        BY <3>1, <3>2
      <4>2. \A k \in 1..Len(inbox'[o]) : (Numbered(o, k))'
        BY <4>1, <2>5 DEF Numbered
      <4>3. QED  BY <4>2, <1>9 DEF ChannelOf
    <3>6. /\ InOrder(inq', Content(o), num, Due(o))
          /\ \A last \in Int : UpTo(inq, Content(o), num, Due(o), last)
                                 => UpTo(inq', Content(o), num, Due(o), last)
      <4>1. f \notin Content(o) /\ InOrder(inq, Content(o), num, Due(o))
        BY <2>1, <2>3, <2>5 DEF Goes, num
      <4>2. QED  BY <4>1, <1>1, TailOrder DEF f
    <3>7. Goes(o)'
      <4>1. link' = "up" => UpTo(inq', Content(o), num, Due(o), Len(remote[o]))
        BY <2>1, <3>6, <1>1 DEF Goes, num
      <4>2. QED  BY <4>1, <2>4, <3>4, <3>6 DEF Goes, num
    <3>8. LineOf(o)'
      BY <3>7, <1>5 DEF LineOf
    <3>9. QED  BY <3>5, <3>8, <1>6, <1>7 DEF StreamOf
  <2>6. CASE f.type \notin Opening
    <3>1. f \in Content(o) /\ InOrder(inq, Content(o), num, Due(o))
      BY <2>1, <2>3, <2>6 DEF Goes, num
    <3>2. num[f] = Due(o)
      BY <3>1, <1>1, HeadDue DEF f
    <3>3. /\ InOrder(inq', Content(o), num, Due(o) + 1)
          /\ \A last \in Int : UpTo(inq, Content(o), num, Due(o), last)
                                 => UpTo(inq', Content(o), num, Due(o) + 1, last)
      <4>1. Due(o) + 1 \in Int
        BY <1>1
      <4>2. Head(inq) \in Content(o)
        BY <3>1 DEF f
      <4>3. QED  BY <3>1, <4>1, <4>2, <1>1, TailOrder
    <3>4. Shift(o)' = Shift(o)
      <4>1. CASE inbox[o] = <<>>
        <5>1. inbox'[o] = <<f>>
          BY <4>1 DEF f
        <5>2. QED  BY <5>1, <4>1, <2>6 DEF Shift
      <4>2. CASE inbox[o] # <<>>
        <5>1. Head(inbox[o]) = inbox[o][1] /\ 1 \in 1..m
          BY <4>2, <1>1 DEF m
        <5>2. inbox'[o] # <<>> /\ Head(inbox'[o]) = inbox'[o][1]
          <6>1. inbox'[o] \in Seq(InFrames)
            BY <1>1, <1>2, AppendProp DEF f
          <6>2. Len(inbox'[o]) # 0
            BY <1>1, <1>3
          <6>3. inbox'[o] # <<>>
            BY <1>3, <1>0, <6>2
          <6>4. QED  BY <6>1, <6>3, TailProp
        <5>3. Head(inbox'[o]) = Head(inbox[o])
          BY <5>1, <5>2, <1>3
        <5>4. QED  BY <4>2, <5>2, <5>3 DEF Shift
      <4>3. QED  BY <4>1, <4>2
    <3>5. Due(o)' = Due(o) + 1
      <4>1. Due(o)' = Len(local[o]) + (m + 1) - Shift(o) + 1
        BY <3>4, <1>3 DEF Due
      <4>2. Due(o) = Len(local[o]) + m - Shift(o) + 1
        BY DEF Due, m
      <4>3. QED  BY <4>1, <4>2, <1>0
    <3>6. ChannelOf(o)'
      <4>1. ASSUME NEW k \in 1..Len(inbox'[o])
            PROVE  (Numbered(o, k))'
        <5>1. CASE k = m + 1
          <6>1. num[f] = Len(local[o]) + k - Shift(o)
            <7>1. Due(o) = Len(local[o]) + m - Shift(o) + 1
              BY DEF Due, m
            <7>2. QED  BY <5>1, <7>1, <3>2, <1>0
          <6>2. QED  BY <5>1, <6>1, <2>6, <3>4, <1>3 DEF Numbered, num
        <5>2. CASE k # m + 1
          <6>1. k \in 1..m
            BY <5>2, <1>1, <1>3
          <6>2. QED  BY <6>1, <2>2, <3>4, <1>3 DEF Numbered
        <5>3. QED  BY <5>1, <5>2
      <4>2. QED  BY <4>1, <1>9 DEF ChannelOf
    <3>7. Goes(o)'
      <4>1. link' = "up" => UpTo(inq', Content(o), num, Due(o) + 1, Len(remote[o]))
        BY <2>1, <3>3, <1>1 DEF Goes, num
      <4>2. QED  BY <4>1, <2>4, <3>3, <3>5 DEF Goes, num
    <3>8. LineOf(o)'
      BY <3>7, <1>5 DEF LineOf
    <3>9. QED  BY <3>6, <3>8, <1>6, <1>7 DEF StreamOf
  <2>7. QED  BY <2>5, <2>6
<1>12. QED  BY <1>10, <1>11

\* The Agent's first answer.
LEMMA SendOpening ==
  ASSUME TypeOK, NEW o \in Streams, StreamOf(o), srv[o] \in {"receiving", "running"},
         NEW f \in InFrames, f.op = o, f.type \in Opening, inq' = Append(inq, f),
         inbox'[o] = inbox[o], local'[o] = local[o], remote'[o] = remote[o],
         srv'[o] \in {"streaming", "ended"}, told' = told
  PROVE  StreamOf(o)'
<1>1. /\ inbox[o] = <<>> /\ local[o] = <<>> /\ remote[o] = <<>> /\ o \notin told
      /\ \A k \in 1..Len(inq) : inq[k].op # o
  BY DEF StreamOf, SilentOf, PrefixOf
<1>2. inq \in Seq(InFrames) /\ Len(inq) \in Nat
  BY StreamTypes
<1>3. /\ Len(inq') = Len(inq) + 1 /\ inq'[Len(inq) + 1] = f
      /\ \A k \in 1..Len(inq) : inq'[k] = inq[k]
  BY <1>2, AppendProp
<1>4. \A k \in 1..Len(inq') : inq'[k].op = o => k = Len(inq) + 1 /\ inq'[k] = f
  BY <1>1, <1>2, <1>3
<1>5. f.type # "bad" /\ f.type # "data" /\ f.type # "end"
  BY DEF Opening
<1>6. \A k \in 1..Len(inq') : inq'[k] \notin Content(o)
  BY <1>4, <1>5 DEF Content
<1>7. Due(o)' = 1 /\ Len(inbox'[o]) = 0 /\ Len(local'[o]) = 0 /\ Len(remote'[o]) = 0
  <2>1. Shift(o)' = 0
    BY <1>1 DEF Shift
  <2>2. Len(inbox'[o]) = 0 /\ Len(local'[o]) = 0 /\ Len(remote'[o]) = 0
    BY <1>1
  <2>3. QED  BY <2>1, <2>2 DEF Due
<1>8. SilentOf(o)' /\ ChannelOf(o)' /\ PrefixOf(o)'
  BY <1>1, <1>7 DEF SilentOf, ChannelOf, PrefixOf
<1>9. Goes(o)'
  <2>1. InOrder(inq', Content(o), (Place(Len(remote[o])))', Due(o)')
    BY <1>6 DEF InOrder
  <2>2. UpTo(inq', Content(o), (Place(Len(remote[o])))', Due(o)', Len(remote'[o]))
    BY <1>7 DEF UpTo
  <2>3. OpensFirst(inq', o)
    <3>1. ASSUME NEW k \in 1..Len(inq'), inq'[k].op = o, NEW j \in 1..(k - 1)
          PROVE  inq'[j].op # o
      <4>1. k = Len(inq) + 1 /\ j \in 1..Len(inq)
        BY <3>1, <1>2, <1>4
      <4>2. QED  BY <4>1, <1>1, <1>3
    <3>2. QED  BY <3>1 DEF OpensFirst
  <2>4. QED  BY <2>1, <2>2, <2>3, <1>1 DEF Goes
<1>10. LineOf(o)'
  <2>1. (Sound(o, f))'
    BY <1>5 DEF Sound
  <2>2. \A k \in 1..Len(inq') : inq'[k].op = o => (Sound(o, inq[k]))'
    BY <2>1, <1>4 DEF Sound
  <2>3. QED  BY <2>2, <1>9 DEF LineOf
<1>11. QED  BY <1>8, <1>10 DEF StreamOf

\* The next place to be delivered is at most the one behind the Agent's last chunk.
LEMMA DueBound ==
  ASSUME TypeOK, NEW o \in Streams, StreamOf(o), Listens(o), srv[o] # "ended"
  PROVE  Due(o) <= Len(remote[o]) + 1
<1> DEFINE m == Len(inbox[o])
<1>1. inbox[o] \in Seq(InFrames) /\ Len(remote[o]) \in Nat
  BY StreamTypes
<1>2. m \in Nat /\ Len(local[o]) \in Int /\ Len(remote[o]) \in Int /\ Shift(o) \in Int
  BY StreamTypes
<1>3. Len(local[o]) <= Len(remote[o])
  BY DEF StreamOf, PrefixOf
<1>4. Due(o) = Len(local[o]) + m - Shift(o) + 1
  BY DEF Due
<1>5. CASE m = 0
  <2>1. Shift(o) = 0
    BY <1>1, <1>5 DEF Shift
  <2>2. QED  BY <2>1, <1>2, <1>3, <1>4, <1>5
<1>6. CASE m # 0
  <2>1. m \in 1..Len(inbox[o]) /\ inbox[o][m] \in InFrames
    BY <1>1, <1>2, <1>6
  <2>2. Sound(o, inbox[o][m]) /\ Numbered(o, m)
    BY <2>1 DEF StreamOf, ChannelOf
  <2>3. CASE inbox[o][m].type \in Opening
    <3>1. m = 1 /\ Head(inbox[o]) = inbox[o][1]
      BY <2>2, <2>3, <1>1 DEF Numbered
    <3>2. Shift(o) = 1
      BY <3>1, <2>3, <1>6 DEF Shift
    <3>3. QED  BY <3>1, <3>2, <1>2, <1>3, <1>4
  <2>4. CASE inbox[o][m].type \notin Opening
    <3>1. Place(Len(remote[o]))[inbox[o][m]] = Len(local[o]) + m - Shift(o)
      BY <2>2, <2>4 DEF Numbered
    <3>2. inbox[o][m].type = "data" /\ inbox[o][m].n <= Len(remote[o])
      BY <2>1, <2>2, <2>4 DEF Sound, InFrames, Opening
    <3>3. Place(Len(remote[o]))[inbox[o][m]] = inbox[o][m].n
      BY <3>2, <2>1, <1>1, PlaceType
    <3>4. QED  BY <3>1, <3>2, <3>3, <1>2, <1>4
  <2>5. QED  BY <2>3, <2>4
<1>7. QED  BY <1>5, <1>6

\* The Agent's next chunk, or its end.
LEMMA SendContentFrame ==
  ASSUME TypeOK, NEW o \in Streams, StreamOf(o), srv[o] = "streaming", link = "up",
         Hears(o) => Listens(o),
         NEW f \in InFrames, f.op = o, inq' = Append(inq, f),
         inbox'[o] = inbox[o], local'[o] = local[o], told' = told, phase' = phase,
         pending' = pending,
         \/ /\ f.type = "data" /\ f.n = Len(remote[o]) + 1 /\ srv'[o] = srv[o]
            /\ remote'[o] = Append(remote[o], Len(remote[o]) + 1)
         \/ f.type = "end" /\ srv'[o] = "ended" /\ remote'[o] = remote[o]
  PROVE  StreamOf(o)'
<1> DEFINE r == Len(remote[o])
           s == Len(remote'[o])
<1>1. /\ inbox[o] \in Seq(InFrames) /\ inq \in Seq(InFrames) /\ remote[o] \in Seq(Nat)
      /\ r \in Nat /\ Due(o) \in Int /\ Len(inq) \in Nat
  BY StreamTypes
<1>2. s \in Nat /\ r <= s /\ s <= r + 1 /\ (f.type = "data" => s = r + 1)
      /\ (f.type = "end" => s = r)
  BY <1>1
<1>3. f.type \in {"data", "end"} /\ f \in Content(o)
  BY DEF Content
<1>4. /\ Len(inq') = Len(inq) + 1 /\ inq'[Len(inq) + 1] = f
      /\ \A k \in 1..Len(inq) : inq'[k] = inq[k]
  BY <1>1, AppendProp
<1>5. o \notin told
  BY DEF StreamOf, PrefixOf
<1>6. \A g \in InFrames : Sound(o, g) => g.type # "end" /\ (Sound(o, g))'
  <2>1. ASSUME NEW g \in InFrames, Sound(o, g)
        PROVE  g.type # "end" /\ (Sound(o, g))'
    <3>1. g.type # "end" /\ g.type # "bad" /\ (g.type = "data" => g.n <= r) /\ g.n \in Int
      BY <2>1 DEF Sound, InFrames
    <3>2. g.type = "data" => g.n <= s
      BY <3>1, <1>2
    <3>3. QED  BY <3>1, <3>2 DEF Sound
  <2>2. QED  BY <2>1
<1>7. (Sound(o, f))' /\ Place(s)[f] = r + 1
  <2>1. CASE f.type = "data"
    BY <2>1, <1>1, <1>2, PlaceType DEF Sound
  <2>2. CASE f.type = "end"
    BY <2>2, <1>1, <1>2, PlaceType DEF Sound
  <2>3. QED  BY <1>3, <2>1, <2>2
<1>8. \A g \in InFrames : Sound(o, g) /\ g.type \notin Opening =>
        Place(s)[g] = Place(r)[g] /\ Place(r)[g] <= r
  <2>1. ASSUME NEW g \in InFrames, Sound(o, g), g.type \notin Opening
        PROVE  Place(s)[g] = Place(r)[g] /\ Place(r)[g] <= r
    <3>1. g.type = "data" /\ g.n <= r
      BY <2>1, <1>6 DEF Sound, InFrames, Opening
    <3>2. Place(s)[g] = g.n /\ Place(r)[g] = g.n
      BY <3>1, <1>1, <1>2, PlaceType
    <3>3. QED  BY <3>1, <3>2
  <2>2. QED  BY <2>1
<1>9. SilentOf(o)'
  BY DEF SilentOf
<1>10. PrefixOf(o)'
  <2>1. Len(local[o]) <= r /\ Len(local[o]) \in Int
    BY StreamTypes DEF StreamOf, PrefixOf
  <2>2. Len(local'[o]) <= s
    BY <2>1, <1>1, <1>2
  <2>3. QED  BY <2>2, <1>5 DEF StreamOf, PrefixOf
<1>11. Due(o)' = Due(o) /\ Shift(o)' = Shift(o) /\ (Listens(o)' <=> Listens(o))
       /\ (Hears(o)' <=> Hears(o))
  BY DEF Due, Shift, Listens, Hears, Registered
<1>12. ChannelOf(o)'
  <2> SUFFICES ASSUME NEW k \in 1..Len(inbox[o])
               PROVE  (Sound(o, inbox[o][k]))' /\ (Listens(o)' => (Numbered(o, k))')
    BY DEF ChannelOf
  <2>1. inbox[o][k] \in InFrames /\ Sound(o, inbox[o][k])
    BY <1>1 DEF StreamOf, ChannelOf
  <2>2. (Sound(o, inbox[o][k]))'
    <3>1. PICK g \in InFrames : g = inbox[o][k]
      BY <2>1
    <3>2. (Sound(o, g))'
      BY <3>1, <2>1, <1>6
    <3>3. QED  BY <3>1, <3>2 DEF Sound
  <2>3. Listens(o)' => (Numbered(o, k))'
    <3>1. Listens(o)' => Numbered(o, k)
      BY <1>11 DEF StreamOf, ChannelOf
    <3>2. inbox[o][k].type \notin Opening => Place(s)[inbox[o][k]] = Place(r)[inbox[o][k]]
      BY <2>1, <1>8
    <3>3. QED  BY <3>1, <3>2, <1>11 DEF Numbered
  <2>4. QED  BY <2>2, <2>3
<1>13. \A k \in 1..Len(inq') : inq'[k].op = o => (Sound(o, inq[k]))'
  <2> SUFFICES ASSUME NEW k \in 1..Len(inq'), inq'[k].op = o
               PROVE  (Sound(o, inq[k]))'
    OBVIOUS
  <2>1. CASE k = Len(inq) + 1
    BY <2>1, <1>4, <1>7 DEF Sound
  <2>2. CASE k # Len(inq) + 1
    <3>1. k \in 1..Len(inq) /\ inq'[k] = inq[k]
      BY <2>2, <1>1, <1>4
    <3>2. inq[k] \in InFrames /\ Sound(o, inq[k])
      BY <3>1, <1>1 DEF StreamOf, LineOf
    <3>3. PICK g \in InFrames : g = inq[k]
      BY <3>2
    <3>4. (Sound(o, g))'
      BY <3>2, <3>3, <1>6
    <3>5. QED  BY <3>1, <3>3, <3>4 DEF Sound
  <2>3. QED  BY <2>1, <2>2
<1>14. ASSUME Hears(o)'
       PROVE  Goes(o)'
  <2>1. Goes(o) /\ Listens(o)
    BY <1>11, <1>14 DEF StreamOf, LineOf
  <2>2. ASSUME NEW k \in 1..Len(inq), inq[k] \in Content(o)
        PROVE  Place(s)[inq[k]] = Place(r)[inq[k]] /\ Place(s)[inq[k]] <= r
    <3>1. inq[k] \in InFrames /\ Sound(o, inq[k]) /\ inq[k].type \notin Opening
      BY <2>2, <1>1 DEF StreamOf, LineOf, Content, Opening
    <3>2. QED  BY <3>1, <1>8
  <2>3. /\ InOrder(inq, Content(o), Place(s), Due(o))
        /\ UpTo(inq, Content(o), Place(s), Due(o), r)
    <3>1. /\ InOrder(inq, Content(o), Place(r), Due(o))
          /\ UpTo(inq, Content(o), Place(r), Due(o), r)
      BY <2>1 DEF Goes
    <3>2. r \in Int /\ inq \in Seq(InFrames) /\ Due(o) \in Int
      BY <1>1
    <3>3. QED  BY <3>1, <3>2, <2>2, SameNumbers
  <2>4. Due(o) <= r + 1
    <3>1. srv[o] # "ended"
      OBVIOUS
    <3>2. QED  BY <2>1, <3>1, DueBound
  <2>5. /\ InOrder(inq', Content(o), Place(s), Due(o))
        /\ UpTo(inq', Content(o), Place(s), Due(o), r + 1)
    <3>1. Place(s) \in [InFrames -> Int] /\ r \in Int
      BY <1>1, <1>2, PlaceType
    <3>2. \A k \in 1..Len(inq) : inq[k] \in Content(o) => Place(s)[inq[k]] <= r
      BY <2>2
    <3>3. Due(o) \in Int /\ inq \in Seq(InFrames)
      BY <1>1
    <3>4. /\ InOrder(Append(inq, f), Content(o), Place(s), Due(o))
          /\ UpTo(Append(inq, f), Content(o), Place(s), Due(o), r + 1)
      BY <3>1, <3>2, <3>3, <2>3, <2>4, <1>3, <1>7, AppendNext
    <3>5. QED  BY <3>4
  <2>6. UpTo(inq', Content(o), Place(s), Due(o), s)
    <3>1. \A i \in Due(o)..s : i \in Due(o)..(r + 1)
      BY <1>1, <1>2
    <3>2. QED  BY <3>1, <2>5 DEF UpTo
  <2>7. \A k \in 1..Len(inq') : inq'[k].op = o /\ inq'[k].type \in Opening =>
          k \in 1..Len(inq) /\ inq'[k] = inq[k]
    BY <1>1, <1>3, <1>4 DEF Opening
  <2>8. OpensFirst(inq', o)
    <3>1. ASSUME NEW k \in 1..Len(inq'), inq'[k].op = o, inq'[k].type \in Opening,
                 NEW j \in 1..(k - 1)
          PROVE  inq'[j].op # o
      <4>1. k \in 1..Len(inq) /\ inq'[k] = inq[k] /\ j \in 1..Len(inq)
        BY <3>1, <2>7, <1>1
      <4>2. inq[j].op # o
        BY <4>1, <3>1, <2>1 DEF Goes, OpensFirst
      <4>3. QED  BY <4>1, <4>2, <1>4
    <3>2. QED  BY <3>1 DEF OpensFirst
  <2>9. \A k \in 1..Len(inq') : inq'[k].op = o /\ inq'[k].type \in Opening => inbox'[o] = <<>>
    BY <2>1, <2>7 DEF Goes
  <2>10. QED  BY <2>5, <2>6, <2>8, <2>9, <1>11 DEF Goes
<1>15. LineOf(o)'
  BY <1>13, <1>14 DEF LineOf
<1>16. QED  BY <1>9, <1>10, <1>12, <1>15 DEF StreamOf

\* A call registers before anything of it is on the way.
LEMMA BeginStream ==
  ASSUME TypeOK, NEW o \in Streams, StreamOf(o), srv[o] = "idle",
         inbox' = inbox, local' = local, remote' = remote, srv' = srv, inq' = inq, told' = told
  PROVE  StreamOf(o)'
<1>1. /\ inbox[o] = <<>> /\ local[o] = <<>> /\ remote[o] = <<>> /\ o \notin told
      /\ \A k \in 1..Len(inq) : inq[k].op # o
  BY DEF StreamOf, SilentOf, PrefixOf
<1>2. Len(inbox[o]) = 0 /\ Len(local[o]) = 0 /\ Len(remote[o]) = 0
  BY <1>1
<1>3. Due(o)' = 1
  <2>1. Shift(o)' = 0
    BY <1>1 DEF Shift
  <2>2. QED  BY <2>1, <1>2 DEF Due
<1>4. Goes(o)'
  BY <1>1, <1>2, <1>3 DEF Goes, InOrder, UpTo, OpensFirst, Content
<1>5. SilentOf(o)' /\ ChannelOf(o)' /\ PrefixOf(o)' /\ LineOf(o)'
  BY <1>1, <1>2, <1>4 DEF SilentOf, ChannelOf, PrefixOf, LineOf
<1>6. QED  BY <1>5 DEF StreamOf

\* What the steps of a stream rest on.
LEMMA OrderGives ==
  ASSUME OrderInv, NEW o \in Streams
  PROVE  /\ TypeOK /\ StreamOf(o) /\ o \in Ops /\ PendingRouted /\ IdsAssigned /\ InRouted
         /\ Hears(o) => Listens(o)
<1>1. o \in Ops
  BY DEF Streams, Ops
<1>2. TypeOK /\ PendingRouted /\ IdsAssigned /\ InRouted /\ NoStaleRegistration
  BY DEF OrderInv, IInv, RoutingInv
<1>3. StreamOf(o)
  BY DEF OrderInv
<1>4. Hears(o) => Listens(o)
  BY <1>1, <1>2, RegisteredPhase DEF Hears, Listens, Terminal
<1>5. QED  BY <1>1, <1>2, <1>3, <1>4

\* A stream is neither a request nor a write.
LEMMA StreamsApart ==
  /\ \A o \in Streams : o \notin Oneshot /\ o \notin Writes
  /\ Streams \subseteq Ops /\ Writes \subseteq Ops /\ Oneshot \subseteq Ops
  BY DEF Streams, Oneshot, Ops

\* A step that leaves the stream's channel, the way from the Agent and the Agent alone.
LEMMA StreamUntouched ==
  ASSUME OrderInv, NEW o \in Streams,
         inbox'[o] = inbox[o], local'[o] = local[o], remote' = remote, srv' = srv,
         inq' = inq, link' = link, (o \in told)' <=> o \in told,
         Registered(o)' => Registered(o), Listens(o)' => Listens(o)
  PROVE  StreamOf(o)'
  BY OrderGives, StreamStays DEF Elsewhere

LEMMA UnregisterKeeps ==
  ASSUME NEW i, NEW o, o # NoOp, TypeOK, Unregister(i) \/ UNCHANGED pending
  PROVE  Registered(o)' => Registered(o)
  BY DEF Unregister, Registered, TypeOK

LEMMA BeginOrder ==
  ASSUME OrderInv, NEW p \in Ops, Begin(p), NEW o \in Streams
  PROVE  StreamOf(o)'
<1> USE OrderGives DEF Begin, Become
<1>1. CASE p = o
  <2>1. srv[o] = "idle"
    BY <1>1 DEF OrderInv, AskedOf
  <2>2. QED  BY <2>1, BeginStream
<1>2. CASE p # o
  <2>1. Registered(o)' => Registered(o)
    BY <1>2 DEF Registered, TypeOK
  <2>2. Listens(o)' => Listens(o)
    BY <1>2 DEF Listens, TypeOK
  <2>3. QED  BY <2>1, <2>2, StreamUntouched
<1>3. QED  BY <1>1, <1>2

LEMMA SendOrder ==
  ASSUME OrderInv, NEW p \in Ops, SendControl(p) \/ SendContent(p) \/ TimeOut(p) \/ Answered(p),
         NEW o \in Streams
  PROVE  StreamOf(o)'
<1>1. TypeOK /\ o \in Ops /\ o # NoOp
  BY OrderGives
<1>2. Registered(o)' => Registered(o)
  <2>1. Unregister(id[p]) \/ UNCHANGED pending
    BY DEF SendControl, SendContent, TimeOut, Answered
  <2>2. QED  BY <1>1, <2>1, UnregisterKeeps
<1>3. inbox'[o] = inbox[o] /\ local'[o] = local[o]
  BY <1>1, StreamsApart DEF SendControl, SendContent, TimeOut, Answered, TypeOK
<1>4. phase'[o] = phase[o] \/ phase'[o] = "error" \/ phase[o] = "registered"
  <2>1. CASE p = o
    BY <2>1, <1>1, StreamsApart DEF SendControl, SendContent, TimeOut, Answered, Become, TypeOK
  <2>2. CASE p # o
    BY <2>2, <1>1 DEF SendControl, SendContent, TimeOut, Answered, Become, TypeOK
  <2>3. QED  BY <2>1, <2>2
<1>5. told' = told /\ remote' = remote /\ srv' = srv /\ inq' = inq /\ link' = link
  BY DEF SendControl, SendContent, TimeOut, Answered
<1>6. Listens(o)' => Listens(o)
  BY <1>4, <1>5 DEF Listens
<1>7. QED  BY <1>2, <1>3, <1>5, <1>6, StreamUntouched

LEMMA ReadStepOrder ==
  ASSUME OrderInv, NEW p \in Ops, ReadStep(p), NEW o \in Streams
  PROVE  StreamOf(o)'
<1>1. TypeOK /\ o \in Ops /\ StreamOf(o) /\ EndUnregisters
  BY OrderGives DEF OrderInv, IInv
<1>2. /\ Registered(o)' <=> Registered(o)
      /\ told' = told /\ remote' = remote /\ srv' = srv /\ inq' = inq /\ link' = link
  BY DEF ReadStep, Registered
<1>3. CASE p # o
  <2>1. inbox'[o] = inbox[o] /\ local'[o] = local[o] /\ phase'[o] = phase[o]
    BY <1>1, <1>3 DEF ReadStep, Become, TypeOK
  <2>2. QED  BY <2>1, <1>2, StreamUntouched DEF Listens
<1>4. CASE p = o /\ inbox[o] = <<>>
  <2>1. inbox'[o] = inbox[o] /\ local'[o] = local[o] /\ phase[o] = "waiting"
    BY <1>4 DEF ReadStep
  <2>2. Listens(o)' => Listens(o)
    BY <2>1, <1>2 DEF Listens
  <2>3. QED  BY <2>1, <2>2, <1>2, StreamUntouched
<1>5. CASE p = o /\ inbox[o] # <<>>
  <2> DEFINE h == Head(inbox[o])
  <2>1. /\ o \in Reads /\ phase[o] = "waiting" /\ inbox'[o] = Tail(inbox[o])
        /\ local'[o] = IF h.type = "data" THEN Append(local[o], h.n) ELSE local[o]
        /\ phase'[o] = CASE h.type \in {"ok", "error"} -> "error"
                         [] h.type = "end"             -> "ok"
                         [] OTHER                      -> phase[o]
    BY <1>1, <1>5 DEF ReadStep, TypeOK, Disconnected
  <2>2. o \notin told
    BY <2>1, <1>1, StreamsApart DEF TypeOK, Streams
  <2>3. Listens(o)
    BY <2>1, <2>2 DEF Listens
  <2>4. CASE h.type = "end"
    <3>1. ~Listens(o)'
      BY <2>1, <2>4 DEF Listens
    <3>2. ~Registered(o)
      <4>1. inbox[o] \in Seq(InFrames)
        BY <1>1 DEF TypeOK
      <4>2. h = inbox[o][1] /\ 1 \in 1..Len(inbox[o])
        BY <1>5, <4>1, TailProp
      <4>3. QED  BY <2>1, <2>4, <4>2, <1>1 DEF EndUnregisters
    <3>3. ~Hears(o)'
      BY <3>2, <1>2 DEF Hears
    <3>4. local'[o] = local[o]
      BY <2>1, <2>4
    <3>5. QED  BY <1>1, <1>2, <1>5, <2>1, <2>2, <2>3, <3>1, <3>3, <3>4, ConsumeLast
  <2>5. CASE h.type # "end"
    BY <1>1, <1>2, <1>5, <2>1, <2>3, <2>5, ConsumeOne
  <2>6. QED  BY <2>4, <2>5
<1>6. QED  BY <1>3, <1>4, <1>5

LEMMA OpenShellOrder ==
  ASSUME OrderInv, NEW p \in Ops, OpenShell(p), NEW o \in Streams
  PROVE  StreamOf(o)'
<1>1. TypeOK /\ o \in Ops /\ o # NoOp /\ StreamOf(o) /\ PendingRouted /\ IdsAssigned
  BY OrderGives
<1>2. told' = told /\ remote' = remote /\ srv' = srv /\ inq' = inq /\ link' = link
      /\ local' = local /\ phase[p] = "waiting"
  BY DEF OpenShell
<1>3. Registered(o)' => Registered(o)
  <2>1. Unregister(id[p]) \/ UNCHANGED pending
    BY DEF OpenShell
  <2>2. QED  BY <1>1, <2>1, UnregisterKeeps
<1>4. CASE p # o
  <2>1. inbox'[o] = inbox[o] /\ phase'[o] = phase[o]
    BY <1>1, <1>4 DEF OpenShell, Become, TypeOK
  <2>2. QED  BY <2>1, <1>2, <1>3, StreamUntouched DEF Listens
<1>5. CASE p = o /\ inbox[o] = <<>>
  <2>1. inbox'[o] = inbox[o]
    BY <1>5 DEF OpenShell
  <2>2. Listens(o)' => Listens(o)
    BY <1>2, <1>5 DEF Listens
  <2>3. QED  BY <2>1, <2>2, <1>2, <1>3, StreamUntouched
<1>6. CASE p = o /\ inbox[o] # <<>>
  <2> DEFINE h == Head(inbox[o])
  <2>1. inbox'[o] = Tail(inbox[o])
    BY <1>1, <1>6 DEF OpenShell, TypeOK, Disconnected
  <2>2. h.type # "ok" => phase'[o] = "error" /\ Unregister(id[o])
    BY <1>1, <1>6 DEF OpenShell, TypeOK, Disconnected, Become
  <2>3. CASE o \in told
    <3>1. srv[o] = "ended" /\ Len(local[o]) = Len(remote[o])
      BY <2>3, <1>1 DEF StreamOf, PrefixOf
    <3>2. ~Listens(o) /\ ~Listens(o)' /\ ~Hears(o)'
      BY <2>3, <1>2 DEF Listens, Hears
    <3>3. inbox[o] \in Seq(InFrames)
      BY <1>1 DEF TypeOK
    <3>4. \A k \in 1..Len(inbox'[o]) : (Sound(o, inbox[o][k]))'
      <4>1. \A k \in 1..Len(Tail(inbox[o])) : /\ Tail(inbox[o])[k] = inbox[o][k + 1]
                                              /\ k + 1 \in 1..Len(inbox[o])
        BY <3>3, <1>6, TailProp
      <4>2. QED  BY <4>1, <2>1, <1>1, <1>2 DEF StreamOf, ChannelOf, Sound
    <3>5. SilentOf(o)' /\ ChannelOf(o)' /\ PrefixOf(o)'
      BY <3>1, <3>2, <3>4, <1>1, <1>2 DEF SilentOf, ChannelOf, StreamOf, PrefixOf
    <3>6. LineOf(o)'
      BY <3>2, <1>1, <1>2 DEF StreamOf, LineOf, Sound
    <3>7. QED  BY <3>5, <3>6 DEF StreamOf
  <2>4. CASE o \notin told /\ h.type = "ok"
    <3>1. Listens(o)
      BY <2>4, <1>2, <1>6 DEF Listens
    <3>2. QED  BY <3>1, <2>1, <2>4, <1>1, <1>2, <1>3, <1>6, ConsumeOne
  <2>5. CASE o \notin told /\ h.type # "ok"
    <3>1. Listens(o) /\ ~Listens(o)'
      BY <2>2, <2>5, <1>2, <1>6 DEF Listens
    <3>2. ~Hears(o)'
      <4>1. id[o] \in Ids
        BY <1>1, <1>2, <1>6, BegunHasId
      <4>2. ~Registered(o)'
        BY <4>1, <2>2, <2>5, <1>1, UnregisteredProp
      <4>3. QED  BY <4>2 DEF Hears
    <3>3. QED  BY <3>1, <3>2, <2>1, <2>5, <1>1, <1>2, <1>6, ConsumeLast
  <2>6. QED  BY <2>3, <2>4, <2>5
<1>7. QED  BY <1>4, <1>5, <1>6

LEMMA ShellTaskOrder ==
  ASSUME OrderInv, NEW p \in Ops, ShellTask(p), NEW o \in Streams
  PROVE  StreamOf(o)'
<1>1. TypeOK /\ o \in Ops /\ StreamOf(o)
  BY OrderGives
<1>2. /\ Registered(o)' <=> Registered(o)
      /\ phase' = phase /\ remote' = remote /\ srv' = srv /\ inq' = inq /\ link' = link
  BY DEF ShellTask, Registered
<1>3. CASE p # o
  <2>1. inbox'[o] = inbox[o] /\ local'[o] = local[o] /\ ((o \in told)' <=> o \in told)
    BY <1>1, <1>3 DEF ShellTask, TypeOK
  <2>2. QED  BY <2>1, <1>2, StreamUntouched DEF Listens
<1>4. CASE p = o
  <2> DEFINE h == Head(inbox[o])
  <2>1. /\ phase[o] \in {"open", "closed"} /\ o \notin told /\ inbox[o] # <<>>
        /\ inbox'[o] = Tail(inbox[o])
        /\ local'[o] = IF h.type = "data" THEN Append(local[o], h.n) ELSE local[o]
        /\ told' = IF h.type = "end" THEN told \cup {o} ELSE told
    BY <1>1, <1>4 DEF ShellTask, TypeOK
  <2>2. Listens(o)
    BY <2>1 DEF Listens
  <2>3. CASE h.type = "end"
    <3>1. ~Listens(o)' /\ ~Hears(o)'
      BY <2>1, <2>3 DEF Listens, Hears
    <3>2. local'[o] = local[o]
      BY <2>1, <2>3
    <3>3. QED  BY <1>1, <1>2, <2>1, <2>2, <2>3, <3>1, <3>2, ConsumeLast
  <2>4. CASE h.type # "end"
    BY <1>1, <1>2, <2>1, <2>2, <2>4, ConsumeOne
  <2>5. QED  BY <2>3, <2>4
<1>5. QED  BY <1>3, <1>4

LEMMA ShellUseOrder ==
  ASSUME OrderInv, NEW p \in Ops, UseShell(p) \/ CloseShell(p), NEW o \in Streams
  PROVE  StreamOf(o)'
<1>1. TypeOK /\ o \in Ops /\ o # NoOp
  BY OrderGives
<1>2. Registered(o)' => Registered(o)
  <2>1. Unregister(id[p]) \/ UNCHANGED pending
    BY DEF UseShell, CloseShell
  <2>2. QED  BY <1>1, <2>1, UnregisterKeeps
<1>3. inbox' = inbox /\ local' = local /\ told' = told /\ remote' = remote /\ srv' = srv
      /\ inq' = inq /\ link' = link
  BY DEF UseShell, CloseShell, callVars, agentVars
<1>4. phase'[o] = phase[o] \/ phase[o] = "open"
  BY <1>1 DEF UseShell, CloseShell, Become, callVars, TypeOK
<1>5. Listens(o)' => Listens(o)
  BY <1>3, <1>4 DEF Listens
<1>6. QED  BY <1>2, <1>3, <1>5, StreamUntouched

LEMMA AgentAnswerOrder ==
  ASSUME OrderInv, NEW p \in Ops, AgentAnswer(p), NEW o \in Streams
  PROVE  StreamOf(o)'
<1>1. TypeOK /\ o \in Ops /\ StreamOf(o)
  BY OrderGives
<1>2. /\ inbox' = inbox /\ local' = local /\ told' = told /\ remote' = remote /\ link' = link
      /\ phase' = phase /\ pending' = pending
  BY DEF AgentAnswer, callVars
<1>3. PICK t \in {"meta", "ok", "error", "bad"} : AgentSend(p, t, 0)
  BY DEF AgentAnswer
<1> DEFINE f == [id |-> id[p], op |-> p, type |-> t, n |-> 0]
<1>4. f \in InFrames /\ inq' = Append(inq, f)
  <2>1. id[p] \in Ids
    BY <1>1 DEF AgentAnswer, OrderInv, IInv, RoutingInv, SrvBegan, TypeOK, Ids
  <2>2. QED  BY <2>1, <1>3 DEF InFrames, AgentSend
<1>5. CASE p = o
  <2>1. srv[o] \in {"receiving", "running"} /\ srv'[o] \in {"streaming", "ended"}
    BY <1>1, <1>5 DEF AgentAnswer, AgentSets, TypeOK
  <2>2. f.type \in Opening /\ f.op = o
    <3>1. t # "bad"
      <4>1. \E u \in {"meta", "ok", "error"} : AgentSend(o, u, 0)
        BY <1>5, StreamsApart DEF AgentAnswer
      <4>2. PICK u \in {"meta", "ok", "error"} : AgentSend(o, u, 0)
        BY <4>1
      <4>3. Append(inq, [id |-> id[o], op |-> o, type |-> u, n |-> 0]) = Append(inq, f)
        BY <4>2, <1>4 DEF AgentSend
      <4>4. [id |-> id[o], op |-> o, type |-> u, n |-> 0] = f
        <5>1. inq \in Seq(InFrames)
          BY <1>1 DEF TypeOK
        <5>2. QED  BY <4>3, <5>1
      <4>5. QED  BY <4>4
    <3>2. QED  BY <3>1, <1>5 DEF Opening
  <2>3. QED  BY <1>1, <1>2, <1>4, <2>1, <2>2, SendOpening
<1>6. CASE p # o
  <2>1. f.op # o
    BY <1>6
  <2>2. Elsewhere(inq, inq', o)
    BY <2>1, <1>4 DEF Elsewhere
  <2>3. srv'[o] = srv[o]
    BY <1>1, <1>6 DEF AgentAnswer, AgentSets, TypeOK
  <2>4. QED  BY <1>1, <1>2, <2>2, <2>3, StreamStays DEF Registered, Listens
<1>7. QED  BY <1>5, <1>6

LEMMA AgentStreamOrder ==
  ASSUME OrderInv, NEW p \in Ops, AgentStream(p), NEW o \in Streams
  PROVE  StreamOf(o)'
<1>1. TypeOK /\ o \in Ops /\ StreamOf(o) /\ (Hears(o) => Listens(o))
  BY OrderGives
<1>2. /\ inbox' = inbox /\ local' = local /\ told' = told /\ link' = link /\ link = "up"
      /\ phase' = phase /\ pending' = pending /\ srv[p] = "streaming"
  BY DEF AgentStream, callVars
<1>3. id[p] \in Ids /\ Len(remote[p]) \in Nat
  BY <1>1, <1>2 DEF OrderInv, IInv, RoutingInv, SrvBegan, TypeOK, Ids
<1>4. PICK t \in {"data", "end"}, n \in 0..Chunks :
        /\ AgentSend(p, t, n)
        /\ \/ /\ t = "data" /\ n = Len(remote[p]) + 1 /\ srv' = srv
              /\ remote' = [remote EXCEPT ![p] = Append(@, Len(@) + 1)]
           \/ t = "end" /\ AgentSets(p, "ended") /\ remote' = remote
  <2>1. CASE /\ Len(remote[p]) < Chunks /\ AgentSend(p, "data", Len(remote[p]) + 1)
             /\ srv' = srv /\ remote' = [remote EXCEPT ![p] = Append(@, Len(@) + 1)]
    <3>1. Len(remote[p]) + 1 \in 0..Chunks
      BY <2>1, <1>3
    <3>2. QED  BY <2>1, <3>1
  <2>2. CASE AgentSend(p, "end", 0) /\ AgentSets(p, "ended") /\ remote' = remote
    <3>1. 0 \in 0..Chunks
      OBVIOUS
    <3>2. QED  BY <2>2, <3>1
  <2>3. QED  BY <2>1, <2>2 DEF AgentStream
<1> DEFINE f == [id |-> id[p], op |-> p, type |-> t, n |-> n]
<1>5. f \in InFrames /\ inq' = Append(inq, f)
  <2>1. inq' = Append(inq, f)
    BY <1>4 DEF AgentSend
  <2>2. QED  BY <2>1, <1>3 DEF InFrames
<1>6. CASE p = o
  <2>1. f.op = o /\ f.type = t /\ f.n = n
    BY <1>6
  <2>2. \/ /\ f.type = "data" /\ f.n = Len(remote[o]) + 1 /\ srv'[o] = srv[o]
           /\ remote'[o] = Append(remote[o], Len(remote[o]) + 1)
        \/ f.type = "end" /\ srv'[o] = "ended" /\ remote'[o] = remote[o]
    BY <1>1, <1>4, <1>6, <2>1 DEF AgentSets, TypeOK
  <2>3. srv[o] = "streaming" /\ inbox'[o] = inbox[o] /\ local'[o] = local[o]
    BY <1>2, <1>6
  <2> HIDE DEF f
  <2>4. QED  BY <1>1, <1>2, <1>5, <2>1, <2>2, <2>3, SendContentFrame
<1>7. CASE p # o
  <2>1. f.op # o
    BY <1>7
  <2>2. Elsewhere(inq, inq', o)
    BY <2>1, <1>5 DEF Elsewhere
  <2>3. srv'[o] = srv[o] /\ remote'[o] = remote[o]
    BY <1>1, <1>4, <1>7 DEF AgentSets, TypeOK
  <2>4. QED  BY <1>1, <1>2, <2>2, <2>3, StreamStays DEF Registered, Listens
<1>8. QED  BY <1>6, <1>7

LEMMA WriterStepOrder ==
  ASSUME OrderInv, WriterStep, NEW o \in Streams
  PROVE  StreamOf(o)'
<1>1. TypeOK /\ o \in Ops /\ StreamOf(o)
  BY OrderGives
<1>2. /\ inbox' = inbox /\ local' = local /\ told' = told /\ inq' = inq /\ link' = link
      /\ phase' = phase /\ pending' = pending
  BY DEF WriterStep, callVars
<1>3. CASE AgentReceive(Head(outq))
  <2> DEFINE f == Head(outq)
  <2>1. f \in OutFrames /\ f = outq[1] /\ 1 \in 1..Len(outq)
    BY <1>1, TailProp DEF WriterStep, TypeOK
  <2>2. f.op \in Ops
    BY <2>1 DEF OutFrames
  <2>3. remote'[o] = remote[o]
    BY <1>1, <1>3, <2>2, StreamsApart DEF AgentReceive, TypeOK
  <2>4. \/ srv'[o] = srv[o] \/ srv'[o] = "ended"
        \/ srv[o] = "idle" /\ srv'[o] \in {"receiving", "running"}
    <3>1. CASE f.op # o
      BY <1>1, <1>3, <2>2, <3>1 DEF AgentReceive, TypeOK
    <3>2. CASE f.op = o /\ f.type = "request"
      <4>1. srv[o] = "idle"
        BY <1>1, <2>1, <3>2 DEF OrderInv, AskedOf
      <4>2. QED  BY <1>1, <1>3, <3>2, <4>1 DEF AgentReceive, TypeOK
    <3>3. CASE f.op = o /\ f.type # "request"
      BY <1>1, <1>3, <3>3, StreamsApart DEF AgentReceive, TypeOK
    <3>4. QED  BY <3>1, <3>2, <3>3
  <2>5. QED  BY <1>1, <1>2, <2>3, <2>4, StreamStays DEF Elsewhere, Registered, Listens
<1>4. CASE UNCHANGED <<srv, remote>>
  BY <1>1, <1>2, <1>4, StreamStays DEF Elsewhere, Registered, Listens
<1>5. QED  BY <1>3, <1>4 DEF WriterStep

\* A frame for a call that has no registration is dropped.
LEMMA DropOne ==
  ASSUME NEW o \in Streams, TypeOK, StreamOf(o), ~Hears(o)', inq # <<>>, inq' = Tail(inq),
         inbox'[o] = inbox[o], local' = local, told' = told, remote' = remote, srv' = srv,
         phase' = phase
  PROVE  StreamOf(o)'
<1>1. inq \in Seq(InFrames)
  BY DEF TypeOK
<1>2. \A k \in 1..Len(inq') : inq'[k] = inq[k + 1] /\ k + 1 \in 1..Len(inq)
  BY <1>1, TailProp
<1>3. SilentOf(o)'
  BY <1>2 DEF StreamOf, SilentOf
<1>4. ChannelOf(o)'
  BY DEF StreamOf, ChannelOf, Sound, Listens, Numbered, Shift
<1>5. LineOf(o)'
  BY <1>2 DEF StreamOf, LineOf, Sound
<1>6. PrefixOf(o)'
  BY DEF StreamOf, PrefixOf
<1>7. QED  BY <1>3, <1>4, <1>5, <1>6 DEF StreamOf

LEMMA ReaderStepOrder ==
  ASSUME OrderInv, ReaderStep, NEW o \in Streams
  PROVE  StreamOf(o)'
<1> DEFINE f == Head(inq)
           q == pending[f.id]
<1>1. /\ TypeOK /\ o \in Ops /\ StreamOf(o) /\ (Hears(o) => Listens(o))
      /\ PendingRouted /\ IdsAssigned /\ InRouted /\ o # NoOp
  BY OrderGives
<1>2. /\ local' = local /\ told' = told /\ link' = link /\ remote' = remote /\ srv' = srv
      /\ phase' = phase /\ inq' = Tail(inq) /\ inq # <<>>
  BY DEF ReaderStep, callVars, agentVars
<1>3. f \in InFrames /\ f = inq[1] /\ 1 \in 1..Len(inq)
  BY <1>1, <1>2, TailProp DEF TypeOK
<1>4. f.id \in Ids /\ f.op \in Ops /\ id[f.op] = f.id
  BY <1>1, <1>3 DEF InFrames, InRouted
<1>5. q \in Ops => q = f.op
  <2>1. ASSUME q \in Ops
        PROVE  q = f.op
    <3>1. id[q] = f.id
      BY <1>1, <1>4, <2>1 DEF PendingRouted
    <3>2. id[q] = id[f.op] /\ id[q] # 0
      BY <1>4, <3>1 DEF Ids
    <3>3. QED  BY <1>1, <1>4, <2>1, <3>2 DEF IdsAssigned
  <2>2. QED  BY <2>1
<1>6. Registered(o)' => Registered(o)
  BY <1>1, <1>4 DEF ReaderStep, Registered, Unregister, TypeOK
<1> HIDE DEF f, q
<1>7. q \in Ops \cup {NoOp}
  BY <1>1, <1>4 DEF TypeOK, q
<1>8. \/ q # NoOp /\ Delivers(q, f) /\ inbox' = [inbox EXCEPT ![q] = Append(@, f)]
      \/ ~Delivers(q, f) /\ inbox' = inbox
  BY DEF ReaderStep, f, q, Delivers
<1>9. CASE f.op # o
  <2>1. inbox'[o] = inbox[o]
    BY <1>1, <1>5, <1>7, <1>8, <1>9 DEF TypeOK
  <2>2. Elsewhere(inq, inq', o)
    BY <1>2, <1>9 DEF Elsewhere, f
  <2>3. QED  BY <1>1, <1>2, <1>6, <2>1, <2>2, StreamStays DEF Listens
<1>10. CASE f.op = o /\ Registered(o)
  <2>1. q = o
    BY <1>1, <1>4, <1>10 DEF Registered, PendingRouted, q
  <2>2. Sound(o, f)
    BY <1>1, <1>3, <1>10 DEF StreamOf, LineOf
  <2>3. Delivers(q, f)
    BY <2>1, <2>2, <1>1, StreamsApart DEF Delivers, Sound
  <2>4. inbox'[o] = Append(inbox[o], f)
    BY <1>1, <1>8, <2>1, <2>3 DEF TypeOK
  <2>5. QED  BY <1>1, <1>2, <1>10, <2>4, DeliverOne DEF f
<1>11. CASE f.op = o /\ ~Registered(o)
  <2>1. q # o
    BY <1>4, <1>11 DEF Registered, q
  <2>2. inbox' = inbox
    BY <2>1, <1>5, <1>7, <1>8, <1>11
  <2>3. ~Hears(o)'
    BY <1>6, <1>11 DEF Hears
  <2>4. QED  BY <1>1, <1>2, <2>2, <2>3, DropOne
<1>12. QED  BY <1>9, <1>10, <1>11

LEMMA LinkOrder ==
  ASSUME OrderInv, ReaderFails \/ ReaderClears \/ LinkDown \/ UNCHANGED vars, NEW o \in Streams
  PROVE  StreamOf(o)'
<1>1. TypeOK /\ StreamOf(o) /\ o \in Ops /\ o # NoOp
  BY OrderGives
<1>2. /\ inbox' = inbox /\ local' = local /\ told' = told /\ remote' = remote /\ srv' = srv
      /\ phase' = phase
  BY DEF ReaderFails, ReaderClears, LinkDown, vars, callVars, agentVars
<1>3. Registered(o)' => Registered(o)
  BY <1>1 DEF ReaderFails, ReaderClears, LinkDown, vars, callVars, agentVars, NoRegistrations,
              Registered
<1>4. CASE LinkDown
  BY <1>1, <1>2, <1>3, <1>4, StreamStays DEF LinkDown, Listens
<1>5. CASE inq' = inq /\ link' = link
  BY <1>2, <1>3, <1>5, StreamUntouched DEF Listens
<1>6. QED  BY <1>4, <1>5 DEF ReaderFails, ReaderClears, vars

LEMMA StreamsOrder ==
  ASSUME OrderInv, [Next]_vars, NEW o \in Streams
  PROVE  StreamOf(o)'
<1>1. ASSUME NEW p \in Ops, CallStep(p)
      PROVE  StreamOf(o)'
  BY <1>1, SendOrder, ReadStepOrder, OpenShellOrder, ShellTaskOrder DEF CallStep
<1>2. ASSUME NEW p \in Ops, Begin(p) \/ UseShell(p) \/ CloseShell(p) \/ AgentAnswer(p)
                            \/ AgentStream(p)
      PROVE  StreamOf(o)'
  BY <1>2, BeginOrder, ShellUseOrder, AgentAnswerOrder, AgentStreamOrder
<1>3. CASE WriterStep \/ ReaderStep
  BY <1>3, WriterStepOrder, ReaderStepOrder
<1>4. CASE ReaderFails \/ ReaderClears \/ LinkDown \/ UNCHANGED vars
  BY <1>4, LinkOrder
<1>5. QED  BY <1>1, <1>2, <1>3, <1>4 DEF Next

----------------------------------------------------------------------------
(* The request comes first, and a write is received whole.                 *)

\* What a step leaves of the queue: it keeps its frames or some of them, in
\* their order, and adds at most one.
LEMMA AskedStays ==
  ASSUME TypeOK, NEW o \in Ops, AskedOf(o),
         phase'[o] \in {"idle", "registered"} => phase[o] \in {"idle", "registered"},
         srv[o] = "idle" => srv'[o] = "idle",
         \/ outq' = outq \/ outq' = <<>>
         \/ outq # <<>> /\ outq' = Tail(outq)
         \/ \E f \in OutFrames : /\ outq' = Append(outq, f)
                                 /\ f.op = o => /\ f.type # "request"
                                                /\ phase'[o] \notin {"idle", "registered"}
  PROVE  AskedOf(o)'
<1>1. outq \in Seq(OutFrames) /\ Len(outq) \in Nat
  BY DEF TypeOK
<1>2. CASE outq' = outq
  BY <1>2 DEF AskedOf
<1>3. CASE outq' = <<>>
  <2>1. Len(outq') = 0
    BY <1>3
  <2>2. QED  BY <2>1 DEF AskedOf
<1>4. CASE outq # <<>> /\ outq' = Tail(outq)
  <2>1. \A k \in 1..Len(outq') : outq'[k] = outq[k + 1] /\ k + 1 \in 1..Len(outq)
    BY <1>1, <1>4, TailProp
  <2>2. ASSUME phase'[o] \in {"idle", "registered"}
        PROVE  srv'[o] = "idle" /\ \A k \in 1..Len(outq') : outq'[k].op # o
    BY <2>1, <2>2 DEF AskedOf
  <2>3. ASSUME NEW k \in 1..Len(outq'), outq'[k].op = o, outq'[k].type = "request"
        PROVE  srv'[o] = "idle" /\ \A j \in 1..(k - 1) : outq'[j].op # o
    <3>1. srv[o] = "idle" /\ \A j \in 1..((k + 1) - 1) : outq[j].op # o
      BY <2>1, <2>3 DEF AskedOf
    <3>2. \A j \in 1..(k - 1) : outq'[j] = outq[j + 1] /\ j + 1 \in 1..((k + 1) - 1)
      BY <2>1
    <3>3. QED  BY <3>1, <3>2
  <2>4. QED  BY <2>2, <2>3 DEF AskedOf
<1>5. CASE \E f \in OutFrames : /\ outq' = Append(outq, f)
                                /\ f.op = o => /\ f.type # "request"
                                               /\ phase'[o] \notin {"idle", "registered"}
  <2>1. PICK f \in OutFrames : /\ outq' = Append(outq, f)
                               /\ f.op = o => /\ f.type # "request"
                                              /\ phase'[o] \notin {"idle", "registered"}
    BY <1>5
  <2>2. /\ Len(outq') = Len(outq) + 1 /\ outq'[Len(outq) + 1] = f
        /\ \A k \in 1..Len(outq) : outq'[k] = outq[k]
    BY <1>1, <2>1, AppendProp
  <2>3. ASSUME phase'[o] \in {"idle", "registered"}
        PROVE  srv'[o] = "idle" /\ \A k \in 1..Len(outq') : outq'[k].op # o
    <3>1. f.op # o /\ srv[o] = "idle" /\ \A k \in 1..Len(outq) : outq[k].op # o
      BY <2>1, <2>3 DEF AskedOf
    <3>2. \A k \in 1..Len(outq') : k = Len(outq) + 1 \/ k \in 1..Len(outq)
      BY <1>1, <2>2
    <3>3. QED  BY <3>1, <3>2, <2>2
  <2>4. ASSUME NEW k \in 1..Len(outq'), outq'[k].op = o, outq'[k].type = "request"
        PROVE  srv'[o] = "idle" /\ \A j \in 1..(k - 1) : outq'[j].op # o
    <3>1. k \in 1..Len(outq)
      BY <1>1, <2>1, <2>2, <2>4
    <3>2. outq'[k] = outq[k] /\ \A j \in 1..(k - 1) : outq'[j] = outq[j]
      BY <1>1, <2>2, <3>1
    <3>3. QED  BY <2>4, <3>1, <3>2 DEF AskedOf
  <2>5. QED  BY <2>3, <2>4 DEF AskedOf
<1>6. QED  BY <1>2, <1>3, <1>4, <1>5

LEMMA QueueFrame ==
  ASSUME TypeOK, IdsAssigned, NEW o \in Ops, phase[o] # "idle",
         NEW t \in {"request", "data", "end"}, NEW n \in 0..Chunks, Queue(o, t, n)
  PROVE  \E f \in OutFrames : f.op = o /\ f.type = t /\ f.n = n /\ outq' = Append(outq, f)
<1> DEFINE f == [id |-> id[o], op |-> o, type |-> t, n |-> n]
<1>1. id[o] \in Ids
  BY BegunHasId
<1>2. f \in OutFrames /\ f.op = o /\ f.type = t /\ f.n = n /\ outq' = Append(outq, f)
  BY <1>1 DEF OutFrames, Queue
<1>3. QED  BY <1>2

\* A call's first frame.
LEMMA AskedFirst ==
  ASSUME TypeOK, NEW o \in Ops, AskedOf(o), phase[o] = "registered",
         phase'[o] \notin {"idle", "registered"}, srv' = srv,
         NEW f \in OutFrames, f.op = o, outq' = Append(outq, f)
  PROVE  AskedOf(o)'
<1>1. outq \in Seq(OutFrames) /\ Len(outq) \in Nat
  BY DEF TypeOK
<1>2. /\ Len(outq') = Len(outq) + 1
      /\ \A k \in 1..Len(outq) : outq'[k] = outq[k]
  BY <1>1, AppendProp
<1>3. srv[o] = "idle" /\ \A k \in 1..Len(outq) : outq[k].op # o
  BY DEF AskedOf
<1>4. ASSUME NEW k \in 1..Len(outq'), outq'[k].op = o
      PROVE  \A j \in 1..(k - 1) : outq'[j].op # o
  <2>1. k = Len(outq) + 1
    BY <1>1, <1>2, <1>3, <1>4
  <2>2. \A j \in 1..(k - 1) : j \in 1..Len(outq)
    BY <2>1, <1>1
  <2>3. QED  BY <2>2, <1>2, <1>3
<1>5. QED  BY <1>3, <1>4 DEF AskedOf

LEMMA AskedStep ==
  ASSUME OrderInv, [Next]_vars, NEW o \in Ops
  PROVE  AskedOf(o)'
<1>1. TypeOK /\ IdsAssigned /\ AskedOf(o)
  BY DEF OrderInv, IInv, RoutingInv
<1>2. ASSUME NEW p \in Ops, SendControl(p)
      PROVE  AskedOf(o)'
  <2>1. srv' = srv /\ phase[p] = "registered"
    BY <1>2 DEF SendControl
  <2>2. phase'[p] \notin {"idle", "registered"} /\ \A x \in Ops \ {p} : phase'[x] = phase[x]
    BY <1>1, <1>2 DEF SendControl, Become, TypeOK
  <2>3. CASE outq' = outq
    BY <1>1, <2>1, <2>2, <2>3, AskedStays
  <2>4. CASE Queue(p, "request", 0)
    <3>1. \E f \in OutFrames : f.op = p /\ f.type = "request" /\ outq' = Append(outq, f)
      BY <1>1, <2>1, <2>4, QueueFrame
    <3>2. PICK f \in OutFrames : f.op = p /\ f.type = "request" /\ outq' = Append(outq, f)
      BY <3>1
    <3>3. CASE p = o
      BY <1>1, <2>1, <2>2, <3>2, <3>3, AskedFirst
    <3>4. CASE p # o
      BY <1>1, <2>1, <2>2, <3>2, <3>4, AskedStays
    <3>5. QED  BY <3>3, <3>4
  <2>5. QED  BY <1>2, <2>3, <2>4 DEF SendControl
<1>3. ASSUME NEW p \in Ops, SendContent(p) \/ UseShell(p) \/ CloseShell(p)
      PROVE  AskedOf(o)'
  <2>1. srv' = srv /\ phase[p] \notin {"idle", "registered"}
    BY <1>3 DEF SendContent, UseShell, CloseShell, agentVars
  <2>2. phase'[p] \notin {"idle", "registered"} /\ \A x \in Ops \ {p} : phase'[x] = phase[x]
    BY <1>1, <1>3 DEF SendContent, UseShell, CloseShell, Become, callVars, TypeOK
  <2>3. CASE outq' = outq
    BY <1>1, <2>1, <2>2, <2>3, AskedStays
  <2>4. ASSUME NEW t \in {"data", "end"}, NEW n \in 0..Chunks, Queue(p, t, n)
        PROVE  AskedOf(o)'
    <3>1. \E f \in OutFrames : f.op = p /\ f.type = t /\ outq' = Append(outq, f)
      BY <1>1, <2>1, <2>4, QueueFrame
    <3>2. PICK f \in OutFrames : f.op = p /\ f.type = t /\ outq' = Append(outq, f)
      BY <3>1
    <3>3. f.op = o => f.type # "request" /\ phase'[o] \notin {"idle", "registered"}
      BY <2>2, <2>4, <3>2
    <3>4. phase'[o] \in {"idle", "registered"} => phase[o] \in {"idle", "registered"}
      BY <2>2
    <3>5. QED  BY <1>1, <2>1, <3>2, <3>3, <3>4, AskedStays
  <2>5. 0 \in 0..Chunks /\ (ContentLeft(p) => Len(local[p]) + 1 \in 0..Chunks)
    <3>1. Len(local[p]) \in Nat
      BY <1>1 DEF TypeOK
    <3>2. QED  BY <3>1 DEF ContentLeft
  <2>6. CASE SendContent(p)
    BY <2>3, <2>4, <2>5, <2>6 DEF SendContent
  <2>7. CASE UseShell(p)
    BY <2>4, <2>5, <2>7 DEF UseShell
  <2>8. CASE CloseShell(p)
    BY <2>3, <2>4, <2>5, <2>8 DEF CloseShell, SendEnd
  <2>9. QED  BY <1>3, <2>6, <2>7, <2>8
<1>4. ASSUME NEW p \in Ops, Begin(p)
      PROVE  AskedOf(o)'
  <2>1. phase'[o] \in {"idle", "registered"} => phase[o] \in {"idle", "registered"}
    BY <1>1, <1>4 DEF Begin, Become, TypeOK
  <2>2. QED  BY <1>1, <1>4, <2>1, AskedStays DEF Begin
<1>5. ASSUME NEW p \in Ops, Answered(p) \/ TimeOut(p) \/ ReadStep(p) \/ OpenShell(p) \/ ShellTask(p)
      PROVE  AskedOf(o)'
  <2>1. phase'[o] \in {"idle", "registered"} => phase[o] \in {"idle", "registered"}
    BY <1>1, <1>5 DEF Answered, TimeOut, ReadStep, OpenShell, ShellTask, Become, TypeOK
  <2>2. srv' = srv /\ outq' = outq
    BY <1>5 DEF Answered, TimeOut, ReadStep, OpenShell, ShellTask
  <2>3. QED  BY <1>1, <2>1, <2>2, AskedStays
<1>6. ASSUME NEW p \in Ops, AgentAnswer(p) \/ AgentStream(p)
      PROVE  AskedOf(o)'
  <2>1. phase' = phase /\ outq' = outq
    BY <1>6 DEF AgentAnswer, AgentStream, callVars
  <2>2. srv[o] = "idle" => srv'[o] = "idle"
    BY <1>1, <1>6 DEF AgentAnswer, AgentStream, AgentSets, TypeOK
  <2>3. QED  BY <1>1, <2>1, <2>2, AskedStays
<1>7. CASE WriterStep
  <2>1. phase' = phase /\ outq # <<>> /\ outq \in Seq(OutFrames)
    BY <1>1, <1>7 DEF WriterStep, callVars, TypeOK
  <2>2. CASE UNCHANGED srv
    BY <1>1, <1>7, <2>1, <2>2, AskedStays DEF WriterStep
  <2>3. CASE AgentReceive(Head(outq)) /\ outq' = Tail(outq)
    <3> DEFINE f == Head(outq)
    <3>1. f = outq[1] /\ 1 \in 1..Len(outq) /\ f \in OutFrames
          /\ \A k \in 1..Len(outq') : outq'[k] = outq[k + 1] /\ k + 1 \in 1..Len(outq)
      BY <2>1, <2>3, TailProp
    <3>2. CASE f.op # o
      <4>1. f.op \in Ops
        BY <3>1 DEF OutFrames
      <4>2. srv'[o] = srv[o]
        BY <1>1, <2>3, <3>2, <4>1 DEF AgentReceive, TypeOK
      <4>3. QED  BY <1>1, <2>1, <2>3, <4>2, AskedStays
    <3>3. CASE f.op = o
      <4>1. phase[o] \notin {"idle", "registered"}
        BY <1>1, <3>1, <3>3 DEF AskedOf
      <4>2. ASSUME NEW k \in 1..Len(outq'), outq'[k].op = o, outq'[k].type = "request"
            PROVE  FALSE
        <5>1. \A j \in 1..((k + 1) - 1) : outq[j].op # o
          BY <1>1, <3>1, <4>2 DEF AskedOf
        <5>2. 1 \in 1..((k + 1) - 1)
          OBVIOUS
        <5>3. QED  BY <5>1, <5>2, <3>1, <3>3
      <4>3. QED  BY <2>1, <4>1, <4>2 DEF AskedOf
    <3>4. QED  BY <3>2, <3>3
  <2>4. QED  BY <1>7, <2>2, <2>3 DEF WriterStep
<1>8. CASE ReaderStep \/ ReaderFails \/ ReaderClears \/ LinkDown \/ UNCHANGED vars
  <2>1. phase' = phase /\ outq' = outq /\ srv' = srv
    BY <1>8 DEF ReaderStep, ReaderFails, ReaderClears, LinkDown, vars, callVars, agentVars
  <2>2. QED  BY <1>1, <2>1, AskedStays
<1>9. QED  BY <1>2, <1>3, <1>4, <1>5, <1>6, <1>7, <1>8 DEF Next, CallStep

LEMMA WriteGives ==
  ASSUME OrderInv, NEW w \in Writes
  PROVE  /\ TypeOK /\ IdsAssigned /\ NoCrossTalk /\ w \in Ops /\ w \in Oneshot
         /\ w \notin Reads /\ w \notin Shells /\ AskedOf(w)
         /\ QueuedOf(w) /\ ReceivedOf(w) /\ AckedOf(w)
  BY DEF OrderInv, IInv, RoutingInv, Ops, Oneshot, WriteOf

LEMMA WriteTypes ==
  ASSUME TypeOK, NEW w \in Writes
  PROVE  /\ outq \in Seq(OutFrames) /\ inq \in Seq(InFrames) /\ inbox[w] \in Seq(InFrames)
         /\ Len(outq) \in Nat /\ Len(local[w]) \in Nat /\ Len(remote[w]) \in Nat
         /\ local[w] \in Seq(Nat) /\ remote[w] \in Seq(Nat) /\ Awaited(w) \in Int
<1>1. w \in Ops
  BY DEF Ops
<1>2. /\ outq \in Seq(OutFrames) /\ inq \in Seq(InFrames) /\ inbox[w] \in Seq(InFrames)
      /\ local[w] \in Seq(Nat) /\ remote[w] \in Seq(Nat)
  BY <1>1 DEF TypeOK
<1>3. Len(outq) \in Nat /\ Len(local[w]) \in Nat /\ Len(remote[w]) \in Nat
  BY <1>2
<1>4. Awaited(w) \in Int
  BY <1>3 DEF Awaited
<1>5. QED  BY <1>2, <1>3, <1>4

LEMMA SeatType ==
  /\ Seat \in [OutFrames -> Int]
  /\ \A f \in OutFrames :
       /\ Seat[f] = IF f.type = "request" THEN 0 ELSE IF f.type = "data" THEN f.n ELSE Chunks + 1
       /\ f.type \in {"request", "data", "end"} /\ f.n \in 0..Chunks /\ f.op \in Ops
       /\ \A w : f \in Parts(w) <=> f.op = w
<1>1. \A f \in OutFrames : f.type \in {"request", "data", "end"} /\ f.n \in 0..Chunks /\ f.op \in Ops
  BY DEF OutFrames
<1>2. \A f \in OutFrames :
        (IF f.type = "request" THEN 0 ELSE IF f.type = "data" THEN f.n ELSE Chunks + 1) \in Int
  BY <1>1
<1>3. QED  BY <1>1, <1>2 DEF Seat, Parts

\* A step that adds or takes no frame of the write, or a connection that is lost.
LEMMA QueuedStays ==
  ASSUME TypeOK, NEW w \in Writes, QueuedOf(w),
         local'[w] = local[w], remote'[w] = remote[w],
         srv'[w] = srv[w] \/ srv'[w] \notin {"idle", "receiving"},
         phase'[w] = "sending" => phase[w] = "sending",
         link' = "up" => link = "up",
         \/ outq' = outq
         \/ \E f \in OutFrames : f.op # w /\ outq' = Append(outq, f)
         \/ outq # <<>> /\ outq' = Tail(outq) /\ (Head(outq).op # w \/ link' # "up")
         \/ outq' = <<>> /\ link' # "up"
  PROVE  QueuedOf(w)'
<1> DEFINE Kept == \A k \in 1..Len(outq') : outq'[k].op = w => \E j \in 1..Len(outq) : outq'[k] = outq[j]
           Held == InOrder(outq, Parts(w), Seat, Awaited(w)) =>
                     /\ InOrder(outq', Parts(w), Seat, Awaited(w))
                     /\ \A last \in Int : UpTo(outq, Parts(w), Seat, Awaited(w), last)
                                            => UpTo(outq', Parts(w), Seat, Awaited(w), last)
<1>1. outq \in Seq(OutFrames) /\ Len(outq) \in Nat /\ Awaited(w) \in Int /\ Len(local[w]) \in Int
  BY WriteTypes
<1>2. Kept /\ (link' = "up" => Held)
  <2>1. CASE outq' = outq
    BY <2>1
  <2>2. CASE \E f \in OutFrames : f.op # w /\ outq' = Append(outq, f)
    <3>1. PICK f \in OutFrames : f.op # w /\ outq' = Append(outq, f)
      BY <2>2
    <3>2. Len(outq') = Len(outq) + 1 /\ outq'[Len(outq) + 1] = f
          /\ \A k \in 1..Len(outq) : outq'[k] = outq[k]
      BY <1>1, <3>1, AppendProp
    <3>3. \A k \in 1..Len(outq') : k = Len(outq) + 1 \/ k \in 1..Len(outq)
      BY <1>1, <3>2
    <3>4. Kept
      BY <3>1, <3>2, <3>3
    <3>5. f \notin Parts(w)
      BY <3>1 DEF Parts
    <3>6. Held
      BY <1>1, <3>1, <3>5, SeatType, AppendOther
    <3>7. QED  BY <3>4, <3>6
  <2>3. CASE outq # <<>> /\ outq' = Tail(outq) /\ (Head(outq).op # w \/ link' # "up")
    <3>1. \A k \in 1..Len(outq') : outq'[k] = outq[k + 1] /\ k + 1 \in 1..Len(outq)
      BY <1>1, <2>3, TailProp
    <3>2. Kept
      BY <3>1
    <3>3. ASSUME link' = "up"
          PROVE  Held
      <4>1. Head(outq) \notin Parts(w)
        BY <2>3, <3>3 DEF Parts
      <4>2. QED  BY <1>1, <2>3, <4>1, SeatType, TailOrder
    <3>4. QED  BY <3>2, <3>3
  <2>4. CASE outq' = <<>> /\ link' # "up"
    <3>1. Len(outq') = 0
      BY <2>4
    <3>2. QED  BY <2>4, <3>1
  <2>5. QED  BY <2>1, <2>2, <2>3, <2>4
<1>3. ASSUME NEW k \in 1..Len(outq'), outq'[k].op = w
      PROVE  /\ outq'[k].type = "data" => outq'[k].n \in 1..Len(local'[w])
             /\ outq'[k].type = "end" => phase'[w] # "sending"
  <2>1. PICK j \in 1..Len(outq) : outq'[k] = outq[j]
    BY <1>2, <1>3
  <2>2. /\ outq[j].type = "data" => outq[j].n \in 1..Len(local[w])
        /\ outq[j].type = "end" => phase[w] # "sending"
    BY <1>3, <2>1 DEF QueuedOf
  <2>3. QED  BY <2>1, <2>2
<1>4. ASSUME link' = "up", srv'[w] \in {"idle", "receiving"}
      PROVE  /\ InOrder(outq', Parts(w), Seat, Awaited(w)')
             /\ phase'[w] = "sending" => UpTo(outq', Parts(w), Seat, Awaited(w)', Len(local'[w]))
  <2>1. Held
    BY <1>2, <1>4
  <2> HIDE DEF Kept, Held
  <2>2. srv'[w] = srv[w] /\ Awaited(w)' = Awaited(w)
    BY <1>4 DEF Awaited
  <2>3. /\ InOrder(outq, Parts(w), Seat, Awaited(w))
        /\ phase[w] = "sending" => UpTo(outq, Parts(w), Seat, Awaited(w), Len(local[w]))
    BY <1>4, <2>2 DEF QueuedOf
  <2>4. InOrder(outq', Parts(w), Seat, Awaited(w))
    BY <2>1, <2>3 DEF Held
  <2>5. phase'[w] = "sending" => UpTo(outq', Parts(w), Seat, Awaited(w), Len(local[w]))
    BY <1>1, <2>1, <2>3 DEF Held
  <2>6. QED  BY <2>2, <2>4, <2>5
<1> HIDE DEF Kept, Held
<1>5. QED  BY <1>3, <1>4 DEF QueuedOf, Parts, Seat

\* A step that queues the next frame of the write.
LEMMA QueuedNext ==
  ASSUME TypeOK, NEW w \in Writes, QueuedOf(w), remote'[w] = remote[w], srv'[w] = srv[w],
         link' = link, NEW f \in OutFrames, f.op = w, outq' = Append(outq, f),
         NEW last \in Int, Seat[f] = last + 1, Awaited(w) <= last + 1,
         \A k \in 1..Len(outq) : outq[k].op = w => Seat[outq[k]] <= last,
         link = "up" /\ srv[w] \in {"idle", "receiving"} =>
           UpTo(outq, Parts(w), Seat, Awaited(w), last),
         phase'[w] = "sending" => Len(local'[w]) = last + 1,
         Len(local'[w]) \in Nat, Len(local[w]) <= Len(local'[w]),
         f.type = "data" => f.n \in 1..Len(local'[w]),
         f.type = "end" => phase'[w] # "sending",
         phase'[w] = "sending" => \A k \in 1..Len(outq) : outq[k].op = w => outq[k].type # "end"
  PROVE  QueuedOf(w)'
<1>1. outq \in Seq(OutFrames) /\ Len(outq) \in Nat /\ Awaited(w) \in Int /\ Len(local[w]) \in Nat
  BY WriteTypes
<1>2. Len(outq') = Len(outq) + 1 /\ outq'[Len(outq) + 1] = f
      /\ \A k \in 1..Len(outq) : outq'[k] = outq[k]
  BY <1>1, AppendProp
<1>3. ASSUME NEW k \in 1..Len(outq'), outq'[k].op = w
      PROVE  /\ outq'[k].type = "data" => outq'[k].n \in 1..Len(local'[w])
             /\ outq'[k].type = "end" => phase'[w] # "sending"
  <2>1. CASE k = Len(outq) + 1
    BY <1>2, <2>1
  <2>2. CASE k # Len(outq) + 1
    <3>1. k \in 1..Len(outq) /\ outq'[k] = outq[k]
      BY <1>1, <1>2, <2>2
    <3>2. outq[k].type = "data" => outq[k].n \in 1..Len(local[w])
      BY <1>3, <3>1 DEF QueuedOf
    <3>3. 1..Len(local[w]) \subseteq 1..Len(local'[w])
      BY <1>1
    <3>4. outq[k].type = "end" => phase'[w] # "sending"
      BY <1>3, <3>1
    <3>5. QED  BY <3>1, <3>2, <3>3, <3>4
  <2>3. QED  BY <2>1, <2>2
<1>4. ASSUME link' = "up", srv'[w] \in {"idle", "receiving"}
      PROVE  /\ InOrder(outq', Parts(w), Seat, Awaited(w)')
             /\ phase'[w] = "sending" => UpTo(outq', Parts(w), Seat, Awaited(w)', Len(local'[w]))
  <2>1. Awaited(w)' = Awaited(w)
    BY DEF Awaited
  <2>2. InOrder(outq, Parts(w), Seat, Awaited(w)) /\ UpTo(outq, Parts(w), Seat, Awaited(w), last)
    BY <1>4 DEF QueuedOf
  <2>3. f \in Parts(w) /\ Seat \in [OutFrames -> Int]
        /\ \A k \in 1..Len(outq) : outq[k] \in Parts(w) => Seat[outq[k]] <= last
    BY SeatType DEF Parts
  <2>4. /\ InOrder(outq', Parts(w), Seat, Awaited(w))
        /\ UpTo(outq', Parts(w), Seat, Awaited(w), last + 1)
    BY <1>1, <2>2, <2>3, AppendNext
  <2>5. QED  BY <2>1, <2>4
<1>5. QED  BY <1>3, <1>4 DEF QueuedOf, Parts, Seat

\* A step that adds no answer for the write, nor any to its channel.
LEMMA AckedStays ==
  ASSUME TypeOK, NEW w \in Writes, AckedOf(w), Done(w) => Done(w)',
         \/ inq' = inq
         \/ \E f \in InFrames : (f.op = w /\ f.type = "ok" => Done(w)') /\ inq' = Append(inq, f)
         \/ inq # <<>> /\ inq' = Tail(inq)
         \/ \E n \in 0..Len(inq) : inq' = SubSeq(inq, 1, n),
         \/ inbox'[w] = inbox[w]
         \/ inbox[w] # <<>> /\ inbox'[w] = Tail(inbox[w])
         \/ inq # <<>> /\ Head(inq).op = w /\ inbox'[w] = Append(inbox[w], Head(inq)),
         phase'[w] = "ok" => phase[w] = "ok" \/ (inbox[w] # <<>> /\ Head(inbox[w]).type = "ok")
  PROVE  AckedOf(w)'
<1>1. inq \in Seq(InFrames) /\ inbox[w] \in Seq(InFrames) /\ Len(inq) \in Nat /\ Len(inbox[w]) \in Nat
  BY WriteTypes
<1>2. ASSUME NEW k \in 1..Len(inq'), inq'[k].op = w, inq'[k].type = "ok"
      PROVE  Done(w)'
  <2>1. CASE inq' = inq
    BY <1>2, <2>1 DEF AckedOf
  <2>2. ASSUME NEW f \in InFrames, f.op = w /\ f.type = "ok" => Done(w)', inq' = Append(inq, f)
        PROVE  Done(w)'
    <3>1. /\ Len(inq') = Len(inq) + 1 /\ inq'[Len(inq) + 1] = f
          /\ \A j \in 1..Len(inq) : inq'[j] = inq[j]
      BY <1>1, <2>2, AppendProp
    <3>2. CASE k = Len(inq) + 1
      BY <1>2, <2>2, <3>1, <3>2
    <3>3. CASE k # Len(inq) + 1
      <4>1. k \in 1..Len(inq) /\ inq'[k] = inq[k]
        BY <1>1, <3>1, <3>3
      <4>2. QED  BY <1>2, <4>1 DEF AckedOf
    <3>4. QED  BY <3>2, <3>3
  <2>3. CASE inq # <<>> /\ inq' = Tail(inq)
    <3>1. inq'[k] = inq[k + 1] /\ k + 1 \in 1..Len(inq)
      BY <1>1, <2>3, TailProp
    <3>2. QED  BY <1>2, <3>1 DEF AckedOf
  <2>4. ASSUME NEW n \in 0..Len(inq), inq' = SubSeq(inq, 1, n)
        PROVE  Done(w)'
    <3>1. inq'[k] = inq[k] /\ k \in 1..Len(inq)
      BY <1>1, <2>4, PrefixProp
    <3>2. QED  BY <1>2, <3>1 DEF AckedOf
  <2>5. QED  BY <2>1, <2>2, <2>3, <2>4
<1>3. ASSUME NEW k \in 1..Len(inbox'[w]), inbox'[w][k].type = "ok"
      PROVE  Done(w)'
  <2>1. CASE inbox'[w] = inbox[w]
    BY <1>3, <2>1 DEF AckedOf
  <2>2. CASE inbox[w] # <<>> /\ inbox'[w] = Tail(inbox[w])
    <3>1. inbox'[w][k] = inbox[w][k + 1] /\ k + 1 \in 1..Len(inbox[w])
      BY <1>1, <2>2, TailProp
    <3>2. QED  BY <1>3, <3>1 DEF AckedOf
  <2>3. CASE inq # <<>> /\ Head(inq).op = w /\ inbox'[w] = Append(inbox[w], Head(inq))
    <3>1. Head(inq) = inq[1] /\ 1 \in 1..Len(inq) /\ Head(inq) \in InFrames
      BY <1>1, <2>3, TailProp
    <3>2. /\ Len(inbox'[w]) = Len(inbox[w]) + 1 /\ inbox'[w][Len(inbox[w]) + 1] = Head(inq)
          /\ \A j \in 1..Len(inbox[w]) : inbox'[w][j] = inbox[w][j]
      BY <1>1, <2>3, <3>1, AppendProp
    <3>3. CASE k = Len(inbox[w]) + 1
      <4>1. inq[1].op = w /\ inq[1].type = "ok"
        BY <1>3, <2>3, <3>1, <3>2, <3>3
      <4>2. QED  BY <3>1, <4>1 DEF AckedOf
    <3>4. CASE k # Len(inbox[w]) + 1
      <4>1. k \in 1..Len(inbox[w]) /\ inbox'[w][k] = inbox[w][k]
        BY <1>1, <3>2, <3>4
      <4>2. QED  BY <1>3, <4>1 DEF AckedOf
    <3>5. QED  BY <3>3, <3>4
  <2>4. QED  BY <2>1, <2>2, <2>3
<1>4. ASSUME phase'[w] = "ok"
      PROVE  Done(w)'
  <2>1. CASE phase[w] = "ok"
    BY <2>1 DEF AckedOf
  <2>2. CASE inbox[w] # <<>> /\ Head(inbox[w]).type = "ok"
    <3>1. inbox[w][1].type = "ok" /\ 1 \in 1..Len(inbox[w])
      BY <1>1, <2>2, TailProp
    <3>2. QED  BY <3>1 DEF AckedOf
  <2>3. QED  BY <1>4, <2>1, <2>2
<1>5. QED  BY <1>2, <1>3, <1>4 DEF AckedOf

\* A step that leaves what was sent and received alone.
LEMMA ReceivedStays ==
  ASSUME TypeOK, NEW w \in Writes, ReceivedOf(w), local'[w] = local[w], remote'[w] = remote[w],
         srv'[w] = srv[w] \/ srv'[w] = "ended",
         phase'[w] \in {"idle", "registered"} => phase[w] \in {"idle", "registered"}
  PROVE  ReceivedOf(w)'
  BY DEF ReceivedOf

\* The request, a chunk and the end, as they are queued.
LEMMA SendControlWrite ==
  ASSUME OrderInv, NEW w \in Writes, SendControl(w)
  PROVE  WriteOf(w)'
<1>1. /\ TypeOK /\ IdsAssigned /\ w \in Ops /\ AskedOf(w)
      /\ QueuedOf(w) /\ ReceivedOf(w) /\ AckedOf(w)
  BY WriteGives
<1>2. /\ phase[w] = "registered" /\ local' = local /\ inbox' = inbox /\ inq' = inq
      /\ srv' = srv /\ remote' = remote /\ link' = link
  BY DEF SendControl
<1>3. phase'[w] \in {"sending", "error"}
  BY <1>1 DEF SendControl, Become, TypeOK
<1>4. ReceivedOf(w)'
  BY <1>1, <1>2, <1>3, ReceivedStays
<1>5. AckedOf(w)'
  BY <1>1, <1>2, <1>3, AckedStays DEF Done
<1>6. QueuedOf(w)'
  <2>1. CASE outq' = outq /\ phase'[w] = "error"
    BY <2>1, <1>1, <1>2, QueuedStays
  <2>2. CASE Queue(w, "request", 0)
    <3>1. \E f \in OutFrames : f.op = w /\ f.type = "request" /\ f.n = 0 /\ outq' = Append(outq, f)
      BY <1>1, <1>2, <2>2, QueueFrame
    <3>2. PICK f \in OutFrames : f.op = w /\ f.type = "request" /\ outq' = Append(outq, f)
      BY <3>1
    <3>3. srv[w] = "idle" /\ \A k \in 1..Len(outq) : outq[k].op # w
      BY <1>1, <1>2 DEF AskedOf
    <3>4. Seat[f] = -1 + 1 /\ Awaited(w) <= -1 + 1
      BY <3>2, <3>3, SeatType DEF Awaited
    <3>5. Len(local[w]) = 0
      BY <1>1, <1>2 DEF ReceivedOf
    <3>6. UpTo(outq, Parts(w), Seat, Awaited(w), -1)
      BY <3>3 DEF UpTo, Awaited
    <3>7. -1 \in Int
      OBVIOUS
    <3>8. \A k \in 1..Len(outq) : outq[k].op = w => Seat[outq[k]] <= -1
      BY <3>3
    <3>9. \A k \in 1..Len(outq) : outq[k].op = w => outq[k].type # "end"
      BY <3>3
    <3>10. Len(local'[w]) = 0
      BY <1>2, <3>5
    <3>11. f.type = "data" => f.n \in 1..Len(local'[w])
      BY <3>2
    <3>12. Len(local'[w]) \in Nat /\ Len(local[w]) <= Len(local'[w]) /\ Len(local'[w]) = -1 + 1
      BY <3>5, <3>10
    <3>13. f.type = "end" => phase'[w] # "sending"
      BY <3>2
    <3>14. QED  BY <1>1, <1>2, <3>2, <3>4, <3>6, <3>7, <3>8, <3>9, <3>11, <3>12, <3>13, QueuedNext
  <2>3. QED  BY <1>1, <2>1, <2>2 DEF SendControl, Become, TypeOK
<1>7. QED  BY <1>4, <1>5, <1>6 DEF WriteOf

LEMMA SendContentWrite ==
  ASSUME OrderInv, NEW w \in Writes, SendContent(w)
  PROVE  WriteOf(w)'
<1>1. /\ TypeOK /\ IdsAssigned /\ w \in Ops /\ QueuedOf(w) /\ ReceivedOf(w) /\ AckedOf(w)
  BY WriteGives
<1>2. /\ phase[w] = "sending" /\ inbox' = inbox /\ inq' = inq
      /\ srv' = srv /\ remote' = remote /\ link' = link
  BY DEF SendContent
<1>3. phase'[w] \in {"sending", "waiting", "error"}
  BY <1>1, <1>2 DEF SendContent, Become, TypeOK
<1>4. AckedOf(w)'
  BY <1>1, <1>2, <1>3, AckedStays DEF Done
<1>5. Len(local[w]) \in Nat /\ Len(remote[w]) \in Nat /\ local[w] \in Seq(Nat)
  BY <1>1, WriteTypes
<1>6. Len(remote[w]) <= Len(local[w]) /\ Len(local[w]) <= Chunks
  BY <1>1 DEF ReceivedOf
<1>7. Awaited(w) <= Len(local[w]) + 1
  BY <1>5, <1>6 DEF Awaited
<1>8. \A k \in 1..Len(outq) : outq[k].op = w => outq[k].type # "end" /\ Seat[outq[k]] <= Len(local[w])
  <2>1. ASSUME NEW k \in 1..Len(outq), outq[k].op = w
        PROVE  outq[k].type # "end" /\ Seat[outq[k]] <= Len(local[w])
    <3>1. outq[k] \in OutFrames
      BY <1>1 DEF TypeOK
    <3>2. outq[k].type # "end" /\ (outq[k].type = "data" => outq[k].n \in 1..Len(local[w]))
      BY <1>1, <1>2, <2>1 DEF QueuedOf
    <3>3. QED  BY <3>1, <3>2, <1>5, SeatType
  <2>2. QED  BY <2>1
<1>9. link = "up" /\ srv[w] \in {"idle", "receiving"} =>
        UpTo(outq, Parts(w), Seat, Awaited(w), Len(local[w]))
  BY <1>1, <1>2 DEF QueuedOf
<1>10. CASE outq' = outq /\ local' = local /\ phase'[w] = "error"
  <2>1. QueuedOf(w)'
    BY <1>1, <1>2, <1>10, QueuedStays
  <2>2. ReceivedOf(w)'
    BY <1>1, <1>2, <1>10, ReceivedStays
  <2>3. QED  BY <2>1, <2>2, <1>4 DEF WriteOf
<1>11. CASE /\ ContentLeft(w) /\ Queue(w, "data", Len(local[w]) + 1) /\ phase' = phase
            /\ local' = [local EXCEPT ![w] = Append(@, Len(@) + 1)]
  <2>1. Len(local[w]) + 1 \in 0..Chunks
    BY <1>5, <1>11 DEF ContentLeft
  <2>2. \E f \in OutFrames : f.op = w /\ f.type = "data" /\ f.n = Len(local[w]) + 1
                             /\ outq' = Append(outq, f)
    BY <1>1, <1>2, <1>11, <2>1, QueueFrame
  <2>3. PICK f \in OutFrames : f.op = w /\ f.type = "data" /\ f.n = Len(local[w]) + 1
                               /\ outq' = Append(outq, f)
    BY <2>2
  <2>4. local'[w] = Append(local[w], Len(local[w]) + 1)
    BY <1>1, <1>11 DEF TypeOK
  <2>5. Len(local'[w]) = Len(local[w]) + 1
    BY <1>5, <2>4, AppendProp
  <2>6. Seat[f] = Len(local[w]) + 1
    BY <2>3, SeatType
  <2>7. f.n \in 1..Len(local'[w]) /\ Len(local'[w]) \in Nat /\ Len(local[w]) <= Len(local'[w])
    BY <1>5, <2>3, <2>5
  <2>8. Len(local[w]) \in Int
    BY <1>5
  <2>9. QueuedOf(w)'
    BY <1>1, <1>2, <1>7, <1>8, <1>9, <2>3, <2>5, <2>6, <2>7, <2>8, QueuedNext
  <2>10. ReceivedOf(w)'
    <3>1. Len(remote[w]) <= Len(local'[w]) /\ Len(local'[w]) <= Chunks
      BY <1>5, <1>6, <2>1, <2>5
    <3>2. phase'[w] = "sending"
      BY <1>2, <1>11
    <3>3. QED  BY <1>1, <1>2, <3>1, <3>2 DEF ReceivedOf
  <2>11. QED  BY <2>9, <2>10, <1>4 DEF WriteOf
<1>12. CASE ~ContentLeft(w) /\ Queue(w, "end", 0) /\ Become(w, "waiting") /\ local' = local
  <2>1. 0 \in 0..Chunks /\ Len(local[w]) = Chunks
    BY <1>5, <1>6, <1>12 DEF ContentLeft
  <2>2. \E f \in OutFrames : f.op = w /\ f.type = "end" /\ f.n = 0 /\ outq' = Append(outq, f)
    BY <1>1, <1>2, <1>12, <2>1, QueueFrame
  <2>3. PICK f \in OutFrames : f.op = w /\ f.type = "end" /\ outq' = Append(outq, f)
    BY <2>2
  <2>4. phase'[w] = "waiting"
    BY <1>1, <1>12 DEF Become, TypeOK
  <2>5. Seat[f] = Len(local[w]) + 1
    BY <2>1, <2>3, SeatType
  <2>6. Len(local[w]) \in Int /\ Len(local'[w]) \in Nat /\ Len(local[w]) <= Len(local'[w])
    BY <1>5, <1>12
  <2>7. QueuedOf(w)'
    BY <1>1, <1>2, <1>7, <1>8, <1>9, <2>3, <2>4, <2>5, <2>6, QueuedNext
  <2>8. ReceivedOf(w)'
    BY <1>1, <1>2, <1>12, <2>4, ReceivedStays
  <2>9. QED  BY <2>7, <2>8, <1>4 DEF WriteOf
<1>13. QED  BY <1>1, <1>10, <1>11, <1>12 DEF SendContent, Become, TypeOK

LEMMA AgentAnswerWrite ==
  ASSUME OrderInv, NEW p \in Ops, AgentAnswer(p) \/ AgentStream(p), NEW w \in Writes
  PROVE  WriteOf(w)'
<1>1. /\ TypeOK /\ w \in Ops /\ w \in Oneshot /\ w \notin Reads /\ w \notin Shells
      /\ QueuedOf(w) /\ ReceivedOf(w) /\ AckedOf(w)
  BY WriteGives
<1>2. /\ inbox' = inbox /\ local' = local /\ link' = link /\ phase' = phase /\ outq' = outq
  BY DEF AgentAnswer, AgentStream, callVars
<1>3. p = w => AgentAnswer(w)
  BY <1>1 DEF AgentStream, ReceivedOf
<1>4. remote'[w] = remote[w]
  <2>1. CASE p = w
    BY <2>1, <1>3 DEF AgentAnswer
  <2>2. CASE p # w
    BY <2>2, <1>1 DEF AgentAnswer, AgentStream, TypeOK
  <2>3. QED  BY <2>1, <2>2
<1>5. srv'[w] = srv[w] \/ (p = w /\ srv[w] \in {"receiving", "running"} /\ srv'[w] = "ended")
  <2>1. CASE p = w
    BY <2>1, <1>1, <1>3 DEF AgentAnswer, AgentSets, TypeOK
  <2>2. CASE p # w
    BY <2>2, <1>1 DEF AgentAnswer, AgentStream, AgentSets, TypeOK
  <2>3. QED  BY <2>1, <2>2
<1>6. QueuedOf(w)'
  <2>1. srv'[w] = srv[w] \/ srv'[w] \notin {"idle", "receiving"}
    BY <1>5
  <2>2. QED  BY <1>1, <1>2, <1>4, <2>1, QueuedStays
<1>7. ReceivedOf(w)'
  <2>1. srv'[w] = srv[w] \/ srv'[w] = "ended"
    BY <1>5
  <2>2. QED  BY <1>1, <1>2, <1>4, <2>1, ReceivedStays
<1>8. AckedOf(w)'
  <2>1. Done(w) => Done(w)'
    BY <1>4, <1>5 DEF Done
  <2>2. PICK t \in {"meta", "ok", "error", "bad", "data", "end"}, n \in 0..Chunks :
          AgentSend(p, t, n) /\ (p = w /\ t = "ok" => srv[w] = "running")
    <3>1. CASE p = w
      BY <3>1, <1>1, <1>3 DEF AgentAnswer
    <3>2. CASE p # w /\ AgentAnswer(p)
      BY <3>2 DEF AgentAnswer
    <3>3. CASE p # w /\ AgentStream(p)
      <4>1. Len(remote[p]) \in Nat
        BY <1>1 DEF TypeOK
      <4>2. Len(remote[p]) < Chunks => Len(remote[p]) + 1 \in 0..Chunks
        BY <4>1
      <4>3. QED  BY <3>3, <4>2 DEF AgentStream
    <3>4. QED  BY <3>1, <3>2, <3>3
  <2> DEFINE f == [id |-> id[p], op |-> p, type |-> t, n |-> n]
  <2>3. f \in InFrames /\ f.op = p /\ f.type = t /\ inq' = Append(inq, f)
    <3>1. srv[p] # "idle"
      BY DEF AgentAnswer, AgentStream
    <3>2. id[p] \in Ids
      BY <1>1, <3>1 DEF OrderInv, IInv, RoutingInv, SrvBegan, TypeOK, Ids
    <3>3. QED  BY <3>2, <2>2 DEF InFrames, AgentSend
  <2> HIDE DEF f
  <2>4. f.op = w /\ f.type = "ok" => Done(w)'
    <3>1. ASSUME p = w, t = "ok"
          PROVE  Done(w)'
      <4>1. Len(remote[w]) = Chunks
        BY <1>1, <2>2, <3>1 DEF ReceivedOf
      <4>2. srv'[w] = "ended"
        BY <1>1, <1>3, <3>1 DEF AgentAnswer, AgentSets, TypeOK
      <4>3. QED  BY <1>4, <4>1, <4>2 DEF Done
    <3>2. QED  BY <2>3, <3>1
  <2>5. QED  BY <1>1, <1>2, <2>1, <2>3, <2>4, AckedStays
<1>9. QED  BY <1>6, <1>7, <1>8 DEF WriteOf

\* What the Agent does with the write's own next frame.
LEMMA ReceiveWrite ==
  ASSUME OrderInv, NEW w \in Writes, outq # <<>>, Head(outq).op = w, link = "up",
         AgentReceive(Head(outq)), outq' = Tail(outq), phase' = phase, local' = local,
         link' = link
  PROVE  QueuedOf(w)' /\ ReceivedOf(w)' /\ (Done(w) => Done(w)')
<1> DEFINE f == Head(outq)
           r == Len(remote[w])
<1>1. /\ TypeOK /\ w \in Ops /\ AskedOf(w) /\ QueuedOf(w) /\ ReceivedOf(w)
  BY WriteGives
<1>2. /\ outq \in Seq(OutFrames) /\ Len(outq) \in Nat /\ Len(local[w]) \in Nat /\ r \in Nat
      /\ remote[w] \in Seq(Nat) /\ Awaited(w) \in Int
  BY <1>1, WriteTypes
<1>3. /\ f = outq[1] /\ 1 \in 1..Len(outq) /\ f \in OutFrames
      /\ Len(outq') = Len(outq) - 1
      /\ \A k \in 1..Len(outq') : outq'[k] = outq[k + 1] /\ k + 1 \in 1..Len(outq)
  BY <1>2, TailProp
<1> HIDE DEF f
<1>4. f.op = w /\ AgentReceive(f)
  BY DEF f
<1>5. /\ f.type \in {"request", "data", "end"} /\ f.n \in Nat /\ f \in Parts(w)
      /\ Seat[f] = IF f.type = "request" THEN 0 ELSE IF f.type = "data" THEN f.n ELSE Chunks + 1
  BY <1>3, <1>4, SeatType
<1>6. f.type = "request" => srv[w] = "idle"
  BY <1>1, <1>3, <1>4 DEF AskedOf
<1>7. f.type = "data" => f.n \in 1..Len(local[w])
  BY <1>1, <1>3, <1>4 DEF QueuedOf
<1>8. ASSUME srv[w] \in {"idle", "receiving"}
      PROVE  /\ Seat[f] = Awaited(w)
             /\ InOrder(outq', Parts(w), Seat, Awaited(w) + 1)
             /\ phase[w] = "sending" => UpTo(outq', Parts(w), Seat, Awaited(w) + 1, Len(local[w]))
  <2>1. /\ InOrder(outq, Parts(w), Seat, Awaited(w))
        /\ phase[w] = "sending" => UpTo(outq, Parts(w), Seat, Awaited(w), Len(local[w]))
    BY <1>1, <1>8 DEF QueuedOf
  <2>2. Seat \in [OutFrames -> Int] /\ Head(outq) \in Parts(w)
    BY <1>5, SeatType DEF f
  <2>3. Seat[f] = Awaited(w)
    BY <1>2, <2>1, <2>2, HeadDue DEF f
  <2>4. Awaited(w) + 1 \in Int /\ Len(local[w]) \in Int
    BY <1>2
  <2>5. /\ InOrder(outq', Parts(w), Seat, Awaited(w) + 1)
        /\ \A last \in Int : UpTo(outq, Parts(w), Seat, Awaited(w), last)
                               => UpTo(outq', Parts(w), Seat, Awaited(w) + 1, last)
    BY <1>2, <2>1, <2>2, <2>4, TailOrder
  <2>6. QED  BY <2>1, <2>3, <2>4, <2>5
<1>9. \/ /\ f.type = "request" /\ srv[w] = "idle" /\ srv'[w] = "receiving" /\ remote'[w] = remote[w]
      \/ /\ f.type = "data" /\ srv[w] = "receiving" /\ srv'[w] = "receiving"
         /\ remote'[w] = Append(remote[w], f.n)
      \/ /\ f.type = "end" /\ srv[w] = "receiving" /\ srv'[w] = "running" /\ remote'[w] = remote[w]
      \/ /\ srv[w] \in {"running", "ended"} /\ srv'[w] \in {srv[w], "ended"}
         /\ remote'[w] = remote[w]
  <2>1. srv[w] \in {"idle", "receiving", "running", "ended"}
    BY <1>1 DEF TypeOK, ReceivedOf
  <2>2. srv[w] = "idle" => f.type = "request"
    <3>1. ASSUME srv[w] = "idle", f.type # "request"
          PROVE  FALSE
      <4>1. Seat[f] = 0
        BY <1>8, <3>1 DEF Awaited
      <4>2. f.type = "data" => f.n >= 1
        BY <1>7, <1>2
      <4>3. QED  BY <1>5, <3>1, <4>1, <4>2
    <3>2. QED  BY <3>1
  <2>3. /\ srv'[w] = CASE f.type = "request" -> "receiving"
                       [] f.type = "end" -> IF srv[w] = "receiving" THEN "running" ELSE "ended"
                       [] OTHER -> srv[w]
        /\ remote'[w] = IF f.type = "data" /\ srv[w] = "receiving"
                        THEN Append(remote[w], f.n) ELSE remote[w]
    <3>1. srv \in [Ops -> {"idle", "receiving", "running", "streaming", "ended"}]
          /\ remote \in [Ops -> Seq(Nat)]
      BY <1>1 DEF TypeOK
    <3>2. srv'[w] = CASE f.type = "request" -> "receiving"
                      [] f.type = "end" -> IF srv[w] = "receiving" THEN "running" ELSE "ended"
                      [] OTHER -> srv[w]
      BY <1>1, <1>4, <3>1 DEF AgentReceive
    <3>3. remote'[w] = IF f.type = "data" /\ srv[w] = "receiving"
                       THEN Append(remote[w], f.n) ELSE remote[w]
      BY <1>1, <1>4, <3>1 DEF AgentReceive
    <3>4. QED  BY <3>2, <3>3
  <2>4. f.type = "request" \/ f.type = "data" \/ f.type = "end"
    BY <1>5
  <2>5. QED  BY <1>6, <2>1, <2>2, <2>3, <2>4
<1>10. Done(w) => Done(w)'
  BY <1>9 DEF Done
<1>11. f.type = "data" /\ srv[w] = "receiving" /\ remote'[w] = Append(remote[w], f.n) =>
         /\ Len(remote'[w]) = r + 1 /\ r + 1 <= Len(local[w])
         /\ f.n = r + 1 /\ \A k \in 1..(r + 1) : remote'[w][k] = k
  <2>1. ASSUME f.type = "data", srv[w] = "receiving", remote'[w] = Append(remote[w], f.n)
        PROVE  /\ Len(remote'[w]) = r + 1 /\ r + 1 <= Len(local[w])
               /\ f.n = r + 1 /\ \A k \in 1..(r + 1) : remote'[w][k] = k
    <3>1. f.n = r + 1
      BY <1>5, <1>8, <2>1 DEF Awaited
    <3>2. r + 1 <= Len(local[w])
      BY <1>2, <1>7, <2>1, <3>1
    <3>3. /\ Len(remote'[w]) = r + 1 /\ remote'[w][r + 1] = f.n
          /\ \A k \in 1..r : remote'[w][k] = remote[w][k]
      BY <1>2, <1>5, <2>1, AppendProp
    <3>4. \A k \in 1..r : remote[w][k] = k
      BY <1>1 DEF ReceivedOf
    <3>5. \A k \in 1..(r + 1) : k \in 1..r \/ k = r + 1
      BY <1>2
    <3>6. QED  BY <3>1, <3>2, <3>3, <3>4, <3>5
  <2>2. QED  BY <2>1
<1>12. f.type = "end" /\ srv[w] = "receiving" => r = Chunks
  <2>1. ASSUME f.type = "end", srv[w] = "receiving"
        PROVE  r = Chunks
    <3>1. Chunks + 1 = r + 1
      BY <1>5, <1>8, <2>1 DEF Awaited
    <3>2. QED  BY <3>1, <1>2
  <2>2. QED  BY <2>1
<1>13. ReceivedOf(w)'
  <2>1. Len(remote'[w]) <= Len(local[w]) /\ Len(local[w]) <= Chunks
    BY <1>1, <1>9, <1>11 DEF ReceivedOf
  <2>2. \A k \in 1..Len(remote'[w]) : remote'[w][k] = k
    BY <1>1, <1>9, <1>11 DEF ReceivedOf
  <2>3. srv'[w] \notin {"idle", "streaming"}
    BY <1>9
  <2>4. srv'[w] = "running" => Len(remote'[w]) = Chunks
    BY <1>1, <1>9, <1>12 DEF ReceivedOf
  <2>5. phase[w] \in {"idle", "registered"} => local[w] = <<>>
    BY <1>1 DEF ReceivedOf
  <2>6. QED  BY <2>1, <2>2, <2>3, <2>4, <2>5 DEF ReceivedOf
<1>14. QueuedOf(w)'
  <2>1. ASSUME NEW k \in 1..Len(outq'), outq'[k].op = w
        PROVE  /\ outq'[k].type = "data" => outq'[k].n \in 1..Len(local'[w])
               /\ outq'[k].type = "end" => phase'[w] # "sending"
    BY <1>1, <1>3, <2>1 DEF QueuedOf
  <2>2. ASSUME srv'[w] \in {"idle", "receiving"}
        PROVE  /\ InOrder(outq', Parts(w), Seat, Awaited(w)')
               /\ phase'[w] = "sending" => UpTo(outq', Parts(w), Seat, Awaited(w)', Len(local'[w]))
    <3>1. srv[w] \in {"idle", "receiving"} /\ srv'[w] = "receiving"
      BY <1>9, <2>2
    <3>2. Awaited(w)' = Awaited(w) + 1
      <4>1. CASE srv[w] = "idle"
        <5>1. remote[w] = <<>> /\ remote'[w] = remote[w]
          BY <1>1, <1>9, <4>1 DEF ReceivedOf
        <5>2. Len(remote'[w]) = 0
          BY <5>1
        <5>3. QED  BY <3>1, <4>1, <5>2 DEF Awaited
      <4>2. CASE srv[w] = "receiving"
        <5>1. f.type = "data" /\ remote'[w] = Append(remote[w], f.n)
          BY <1>9, <3>1, <4>2
        <5>2. Len(remote'[w]) = r + 1
          BY <1>11, <4>2, <5>1
        <5>3. QED  BY <3>1, <4>2, <5>2 DEF Awaited
      <4>3. QED  BY <3>1, <4>1, <4>2
    <3>3. QED  BY <1>8, <3>1, <3>2
  <2>3. QED  BY <2>1, <2>2 DEF QueuedOf, Parts, Seat
<1>15. QED  BY <1>10, <1>13, <1>14

LEMMA WriterStepWrite ==
  ASSUME OrderInv, WriterStep, NEW w \in Writes
  PROVE  WriteOf(w)'
<1>1. /\ TypeOK /\ w \in Ops /\ QueuedOf(w) /\ ReceivedOf(w) /\ AckedOf(w)
  BY WriteGives
<1>2. /\ inbox' = inbox /\ inq' = inq /\ local' = local /\ link' = link /\ phase' = phase
      /\ outq # <<>>
  BY DEF WriterStep, callVars
<1>3. CASE link = "up" /\ AgentReceive(Head(outq)) /\ outq' = Tail(outq) /\ Head(outq).op = w
  <2>1. QueuedOf(w)' /\ ReceivedOf(w)' /\ (Done(w) => Done(w)')
    BY <1>2, <1>3, ReceiveWrite
  <2>2. AckedOf(w)'
    BY <1>1, <1>2, <2>1, AckedStays
  <2>3. QED  BY <2>1, <2>2 DEF WriteOf
<1>4. CASE link = "up" /\ AgentReceive(Head(outq)) /\ outq' = Tail(outq) /\ Head(outq).op # w
  <2>1. Head(outq).op \in Ops
    <3>1. Head(outq) \in OutFrames
      BY <1>1, <1>2, TailProp DEF TypeOK
    <3>2. QED  BY <3>1 DEF OutFrames
  <2>2. srv'[w] = srv[w] /\ remote'[w] = remote[w]
    BY <1>1, <1>4, <2>1 DEF AgentReceive, TypeOK
  <2>3. QueuedOf(w)'
    BY <1>1, <1>2, <1>4, <2>2, QueuedStays
  <2>4. ReceivedOf(w)'
    BY <1>1, <1>2, <2>2, ReceivedStays
  <2>5. AckedOf(w)'
    BY <1>1, <1>2, <2>2, AckedStays DEF Done
  <2>6. QED  BY <2>3, <2>4, <2>5 DEF WriteOf
<1>5. CASE link = "down" /\ outq' \in {Tail(outq), <<>>} /\ UNCHANGED <<srv, remote>>
  <2>1. QueuedOf(w)'
    BY <1>1, <1>2, <1>5, QueuedStays
  <2>2. ReceivedOf(w)'
    BY <1>1, <1>2, <1>5, ReceivedStays
  <2>3. AckedOf(w)'
    BY <1>1, <1>2, <1>5, AckedStays DEF Done
  <2>4. QED  BY <2>1, <2>2, <2>3 DEF WriteOf
<1>6. QED  BY <1>3, <1>4, <1>5 DEF WriterStep

\* A frame put into the channel of a write is one of the write's.
LEMMA ReaderStepWrite ==
  ASSUME OrderInv, ReaderStep, NEW w \in Writes
  PROVE  WriteOf(w)'
<1> DEFINE f == Head(inq)
           o == pending[f.id]
<1>1. /\ TypeOK /\ w \in Ops /\ w # NoOp /\ QueuedOf(w) /\ ReceivedOf(w) /\ AckedOf(w)
  BY WriteGives
<1>2. /\ outq' = outq /\ local' = local /\ link' = link /\ phase' = phase /\ srv' = srv
      /\ remote' = remote /\ inq # <<>> /\ inq' = Tail(inq)
  BY DEF ReaderStep, callVars, agentVars
<1>3. /\ PendingRouted /\ IdsAssigned /\ InRouted
  BY DEF OrderInv, IInv, RoutingInv
<1>4. f = inq[1] /\ 1 \in 1..Len(inq) /\ f \in InFrames
  BY <1>1, <1>2, TailProp DEF TypeOK
<1>5. f.id \in Ids /\ f.op \in Ops /\ id[f.op] = f.id
  BY <1>3, <1>4 DEF InFrames, InRouted
<1>6. \/ inbox' = inbox
      \/ o # NoOp /\ inbox' = [inbox EXCEPT ![o] = Append(@, f)]
  BY DEF ReaderStep, Delivers
<1> HIDE DEF f
<1>7. o = w => f.op = w
  <2>1. ASSUME o = w
        PROVE  f.op = w
    <3>1. id[w] = f.id
      BY <1>1, <1>3, <1>5, <2>1 DEF PendingRouted
    <3>2. id[w] = id[f.op] /\ id[w] # 0
      BY <1>5, <3>1 DEF Ids
    <3>3. QED  BY <1>1, <1>3, <1>5, <3>2 DEF IdsAssigned
  <2>2. QED  BY <2>1
<1>8. inbox'[w] = inbox[w] \/ (f.op = w /\ inbox'[w] = Append(inbox[w], f))
  <2>1. o \in Ops \cup {NoOp}
    BY <1>1, <1>5 DEF TypeOK
  <2>2. QED  BY <1>1, <1>6, <1>7, <2>1 DEF TypeOK
<1>9. QueuedOf(w)'
  BY <1>1, <1>2, QueuedStays
<1>10. ReceivedOf(w)'
  BY <1>1, <1>2, ReceivedStays
<1>11. AckedOf(w)'
  BY <1>1, <1>2, <1>8, AckedStays DEF Done, f
<1>12. QED  BY <1>9, <1>10, <1>11 DEF WriteOf

\* A step of another call, or one that only moves the call, its channel or the
\* way from the Agent.
LEMMA OtherStepsWrite ==
  ASSUME OrderInv, NEW w \in Writes,
         \/ \E p \in Ops : \/ Begin(p) \/ Answered(p) \/ TimeOut(p) \/ ReadStep(p)
                           \/ OpenShell(p) \/ ShellTask(p) \/ UseShell(p) \/ CloseShell(p)
         \/ \E p \in Ops \ {w} : SendControl(p) \/ SendContent(p)
         \/ ReaderFails \/ ReaderClears \/ LinkDown \/ UNCHANGED vars
  PROVE  WriteOf(w)'
<1>1. /\ TypeOK /\ IdsAssigned /\ w \in Ops /\ w \in Oneshot /\ w \notin Reads
      /\ w \notin Shells /\ QueuedOf(w) /\ ReceivedOf(w) /\ AckedOf(w)
  BY WriteGives
<1>2. /\ srv' = srv /\ remote' = remote /\ (link' = "up" => link = "up")
      /\ inq' = inq \/ \E n \in 0..Len(inq) : inq' = SubSeq(inq, 1, n)
  BY DEF Begin, Answered, TimeOut, ReadStep, OpenShell, ShellTask, UseShell, CloseShell,
         SendControl, SendContent, ReaderFails, ReaderClears, LinkDown, vars, callVars, agentVars
<1>3. local'[w] = local[w]
  BY <1>1 DEF Begin, Answered, TimeOut, ReadStep, OpenShell, ShellTask, UseShell, CloseShell,
         SendControl, SendContent, ReaderFails, ReaderClears, LinkDown, vars, callVars, TypeOK
<1>4. inbox'[w] = inbox[w] \/ (inbox[w] # <<>> /\ inbox'[w] = Tail(inbox[w]))
  BY <1>1 DEF Begin, Answered, TimeOut, ReadStep, OpenShell, ShellTask, UseShell, CloseShell,
         SendControl, SendContent, ReaderFails, ReaderClears, LinkDown, vars, TypeOK
<1>5. /\ phase'[w] = "sending" => phase[w] = "sending"
      /\ phase'[w] \in {"idle", "registered"} => phase[w] \in {"idle", "registered"}
      /\ phase'[w] = "ok" => phase[w] = "ok" \/ (inbox[w] # <<>> /\ Head(inbox[w]).type = "ok")
  <2>1. ASSUME NEW p \in Ops, \/ Begin(p) \/ Answered(p) \/ TimeOut(p) \/ ReadStep(p)
                              \/ OpenShell(p) \/ ShellTask(p) \/ UseShell(p) \/ CloseShell(p)
        PROVE  /\ phase'[w] = "sending" => phase[w] = "sending"
               /\ phase'[w] \in {"idle", "registered"} => phase[w] \in {"idle", "registered"}
               /\ phase'[w] = "ok" => phase[w] = "ok" \/ (inbox[w] # <<>> /\ Head(inbox[w]).type = "ok")
    <3>1. CASE p = w
      BY <1>1, <2>1, <3>1 DEF Begin, Answered, TimeOut, ReadStep, OpenShell, ShellTask, UseShell,
         CloseShell, Become, TypeOK
    <3>2. CASE p # w
      <4>1. phase'[w] = phase[w]
        BY <1>1, <2>1, <3>2 DEF Begin, Answered, TimeOut, ReadStep, OpenShell, ShellTask, UseShell,
           CloseShell, Become, callVars, TypeOK
      <4>2. QED  BY <4>1
    <3>3. QED  BY <3>1, <3>2
  <2>2. ASSUME NEW p \in Ops \ {w}, SendControl(p) \/ SendContent(p)
        PROVE  phase'[w] = phase[w]
    BY <1>1, <2>2 DEF SendControl, SendContent, Become, TypeOK
  <2>3. CASE ReaderFails \/ ReaderClears \/ LinkDown \/ UNCHANGED vars
    BY <2>3 DEF ReaderFails, ReaderClears, LinkDown, vars, callVars
  <2>4. QED  BY <2>1, <2>2, <2>3
<1>6. outq' = outq \/ \E f \in OutFrames : f.op # w /\ outq' = Append(outq, f)
  <2>1. ASSUME NEW p \in Ops, p # w, phase[p] # "idle", NEW t \in {"request", "data", "end"},
               NEW n \in 0..Chunks, Queue(p, t, n)
        PROVE  \E f \in OutFrames : f.op # w /\ outq' = Append(outq, f)
    <3>1. \E f \in OutFrames : f.op = p /\ f.type = t /\ f.n = n /\ outq' = Append(outq, f)
      BY <1>1, <2>1, QueueFrame
    <3>2. QED  BY <2>1, <3>1
  <2>2. ASSUME NEW p \in Ops \ {w}, SendControl(p)
        PROVE  outq' = outq \/ \E f \in OutFrames : f.op # w /\ outq' = Append(outq, f)
    <3>1. phase[p] # "idle" /\ 0 \in 0..Chunks
      BY <2>2 DEF SendControl
    <3>2. QED  BY <2>1, <2>2, <3>1 DEF SendControl
  <2>3. ASSUME NEW p \in Ops \ {w}, SendContent(p)
        PROVE  outq' = outq \/ \E f \in OutFrames : f.op # w /\ outq' = Append(outq, f)
    <3>1. phase[p] # "idle" /\ 0 \in 0..Chunks /\ Len(local[p]) \in Nat
      BY <1>1, <2>3 DEF SendContent, TypeOK
    <3>2. ContentLeft(p) => Len(local[p]) + 1 \in 0..Chunks
      BY <3>1 DEF ContentLeft
    <3>3. QED  BY <2>1, <2>3, <3>1, <3>2 DEF SendContent
  <2>4. ASSUME NEW p \in Ops, UseShell(p) \/ CloseShell(p)
        PROVE  outq' = outq \/ \E f \in OutFrames : f.op # w /\ outq' = Append(outq, f)
    <3>1. phase[p] # "idle" /\ 0 \in 0..Chunks /\ p # w
      BY <1>1, <2>4 DEF UseShell, CloseShell
    <3>2. outq' = outq \/ Queue(p, "data", 0) \/ Queue(p, "end", 0)
      BY <2>4 DEF UseShell, CloseShell, SendEnd
    <3>3. QED  BY <2>1, <3>1, <3>2
  <2>5. ASSUME NEW p \in Ops, \/ Begin(p) \/ Answered(p) \/ TimeOut(p) \/ ReadStep(p)
                              \/ OpenShell(p) \/ ShellTask(p)
        PROVE  outq' = outq
    BY <2>5 DEF Begin, Answered, TimeOut, ReadStep, OpenShell, ShellTask
  <2>6. CASE ReaderFails \/ ReaderClears \/ LinkDown \/ UNCHANGED vars
    BY <2>6 DEF ReaderFails, ReaderClears, LinkDown, vars
  <2>7. QED  BY <2>2, <2>3, <2>4, <2>5, <2>6
<1>7. QueuedOf(w)'
  BY <1>1, <1>2, <1>3, <1>5, <1>6, QueuedStays
<1>8. ReceivedOf(w)'
  BY <1>1, <1>2, <1>3, <1>5, ReceivedStays
<1>9. AckedOf(w)'
  BY <1>1, <1>2, <1>4, <1>5, AckedStays DEF Done
<1>10. QED  BY <1>7, <1>8, <1>9 DEF WriteOf

LEMMA WritesOrder ==
  ASSUME OrderInv, [Next]_vars, NEW w \in Writes
  PROVE  WriteOf(w)'
<1>1. ASSUME NEW p \in Ops, SendControl(p) \/ SendContent(p)
      PROVE  WriteOf(w)'
  BY <1>1, SendControlWrite, SendContentWrite, OtherStepsWrite
<1>2. ASSUME NEW p \in Ops, Begin(p) \/ Answered(p) \/ TimeOut(p) \/ ReadStep(p) \/ OpenShell(p)
                            \/ ShellTask(p) \/ UseShell(p) \/ CloseShell(p)
      PROVE  WriteOf(w)'
  BY <1>2, OtherStepsWrite
<1>3. ASSUME NEW p \in Ops, AgentAnswer(p) \/ AgentStream(p)
      PROVE  WriteOf(w)'
  BY <1>3, AgentAnswerWrite
<1>4. CASE WriterStep \/ ReaderStep
  BY <1>4, WriterStepWrite, ReaderStepWrite
<1>5. CASE ReaderFails \/ ReaderClears \/ LinkDown \/ UNCHANGED vars
  BY <1>5, OtherStepsWrite
<1>6. QED  BY <1>1, <1>2, <1>3, <1>4, <1>5 DEF Next, CallStep

LEMMA OrderInit == Init => OrderInv
<1> SUFFICES ASSUME Init
             PROVE  OrderInv
  OBVIOUS
<1>1. /\ \A o \in Ops : /\ phase[o] = "idle" /\ srv[o] = "idle" /\ inbox[o] = <<>>
                        /\ local[o] = <<>> /\ remote[o] = <<>> /\ ~Registered(o)
      /\ outq = <<>> /\ inq = <<>> /\ told = {} /\ Len(outq) = 0 /\ Len(inq) = 0
  BY DEF Init, Registered
<1>2. ASSUME NEW o \in Ops
      PROVE  /\ Len(inbox[o]) = 0 /\ Len(local[o]) = 0 /\ Len(remote[o]) = 0
             /\ phase[o] = "idle" /\ srv[o] = "idle" /\ inbox[o] = <<>>
             /\ local[o] = <<>> /\ remote[o] = <<>> /\ ~Hears(o)
  BY <1>1 DEF Hears
<1>3. IInv
  BY StaleInit
<1>4. ASSUME NEW o \in Ops
      PROVE  AskedOf(o)
  BY <1>1, <1>2 DEF AskedOf
<1>5. ASSUME NEW o \in Streams
      PROVE  StreamOf(o)
  <2>1. o \in Ops
    BY StreamsApart
  <2>2. SilentOf(o) /\ ChannelOf(o) /\ LineOf(o) /\ PrefixOf(o)
    BY <1>1, <1>2, <2>1 DEF SilentOf, ChannelOf, LineOf, PrefixOf
  <2>3. QED  BY <2>2 DEF StreamOf
<1>6. ASSUME NEW w \in Writes
      PROVE  WriteOf(w)
  <2>1. w \in Ops
    BY StreamsApart
  <2>2. QueuedOf(w)
    BY <1>1, <1>2, <2>1 DEF QueuedOf, InOrder
  <2>3. ReceivedOf(w)
    BY <1>2, <2>1 DEF ReceivedOf
  <2>4. AckedOf(w)
    BY <1>1, <1>2, <2>1 DEF AckedOf
  <2>5. QED  BY <2>2, <2>3, <2>4 DEF WriteOf
<1>7. QED  BY <1>3, <1>4, <1>5, <1>6 DEF OrderInv

LEMMA OrderStep == OrderInv /\ [Next]_vars => OrderInv'
<1> SUFFICES ASSUME OrderInv, [Next]_vars
             PROVE  OrderInv'
  OBVIOUS
<1>1. IInv'
  BY StaleStep DEF OrderInv
<1>2. \A o \in Ops : AskedOf(o)'
  BY AskedStep
<1>3. \A o \in Streams : StreamOf(o)'
  BY StreamsOrder
<1>4. \A w \in Writes : WriteOf(w)'
  BY WritesOrder
<1>5. QED  BY <1>1, <1>2, <1>3, <1>4 DEF OrderInv, Ops, Streams

\* Whatever the frames of other calls, the losses and the order in which the
\* tasks run, a streamed read and a terminal are handed a prefix of what the
\* Agent sent, and a tab told of the end was handed all of it.
THEOREM ChunksStayInOrder == Spec => []OrderedPrefix
<1>1. OrderInv => OrderedPrefix
  BY DEF OrderInv, OrderedPrefix, StreamOf, PrefixOf, Streams
<1>2. QED  BY <1>1, OrderInit, OrderStep, PTL DEF Spec

\* write_stream() reports success only once the Agent holds every chunk of the
\* file, each once and in order.
THEOREM AckedMeansWhole == Spec => []AckedWriteIsWhole
<1>1. OrderInv => AckedWriteIsWhole
  BY DEF OrderInv, AckedWriteIsWhole, WriteOf, AckedOf, ReceivedOf, Done
<1>2. QED  BY <1>1, OrderInit, OrderStep, PTL DEF Spec

----------------------------------------------------------------------------
(* The end of a terminal the user closed.                                  *)

Leaves(o) == \E k \in 1..Len(outq) : outq[k].op = o /\ outq[k].type = "end"

LeavingInv ==
  /\ link = "up" => writer = "running"
  /\ ClosedShellIsEnding

LEMMA LeavesProp ==
  ASSUME outq \in Seq(OutFrames), NEW o, Leaves(o)
  PROVE  /\ \A f \in OutFrames : outq' = Append(outq, f) => Leaves(o)'
         /\ outq' = outq => Leaves(o)'
<1>1. PICK k \in 1..Len(outq) : outq[k].op = o /\ outq[k].type = "end"
  BY DEF Leaves
<1>2. ASSUME NEW f \in OutFrames, outq' = Append(outq, f) PROVE Leaves(o)'
  <2>1. k \in 1..Len(outq') /\ outq'[k] = outq[k]
    BY <1>2, AppendProp
  <2>2. QED  BY <1>1, <2>1 DEF Leaves
<1>3. ASSUME outq' = outq PROVE Leaves(o)'
  BY <1>1, <1>3 DEF Leaves
<1>4. QED  BY <1>2, <1>3

\* A step that ends neither a terminal nor the queue.
LEMMA StillLeaving ==
  ASSUME TypeOK, NEW o \in Shells, LeavingInv,
         phase'[o] = "closed" => phase[o] = "closed", link' = "up" => link = "up",
         srv[o] = "ended" => srv'[o] = "ended",
         outq' = outq \/ \E f \in OutFrames : outq' = Append(outq, f)
  PROVE  phase'[o] = "closed" /\ link' = "up" => srv'[o] = "ended" \/ Leaves(o)'
<1>1. outq \in Seq(OutFrames)
  BY DEF TypeOK
<1>2. Leaves(o) => Leaves(o)'
  BY <1>1, LeavesProp
<1>3. QED  BY <1>2 DEF LeavingInv, ClosedShellIsEnding, Leaves

LEMMA LeavingStep ==
  ASSUME OrderInv, LeavingInv, [Next]_vars
  PROVE  LeavingInv'
<1>1. TypeOK /\ IdsAssigned /\ outq \in Seq(OutFrames)
      /\ \A o \in Shells : AskedOf(o) /\ o \in Ops /\ o \notin Writes
  BY DEF OrderInv, IInv, RoutingInv, TypeOK, Ops
<1>2. link' = "up" => link = "up" /\ writer' = "running"
  BY <1>1 DEF LeavingInv, TypeOK, Next, CallStep, Begin, SendControl, SendContent, Answered, TimeOut, ReadStep,
         OpenShell, ShellTask, UseShell, CloseShell, AgentAnswer, AgentStream, WriterStep,
         ReaderStep, ReaderFails, ReaderClears, LinkDown, vars
<1> SUFFICES ASSUME NEW o \in Shells
             PROVE  phase'[o] = "closed" /\ link' = "up" => srv'[o] = "ended" \/ Leaves(o)'
  BY <1>2 DEF LeavingInv, ClosedShellIsEnding, Leaves
<1>3. ASSUME NEW p \in Ops, SendControl(p) \/ SendContent(p) \/ UseShell(p)
      PROVE  phase'[o] = "closed" /\ link' = "up" => srv'[o] = "ended" \/ Leaves(o)'
  <2>1. srv' = srv /\ link' = link /\ phase[p] # "idle" /\ (phase'[o] = "closed" => phase[o] = "closed")
    BY <1>1, <1>3 DEF SendControl, SendContent, UseShell, Become, callVars, agentVars, TypeOK
  <2>2. ASSUME NEW t \in {"request", "data", "end"}, NEW n \in 0..Chunks, Queue(p, t, n)
        PROVE  \E f \in OutFrames : outq' = Append(outq, f)
    BY <1>1, <2>1, <2>2, QueueFrame
  <2>3. 0 \in 0..Chunks /\ (ContentLeft(p) => Len(local[p]) + 1 \in 0..Chunks)
    <3>1. Len(local[p]) \in Nat
      BY <1>1 DEF TypeOK
    <3>2. QED  BY <3>1 DEF ContentLeft
  <2>4. outq' = outq \/ \E f \in OutFrames : outq' = Append(outq, f)
    BY <1>3, <2>2, <2>3 DEF SendControl, SendContent, UseShell
  <2>5. QED  BY <1>1, <2>1, <2>4, StillLeaving
<1>4. ASSUME NEW p \in Ops, CloseShell(p)
      PROVE  phase'[o] = "closed" /\ link' = "up" => srv'[o] = "ended" \/ Leaves(o)'
  <2>1. srv' = srv /\ link' = link /\ writer' = writer /\ phase[p] = "open"
        /\ (p # o => phase'[o] = phase[o])
    BY <1>1, <1>4 DEF CloseShell, Become, TypeOK
  <2>2. CASE writer # "running"
    BY <1>2, <2>1, <2>2
  <2>3. CASE writer = "running"
    <3>1. 0 \in 0..Chunks /\ Queue(p, "end", 0)
      BY <1>4, <2>3 DEF CloseShell, SendEnd, IsAlive
    <3>2. PICK f \in OutFrames : f.op = p /\ f.type = "end" /\ f.n = 0 /\ outq' = Append(outq, f)
      BY <1>1, <2>1, <3>1, QueueFrame
    <3>3. CASE p = o
      <4>1. Len(outq) + 1 \in 1..Len(outq') /\ outq'[Len(outq) + 1] = f
        BY <1>1, <3>2, AppendProp
      <4>2. QED  BY <3>2, <3>3, <4>1 DEF Leaves
    <3>4. CASE p # o
      BY <1>1, <2>1, <3>2, <3>4, StillLeaving
    <3>5. QED  BY <3>3, <3>4
  <2>4. QED  BY <2>2, <2>3
<1>5. ASSUME NEW p \in Ops, \/ Begin(p) \/ Answered(p) \/ TimeOut(p) \/ ReadStep(p)
                            \/ OpenShell(p) \/ ShellTask(p)
      PROVE  phase'[o] = "closed" /\ link' = "up" => srv'[o] = "ended" \/ Leaves(o)'
  <2>1. srv' = srv /\ link' = link /\ outq' = outq /\ (phase'[o] = "closed" => phase[o] = "closed")
    BY <1>1, <1>5 DEF Begin, Answered, TimeOut, ReadStep, OpenShell, ShellTask, Become, TypeOK
  <2>2. QED  BY <1>1, <2>1, StillLeaving
<1>6. ASSUME NEW p \in Ops, AgentAnswer(p) \/ AgentStream(p)
      PROVE  phase'[o] = "closed" /\ link' = "up" => srv'[o] = "ended" \/ Leaves(o)'
  <2>1. phase' = phase /\ link' = link /\ outq' = outq /\ (srv[o] = "ended" => srv'[o] = "ended")
    BY <1>1, <1>6 DEF AgentAnswer, AgentStream, AgentSets, callVars, TypeOK
  <2>2. QED  BY <1>1, <2>1, StillLeaving
<1>7. CASE WriterStep
  <2>1. phase' = phase /\ link' = link /\ outq # <<>>
    BY <1>7 DEF WriterStep, callVars
  <2>2. CASE link # "up"
    BY <2>1, <2>2
  <2>3. CASE link = "up"
    <3> DEFINE f == Head(outq)
    <3>1. AgentReceive(f) /\ outq' = Tail(outq)
      BY <1>7, <2>3 DEF WriterStep
    <3>2. f = outq[1] /\ 1 \in 1..Len(outq) /\ f \in OutFrames /\ Len(outq') = Len(outq) - 1
          /\ Len(outq) \in Nat /\ \A k \in 1..Len(outq') : outq'[k] = outq[k + 1]
      BY <1>1, <2>1, <3>1, TailProp
    <3>3. f.op \in Ops
      BY <3>2 DEF OutFrames
    <3> HIDE DEF f
    <3>4. srv[o] = "ended" => srv'[o] = "ended"
      <4>1. f.op = o => (srv[o] = "idle" \/ f.type # "request")
        BY <1>1, <3>2 DEF AskedOf
      <4>2. f.op # o => srv'[o] = srv[o]
        BY <1>1, <3>1, <3>3 DEF AgentReceive, TypeOK
      <4>3. f.op = o /\ f.type # "request" /\ srv[o] = "ended" => srv'[o] = "ended"
        BY <1>1, <3>1, <3>3 DEF AgentReceive, TypeOK
      <4>4. QED  BY <4>1, <4>2, <4>3
    <3>5. ASSUME Leaves(o) PROVE srv'[o] = "ended" \/ Leaves(o)'
      <4>1. PICK k \in 1..Len(outq) : outq[k].op = o /\ outq[k].type = "end"
        BY <3>5 DEF Leaves
      <4>2. CASE k = 1
        BY <1>1, <3>1, <3>2, <4>1, <4>2 DEF AgentReceive, TypeOK
      <4>3. CASE k # 1
        <5>1. k - 1 \in 1..Len(outq') /\ (k - 1) + 1 = k
          BY <3>2, <4>3
        <5>2. outq'[k - 1] = outq[k]
          BY <3>2, <5>1
        <5>3. QED  BY <4>1, <5>1, <5>2 DEF Leaves
      <4>4. QED  BY <4>2, <4>3
    <3>6. QED  BY <2>1, <3>4, <3>5 DEF LeavingInv, ClosedShellIsEnding, Leaves
  <2>4. QED  BY <2>2, <2>3
<1>8. CASE ReaderStep \/ ReaderFails \/ ReaderClears \/ LinkDown \/ UNCHANGED vars
  <2>1. phase' = phase /\ outq' = outq /\ srv' = srv
    BY <1>8 DEF ReaderStep, ReaderFails, ReaderClears, LinkDown, vars, callVars, agentVars
  <2>2. QED  BY <1>1, <1>2, <2>1, StillLeaving
<1>9. QED  BY <1>3, <1>4, <1>5, <1>6, <1>7, <1>8 DEF Next, CallStep

\* A terminal the user closed has ended at the Agent, or its StreamEnd is among
\* the frames the writer task has still to send, or the connection is lost.
THEOREM ClosedTerminalIsEnding == Spec => []ClosedShellIsEnding
<1>1. Init => LeavingInv
  BY DEF Init, LeavingInv, ClosedShellIsEnding, Ops
<1>2. LeavingInv => ClosedShellIsEnding
  BY DEF LeavingInv
<1>3. OrderInv /\ LeavingInv /\ [Next]_vars => LeavingInv'
  BY LeavingStep
<1>4. QED  BY <1>1, <1>2, <1>3, OrderInit, OrderStep, PTL DEF Spec

=============================================================================
