---------------------------- MODULE TransferProofs ----------------------------
(***************************************************************************)
(* The four properties of Transfer, for every number of calls, files and   *)
(* versions.                                                               *)
(***************************************************************************)
EXTENDS Transfer, SequenceTheorems, FiniteSetTheorems, TLAPS

USE TransferAssumption

----------------------------------------------------------------------------
(* The parts of the inductive invariant.                                   *)

\* Two running transfers have met.
Alone ==
  \A t, u \in Transfers : Active(t) /\ Active(u) /\ t # u => t \in tainted

\* Where a call is, and what it may not have done yet.
StageOf(t) ==
  /\ pc[t] = "idle" => file[t] = 1 /\ pos[t] = 0 /\ log[t] = NoRow
  /\ pc[t] \in {"idle"} \cup (Running \ {"finish"}) => outcome[t] = "none"
  /\ pc[t] \in {"read", "flush"} => via = "sftp"
  /\ pc[t] = "write" /\ via = "sftp" => pos[t] < version[t]
  /\ pc[t] = "flush" => pos[t] = version[t]
  /\ pc[t] # "idle" /\ ~many[t] => file[t] = 1

Stages == pos \in [Transfers -> Nat] /\ \A t \in Transfers : StageOf(t)

Goal(t) == IF many[t] THEN Files ELSE 1

\* A call has counted the files before the one it is at, or all of its entry.
Counts ==
  \A t \in Transfers :
    /\ count[t] = IF outcome[t] = "completed" THEN Goal(t) ELSE file[t] - 1
    /\ t \notin tainted => whole[t] = 1..count[t]

\* What a call that met nobody has of the file it is at.
HasOpen(t) ==
  /\ pos[t] = IF sized[t] THEN Offset(t) ELSE 0
  /\ \A k \in 1..pos[t] : Target(t)[k] = version[t]

Has(t) ==
  /\ pc[t] = "open" /\ via = "sftp" => HasOpen(t)
  /\ pc[t] \in {"read", "write", "flush"} /\ via = "sftp" => Target(t) = Chunks(t, pos[t])
  /\ pc[t] = "write" /\ via = "agent" => pos[t] = version[t]
  /\ pc[t] = "done" => Target(t) = Whole(version[t])

Copied == \A t \in Transfers : t \notin tainted => Has(t)

\* A row is written once, at the end.
Logged ==
  \A t \in Transfers :
    log[t] # NoRow => /\ pc[t] = "returned"
                      /\ log[t] = [status |-> outcome[t], files |-> count[t]]

IInv == TypeOK /\ Stages /\ Alone /\ Counts /\ Copied /\ Logged

EntryStep(t) ==
  \E v \in 1..Versions, m \in BOOLEAN : SftpEntry(t, v, m) \/ AgentEntry(t, v, m)

CallStep(t) ==
  \/ Stat(t) \/ Open(t) \/ Read(t) \/ WriteChunk(t) \/ Flush(t)
  \/ CopyDir(t) \/ ReadWhole(t) \/ WriteWhole(t)
  \/ FileDone(t) \/ Finish(t) \/ Cancel(t)

----------------------------------------------------------------------------
(* Contents.                                                               *)

LEMMA ContentIsSeq ==
  ASSUME NEW c \in Content
  PROVE  /\ Len(c) \in 0..Versions
         /\ c \in [1..Len(c) -> 0..Versions]
<1>1. PICK n \in 0..Versions : c \in [1..n -> 0..Versions]
  BY DEF Content
<1>2. c \in Seq(0..Versions)
  BY <1>1, SeqDef
<1>3. Len(c) = n
  BY <1>1, <1>2, LenProperties
<1>4. QED  BY <1>1, <1>3

LEMMA SeqIsContent ==
  ASSUME NEW n \in 0..Versions, NEW c \in [1..n -> 0..Versions]
  PROVE  c \in Content /\ Len(c) = n
<1>1. c \in Content
  BY DEF Content
<1>2. c \in [1..Len(c) -> 0..Versions] /\ Len(c) \in Nat
  BY <1>1, ContentIsSeq
<1>3. DOMAIN c = 1..n /\ DOMAIN c = 1..Len(c)
  BY <1>2
<1>4. QED  BY <1>1, <1>2, <1>3

LEMMA SameContent ==
  ASSUME NEW c \in Content, NEW d \in Content, Len(c) = Len(d),
         \A k \in 1..Len(c) : c[k] = d[k]
  PROVE  c = d
BY ContentIsSeq

LEMMA EmptyContent == <<>> \in Content /\ Len(<<>>) = 0
<1>1. <<>> \in [1..0 -> 0..Versions]
  OBVIOUS
<1>2. 0 \in 0..Versions
  OBVIOUS
<1>3. QED  BY <1>1, <1>2, SeqIsContent

\* k chunks of version v, and their places.
LEMMA CopyContent ==
  ASSUME NEW v \in 1..Versions, NEW k \in 0..v
  PROVE  /\ [j \in 1..k |-> v] \in Content
         /\ Len([j \in 1..k |-> v]) = k
<1>1. [j \in 1..k |-> v] \in [1..k -> 0..Versions]
  OBVIOUS
<1>2. QED  BY <1>1, SeqIsContent

LEMMA PutContent ==
  ASSUME NEW c \in Content, NEW k \in 1..Versions, NEW v \in 0..Versions
  PROVE  Put(c, k, v) \in Content
<1> DEFINE n == IF k > Len(c) THEN k ELSE Len(c)
<1>1. n \in 0..Versions
  BY ContentIsSeq
<1>2. \A j \in 1..n : (IF j = k THEN v ELSE IF j <= Len(c) THEN c[j] ELSE Hole) \in 0..Versions
  BY ContentIsSeq DEF Hole
<1>3. Put(c, k, v) \in [1..n -> 0..Versions]
  BY <1>2 DEF Put
<1>4. QED  BY <1>1, <1>3, SeqIsContent

\* Writing the next chunk of a copy that has k.
LEMMA PutNext ==
  ASSUME NEW v \in 1..Versions, NEW k \in 0..v, k < v
  PROVE  Put([j \in 1..k |-> v], k + 1, v) = [j \in 1..(k + 1) |-> v]
<1>1. Len([j \in 1..k |-> v]) = k
  BY CopyContent
<1>2. QED  BY <1>1 DEF Put

----------------------------------------------------------------------------
(* Types and stages.                                                       *)

LEMMA InitInv == Init => IInv
<1> SUFFICES ASSUME Init PROVE IInv
  OBVIOUS
<1>1. TypeOK
  <2>1. dest \in [1..Files -> Content]
    BY EmptyContent DEF Init
  <2>2. log \in [Transfers -> [status : {"none"} \cup Outcomes, files : 0..Files]]
    BY DEF Init, NoRow
  <2>3. whole \in [Transfers -> SUBSET (1..Files)]
    BY DEF Init
  <2>4. pc \in [Transfers -> {"idle", "returned", "lost"} \cup Running]
    BY DEF Init
  <2>5. QED  BY <2>1, <2>2, <2>3, <2>4 DEF Init, TypeOK
<1>2. Stages /\ Alone /\ Logged
  BY DEF Init, Stages, StageOf, Alone, Logged, Active, Running
<1>3. Counts /\ Copied
  BY DEF Init, Counts, Copied, Has, Goal
<1>4. QED  BY <1>1, <1>2, <1>3 DEF IInv

LEMMA OffsetType ==
  ASSUME TypeOK, NEW t \in Transfers
  PROVE  /\ Target(t) \in Content
         /\ Offset(t) \in 0..version[t]
<1>1. Target(t) \in Content
  BY DEF TypeOK, Target
<1>2. Len(Target(t)) \in 0..Versions
  BY <1>1, ContentIsSeq
<1>3. version[t] \in 1..Versions
  BY DEF TypeOK
<1>4. QED  BY <1>1, <1>2, <1>3 DEF Offset

LEMMA ChunksType ==
  ASSUME TypeOK, NEW t \in Transfers, NEW k \in 0..version[t]
  PROVE  Chunks(t, k) \in Content /\ Len(Chunks(t, k)) = k
BY CopyContent DEF Chunks, TypeOK

LEMMA EntryTypes ==
  ASSUME TypeOK, Stages, NEW t \in Transfers, EntryStep(t)
  PROVE  TypeOK' /\ Stages'
<1>1. PICK v \in 1..Versions, m \in BOOLEAN, first \in {"stat", "open"} : Start(t, v, m, first)
  BY DEF EntryStep, SftpEntry, AgentEntry
<1>2. many' \in [Transfers -> BOOLEAN]
  BY <1>1, Zenon DEF Start, TypeOK
<1>3. tainted' \in SUBSET Transfers
  BY <1>1 DEF Start, TypeOK
<1>4. /\ version' \in [Transfers -> 1..Versions]
      /\ \A u \in Transfers : pos'[u] \in 0..version'[u]
  BY <1>1 DEF Start, TypeOK, Stages, StageOf
<1>5. /\ pc' \in [Transfers -> {"idle", "returned", "lost"} \cup Running]
      /\ outcome' \in [Transfers -> {"none"} \cup Outcomes]
  BY <1>1 DEF Start, TypeOK, Goto, Running, Outcomes
<1>6. TypeOK'
  BY <1>1, <1>2, <1>3, <1>4, <1>5 DEF Start, TypeOK
<1>7. Stages'
  BY <1>1 DEF Start, TypeOK, Stages, StageOf, Goto, Running
<1>8. QED  BY <1>6, <1>7

\* Every step of a call ends it or leaves its outcome alone.
LEMMA CallPlaces ==
  ASSUME TypeOK, NEW t \in Transfers, CallStep(t)
  PROVE  /\ pc' \in [Transfers -> {"idle", "returned", "lost"} \cup Running]
         /\ outcome' \in [Transfers -> {"none"} \cup Outcomes]
<1> USE DEF TypeOK, Goto, End, Running, Outcomes
<1>1. CASE Stat(t) \/ Open(t) \/ Read(t)
  BY <1>1 DEF Stat, Open, Read
<1>2. CASE WriteChunk(t) \/ Flush(t) \/ CopyDir(t)
  BY <1>2 DEF WriteChunk, Flush, CopyDir
<1>3. CASE ReadWhole(t) \/ WriteWhole(t)
  BY <1>3 DEF ReadWhole, WriteWhole
<1>4. CASE FileDone(t) \/ Finish(t) \/ Cancel(t)
  BY <1>4 DEF FileDone, Finish, Cancel
<1>5. QED  BY <1>1, <1>2, <1>3, <1>4 DEF CallStep

\* What a call skips, copies or reads is never more than the source has.
LEMMA CallPos ==
  ASSUME TypeOK, Stages, NEW t \in Transfers, CallStep(t)
  PROVE  /\ pos' \in [Transfers -> Nat]
         /\ \A u \in Transfers : pos'[u] \in 0..version[u]
<1> USE DEF TypeOK, Stages, StageOf
<1>1. CASE \E k \in 0..version[t] : pos' = [pos EXCEPT ![t] = k]
  BY <1>1
<1>2. CASE UNCHANGED pos
  BY <1>2
<1>3. CASE Stat(t)
  <2>1. ASSUME NEW known \in BOOLEAN, pos' = [pos EXCEPT ![t] = IF known THEN Offset(t) ELSE 0]
        PROVE  \E k \in 0..version[t] : pos' = [pos EXCEPT ![t] = k]
    <3>1. (IF known THEN Offset(t) ELSE 0) \in 0..version[t]
      BY OffsetType
    <3>2. QED  BY <2>1, <3>1
  <2>2. UNCHANGED pos \/ \E known \in BOOLEAN : pos' = [pos EXCEPT ![t] = IF known THEN Offset(t) ELSE 0]
    BY <1>3 DEF Stat
  <2>3. QED  BY <1>1, <1>2, <2>1, <2>2
<1>4. CASE WriteChunk(t)
  <2>1. pos[t] + 1 \in 0..version[t]
    BY <1>4 DEF WriteChunk
  <2>2. UNCHANGED pos \/ pos' = [pos EXCEPT ![t] = pos[t] + 1]
    BY <1>4 DEF WriteChunk
  <2>3. QED  BY <1>1, <1>2, <2>1, <2>2
<1>5. CASE ReadWhole(t)
  BY <1>1, <1>2, <1>5 DEF ReadWhole
<1>6. QED
  BY <1>2, <1>3, <1>4, <1>5 DEF CallStep, Open, Read, Flush, CopyDir, WriteWhole, FileDone,
     Finish, Cancel

LEMMA CallDest ==
  ASSUME TypeOK, Stages, NEW t \in Transfers, CallStep(t)
  PROVE  /\ dest' \in [1..Files -> Content]
         /\ Active(t) \/ UNCHANGED dest
<1>1. ASSUME NEW c \in Content, Write(t, c) PROVE dest' \in [1..Files -> Content]
  BY <1>1 DEF Write, TypeOK
<1>2. CASE UNCHANGED dest
  BY <1>2 DEF TypeOK
<1>3. CASE Open(t)
  BY <1>1, <1>2, <1>3, EmptyContent, OffsetType DEF Open, Active, Running
<1>4. CASE WriteChunk(t)
  <2>1. pos[t] + 1 \in 1..Versions /\ version[t] \in 0..Versions
    BY <1>4 DEF WriteChunk, TypeOK, Stages, StageOf
  <2>2. Put(Target(t), pos[t] + 1, version[t]) \in Content
    BY <2>1, OffsetType, PutContent
  <2>3. QED  BY <1>1, <1>2, <1>4, <2>2 DEF WriteChunk, Active, Running
<1>5. CASE WriteWhole(t)
  <2>1. \A k \in 0..pos[t] : k \in 0..version[t]
    BY DEF TypeOK
  <2>2. pos[t] \in 0..pos[t]
    BY DEF TypeOK
  <2>3. \A k \in 0..pos[t] : Chunks(t, k) \in Content
    BY <2>1, ChunksType
  <2>4. QED  BY <1>1, <1>2, <1>5, <2>2, <2>3 DEF WriteWhole, Active, Running
<1>6. QED
  BY <1>2, <1>3, <1>4, <1>5 DEF CallStep, Stat, Read, Flush, CopyDir, ReadWhole, FileDone,
     Finish, Cancel

LEMMA CallHistory ==
  ASSUME TypeOK, NEW t \in Transfers, CallStep(t)
  PROVE  /\ UNCHANGED <<via, many, version>>
         /\ cancelled' \in SUBSET Transfers
         /\ sized' \in [Transfers -> BOOLEAN]
         /\ tainted' \in SUBSET Transfers
         /\ tainted \subseteq tainted' /\ tainted' \subseteq tainted \cup {t}
         /\ log' \in [Transfers -> [status : {"none"} \cup Outcomes, files : 0..Files]]
<1> USE DEF TypeOK
<1>1. CASE Stat(t)
  <2>1. sized' \in [Transfers -> BOOLEAN]
    BY <1>1, Zenon DEF Stat
  <2>2. QED  BY <1>1, <2>1 DEF Stat
<1>2. CASE ReadWhole(t)
  BY <1>2 DEF ReadWhole
<1>3. CASE Finish(t)
  <2>1. [status |-> outcome[t], files |-> count[t]]
          \in [status : {"none"} \cup Outcomes, files : 0..Files]
    BY Zenon
  <2>2. log' \in [Transfers -> [status : {"none"} \cup Outcomes, files : 0..Files]]
    BY <1>3, <2>1 DEF Finish
  <2>3. QED  BY <1>3, <2>2 DEF Finish
<1>4. CASE FileDone(t) \/ Cancel(t)
  BY <1>4 DEF FileDone, Cancel
<1>5. CASE Open(t) \/ Read(t) \/ WriteChunk(t) \/ Flush(t) \/ CopyDir(t) \/ WriteWhole(t)
  BY <1>5 DEF Open, Read, WriteChunk, Flush, CopyDir, WriteWhole
<1>6. QED  BY <1>1, <1>2, <1>3, <1>4, <1>5 DEF CallStep

LEMMA CallCounting ==
  ASSUME TypeOK, Stages, Counts, NEW t \in Transfers, CallStep(t)
  PROVE  /\ file' \in [Transfers -> 1..Files]
         /\ count' \in [Transfers -> 0..Files]
         /\ whole' \in [Transfers -> SUBSET (1..Files)]
<1>1. CASE FileDone(t)
  <2>1. count[t] + 1 \in 0..Files
    <3>1. outcome[t] = "none"
      BY <1>1 DEF FileDone, Stages, StageOf, Running
    <3>2. count[t] = file[t] - 1 /\ file[t] \in 1..Files
      BY <3>1 DEF Counts, TypeOK
    <3>3. QED  BY <3>2
  <2>2. file' \in [Transfers -> 1..Files]
    <3>1. UNCHANGED file \/ (file[t] < Files /\ file' = [file EXCEPT ![t] = file[t] + 1])
      BY <1>1 DEF FileDone
    <3>2. file \in [Transfers -> 1..Files]
      BY DEF TypeOK
    <3>3. QED  BY <3>1, <3>2
  <2>3. whole[t] \cup {file[t]} \in SUBSET (1..Files)
    BY DEF TypeOK
  <2>4. QED  BY <1>1, <2>1, <2>2, <2>3 DEF FileDone, TypeOK, Counted
<1>2. CASE ~FileDone(t)
  BY <1>2 DEF TypeOK, CallStep, Stat, Open, Read, WriteChunk, Flush, CopyDir, ReadWhole,
     WriteWhole, Finish, Cancel
<1>3. QED  BY <1>1, <1>2

LEMMA CallTypes ==
  ASSUME TypeOK, Stages, Counts, NEW t \in Transfers, CallStep(t)
  PROVE  TypeOK'
<1>1. QED
  BY CallPlaces, CallPos, CallDest, CallHistory, CallCounting DEF TypeOK

\* A step of a call changes nothing of another one.
LEMMA OthersStay ==
  ASSUME TypeOK, NEW t \in Transfers, CallStep(t), NEW u \in Transfers, u # t
  PROVE  /\ pc'[u] = pc[u] /\ outcome'[u] = outcome[u] /\ log'[u] = log[u]
         /\ file'[u] = file[u] /\ count'[u] = count[u] /\ whole'[u] = whole[u]
         /\ sized'[u] = sized[u]
<1> USE DEF TypeOK, Goto, End
<1>1. CASE Stat(t) \/ Open(t) \/ Read(t) \/ WriteChunk(t) \/ Flush(t)
  BY <1>1 DEF Stat, Open, Read, WriteChunk, Flush
<1>2. CASE CopyDir(t) \/ ReadWhole(t) \/ WriteWhole(t)
  BY <1>2 DEF CopyDir, ReadWhole, WriteWhole
<1>3. CASE FileDone(t) \/ Finish(t) \/ Cancel(t)
  BY <1>3 DEF FileDone, Finish, Cancel
<1>4. QED  BY <1>1, <1>2, <1>3 DEF CallStep

LEMMA OthersPos ==
  ASSUME TypeOK, Stages, NEW t \in Transfers, CallStep(t), NEW u \in Transfers, u # t
  PROVE  pos'[u] = pos[u]
BY DEF Stages, CallStep, Stat, Open, Read, WriteChunk, Flush, CopyDir, ReadWhole, WriteWhole,
   FileDone, Finish, Cancel

LEMMA CallStages ==
  ASSUME TypeOK, Stages, NEW t \in Transfers, CallStep(t)
  PROVE  Stages'
<1>1. ASSUME NEW u \in Transfers, u # t PROVE (StageOf(u))'
  BY <1>1, OthersStay, OthersPos, CallHistory DEF Stages, StageOf
<1>2. (StageOf(t))'
  <2> USE DEF TypeOK, Stages, StageOf, Goto, End, Running
  <2>1. CASE Stat(t)
    BY <2>1 DEF Stat
  <2>2. CASE Open(t)
    BY <2>2 DEF Open
  <2>3. CASE Read(t)
    BY <2>3 DEF Read
  <2>4. CASE WriteChunk(t)
    BY <2>4 DEF WriteChunk
  <2>5. CASE Flush(t) \/ CopyDir(t)
    BY <2>5 DEF Flush, CopyDir
  <2>6. CASE ReadWhole(t)
    BY <2>6 DEF ReadWhole
  <2>7. CASE WriteWhole(t)
    BY <2>7 DEF WriteWhole
  <2>8. CASE FileDone(t)
    BY <2>8 DEF FileDone
  <2>9. CASE Finish(t) \/ Cancel(t)
    BY <2>9 DEF Finish, Cancel
  <2>10. QED
    BY <2>1, <2>2, <2>3, <2>4, <2>5, <2>6, <2>7, <2>8, <2>9 DEF CallStep
<1>3. QED  BY <1>1, <1>2, CallPos DEF Stages

----------------------------------------------------------------------------
(* Who runs, and what was counted.                                         *)

LEMMA EntryAlone ==
  ASSUME TypeOK, Alone, NEW t \in Transfers, EntryStep(t)
  PROVE  Alone'
<1>1. PICK v \in 1..Versions, m \in BOOLEAN, first \in {"stat", "open"} : Start(t, v, m, first)
  BY DEF EntryStep, SftpEntry, AgentEntry
<1>2. CASE Goto(t, first)
  <2>1. \A u \in Transfers : Active(u)' => Active(u) \/ u = t
    BY <1>2 DEF Goto, Active, TypeOK
  <2>2. \A u \in Transfers : u # t /\ Active(u) => u \in tainted' /\ t \in tainted'
    BY <1>1, <1>2 DEF Start, Goto, TypeOK, Active, Running
  <2>3. tainted \subseteq tainted'
    BY <1>1 DEF Start
  <2>4. QED  BY <2>1, <2>2, <2>3 DEF Alone
<1>3. CASE Goto(t, "returned") /\ UNCHANGED tainted
  BY <1>3 DEF Goto, Alone, Active, TypeOK, Running
<1>4. QED  BY <1>1, <1>2, <1>3 DEF Start

LEMMA CallAlone ==
  ASSUME TypeOK, Alone, NEW t \in Transfers, CallStep(t)
  PROVE  Alone'
<1>1. Active(t)' => Active(t)
  BY DEF TypeOK, Goto, End, Active, Running, CallStep, Stat, Open, Read, WriteChunk, Flush,
     CopyDir, ReadWhole, WriteWhole, FileDone, Finish, Cancel
<1>2. \A u \in Transfers : Active(u)' => Active(u)
  BY <1>1, OthersStay DEF Active
<1>3. QED  BY <1>2, CallHistory DEF Alone

\* A row of the history, and the count of a call, change with the call's steps only.
CountOf(t) ==
  /\ count[t] = IF outcome[t] = "completed" THEN Goal(t) ELSE file[t] - 1
  /\ t \notin tainted => whole[t] = 1..count[t]

LEMMA EntryCounts ==
  ASSUME TypeOK, Stages, Counts, Logged, NEW t \in Transfers, EntryStep(t)
  PROVE  Counts' /\ Logged'
<1>1. PICK v \in 1..Versions, m \in BOOLEAN, first \in {"stat", "open"} : Start(t, v, m, first)
  BY DEF EntryStep, SftpEntry, AgentEntry
<1>2. \A u \in Transfers : many'[u] = many[u] \/ u = t
  BY <1>1 DEF Start, TypeOK
<1>3. /\ outcome[t] = "none" /\ outcome'[t] \in {"none", "failed"}
      /\ \A u \in Transfers : outcome'[u] = outcome[u] \/ u = t
  BY <1>1 DEF Start, TypeOK, Stages, StageOf
<1>4. tainted \subseteq tainted' /\ UNCHANGED <<count, file, whole, log>>
  BY <1>1 DEF Start
<1>5. \A u \in Transfers : pc[u] = "returned" => pc'[u] = "returned"
  BY <1>1 DEF Start, Goto, TypeOK
<1>6. Counts'
  BY <1>2, <1>3, <1>4 DEF Counts, Goal
<1>7. log[t] = NoRow
  BY <1>1 DEF Start, Stages, StageOf
<1>8. Logged'
  BY <1>3, <1>4, <1>5, <1>7 DEF Logged
<1>9. QED  BY <1>6, <1>8

LEMMA DoneCounts ==
  ASSUME TypeOK, Stages, Counts, Copied, NEW t \in Transfers, FileDone(t)
  PROVE  (CountOf(t))'
<1>1. outcome[t] = "none" /\ count[t] = file[t] - 1 /\ file[t] \in 1..Files
  BY DEF FileDone, Stages, StageOf, Running, Counts, TypeOK
<1>2. count'[t] = file[t] /\ UNCHANGED <<many, tainted>>
  BY <1>1 DEF FileDone, Counted, TypeOK
<1>3. t \notin tainted => whole'[t] = 1..file[t]
  <2>1. SUFFICES ASSUME t \notin tainted PROVE whole'[t] = 1..file[t]
    OBVIOUS
  <2>2. Target(t) = Whole(version[t])
    BY <2>1 DEF Copied, Has, FileDone
  <2>3. whole'[t] = whole[t] \cup {file[t]}
    BY <2>2 DEF FileDone, TypeOK
  <2>4. whole[t] = 1..(file[t] - 1)
    BY <1>1, <2>1 DEF Counts
  <2>5. QED  BY <1>1, <2>3, <2>4
<1>4. CASE many[t] /\ file[t] < Files
  <2>1. file'[t] = file[t] + 1 /\ outcome'[t] = "none"
    BY <1>1, <1>4 DEF FileDone, TypeOK
  <2>2. QED  BY <1>1, <1>2, <1>3, <2>1 DEF CountOf
<1>5. CASE ~(many[t] /\ file[t] < Files)
  <2>1. file'[t] = file[t] /\ outcome'[t] = "completed"
    BY <1>5 DEF FileDone, End, TypeOK
  <2>2. file[t] = Goal(t)
    BY <1>1, <1>5 DEF Goal, FileDone, Stages, StageOf
  <2>3. QED  BY <1>1, <1>2, <1>3, <2>1, <2>2 DEF CountOf, Goal
<1>6. QED  BY <1>4, <1>5

LEMMA CallCounts ==
  ASSUME TypeOK, Stages, Counts, Copied, NEW t \in Transfers, CallStep(t)
  PROVE  Counts'
<1>1. ASSUME NEW u \in Transfers, u # t PROVE (CountOf(u))'
  BY <1>1, OthersStay, CallHistory DEF Counts, CountOf, Goal
<1>2. (CountOf(t))'
  <2>1. CASE FileDone(t)
    BY <2>1, DoneCounts
  <2>2. CASE ~FileDone(t)
    <3>1. UNCHANGED <<count, file, whole>>
      BY <2>2 DEF CallStep, Stat, Open, Read, WriteChunk, Flush, CopyDir, ReadWhole,
         WriteWhole, Finish, Cancel
    <3>2. UNCHANGED outcome \/ (Active(t) /\ pc[t] # "finish" /\ outcome'[t] \in {"failed", "cancelled"})
      BY <2>2 DEF CallStep, Stat, Open, Read, WriteChunk, Flush, CopyDir, ReadWhole,
         WriteWhole, Finish, Cancel, End, TypeOK, Active, Running
    <3>3. outcome'[t] = outcome[t] \/ (outcome[t] = "none" /\ outcome'[t] \in {"failed", "cancelled"})
      BY <3>2 DEF Stages, StageOf, Active
    <3>4. QED  BY <3>1, <3>3, CallHistory DEF Counts, CountOf, Goal
  <2>3. QED  BY <2>1, <2>2
<1>3. QED  BY <1>1, <1>2 DEF Counts, CountOf

LEMMA CallLogged ==
  ASSUME TypeOK, Stages, Logged, NEW t \in Transfers, CallStep(t)
  PROVE  Logged'
<1> DEFINE LoggedOf(u) ==
      log[u] # NoRow => /\ pc[u] = "returned"
                        /\ log[u] = [status |-> outcome[u], files |-> count[u]]
<1>1. ASSUME NEW u \in Transfers, u # t PROVE (LoggedOf(u))'
  BY <1>1, OthersStay DEF Logged
<1>2. (LoggedOf(t))'
  <2>1. CASE Finish(t)
    BY <2>1 DEF Finish, Goto, TypeOK, Logged
  <2>2. CASE Cancel(t)
    BY <2>2 DEF Cancel, Logged
  <2>3. CASE ~(Finish(t) \/ Cancel(t))
    BY <2>3 DEF Logged, CallStep, Stat, Open, Read, WriteChunk, Flush, CopyDir, ReadWhole,
       WriteWhole, FileDone
  <2>4. QED  BY <2>1, <2>2, <2>3
<1>3. QED  BY <1>1, <1>2 DEF Logged

----------------------------------------------------------------------------
(* What was copied.                                                        *)

LEMMA EntryCopied ==
  ASSUME TypeOK, Copied, NEW t \in Transfers, EntryStep(t)
  PROVE  Copied'
<1>1. PICK v \in 1..Versions, m \in BOOLEAN, first \in {"stat", "open"} :
        Start(t, v, m, first) /\ (first = "open" => via = "agent")
  BY DEF EntryStep, SftpEntry, AgentEntry
<1>2. tainted \subseteq tainted' /\ UNCHANGED <<via, dest, file, pos, sized>>
  BY <1>1 DEF Start
<1>3. \A u \in Transfers : u # t => pc'[u] = pc[u] /\ version'[u] = version[u]
  BY <1>1 DEF Start, Goto, TypeOK
<1>4. pc'[t] \in {"stat", "returned"} \/ (pc'[t] = "open" /\ via = "agent")
  BY <1>1 DEF Start, Goto, TypeOK
<1>5. ASSUME NEW u \in Transfers, u \notin tainted', u # t PROVE (Has(u))'
  BY <1>2, <1>3, <1>5 DEF Copied, Has, HasOpen, Offset, Target, Chunks
<1>6. (Has(t))'
  BY <1>2, <1>4 DEF Has, TypeOK
<1>7. QED  BY <1>5, <1>6 DEF Copied

LEMMA StatCopied ==
  ASSUME TypeOK, Stages, NEW t \in Transfers, Stat(t), t \notin tainted'
  PROVE  (Has(t))'
<1>1. CASE pc'[t] # "open"
  BY <1>1 DEF Stat, Has, Goto, End, TypeOK
<1>2. CASE pc'[t] = "open"
  <2>1. PICK known \in BOOLEAN :
           /\ pos'[t] = IF known THEN Offset(t) ELSE 0
           /\ sized'[t] = known
           /\ \A k \in 1..pos'[t] : Target(t)[k] = version[t]
    BY <1>2 DEF Stat, Goto, End, TypeOK, Stages
  <2>2. UNCHANGED <<dest, file, version>>
    BY DEF Stat
  <2>3. QED  BY <1>2, <2>1, <2>2 DEF Has, HasOpen, Offset, Target
<1>3. QED  BY <1>1, <1>2

\* A destination that is the beginning of this version is left as it is.
LEMMA OpenKeeps ==
  ASSUME TypeOK, Stages, NEW t \in Transfers, HasOpen(t), Open(t), pc'[t] = "read"
  PROVE  /\ Target(t)' = Chunks(t, pos[t])
         /\ sized[t] /\ Len(Target(t)) <= version[t] => dest' = dest
<1>1. /\ dest' = [dest EXCEPT ![file[t]] = IF pos[t] = 0 THEN <<>> ELSE Target(t)]
      /\ UNCHANGED file
  BY DEF Open, Goto, End, Write, Truncates, TypeOK
<1>2. Target(t) \in Content /\ Len(Target(t)) \in 0..Versions /\ pos[t] \in 0..version[t]
  BY OffsetType, ContentIsSeq DEF TypeOK
<1>3. Chunks(t, pos[t]) \in Content /\ Len(Chunks(t, pos[t])) = pos[t]
  BY <1>2, ChunksType
<1>4. file[t] \in 1..Files
  BY DEF TypeOK
<1>5. Target(t)' = IF pos[t] = 0 THEN <<>> ELSE Target(t)
  BY <1>1, <1>4 DEF Target, TypeOK
<1>6. pos[t] = 0 => Chunks(t, pos[t]) = <<>>
  BY <1>3, EmptyContent, SameContent
<1>7. pos[t] # 0 => Len(Target(t)) = pos[t]
  BY DEF HasOpen, Offset
<1>8. pos[t] # 0 => Target(t) = Chunks(t, pos[t])
  BY <1>2, <1>3, <1>7, SameContent DEF HasOpen, Chunks
<1>9. ASSUME sized[t], Len(Target(t)) <= version[t] PROVE dest' = dest
  <2>1. pos[t] = Len(Target(t))
    BY <1>9 DEF HasOpen, Offset
  <2>2. pos[t] = 0 => Target(t) = <<>>
    <3>1. SUFFICES ASSUME pos[t] = 0 PROVE Target(t) = <<>>
      OBVIOUS
    <3>2. Target(t) \in [1..0 -> 0..Versions]
      BY <1>2, <2>1, <3>1, ContentIsSeq
    <3>3. QED  BY <3>2
  <2>3. dest' = [dest EXCEPT ![file[t]] = dest[file[t]]]
    BY <1>1, <2>2 DEF Target
  <2>4. QED  BY <2>3 DEF TypeOK
<1>10. QED  BY <1>5, <1>6, <1>8, <1>9

LEMMA CallCopied ==
  ASSUME TypeOK, Stages, Alone, Copied, NEW t \in Transfers, CallStep(t)
  PROVE  Copied'
<1>1. ASSUME NEW u \in Transfers, u \notin tainted', u # t PROVE (Has(u))'
  <2>1. u \notin tainted /\ UNCHANGED <<via, version>>
    BY <1>1, CallHistory
  <2>2. CASE Active(u)
    <3>1. dest' = dest
      BY <1>1, <2>1, <2>2, CallDest DEF Alone
    <3>2. QED
      BY <1>1, <2>1, <3>1, OthersStay, OthersPos DEF Copied, Has, HasOpen, Offset, Target, Chunks
  <2>3. CASE ~Active(u)
    BY <1>1, <2>1, <2>3, OthersStay DEF Active, Running, Has
  <2>4. QED  BY <2>2, <2>3
<1>2. ASSUME t \notin tainted' PROVE (Has(t))'
  <2>1. t \notin tainted /\ UNCHANGED <<via, version>> /\ Has(t)
    BY <1>2, CallHistory DEF Copied
  <2>2. CASE Stat(t)
    BY <1>2, <2>2, StatCopied
  <2>3. CASE Open(t)
    <3>1. CASE pc'[t] = "read"
      <4>1. Target(t)' = Chunks(t, pos[t])
        BY <2>1, <2>3, <3>1, OpenKeeps DEF Open, Has
      <4>2. QED  BY <2>1, <2>3, <3>1, <4>1 DEF Open, Has, Chunks
    <3>2. CASE pc'[t] # "read"
      BY <2>3, <3>2 DEF Open, Has, Goto, End, TypeOK
    <3>3. QED  BY <3>1, <3>2
  <2>4. CASE Read(t)
    <3>1. via = "sftp" /\ UNCHANGED <<dest, file, pos>>
      BY <2>4 DEF Read, Stages, StageOf
    <3>2. Target(t) = Chunks(t, pos[t])
      BY <2>1, <2>4, <3>1 DEF Read, Has
    <3>3. pc'[t] \in {"write", "flush", "finish"}
      BY <2>4 DEF Read, Goto, End, TypeOK
    <3>4. QED  BY <2>1, <3>1, <3>2, <3>3 DEF Has, Target, Chunks
  <2>5. CASE WriteChunk(t)
    <3>1. CASE pc'[t] = "read"
      <4>1. /\ dest' = [dest EXCEPT ![file[t]] = Put(Target(t), pos[t] + 1, version[t])]
            /\ pos'[t] = pos[t] + 1 /\ UNCHANGED file
        BY <2>5, <3>1 DEF WriteChunk, Write, Goto, End, TypeOK, Stages
      <4>2. Target(t) = Chunks(t, pos[t]) /\ pos[t] < version[t]
        BY <2>1, <2>5 DEF Has, WriteChunk, Stages, StageOf
      <4>3. Put(Target(t), pos[t] + 1, version[t]) = Chunks(t, pos[t] + 1)
        <5>1. version[t] \in 1..Versions /\ pos[t] \in 0..version[t]
          BY DEF TypeOK
        <5>2. QED  BY <4>2, <5>1, PutNext DEF Chunks
      <4>4. Target(t)' = Chunks(t, pos[t] + 1)
        BY <4>1, <4>3 DEF Target, TypeOK
      <4>5. QED  BY <2>1, <3>1, <4>1, <4>4 DEF Has, Chunks
    <3>2. CASE pc'[t] # "read"
      BY <2>5, <3>2 DEF WriteChunk, Has, Goto, End, TypeOK
    <3>3. QED  BY <3>1, <3>2
  <2>6. CASE Flush(t)
    BY <2>1, <2>6 DEF Flush, Has, Goto, End, TypeOK, Target, Chunks, Whole, Stages, StageOf
  <2>7. CASE CopyDir(t)
    BY <2>7 DEF CopyDir, Has, Goto, End, TypeOK
  <2>8. CASE ReadWhole(t)
    <3>1. UNCHANGED via /\ via = "agent" /\ pc'[t] \in {"write", "finish"}
      BY <2>8 DEF ReadWhole, Goto, End, TypeOK
    <3>2. pc'[t] = "write" => pos'[t] = version[t]
      BY <1>2, <2>8 DEF ReadWhole, Goto, End, TypeOK, Stages
    <3>3. QED  BY <2>1, <3>1, <3>2 DEF Has
  <2>9. CASE WriteWhole(t)
    <3>1. CASE pc'[t] = "done"
      <4>1. dest' = [dest EXCEPT ![file[t]] = Chunks(t, pos[t])] /\ UNCHANGED file
        BY <2>9, <3>1 DEF WriteWhole, Write, Goto, End, TypeOK
      <4>2. Chunks(t, pos[t]) = Whole(version[t])
        BY <2>1, <2>9 DEF WriteWhole, Has, Chunks, Whole
      <4>3. Target(t)' = Whole(version[t])
        BY <4>1, <4>2 DEF Target, TypeOK
      <4>4. QED  BY <2>1, <3>1, <4>3 DEF Has
    <3>2. CASE pc'[t] # "done"
      BY <2>9, <3>2 DEF WriteWhole, Has, Goto, End, TypeOK
    <3>3. QED  BY <3>1, <3>2
  <2>10. CASE FileDone(t)
    BY <2>10 DEF FileDone, Has, Goto, End, TypeOK
  <2>11. CASE Finish(t)
    BY <2>11 DEF Finish, Has, Goto, TypeOK
  <2>12. CASE Cancel(t)
    BY <2>1, <2>12 DEF Cancel, Has, HasOpen, Offset, Target, Chunks
  <2>13. QED
    BY <2>2, <2>3, <2>4, <2>5, <2>6, <2>7, <2>8, <2>9, <2>10, <2>11, <2>12 DEF CallStep
<1>3. QED  BY <1>1, <1>2 DEF Copied

----------------------------------------------------------------------------

LEMMA CrashInv ==
  ASSUME IInv, Crash
  PROVE  IInv'
<1>1. UNCHANGED <<via, dest, many, version, file, pos, count, outcome, log, sized, tainted, whole>>
  BY DEF Crash
<1>2. /\ pc' \in [Transfers -> {"idle", "returned", "lost"} \cup Running]
      /\ \A t \in Transfers : pc'[t] = "lost" \/ (pc'[t] = pc[t] /\ ~Active(t))
      /\ \A t \in Transfers : pc[t] \in {"idle", "returned"} => pc'[t] = pc[t]
      /\ cancelled' = {}
  BY DEF Crash, IInv, TypeOK, Active, Running
<1>3. \A t \in Transfers : pc'[t] \notin Running /\ (pc'[t] = "idle" => pc[t] = "idle")
  BY <1>2 DEF Active, Running
<1>4. TypeOK'
  BY <1>1, <1>2 DEF IInv, TypeOK
<1>5. Stages'
  <2>1. ASSUME NEW t \in Transfers PROVE (StageOf(t))'
    BY <1>1, <1>2, <1>3 DEF IInv, Stages, StageOf, Running
  <2>2. QED  BY <1>1, <2>1 DEF IInv, Stages
<1>6. Alone' /\ Copied'
  BY <1>1, <1>3 DEF Alone, Active, Copied, Has, Running
<1>7. Counts' /\ Logged'
  BY <1>1, <1>2 DEF IInv, Counts, Goal, Logged
<1>8. QED  BY <1>4, <1>5, <1>6, <1>7 DEF IInv

LEMMA StepInv == IInv /\ [Next]_vars => IInv'
<1> SUFFICES ASSUME IInv, [Next]_vars PROVE IInv'
  OBVIOUS
<1>1. ASSUME NEW t \in Transfers, EntryStep(t) PROVE IInv'
  BY <1>1, EntryTypes, EntryAlone, EntryCounts, EntryCopied DEF IInv
<1>2. ASSUME NEW t \in Transfers, CallStep(t) PROVE IInv'
  BY <1>2, CallTypes, CallStages, CallAlone, CallCounts, CallLogged, CallCopied DEF IInv
<1>3. CASE Crash
  BY <1>3, CrashInv
<1>4. CASE UNCHANGED vars
  BY <1>4 DEF vars, IInv, TypeOK, Stages, StageOf, Alone, Active, Counts, Goal, Copied, Has,
     HasOpen, Offset, Target, Chunks, Logged
<1>5. QED
  BY <1>1, <1>2, <1>3, <1>4 DEF Next, EntryStep, CallStep

LEMMA Invariance == Spec => []IInv
BY InitInv, StepInv, PTL DEF Spec

\* The transfers and their destination keep their types, however many run.
THEOREM TransferTypes == Spec => []TypeOK
<1>1. IInv => TypeOK
  BY DEF IInv
<1>2. QED  BY <1>1, Invariance, PTL

LEMMA GoalIsWanted ==
  ASSUME NEW t \in Transfers
  PROVE  1..Goal(t) = Wanted(t)
<1>1. 1..1 = {1}
  OBVIOUS
<1>2. QED  BY <1>1 DEF Goal, Wanted

\* A transfer that completes has left every file of its entry whole, after any
\* crashes, cancels and retries, unless it met another one, resumed a destination
\* of another version or read an Agent's answer cut short.
THEOREM CompletedIsWhole == Spec => []ResumedIsExact
<1>1. IInv => ResumedIsExact
  BY GoalIsWanted DEF IInv, Counts, ResumedIsExact
<1>2. QED  BY <1>1, Invariance, PTL

LEMMA RowIsTrue ==
  ASSUME IInv, NEW t \in Transfers \ tainted, log[t] # NoRow
  PROVE  /\ log[t].files = Cardinality(whole[t])
         /\ log[t].status = "completed" <=> whole[t] = Wanted(t)
<1>1. log[t] = [status |-> outcome[t], files |-> count[t]] /\ pc[t] = "returned"
  BY DEF IInv, Logged
<1>2. whole[t] = 1..count[t] /\ count[t] \in 0..Files /\ file[t] \in 1..Files
  BY DEF IInv, Counts, TypeOK
<1>3. Cardinality(1..count[t]) = count[t]
  BY <1>2, FS_Interval
<1>4. outcome[t] = "completed" => whole[t] = Wanted(t)
  BY <1>2, GoalIsWanted DEF IInv, Counts
<1>5. ASSUME outcome[t] # "completed" PROVE whole[t] # Wanted(t)
  <2>1. count[t] = file[t] - 1
    BY <1>5 DEF IInv, Counts
  <2>2. ~many[t] => file[t] = 1
    BY <1>1 DEF IInv, Stages, StageOf
  <2>3. file[t] \in Wanted(t) /\ file[t] \notin whole[t]
    BY <1>2, <2>1, <2>2 DEF Wanted
  <2>4. QED  BY <2>3
<1>6. QED  BY <1>1, <1>2, <1>3, <1>4, <1>5

\* The transfer history counts the files that arrived whole, and says "completed"
\* if and only if they are all of the entry.
THEOREM HistoryIsTrue == Spec => []LogIsTrue
<1>1. IInv => LogIsTrue
  BY RowIsTrue DEF LogIsTrue
<1>2. QED  BY <1>1, Invariance, PTL

\* A transfer that resumes what another one left does not cut it off.
THEOREM RetryResumes == Spec => RetryKeepsProgress
<1>1. IInv /\ [Next]_vars
        => [\A t \in Transfers \ tainted :
              pc[t] = "open" /\ pc'[t] = "read" /\ sized[t] /\ Len(Target(t)) <= version[t] =>
                dest' = dest]_vars
  <2>1. SUFFICES ASSUME IInv, Next, NEW t \in Transfers \ tainted,
                        pc[t] = "open", pc'[t] = "read", sized[t], Len(Target(t)) <= version[t]
                 PROVE  dest' = dest
    OBVIOUS
  <2>2. CASE Open(t)
    BY <2>1, <2>2, OpenKeeps DEF IInv, Copied, Has, Open
  <2>3. ASSUME NEW u \in Transfers, u # t, CallStep(u) PROVE FALSE
    BY <2>1, <2>3, OthersStay DEF IInv
  <2>4. CASE CallStep(t) /\ ~Open(t)
    BY <2>1, <2>4 DEF CallStep, Stat, Read, WriteChunk, Flush, CopyDir, ReadWhole, WriteWhole,
       FileDone, Finish, Cancel, Goto, End, IInv, TypeOK
  <2>5. ASSUME NEW u \in Transfers, EntryStep(u) PROVE FALSE
    BY <2>1, <2>5 DEF EntryStep, SftpEntry, AgentEntry, Start, Goto, IInv, TypeOK
  <2>6. CASE Crash
    BY <2>1, <2>6 DEF Crash, IInv, TypeOK, Active, Running
  <2>7. QED
    BY <2>1, <2>2, <2>3, <2>4, <2>5, <2>6 DEF Next, EntryStep, CallStep
<1>2. QED  BY <1>1, Invariance, PTL DEF Spec, RetryKeepsProgress

=============================================================================
