------------------------------- MODULE Transfer -------------------------------
(***************************************************************************)
(* Transfers of an entry: sftp_download_entry and sftp_upload_entry        *)
(* (lib.rs) over RemoteFileOps (fsops/remote.rs), or agent_download_entry  *)
(* and agent_upload_entry over copy_between() (fsops/mod.rs).  Down and up *)
(* are the same steps with source and destination exchanged.               *)
(*                                                                         *)
(* Over SFTP a file is resumed from the size its destination has; nothing  *)
(* else is remembered, so a crash, a cancel and a failure leave the same   *)
(* thing behind: a prefix.  To and from an Agent a file is copied whole.   *)
(*                                                                         *)
(* A file is a sequence of chunks, each the number of the version of the   *)
(* source it comes from; version v is v chunks long, and 0 is a hole.      *)
(***************************************************************************)
EXTENDS Naturals, Sequences, FiniteSets

CONSTANTS
  Transfers,   \* calls, each with a request id of its own
  Files,       \* files of a directory entry, numbered from 1
  Versions     \* BOUND: versions of the source, and chunks of the longest

ASSUME TransferAssumption == Files \in Nat \ {0} /\ Versions \in Nat \ {0}

Hole == 0
Content == UNION {[1..n -> 0..Versions] : n \in 0..Versions}
Whole(v) == [k \in 1..v |-> v]

VARIABLES
  via,        \* how the profile is reached: "sftp" or "agent"
  dest,       \* each file at the destination
  pc,         \* where each transfer is
  many,       \* is the entry a directory?
  version,    \* the version of the source it copies
  file,       \* the file it is at
  pos,        \* chunks of that file it has copied, skipped or (Agent) read
  count,      \* file_count
  outcome,    \* what the call returns
  log,        \* its row in transfer_log
  cancelled,  \* cancelled_transfers
  sized,      \* history: it could learn the size of the destination
  tainted,    \* history: it met another transfer, a destination of another
              \* version, or an Agent's answer cut short by a lost connection
  whole       \* history: the files that were whole when it finished them

vars == <<via, dest, pc, many, version, file, pos, count, outcome, log, cancelled,
          sized, tainted, whole>>

Outcomes == {"completed", "cancelled", "failed"}
NoRow == [status |-> "none", files |-> 0]
Running == {"stat", "open", "read", "write", "flush", "done", "finish"}
Active(t) == pc[t] \in Running

Init ==
  /\ via \in {"sftp", "agent"}
  /\ dest      = [f \in 1..Files |-> <<>>]
  /\ pc        = [t \in Transfers |-> "idle"]
  /\ many      = [t \in Transfers |-> FALSE]
  /\ version   = [t \in Transfers |-> 1]
  /\ file      = [t \in Transfers |-> 1]
  /\ pos       = [t \in Transfers |-> 0]
  /\ count     = [t \in Transfers |-> 0]
  /\ outcome   = [t \in Transfers |-> "none"]
  /\ log       = [t \in Transfers |-> NoRow]
  /\ cancelled = {}
  /\ sized     = [t \in Transfers |-> FALSE]
  /\ tainted   = {}
  /\ whole     = [t \in Transfers |-> {}]

----------------------------------------------------------------------------
(* Helpers.                                                                *)

Goto(t, l) == pc' = [pc EXCEPT ![t] = l]

End(t, o) == Goto(t, "finish") /\ outcome' = [outcome EXCEPT ![t] = o]

Target(t) == dest[file[t]]

Write(t, content) == dest' = [dest EXCEPT ![file[t]] = content]

\* A chunk written at a position of a file; what is skipped reads as zeros.
Put(content, k, v) ==
  [j \in 1..(IF k > Len(content) THEN k ELSE Len(content)) |->
     IF j = k THEN v ELSE IF j <= Len(content) THEN content[j] ELSE Hole]

----------------------------------------------------------------------------

\* The connection fails, which returns before the log, or the transfer begins.
Start(t, v, m, first) ==
  /\ pc[t] = "idle"
  /\ version' = [version EXCEPT ![t] = v]
  /\ many' = [many EXCEPT ![t] = m]
  /\ LET others == {u \in Transfers : Active(u)} IN
     \/ /\ Goto(t, first)
        /\ tainted' = IF others = {} THEN tainted ELSE tainted \cup others \cup {t}
        /\ UNCHANGED outcome
     \/ /\ Goto(t, "returned")
        /\ outcome' = [outcome EXCEPT ![t] = "failed"]
        /\ UNCHANGED tainted
  /\ UNCHANGED <<via, dest, file, pos, count, log, cancelled, sized, whole>>

SftpEntry(t, v, m) == via = "sftp" /\ Start(t, v, m, "stat")

AgentEntry(t, v, m) == via = "agent" /\ Start(t, v, m, IF m THEN "stat" ELSE "open")

\* Seeded bug: whatever is at the destination is resumed.
AnyResume(t) == Len(Target(t))

\* Seeded bug: a destination as long as the source is copied again.
ShorterOnly(t) == IF Len(Target(t)) < version[t] THEN Len(Target(t)) ELSE 0

\* The offset to resume from: the size of the destination unless it is longer
\* than the source.
Offset(t) == IF Len(Target(t)) <= version[t] THEN Len(Target(t)) ELSE 0

\* A directory checks for a cancel before each child, and listing or creating
\* it may fail; a size that cannot be had makes the offset 0.
Stat(t) ==
  /\ pc[t] = "stat" /\ via = "sftp"
  /\ \/ /\ many[t] /\ t \in cancelled
        /\ End(t, "cancelled")
        /\ UNCHANGED <<pos, sized, tainted>>
     \/ /\ many[t] /\ t \notin cancelled
        /\ End(t, "failed")
        /\ UNCHANGED <<pos, sized, tainted>>
     \/ /\ ~(many[t] /\ t \in cancelled)
        /\ Goto(t, "open")
        /\ \E known \in BOOLEAN :
             LET o == IF known THEN Offset(t) ELSE 0 IN
             /\ pos' = [pos EXCEPT ![t] = o]
             /\ sized' = [sized EXCEPT ![t] = known]
             /\ tainted' = IF \E k \in 1..o : Target(t)[k] # version[t]
                           THEN tainted \cup {t} ELSE tainted
        /\ UNCHANGED outcome
  /\ UNCHANGED <<via, dest, many, version, file, count, log, cancelled, whole>>

\* Seeded bug: the destination is opened without truncating it.
NeverTruncates(t) == FALSE

Truncates(t) == pos[t] = 0

\* download_range_to_local() and upload_range_from_local() up to the copy loop.
Open(t) ==
  /\ pc[t] = "open" /\ via = "sftp"
  /\ IF t \in cancelled
     THEN End(t, "cancelled") /\ UNCHANGED dest
     ELSE \/ /\ Goto(t, "read")
             /\ UNCHANGED outcome
             /\ Write(t, IF Truncates(t) THEN <<>> ELSE Target(t))
          \/ End(t, "failed") /\ UNCHANGED dest
  /\ UNCHANGED <<via, many, version, file, pos, count, log, cancelled, sized, tainted, whole>>

\* copy_chunked(): the check for a cancel, then a chunk, the end, or an error.
Read(t) ==
  /\ pc[t] = "read"
  /\ IF t \in cancelled THEN End(t, "cancelled")
     ELSE \/ Goto(t, IF pos[t] < version[t] THEN "write" ELSE "flush") /\ UNCHANGED outcome
          \/ End(t, "failed")
  /\ UNCHANGED <<via, dest, many, version, file, pos, count, log, cancelled, sized, tainted, whole>>

WriteChunk(t) ==
  /\ pc[t] = "write" /\ via = "sftp"
  /\ \/ /\ Write(t, Put(Target(t), pos[t] + 1, version[t]))
        /\ pos' = [pos EXCEPT ![t] = @ + 1]
        /\ Goto(t, "read")
        /\ UNCHANGED outcome
     \/ End(t, "failed") /\ UNCHANGED <<dest, pos>>
  /\ UNCHANGED <<via, many, version, file, count, log, cancelled, sized, tainted, whole>>

\* flush().
Flush(t) ==
  /\ pc[t] = "flush"
  /\ \/ Goto(t, "done") /\ UNCHANGED outcome
     \/ End(t, "failed")
  /\ UNCHANGED <<via, dest, many, version, file, pos, count, log, cancelled, sized, tainted, whole>>

----------------------------------------------------------------------------
(* copy_between().                                                         *)

\* The directory itself: the check for a cancel, create_dir() and list_dir().
CopyDir(t) ==
  /\ pc[t] = "stat" /\ via = "agent"
  /\ IF t \in cancelled THEN End(t, "cancelled")
     ELSE \/ Goto(t, "open") /\ UNCHANGED outcome
          \/ End(t, "failed")
  /\ UNCHANGED <<via, dest, many, version, file, pos, count, log, cancelled, sized, tainted, whole>>

\* A file: the check for a cancel, then read_file_raw(), which may stop early
\* without an error when the Agent is lost.
ReadWhole(t) ==
  /\ pc[t] = "open" /\ via = "agent"
  /\ IF t \in cancelled THEN End(t, "cancelled") /\ UNCHANGED <<pos, tainted>>
     ELSE \/ \E k \in 0..version[t] :
               /\ pos' = [pos EXCEPT ![t] = k]
               /\ tainted' = IF k < version[t] THEN tainted \cup {t} ELSE tainted
               /\ Goto(t, "write") /\ UNCHANGED outcome
          \/ End(t, "failed") /\ UNCHANGED <<pos, tainted>>
  /\ UNCHANGED <<via, dest, many, version, file, count, log, cancelled, sized, whole>>

Chunks(t, k) == [j \in 1..k |-> version[t]]

\* write_file_bytes(), which may fail before or after it has cut the file off.
WriteWhole(t) ==
  /\ pc[t] = "write" /\ via = "agent"
  /\ \/ Write(t, Chunks(t, pos[t])) /\ Goto(t, "done") /\ UNCHANGED outcome
     \/ /\ End(t, "failed")
        /\ \/ UNCHANGED dest
           \/ \E k \in 0..pos[t] : Write(t, Chunks(t, k))
  /\ UNCHANGED <<via, many, version, file, pos, count, log, cancelled, sized, tainted, whole>>

----------------------------------------------------------------------------
(* The ends of a file, and of the call.                                    *)

\* Seeded bug: the file is counted when it is the last one only.
CountLast(t) == IF many[t] /\ file[t] < Files THEN count[t] ELSE count[t] + 1

Counted(t) == count[t] + 1

FileDone(t) ==
  /\ pc[t] = "done"
  /\ count' = [count EXCEPT ![t] = Counted(t)]
  /\ whole' = [whole EXCEPT ![t] = IF Target(t) = Whole(version[t]) THEN @ \cup {file[t]}
                                                                     ELSE @]
  /\ IF many[t] /\ file[t] < Files
     THEN /\ Goto(t, IF via = "sftp" THEN "stat" ELSE "open")
          /\ file' = [file EXCEPT ![t] = @ + 1]
          /\ UNCHANGED outcome
     ELSE End(t, "completed") /\ UNCHANGED file
  /\ UNCHANGED <<via, dest, many, version, pos, log, cancelled, sized, tainted>>

\* finish_transfer_log(); a row that cannot be written is missed by nobody.
Finish(t) ==
  /\ pc[t] = "finish"
  /\ cancelled' = cancelled \ {t}
  /\ \/ log' = [log EXCEPT ![t] = [status |-> outcome[t], files |-> count[t]]]
     \/ UNCHANGED log
  /\ Goto(t, "returned")
  /\ UNCHANGED <<via, dest, many, version, file, pos, count, outcome, sized, tainted, whole>>

\* transfer_cancel.
Cancel(t) ==
  /\ pc[t] # "idle" /\ t \notin cancelled
  /\ cancelled' = cancelled \cup {t}
  /\ UNCHANGED <<via, dest, pc, many, version, file, pos, count, outcome, log, sized, tainted, whole>>

\* The application ends in the middle of its transfers and is started again.
Crash ==
  /\ \E t \in Transfers : Active(t)
  /\ pc' = [t \in Transfers |-> IF Active(t) THEN "lost" ELSE pc[t]]
  /\ cancelled' = {}
  /\ UNCHANGED <<via, dest, many, version, file, pos, count, outcome, log, sized, tainted, whole>>

----------------------------------------------------------------------------

Next ==
  \/ \E t \in Transfers : \/ \E v \in 1..Versions, m \in BOOLEAN :
                               SftpEntry(t, v, m) \/ AgentEntry(t, v, m)
                          \/ Stat(t) \/ Open(t) \/ Read(t) \/ WriteChunk(t) \/ Flush(t)
                          \/ CopyDir(t) \/ ReadWhole(t) \/ WriteWhole(t)
                          \/ FileDone(t) \/ Finish(t) \/ Cancel(t)
  \/ Crash

Spec == Init /\ [][Next]_vars

----------------------------------------------------------------------------
(* Properties.                                                             *)

\* Type invariant of the transfers and their destination.
TypeOK ==
  /\ via \in {"sftp", "agent"}
  /\ dest \in [1..Files -> Content]
  /\ pc \in [Transfers -> {"idle", "returned", "lost"} \cup Running]
  /\ many \in [Transfers -> BOOLEAN]
  /\ version \in [Transfers -> 1..Versions]
  /\ file \in [Transfers -> 1..Files]
  /\ \A t \in Transfers : pos[t] \in 0..version[t]
  /\ count \in [Transfers -> 0..Files]
  /\ outcome \in [Transfers -> {"none"} \cup Outcomes]
  /\ log \in [Transfers -> [status : {"none"} \cup Outcomes, files : 0..Files]]
  /\ cancelled \in SUBSET Transfers
  /\ sized \in [Transfers -> BOOLEAN]
  /\ tainted \in SUBSET Transfers
  /\ whole \in [Transfers -> SUBSET (1..Files)]

Wanted(t) == IF many[t] THEN 1..Files ELSE {1}

\* What "completed" should mean: after any sequence of crashes, cancels, errors
\* and retries a completed transfer left every file of the source, whole, if no
\* other transfer was running, what it resumed was part of the same version, and
\* the Agent was not lost in the middle of an answer.
ResumedIsExact ==
  \A t \in Transfers \ tainted : outcome[t] = "completed" => whole[t] = Wanted(t)

\* The transfer history tells what happened: a row counts the files that arrived
\* whole, also when the transfer failed or was cancelled between two of them, and
\* says "completed" if and only if they are all of the entry.  Exempt are the rows of
\* `tainted` transfers, as above: those that met another one, resumed a file of
\* another version, or were given a part of a file by a lost Agent.
LogIsTrue ==
  \A t \in Transfers \ tainted :
    log[t] # NoRow => /\ log[t].files = Cardinality(whole[t])
                      /\ log[t].status = "completed" <=> whole[t] = Wanted(t)

\* A retry never starts over: what an interrupted transfer left is not cut off
\* by one that learned its size and met nobody, unless it is longer than the
\* source.
RetryKeepsProgress ==
  [][\A t \in Transfers \ tainted :
       pc[t] = "open" /\ pc'[t] = "read" /\ sized[t] /\ Len(Target(t)) <= version[t] =>
         dest' = dest]_vars

=============================================================================
