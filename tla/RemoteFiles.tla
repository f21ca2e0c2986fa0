----------------------------- MODULE RemoteFiles -----------------------------
(***************************************************************************)
(* Editing a remote file: viewers (SftpFileViewer.tsx) that read and save  *)
(* it through one RemoteFileOps (fsops/remote.rs), and everybody else who  *)
(* can reach the file on the server.                                       *)
(*                                                                         *)
(* A step is one SFTP request and its answer.  The mutex of with_sftp() is *)
(* held for the handshake only, so that requests of different calls meet   *)
(* in any order.  The content of the file is the number of the text it     *)
(* holds; the server dates it by its clock, in seconds.  The server is     *)
(* external: its clock never goes back and nobody sets a date by hand.     *)
(***************************************************************************)
EXTENDS Naturals

CONSTANTS
  Editors,   \* viewers of the file
  MaxClock,  \* BOUND: seconds
  MaxTexts,  \* BOUND: texts that are ever written
  Junk,      \* content: cut short, or mixed from two texts
  Missing,   \* content: there is no file
  Free       \* holder of the mutex: nobody

ASSUME RemoteFilesAssumption ==
  /\ MaxClock \in Nat \ {0, 1} /\ MaxTexts \in Nat \ {0}
  /\ Junk \notin Nat /\ Missing \notin Nat /\ Junk # Missing /\ Free \notin Editors

Texts == 0..MaxTexts
Contents == Texts \cup {Junk, Missing}

VARIABLES
  sftp,     \* the slot of RemoteFileOps: "none", "open" or "dead"
  channels, \* SFTP channels ever opened for it
  lock,     \* the holder of its mutex
  content,  \* the file
  mtime,    \* its date
  clock,    \* the clock of the server, long past 0
  texts,    \* texts written so far
  pc,       \* the call each viewer has under way, and where it is
  job,      \* what the call is: "read" or "save"
  attrs,    \* a local: the date that the metadata() of a read returned
  mt,       \* the viewer's `mtime`: 0 until a read succeeds
  base,     \* history: the content that the viewer's text comes from
  met,      \* history: has the file changed between the steps of this save?
  skipped   \* history: has this save gone without its check?

link  == <<sftp, channels, lock>>
file  == <<content, mtime, texts>>
known == <<attrs, mt, base>>
notes == <<met, skipped>>
vars  == <<link, file, clock, pc, job, known, notes>>

\* A date with two notes: can it hide a change, because the second it names is
\* not over, or because it is the date of what another one wrote; and has the
\* file changed since it was learned?
Date == [date : 0..MaxClock, blind : BOOLEAN, changed : BOOLEAN]
Unknown == [date |-> 0, blind |-> FALSE, changed |-> TRUE]

Init ==
  /\ sftp = "none" /\ channels = 0 /\ lock = Free
  /\ content = 0 /\ mtime = 1 /\ texts = 0
  /\ clock \in {1, 2}
  /\ pc      = [e \in Editors |-> "idle"]
  /\ job     = [e \in Editors |-> "read"]
  /\ attrs   = [e \in Editors |-> Unknown]
  /\ mt      = [e \in Editors |-> Unknown]
  /\ base    = [e \in Editors |-> Missing]
  /\ met     = [e \in Editors |-> FALSE]
  /\ skipped = [e \in Editors |-> FALSE]

----------------------------------------------------------------------------
(* Helpers.                                                                *)

Goto(e, l) == pc' = [pc EXCEPT ![e] = l]

Set(f, e, v) == [f EXCEPT ![e] = v]

Saving == {"create", "write", "statAfter"}

\* A call returns; its locals are gone.
Return(e, l) ==
  /\ Goto(e, l)
  /\ attrs' = Set(attrs, e, Unknown)
  /\ met' = Set(met, e, FALSE) /\ skipped' = Set(skipped, e, FALSE)

Changed(dates) == [f \in Editors |-> [dates[f] EXCEPT !.changed = TRUE]]

\* The history variables after a change of the file by e, whose own date is out
\* of date as well until it asks for the new one.
Noticed(e) ==
  /\ attrs' = Changed(attrs) /\ mt' = Changed(mt)
  /\ met' = [f \in Editors |-> met[f] \/ (f # e /\ pc[f] \in Saving)]

----------------------------------------------------------------------------
(* with_sftp() and SshSession::open_sftp().                                *)

Begin(e, k) ==
  /\ pc[e] \in {"idle", "conflict"}
  /\ job' = Set(job, e, k)
  /\ Goto(e, "lock")
  /\ UNCHANGED <<link, file, clock, known, notes>>

First(e) == IF job[e] = "read" THEN "stat" ELSE "check"

\* Seeded bug: the mutex is given up before the handshake.
NoMutex == TRUE

SlotFree == lock = Free

Lock(e) ==
  /\ pc[e] = "lock" /\ SlotFree
  /\ IF sftp = "none" THEN lock' = e /\ Goto(e, "handshake")
     ELSE Goto(e, First(e)) /\ UNCHANGED lock
  /\ UNCHANGED <<sftp, channels, file, clock, job, known, notes>>

\* It may time out or be refused: the slot stays empty for the next call.
Handshake(e) ==
  /\ pc[e] = "handshake"
  /\ \/ /\ sftp' = "open" /\ channels' = channels + 1
        /\ Goto(e, First(e))
     \/ Goto(e, "idle") /\ UNCHANGED <<sftp, channels>>
  /\ lock' = Free
  /\ UNCHANGED <<file, clock, job, known, notes>>

\* The channel ends while the slot keeps it: every later request fails.
ChannelDies ==
  /\ sftp = "open" /\ sftp' = "dead"
  /\ UNCHANGED <<channels, lock, file, clock, pc, job, known, notes>>

\* A request fails, save the check of a save, whose failure is ignored.
RequestFails(e) ==
  /\ pc[e] \in {"stat", "read"} \cup Saving
  /\ Return(e, "idle")
  /\ UNCHANGED <<link, file, clock, job, mt, base>>

----------------------------------------------------------------------------
(* read_bytes_for_editor().                                                *)

Stat(e) ==
  /\ pc[e] = "stat" /\ sftp = "open" /\ content # Missing
  /\ attrs' = Set(attrs, e, [date |-> mtime, blind |-> mtime = clock, changed |-> FALSE])
  /\ Goto(e, "read")
  /\ UNCHANGED <<link, file, clock, job, mt, base, notes>>

\* Seeded bug: the date is that of the file after it was read.
DateAfterRead(e) == [attrs[e] EXCEPT !.date = mtime]

ReadDate(e) == attrs[e]

\* open() and read_to_end(), then setContent and setMtime of the viewer.
Read(e) ==
  /\ pc[e] = "read" /\ sftp = "open" /\ content # Missing
  /\ base' = Set(base, e, content)
  /\ mt' = Set(mt, e, ReadDate(e))
  /\ Return(e, "idle")
  /\ UNCHANGED <<link, file, clock, job>>

----------------------------------------------------------------------------
(* write_file_bytes().                                                     *)

Check(e) ==
  /\ pc[e] = "check"
  /\ \/ /\ sftp = "open" /\ content # Missing
        /\ IF mtime = mt[e].date THEN Goto(e, "create") /\ UNCHANGED <<attrs, notes>>
                                 ELSE Return(e, "conflict")
     \/ Goto(e, "create") /\ skipped' = Set(skipped, e, TRUE) /\ UNCHANGED <<attrs, met>>
  /\ UNCHANGED <<link, file, clock, job, mt, base>>

\* create() cuts the file off.
Create(e) ==
  /\ pc[e] = "create" /\ sftp = "open"
  /\ content' = Junk /\ mtime' = clock
  /\ Noticed(e)
  /\ Goto(e, "write")
  /\ UNCHANGED <<link, texts, clock, job, base, skipped>>

\* write_all(): two saves at once may leave a mixture of both.
Write(e) ==
  /\ pc[e] = "write" /\ sftp = "open" /\ texts < MaxTexts
  /\ texts' = texts + 1
  /\ mtime' = clock
  /\ \/ content' = texts'
     \/ met[e] /\ content' = Junk
  /\ base' = Set(base, e, texts')
  /\ Noticed(e)
  /\ Goto(e, "statAfter")
  /\ UNCHANGED <<link, clock, job, skipped>>

\* Seeded bug: the date of the check stays the viewer's.
OldDate(e) == mt[e].date

WrittenDate(e) == mtime

\* The second metadata(), and setMtime of the viewer.
StatAfter(e) ==
  /\ pc[e] = "statAfter" /\ sftp = "open" /\ content # Missing
  /\ mt' = Set(mt, e, [date |-> WrittenDate(e), blind |-> met[e] \/ mtime = clock,
                      changed |-> met[e]])
  /\ Return(e, "idle")
  /\ UNCHANGED <<link, file, clock, job, base>>

----------------------------------------------------------------------------
(* The server, and calls that change the file from elsewhere.              *)

Tick ==
  /\ clock < MaxClock
  /\ clock' = clock + 1
  /\ UNCHANGED <<link, file, pc, job, known, notes>>

\* Another program, or an upload.
Overwrite ==
  /\ texts < MaxTexts
  /\ texts' = texts + 1 /\ content' = texts' /\ mtime' = clock
  /\ Noticed(Free)
  /\ UNCHANGED <<link, clock, pc, job, base, skipped>>

\* delete(), or rename() to another path.  A rename of another file onto this one,
\* which keeps that file's date, is left out (rename(), remote.rs:689-700).
Remove ==
  /\ content # Missing /\ content' = Missing
  /\ Noticed(Free)
  /\ UNCHANGED <<link, texts, mtime, clock, pc, job, base, skipped>>

Next ==
  \/ \E e \in Editors :
       \/ \E k \in {"read", "save"} : Begin(e, k)
       \/ Lock(e) \/ Handshake(e) \/ RequestFails(e)
       \/ Stat(e) \/ Read(e)
       \/ Check(e) \/ Create(e) \/ Write(e) \/ StatAfter(e)
  \/ ChannelDies \/ Tick \/ Overwrite \/ Remove

Spec == Init /\ [][Next]_vars

----------------------------------------------------------------------------
(* Properties.                                                             *)

\* Type invariant; the mutex is held exactly during a handshake, and calls that
\* race for the empty slot open one channel between them.
TypeOK ==
  /\ sftp \in {"none", "open", "dead"} /\ channels = IF sftp = "none" THEN 0 ELSE 1
  /\ \A e \in Editors : lock = e <=> pc[e] = "handshake"
  /\ content \in Contents /\ mtime \in 1..clock /\ clock \in 1..MaxClock /\ texts \in Texts
  /\ pc \in [Editors -> {"idle", "conflict", "lock", "handshake", "stat", "read", "check"}
                          \cup Saving]
  /\ job \in [Editors -> {"read", "save"}]
  /\ attrs \in [Editors -> Date] /\ mt \in [Editors -> Date]
  /\ base \in [Editors -> Contents]
  /\ met \in [Editors -> BOOLEAN] /\ skipped \in [Editors -> BOOLEAN]

\* A save cuts off nothing but the text it was made from (or a torn file, or
\* what was written after its check), if the check could be made and if the
\* file was at least a second old when the viewer last learned its date.
NoSilentOverwrite ==
  [][\A e \in Editors :
       pc[e] = "create" /\ pc'[e] = "write" =>
         content = base[e] \/ content = Junk \/ met[e] \/ skipped[e] \/ mt[e].blind]_vars

\* A save is refused only for a change that others made, or that a save of the
\* same viewer left behind when it failed.
NoFalseConflict == \A e \in Editors : pc[e] = "conflict" => mt[e].changed

=============================================================================
