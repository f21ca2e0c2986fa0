-------------------------- MODULE RemoteFilesProofs --------------------------
(***************************************************************************)
(* The three properties of RemoteFiles, for every set of viewers and any   *)
(* number of seconds and texts.                                            *)
(***************************************************************************)
EXTENDS RemoteFiles, TLAPS

USE RemoteFilesAssumption

----------------------------------------------------------------------------
(* The parts of the inductive invariant.                                   *)

\* Who does the handshake finds the slot empty.
Opening == \A e \in Editors : pc[e] = "handshake" => sftp = "none"

\* What a date says: one that cannot hide a change is past, so that a change
\* since then left a later one, or no file; without a change it is the file's.
Tells(d) ==
  /\ ~d.blind => d.date < clock
  /\ ~d.blind /\ d.changed => d.date < mtime \/ content = Missing
  /\ ~d.changed => d.date = mtime

Dated == \A e \in Editors : Tells(attrs[e]) /\ Tells(mt[e])

\* The file holds what e's text comes from, or is torn.
Same(e) == content \in {base[e], Junk}

\* Without a change since its date was learned, the file is still the viewer's.
Known == \A e \in Editors : ~mt[e].changed => Same(e)

\* So it is between the check and create(), and after the write, unless the
\* history says otherwise.
Checked ==
  \A e \in Editors :
    pc[e] = "create" => Same(e) \/ met[e] \/ skipped[e] \/ mt[e].blind

Written == \A e \in Editors : pc[e] = "statAfter" => Same(e) \/ met[e]

IInv == TypeOK /\ Opening /\ Dated /\ Known /\ Checked /\ Written /\ NoFalseConflict

----------------------------------------------------------------------------
(* Types.                                                                  *)

EditorStep(e) ==
  \/ \E k \in {"read", "save"} : Begin(e, k)
  \/ Lock(e) \/ Handshake(e) \/ RequestFails(e)
  \/ Stat(e) \/ Read(e)
  \/ Check(e) \/ Create(e) \/ Write(e) \/ StatAfter(e)

ServerStep == ChannelDies \/ Tick \/ Overwrite \/ Remove

LEMMA InitInv == Init => IInv
<1> SUFFICES ASSUME Init PROVE IInv
  OBVIOUS
<1>1. TypeOK
  BY DEF Init, TypeOK, Contents, Texts, Date, Unknown
<1>2. Opening /\ Dated /\ Known /\ Checked /\ Written /\ NoFalseConflict
  BY DEF Init, Opening, Dated, Tells, Known, Same, Checked, Written, NoFalseConflict, Unknown
<1>3. QED  BY <1>1, <1>2 DEF IInv

LEMMA DatesChange ==
  ASSUME NEW dates \in [Editors -> Date]
  PROVE  /\ Changed(dates) \in [Editors -> Date]
         /\ \A e \in Editors : /\ Changed(dates)[e].changed
                               /\ Changed(dates)[e].blind = dates[e].blind
                               /\ Changed(dates)[e].date = dates[e].date
BY DEF Changed, Date

LEMMA NoticedTypes ==
  ASSUME TypeOK, NEW e, Noticed(e)
  PROVE  /\ attrs' \in [Editors -> Date] /\ mt' \in [Editors -> Date]
         /\ met' \in [Editors -> BOOLEAN]
<1>1. attrs' \in [Editors -> Date] /\ mt' \in [Editors -> Date]
  BY DatesChange DEF TypeOK, Noticed
<1>2. \A f \in Editors : (met[f] \/ (f # e /\ pc[f] \in Saving)) \in BOOLEAN
  BY Zenon
<1>3. met' \in [Editors -> BOOLEAN]
  BY <1>2, Zenon DEF Noticed
<1>4. QED  BY <1>1, <1>3

LEMMA EditorTypes ==
  ASSUME TypeOK, Opening, NEW e \in Editors, EditorStep(e)
  PROVE  TypeOK'
<1> USE DEF TypeOK, Saving, Goto, Set, link, file, known, notes, Contents, Texts
<1>1. ASSUME NEW k \in {"read", "save"}, Begin(e, k) PROVE TypeOK'
  BY <1>1 DEF Begin
<1>2. CASE Lock(e)
  BY <1>2 DEF Lock, SlotFree, First
<1>3. CASE Handshake(e)
  BY <1>3 DEF Handshake, First, Opening
<1>4. CASE RequestFails(e)
  BY <1>4 DEF RequestFails, Return, Saving, Unknown, Date
<1>5. CASE Stat(e)
  BY <1>5 DEF Stat, Unknown, Date
<1>6. CASE Read(e)
  BY <1>6 DEF Read, ReadDate, Return, Unknown, Date
<1>7. CASE Check(e)
  <2>1. CASE Return(e, "conflict") /\ pc[e] = "check" /\ UNCHANGED <<link, file, clock, job, mt, base>>
    BY <2>1 DEF Return, Unknown, Date
  <2>2. CASE Goto(e, "create") /\ pc[e] = "check" /\ UNCHANGED <<link, file, clock, job, known, met>>
             /\ (skipped' = skipped \/ skipped' = Set(skipped, e, TRUE))
    BY <2>2
  <2>3. QED  BY <1>7, <2>1, <2>2 DEF Check
<1>8. CASE Create(e)
  <2>1. Noticed(e)
    BY <1>8 DEF Create
  <2>2. QED  BY <1>8, <2>1, NoticedTypes DEF Create
<1>9. CASE Write(e)
  <2>1. Noticed(e)
    BY <1>9 DEF Write
  <2>2. QED  BY <1>9, <2>1, NoticedTypes DEF Write
<1>10. CASE StatAfter(e)
  BY <1>10 DEF StatAfter, WrittenDate, Return, Unknown, Date
<1>11. QED
  BY <1>1, <1>2, <1>3, <1>4, <1>5, <1>6, <1>7, <1>8, <1>9, <1>10
     DEF EditorStep

LEMMA ServerTypes ==
  ASSUME TypeOK, Opening, ServerStep
  PROVE  TypeOK' /\ Opening'
<1> USE DEF TypeOK, Opening, link, file, known, notes, Contents, Texts
<1>1. CASE ChannelDies
  BY <1>1 DEF ChannelDies
<1>2. CASE Tick
  BY <1>2 DEF Tick
<1>3. CASE Overwrite
  <2>1. Noticed(Free)
    BY <1>3 DEF Overwrite
  <2>2. QED  BY <1>3, <2>1, NoticedTypes DEF Overwrite
<1>4. CASE Remove
  <2>1. Noticed(Free)
    BY <1>4 DEF Remove
  <2>2. QED  BY <1>4, <2>1, NoticedTypes DEF Remove
<1>5. QED  BY <1>1, <1>2, <1>3, <1>4 DEF ServerStep

LEMMA EditorOpening ==
  ASSUME TypeOK, Opening, NEW e \in Editors, EditorStep(e)
  PROVE  Opening'
<1> USE DEF TypeOK, Opening, Goto, link, file, known, notes, First
<1>1. CASE Lock(e) \/ Handshake(e)
  BY <1>1 DEF Lock, Handshake, SlotFree
<1>2. CASE ~(Lock(e) \/ Handshake(e))
  <2>1. sftp' = sftp /\ \A f \in Editors : pc'[f] = "handshake" => pc[f] = "handshake"
    BY <1>2 DEF EditorStep, Begin, RequestFails, Stat, Read, Check, Create, Write, StatAfter, Return
  <2>2. QED  BY <2>1
<1>3. QED  BY <1>1, <1>2

----------------------------------------------------------------------------
(* Dates.                                                                  *)

\* A change of the file, or its removal.
Touches ==
  /\ clock' = clock
  /\ mtime' = clock \/ (mtime' = mtime /\ content' = Missing)

LEMMA TouchDated ==
  ASSUME TypeOK, Dated, NEW e, Noticed(e), Touches
  PROVE  Dated' /\ \A f \in Editors : attrs'[f].changed /\ mt'[f].changed
<1>1. attrs' = Changed(attrs) /\ mt' = Changed(mt)
  BY DEF Noticed
<1>2. attrs \in [Editors -> Date] /\ mt \in [Editors -> Date] /\ mtime \in Nat /\ clock \in Nat
      /\ mtime <= clock
  BY DEF TypeOK
<1>3. \A f \in Editors : (Tells(attrs[f]) /\ Tells(mt[f]))'
  BY <1>1, <1>2, DatesChange DEF Dated, Tells, Touches, Date
<1>4. QED  BY <1>1, <1>2, <1>3, DatesChange DEF Dated

\* What metadata() answers now.
LEMMA LearnedTells ==
  ASSUME TypeOK, NEW d, d.date = mtime, ~d.blind => mtime # clock, d.changed => d.blind
  PROVE  Tells(d)
BY DEF TypeOK, Tells

LEMMA EditorDated ==
  ASSUME TypeOK, Dated, NEW e \in Editors, EditorStep(e)
  PROVE  Dated'
<1> USE DEF file, known, Set
<1>1. CASE (\E k \in {"read", "save"} : Begin(e, k)) \/ Lock(e) \/ Handshake(e)
  BY <1>1 DEF Begin, Lock, Handshake, Dated, Tells
<1>2. CASE RequestFails(e) \/ Check(e)
  <2>1. UNCHANGED <<content, mtime, clock, mt>> /\ \A f \in Editors : attrs'[f] \in {attrs[f], Unknown}
    BY <1>2 DEF RequestFails, Check, Return, TypeOK
  <2>2. Tells(Unknown)
    BY DEF Tells, Unknown, TypeOK
  <2>3. QED  BY <2>1, <2>2 DEF Dated, Tells
<1>3. CASE Stat(e)
  <2>1. UNCHANGED <<content, mtime, clock, mt>> /\ \A f \in Editors \ {e} : attrs'[f] = attrs[f]
    BY <1>3 DEF Stat, TypeOK
  <2>2. attrs'[e] = [date |-> mtime, blind |-> mtime = clock, changed |-> FALSE]
    BY <1>3 DEF Stat, TypeOK
  <2>3. Tells(attrs'[e])
    BY <2>2, LearnedTells
  <2>4. QED  BY <2>1, <2>3 DEF Dated, Tells
<1>4. CASE Read(e)
  BY <1>4 DEF Read, ReadDate, Return, Dated, Tells, TypeOK, Unknown
<1>5. CASE StatAfter(e)
  <2>1. UNCHANGED <<content, mtime, clock>> /\ \A f \in Editors \ {e} : mt'[f] = mt[f]
    BY <1>5 DEF StatAfter, TypeOK
  <2>2. mt'[e] = [date |-> mtime, blind |-> met[e] \/ mtime = clock, changed |-> met[e]]
    BY <1>5 DEF StatAfter, WrittenDate, TypeOK
  <2>3. Tells(mt'[e])
    BY <2>2, LearnedTells
  <2>4. \A f \in Editors : attrs'[f] \in {attrs[f], Unknown}
    BY <1>5 DEF StatAfter, Return, TypeOK
  <2>5. Tells(Unknown)
    BY DEF Tells, Unknown, TypeOK
  <2>6. QED  BY <2>1, <2>3, <2>4, <2>5 DEF Dated, Tells
<1>6. CASE Create(e) \/ Write(e)
  <2>1. Noticed(e) /\ Touches
    BY <1>6 DEF Create, Write, Touches
  <2>2. QED  BY <2>1, TouchDated
<1>7. QED  BY <1>1, <1>2, <1>3, <1>4, <1>5, <1>6 DEF EditorStep

LEMMA ServerDated ==
  ASSUME TypeOK, Dated, ServerStep
  PROVE  Dated'
<1> USE DEF file, known
<1>1. CASE ChannelDies
  BY <1>1 DEF ChannelDies, Dated, Tells
<1>2. CASE Tick
  BY <1>2 DEF Tick, Dated, Tells, TypeOK, Date
<1>3. CASE Overwrite
  <2>1. Noticed(Free) /\ Touches
    BY <1>3 DEF Overwrite, Touches
  <2>2. QED  BY <2>1, TouchDated
<1>4. CASE Remove
  <2>1. Noticed(Free) /\ Touches
    BY <1>4 DEF Remove, Touches
  <2>2. QED  BY <2>1, TouchDated
<1>5. QED  BY <1>1, <1>2, <1>3, <1>4 DEF ServerStep

----------------------------------------------------------------------------
(* What each step does to the other parts.                                 *)

Kept == Known /\ Checked /\ Written /\ NoFalseConflict

\* A step of one viewer that leaves the file alone.
LEMMA QuietStep ==
  ASSUME TypeOK, NEW e \in Editors,
         \/ \E k \in {"read", "save"} : Begin(e, k)
         \/ Lock(e) \/ Handshake(e) \/ RequestFails(e)
         \/ Stat(e) \/ Read(e) \/ Check(e) \/ StatAfter(e)
  PROVE  /\ content' = content
         /\ \A f \in Editors \ {e} : /\ pc'[f] = pc[f] /\ mt'[f] = mt[f] /\ base'[f] = base[f]
                                     /\ met'[f] = met[f] /\ skipped'[f] = skipped[f]
<1> USE DEF TypeOK, Goto, Set, Return, file, known, notes
<1>1. CASE \/ \E k \in {"read", "save"} : Begin(e, k)
           \/ Lock(e) \/ Handshake(e) \/ RequestFails(e)
  BY <1>1 DEF Begin, Lock, Handshake, RequestFails
<1>2. CASE Stat(e) \/ Read(e) \/ Check(e) \/ StatAfter(e)
  BY <1>2 DEF Stat, Read, Check, StatAfter
<1>3. QED  BY <1>1, <1>2

\* Whoever is in the middle of a save notes a change by others.
LEMMA TouchKept ==
  ASSUME TypeOK, Dated, NEW e, Noticed(e), Touches, Kept, NoFalseConflict,
         UNCHANGED skipped,
         \A f \in Editors \ {e} : pc'[f] = pc[f],
         e \in Editors => pc'[e] \notin {"create", "conflict"} /\ (pc'[e] = "statAfter" => Same(e)')
  PROVE  Kept'
<1>1. \A f \in Editors : attrs'[f].changed /\ mt'[f].changed
  BY TouchDated
<1>2. \A f \in Editors \ {e} : pc'[f] \in Saving => met'[f]
  BY DEF Noticed
<1>3. Known' /\ NoFalseConflict'
  BY <1>1 DEF Known, NoFalseConflict
<1>4. Checked' /\ Written'
  BY <1>2 DEF Checked, Written, Saving
<1>5. QED  BY <1>3, <1>4 DEF Kept

LEMMA EditorKept ==
  ASSUME TypeOK, Dated, Kept, NEW e \in Editors, EditorStep(e)
  PROVE  Kept'
<1>1. CASE \/ \E k \in {"read", "save"} : Begin(e, k)
           \/ Lock(e) \/ Handshake(e) \/ RequestFails(e) \/ Stat(e)
  <2>1. /\ mt' = mt /\ base' = base
        /\ pc'[e] \notin {"create", "statAfter", "conflict"}
    BY <1>1 DEF Begin, Lock, Handshake, RequestFails, Stat, Goto, Set, Return, First, known, TypeOK
  <2>2. QED  BY <1>1, <2>1, QuietStep DEF Kept, Known, Checked, Written, NoFalseConflict, Same
<1>2. CASE Read(e)
  <2>1. base'[e] = content /\ pc'[e] = "idle"
    BY <1>2 DEF Read, Goto, Set, Return, TypeOK
  <2>2. QED  BY <1>2, <2>1, QuietStep DEF Kept, Known, Checked, Written, NoFalseConflict, Same
<1>3. CASE StatAfter(e)
  <2>1. /\ base' = base /\ pc[e] = "statAfter" /\ pc'[e] = "idle"
        /\ mt'[e].changed = met[e]
    BY <1>3 DEF StatAfter, Goto, Set, Return, TypeOK
  <2>2. QED  BY <1>3, <2>1, QuietStep DEF Kept, Known, Checked, Written, NoFalseConflict, Same
<1>4. CASE Check(e)
  <2>1. /\ mt' = mt /\ base' = base
        /\ \/ pc'[e] = "create" /\ content # Missing /\ mtime = mt[e].date
           \/ pc'[e] = "conflict" /\ mtime # mt[e].date
           \/ pc'[e] = "create" /\ skipped'[e]
    BY <1>4 DEF Check, Goto, Set, Return, TypeOK
  <2>2. mtime \in Nat /\ mt[e].date \in Nat
    BY DEF TypeOK, Date
  <2>3. content # Missing /\ mtime = mt[e].date => mt[e].blind \/ Same(e)
    BY <2>2 DEF Dated, Tells, Kept, Known
  <2>4. mtime # mt[e].date => mt[e].changed
    BY DEF Dated, Tells
  <2>5. QED  BY <1>4, <2>1, <2>3, <2>4, QuietStep
                DEF Kept, Known, Checked, Written, NoFalseConflict, Same
<1>5. CASE Create(e)
  BY <1>5, TouchKept DEF Create, Touches, Goto, TypeOK, Kept
<1>6. CASE Write(e)
  <2>1. Same(e)' /\ pc'[e] = "statAfter" /\ \A f \in Editors \ {e} : pc'[f] = pc[f]
    BY <1>6 DEF Write, Same, Set, Goto, TypeOK
  <2>2. Noticed(e) /\ Touches /\ skipped' = skipped
    BY <1>6 DEF Write, Touches
  <2>3. QED  BY <2>1, <2>2, TouchKept DEF Kept
<1>7. QED  BY <1>1, <1>2, <1>3, <1>4, <1>5, <1>6 DEF EditorStep

LEMMA ServerKept ==
  ASSUME TypeOK, Dated, Kept, ServerStep
  PROVE  Kept'
<1>1. CASE ChannelDies \/ Tick
  BY <1>1 DEF ChannelDies, Tick, Kept, Known, Checked, Written, NoFalseConflict, Same, file, known, notes
<1>2. CASE Overwrite \/ Remove
  <2>1. Noticed(Free) /\ Touches /\ skipped' = skipped /\ pc' = pc
    BY <1>2 DEF Overwrite, Remove, Touches
  <2>2. QED  BY <2>1, TouchKept DEF Kept
<1>3. QED  BY <1>1, <1>2 DEF ServerStep

----------------------------------------------------------------------------

LEMMA NextInv == IInv /\ [Next]_vars => IInv'
<1> SUFFICES ASSUME IInv, [Next]_vars PROVE IInv'
  OBVIOUS
<1> USE DEF IInv, Kept
<1>1. ASSUME NEW e \in Editors, EditorStep(e) PROVE IInv'
  BY <1>1, EditorTypes, EditorOpening, EditorDated, EditorKept DEF EditorStep
<1>2. CASE ServerStep
  BY <1>2, ServerTypes, ServerDated, ServerKept
<1>3. CASE UNCHANGED vars
  BY <1>3 DEF vars, link, file, known, notes, TypeOK, Opening, Dated, Tells, Known, Checked,
              Written, NoFalseConflict, Same
<1>4. QED  BY <1>1, <1>2, <1>3 DEF Next, EditorStep, ServerStep

LEMMA Invariance == Spec => []IInv
BY InitInv, NextInv, PTL DEF Spec

\* The slot, the file, its dates and the calls are well typed; the mutex of
\* with_sftp() is held exactly during a handshake, and calls that race for the
\* empty slot open one channel between them.
THEOREM FileTypes == Spec => []TypeOK
<1>1. IInv => TypeOK
  BY DEF IInv
<1>2. QED  BY <1>1, Invariance, PTL

\* write_file_bytes() refuses a save only for a change that others made, or that
\* a failed save of the same viewer left behind: a date that no change followed
\* is the date of the file.
THEOREM RefusalHasReason == Spec => []NoFalseConflict
<1>1. IInv => NoFalseConflict
  BY DEF IInv
<1>2. QED  BY <1>1, Invariance, PTL

\* When create() of a save cuts the file off, it held the text the save was made
\* from, or was torn, or was changed after the check, or the check could not be
\* made, or the date could not tell.
THEOREM NothingUnseenIsLost == Spec => NoSilentOverwrite
<1>1. IInv => \A e \in Editors :
        pc[e] = "create" => content = base[e] \/ content = Junk \/ met[e] \/ skipped[e] \/ mt[e].blind
  BY DEF IInv, Checked, Same
<1>2. IInv /\ [Next]_vars =>
        [\A e \in Editors :
           pc[e] = "create" /\ pc'[e] = "write" =>
             content = base[e] \/ content = Junk \/ met[e] \/ skipped[e] \/ mt[e].blind]_vars
  BY <1>1
<1>3. QED  BY <1>2, Invariance, PTL DEF Spec, NoSilentOverwrite

=============================================================================
