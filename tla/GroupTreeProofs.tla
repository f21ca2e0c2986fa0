--------------------------- MODULE GroupTreeProofs ---------------------------
(***************************************************************************)
(* The three invariants of GroupTree, for every number of groups and calls *)
(* and every bound of is_descendant()'s walk.                              *)
(***************************************************************************)
EXTENDS GroupTree, TLAPS

USE GroupTreeAssumption

----------------------------------------------------------------------------
(* The parts of the inductive invariant.                                   *)

Known(g) == parent[g] # Unborn

\* The operation a statement belongs to, and what it is about.
StageOf(c) ==
  /\ pc[c] \in {"getParent", "insert"} => kind[c] = "create"
  /\ pc[c] \in {"get", "walk", "write"} => kind[c] \in {"rename", "move"}
  /\ pc[c] \in {"readParent", "reparent", "unfile", "erase"} => kind[c] = "delete"
  /\ pc[c] = "file" => kind[c] = "file"
  /\ pc[c] = "answer" => kind[c] # "file" /\ id[c] \in Groups /\ Known(id[c])
  /\ InFlight(c) /\ kind[c] \in {"rename", "move", "delete"} =>
       id[c] \in Groups /\ Known(id[c])
  /\ InFlight(c) => to[c] = Root \/ Known(to[c])

Stages == \A c \in Calls : StageOf(c)

\* The store shows no group that was never made, nor below one.
ShownIsKnown == \A g \in Shown : Known(g) /\ (shown[g] = Root \/ Known(shown[g]))

\* What `raced` records.
Overlaps ==
  raced \/ \A c, d \in Calls : c # d /\ InFlight(c) /\ InFlight(d) => ~Disturb(c, d)

\* What `deep` records.
Deepness == Tall => deep

\* The new parent has groups above it, up to the root, that are not the one moved.
ClearBy(c, V) ==
  /\ to[c] \in V /\ id[c] \notin V
  /\ \A g \in V : Known(g) /\ (g \in Rows => parent[g] \in V \cup {Root})

Clear(c) == to[c] = Root \/ \E V \in SUBSET Groups : ClearBy(c, V)

\* The groups the walk has passed, from the new parent to the one it is at.
Passed(c, h) ==
  /\ h[0] = to[c] /\ h[step[c]] = at[c] /\ Known(at[c])
  /\ \A i \in 0..step[c] : i < step[c] => h[i] # id[c] /\ parent[h[i]] = h[i + 1]

Walking ==
  raced \/ deep \/ \A c \in Calls :
    /\ pc[c] = "walk" =>
         IF at[c] = Root THEN Clear(c)
         ELSE \E h \in [0..step[c] -> Groups] : Passed(c, h)
    /\ pc[c] = "write" => Clear(c)

\* delete() still knows the parent of the group.
Reading ==
  raced \/ \A c \in Calls :
    pc[c] = "reparent" /\ id[c] \in Rows => at[c] = parent[id[c]]

Undisturbed == ~raced /\ ~halfway /\ ~drifted

\* A group is renamed or moved that the store and the table both have.
Targets ==
  Undisturbed => \A c \in Calls :
    InFlight(c) /\ kind[c] \in {"rename", "move"} => id[c] \in Rows /\ id[c] \in Shown

Reparented(c, g) == shown[g] = id[c] /\ parent[g] = at[c]

\* What a call that has still to answer leaves different in the store.
Owed(c, g) ==
  \/ pc[c] = "answer" /\ g = id[c]
  \/ pc[c] \in {"unfile", "erase", "answer"} /\ kind[c] = "delete" /\ Reparented(c, g)

Agrees == Undisturbed => \A g \in Groups : shown[g] = parent[g] \/ \E c \in Calls : Owed(c, g)

\* What an answer puts into the store is what the table has.
AnswerOf(c) ==
  /\ kind[c] = "create" => parent[id[c]] = to[c] /\ shown[id[c]] = Unborn
  /\ kind[c] \in {"rename", "move"} => parent[id[c]] = to[c]
  /\ kind[c] = "delete" => /\ parent[id[c]] = Gone
                           /\ \A g \in Groups \ {id[c]} : parent[g] # id[c]

Answers == Undisturbed => \A c \in Calls : pc[c] = "answer" => AnswerOf(c)

\* No two calls make one group.
Distinct ==
  \A c, d \in Calls :
    pc[c] = "answer" /\ kind[c] = "create" /\ pc[d] = "answer" /\ kind[d] = "create"
      /\ id[c] = id[d] => c = d

Forest == /\ TypeOK /\ Stages /\ ShownIsKnown /\ Overlaps /\ Deepness
          /\ Walking /\ Reading /\ ForestIfAlone

IInv == Forest /\ Targets /\ Agrees /\ Answers /\ Distinct

\* A step of the call c, which every step is.
CallStep(c) ==
  \/ Begin(c) \/ StatementFails(c) \/ Answer(c)
  \/ GetParent(c) \/ Insert(c)
  \/ Get(c) \/ Walk(c) \/ Write(c)
  \/ ReadParent(c) \/ Reparent(c) \/ Unfile(c) \/ Erase(c)
  \/ File(c)

\* The steps that leave the table as it is.
ReadStep(c) ==
  \/ Begin(c) \/ StatementFails(c) \/ Answer(c)
  \/ GetParent(c) \/ Get(c) \/ Walk(c) \/ ReadParent(c)

----------------------------------------------------------------------------
(* Types.                                                                  *)

\* The fields of the calls.
CallsOK ==
  /\ pc \in [Calls -> {"idle", "ok", "failed", "getParent", "insert", "get", "walk", "write",
                       "readParent", "reparent", "unfile", "erase", "file", "answer"}]
  /\ kind \in [Calls -> Kinds] /\ id \in [Calls -> Places \cup Profiles]
  /\ to \in [Calls -> Places] /\ at \in [Calls -> Places] /\ step \in [Calls -> 0..Depth]

LEMMA InitTypes ==
  ASSUME Init
  PROVE  TypeOK
<1>1. Rows \subseteq Places
  BY DEF Rows, Places
<1>2. /\ parent \in [Groups -> Places \cup Absent] /\ shown \in [Groups -> Places \cup Absent]
      /\ \A g \in Groups : parent[g] \in Groups => parent[g] \in Rows
  BY DEF Init, Absent, Places, Sound, Rows
<1>3. home \in [Profiles -> Places]
  BY <1>1 DEF Init, Places
<1>4. deep \in BOOLEAN
  BY Zenon DEF Init, Tall
<1>5. QED
  <2>1. CallsOK
    BY DEF Init, CallsOK, Places, Kinds
  <2>2. <<raced, deep, halfway, drifted>> \in BOOLEAN \X BOOLEAN \X BOOLEAN \X BOOLEAN
    BY <1>4 DEF Init
  <2>3. QED  BY <1>2, <1>3, <2>1, <2>2 DEF TypeOK, CallsOK

LEMMA InitInv == Init => IInv
<1> SUFFICES ASSUME Init PROVE IInv
  OBVIOUS
<1>1. TypeOK
  BY InitTypes
<1>2. Stages /\ Overlaps /\ Deepness /\ Walking /\ Reading
  BY DEF Init, Stages, StageOf, Overlaps, InFlight, Deepness, Walking, Reading
<1>3. ShownIsKnown /\ ForestIfAlone
  BY DEF Init, ShownIsKnown, Shown, Known, Absent, Places, ForestIfAlone, Sound
<1>4. Targets /\ Agrees /\ Answers /\ Distinct
  BY DEF Init, Targets, InFlight, Agrees, Answers, Distinct
<1>5. QED  BY <1>1, <1>2, <1>3, <1>4 DEF IInv, Forest

LEMMA History ==
  ASSUME TypeOK, Noted
  PROVE  /\ raced' \in BOOLEAN /\ deep' \in BOOLEAN
         /\ raced => raced'
         /\ deep => deep'
         /\ Overlaps' /\ Deepness'
<1>1. raced' \in BOOLEAN /\ deep' \in BOOLEAN
  BY Zenon DEF Noted, Tall
<1>2. (raced => raced') /\ (deep => deep')
  BY Zenon DEF Noted
<1>3. Overlaps' /\ Deepness'
  BY Zenon DEF Noted, Overlaps, Deepness
<1>4. QED  BY <1>1, <1>2, <1>3

LEMMA StepIsNoted ==
  ASSUME NEW c, CallStep(c)
  PROVE  Noted
BY DEF CallStep, Begin, StatementFails, Answer, GetParent, Insert, Get, Walk, Write, ReadParent,
   Reparent, Unfile, Erase, File

LEMMA RowsAre ==
  ASSUME TypeOK
  PROVE  /\ Rows \subseteq Groups /\ Shown \subseteq Groups
         /\ \A g \in Rows : parent[g] \in Places
         /\ \A g \in Shown : shown[g] \in Places
         /\ Groups \subseteq Places /\ Root \in Places /\ Root \notin Groups
         /\ Unborn \notin Places /\ Gone \notin Places
BY DEF TypeOK, Rows, Shown, Places, Absent

\* What a call may be about when it begins.
Offered(k, x, p, l) ==
  /\ p = Root \/ Known(p)
  /\ \/ k = "create" /\ l \in {"insert", "getParent"} /\ x = Root
     \/ k \in {"rename", "move"} /\ l = "get" /\ x \in Shown
     \/ k = "delete" /\ l = "readParent" /\ x \in Shown
     \/ k = "file" /\ l = "file" /\ x \in Profiles

Beginnings == {"insert", "getParent", "get", "readParent", "file"}

LEMMA BeginDoes ==
  ASSUME TypeOK, ShownIsKnown, NEW c \in Calls, Begin(c)
  PROVE  \E k \in Kinds, x \in Places \cup Profiles, p \in Places, l \in Beginnings :
           Ask(c, k, x, p, l) /\ Offered(k, x, p, l)
<1> USE RowsAre DEF Kinds, Beginnings, Offered, ShownIsKnown
<1>1. CASE \E p \in Shown \cup {Root} :
              Ask(c, "create", Root, p, IF p = Root THEN "insert" ELSE "getParent")
  BY <1>1
<1>2. CASE \E g \in Shown : Ask(c, "rename", g, shown[g], "get")
  <2>1. PICK g \in Shown : Ask(c, "rename", g, shown[g], "get")
    BY <1>2
  <2>2. QED  BY <2>1
<1>3. CASE \E g \in Shown, p \in Shown \cup {Root} :
             g # p /\ p # shown[g] /\ Ask(c, "move", g, p, "get")
  BY <1>3
<1>4. CASE \E g \in Shown : Ask(c, "delete", g, Root, "readParent")
  BY <1>4
<1>5. CASE \E x \in Profiles, p \in Shown \cup {Root} : Ask(c, "file", x, p, "file")
  BY <1>5
<1>6. QED  BY <1>1, <1>2, <1>3, <1>4, <1>5 DEF Begin

LEMMA StepCalls ==
  ASSUME TypeOK, ShownIsKnown, NEW c \in Calls, CallStep(c)
  PROVE  CallsOK'
<1>1. CASE Begin(c)
  <2>1. PICK k \in Kinds, x \in Places \cup Profiles, p \in Places, l \in Beginnings :
           Ask(c, k, x, p, l)
    BY <1>1, BeginDoes
  <2>2. QED
    BY <1>1, <2>1 DEF Begin, Ask, Beginnings, TypeOK, CallsOK, Goto, walk
<1> USE RowsAre DEF TypeOK, CallsOK, Goto, Kinds, rows, args, walk
<1>2. CASE StatementFails(c) \/ GetParent(c) \/ Write(c) \/ Unfile(c) \/ Erase(c) \/ File(c)
  BY <1>2 DEF StatementFails, GetParent, Write, Unfile, Erase, File
<1>3. CASE Insert(c)
  BY <1>3 DEF Insert
<1>4. CASE Get(c)
  BY <1>4 DEF Get
<1>5. CASE Walk(c)
  <2>1. at[c] \in Rows => parent[at[c]] \in Places
    OBVIOUS
  <2>2. at' \in [Calls -> Places]
    BY <1>5, <2>1 DEF Walk
  <2>3. step' \in [Calls -> 0..Depth]
    BY <1>5 DEF Walk, Steps
  <2>4. QED  BY <1>5, <2>2, <2>3 DEF Walk
<1>6. CASE ReadParent(c)
  <2>1. id[c] \in Rows => parent[id[c]] \in Places
    OBVIOUS
  <2>2. QED  BY <1>6, <2>1 DEF ReadParent
<1>7. CASE Reparent(c) \/ Answer(c)
  BY <1>7 DEF Reparent, Answer
<1>8. QED
  BY <1>1, <1>2, <1>3, <1>4, <1>5, <1>6, <1>7 DEF CallStep

\* The table keeps its foreign keys, and no row becomes unborn.
LEMMA StepTable ==
  ASSUME TypeOK, Stages, NEW c \in Calls, CallStep(c)
  PROVE  /\ parent' \in [Groups -> Places \cup Absent]
         /\ \A g \in Groups : parent'[g] \in Groups => parent'[g] \in Rows'
         /\ \A g \in Groups : Known(g) => (Known(g))'
         /\ home' \in [Profiles -> Places]
<1> USE RowsAre DEF Rows, Known
<1>1. CASE ReadStep(c)
  BY <1>1 DEF ReadStep, Begin, StatementFails, Answer, GetParent, Get, Walk, ReadParent, rows, TypeOK
<1>2. ASSUME NEW g \in Groups, Refers(to[c]), parent' = [parent EXCEPT ![g] = to[c]]
      PROVE  /\ parent' \in [Groups -> Places \cup Absent]
             /\ \A h \in Groups : parent'[h] \in Groups => parent'[h] \in Rows'
             /\ \A h \in Groups : Known(h) => (Known(h))'
  BY <1>2 DEF Refers, TypeOK, Absent
<1>3. CASE Insert(c)
  BY <1>2, <1>3 DEF Insert, TypeOK
<1>4. CASE Write(c)
  <2>1. CASE UNCHANGED parent
    BY <1>4, <2>1 DEF Write, TypeOK
  <2>2. CASE id[c] \in Rows /\ Refers(to[c]) /\ parent' = [parent EXCEPT ![id[c]] = to[c]]
    BY <1>2, <1>4, <2>2 DEF Write, TypeOK
  <2>3. QED  BY <1>4, <2>1, <2>2 DEF Write
<1>5. CASE Reparent(c)
  <2>1. \A g \in Groups : \/ parent'[g] = parent[g]
                          \/ parent[g] \notin Absent /\ parent'[g] = at[c] /\ Refers(at[c])
    BY <1>5 DEF Reparent
  <2>2. at[c] \in Places
    BY DEF TypeOK
  <2>3. parent' \in [Groups -> Places \cup Absent]
    BY <1>5, <2>2 DEF Reparent, TypeOK
  <2>4. \A g \in Groups : parent[g] \notin Absent => parent'[g] \notin Absent
    BY <2>1, <2>2 DEF Absent
  <2>5. ASSUME NEW g \in Groups, parent'[g] \in Groups PROVE parent'[g] \in Rows'
    BY <2>1, <2>4, <2>5 DEF Refers, TypeOK
  <2>6. \A g \in Groups : Known(g) => (Known(g))'
    BY <2>1, <2>2
  <2>7. QED  BY <1>5, <2>3, <2>5, <2>6 DEF Reparent, TypeOK
<1>6. CASE Erase(c)
  <2>1. id[c] \in Groups
    BY <1>6 DEF Erase, Stages, StageOf, InFlight
  <2>2. QED  BY <1>6, <2>1 DEF Erase, TypeOK, Absent
<1>7. CASE Unfile(c) \/ File(c)
  BY <1>7 DEF Unfile, File, TypeOK
<1>8. QED
  BY <1>1, <1>3, <1>4, <1>5, <1>6, <1>7 DEF CallStep, ReadStep

LEMMA StepShown ==
  ASSUME TypeOK, Stages, NEW c \in Calls, CallStep(c)
  PROVE  /\ shown' \in [Groups -> Places \cup Absent]
         /\ halfway' \in BOOLEAN /\ drifted' \in BOOLEAN
         /\ halfway => halfway'
         /\ drifted => drifted'
<1> USE RowsAre DEF notes, TypeOK
<1>1. CASE StatementFails(c)
  <2>1. halfway' \in BOOLEAN /\ (halfway => halfway')
    BY <1>1, Zenon DEF StatementFails
  <2>2. QED  BY <1>1, <2>1 DEF StatementFails
<1>2. CASE Answer(c)
  <2>1. drifted' \in BOOLEAN /\ (drifted => drifted')
    BY <1>2, Zenon DEF Answer
  <2>2. to[c] \in Places /\ Gone \in Absent /\ Root \in Places
    BY DEF Absent
  <2>3. Without(id[c]) \in [Groups -> Places \cup Absent]
    BY <2>2 DEF Without
  <2>4. kind[c] # "file"
    BY <1>2 DEF Answer, Stages, StageOf
  <2>5. \/ shown' = [shown EXCEPT ![id[c]] = to[c]] \/ shown' = shown
        \/ shown' = Without(id[c])
    BY <1>2, <2>4 DEF Answer, Kinds
  <2>6. shown' \in [Groups -> Places \cup Absent]
    BY <2>2, <2>3, <2>5
  <2>7. QED  BY <1>2, <2>1, <2>6 DEF Answer
<1>3. CASE ~StatementFails(c) /\ ~Answer(c)
  BY <1>3 DEF CallStep, Begin, GetParent, Insert, Get, Walk, Write, ReadParent, Reparent, Unfile,
     Erase, File
<1>4. QED  BY <1>1, <1>2, <1>3

LEMMA StepTypes ==
  ASSUME TypeOK, Stages, ShownIsKnown, NEW c \in Calls, CallStep(c)
  PROVE  TypeOK'
<1>1. raced' \in BOOLEAN /\ deep' \in BOOLEAN
  BY StepIsNoted, History
<1>2. QED
  BY <1>1, StepCalls, StepTable, StepShown DEF TypeOK, CallsOK

----------------------------------------------------------------------------
(* The stages of a call.                                                   *)

LEMMA OthersStay ==
  ASSUME TypeOK, NEW c \in Calls, CallStep(c), NEW d \in Calls, d # c
  PROVE  /\ pc'[d] = pc[d] /\ kind'[d] = kind[d] /\ id'[d] = id[d] /\ to'[d] = to[d]
         /\ at'[d] = at[d] /\ step'[d] = step[d]
<1> USE DEF TypeOK, Goto, Ask, args, walk
<1>1. CASE Begin(c)
  BY <1>1 DEF Begin
<1>2. CASE StatementFails(c) \/ Answer(c) \/ GetParent(c) \/ Insert(c)
  BY <1>2 DEF StatementFails, Answer, GetParent, Insert
<1>3. CASE Get(c) \/ Walk(c) \/ Write(c)
  BY <1>3 DEF Get, Walk, Write
<1>4. CASE ReadParent(c) \/ Reparent(c) \/ Unfile(c) \/ Erase(c) \/ File(c)
  BY <1>4 DEF ReadParent, Reparent, Unfile, Erase, File
<1>5. QED  BY <1>1, <1>2, <1>3, <1>4 DEF CallStep

LEMMA StepStages ==
  ASSUME TypeOK, Stages, ShownIsKnown, NEW c \in Calls, CallStep(c)
  PROVE  Stages'
<1>1. ASSUME NEW d \in Calls, d # c PROVE (StageOf(d))'
  <2>1. StageOf(d) /\ to[d] \in Places
    BY DEF Stages, TypeOK
  <2>2. InFlight(d)' => InFlight(d)
    BY <1>1, OthersStay DEF InFlight
  <2>3. to[d] = Root \/ to[d] \in Groups
    BY <2>1 DEF Places
  <2>4. QED  BY <1>1, <2>1, <2>2, <2>3, OthersStay, StepTable DEF StageOf
<1>2. (StageOf(c))'
  <2>1. CASE Begin(c)
    <3>1. PICK k \in Kinds, x \in Places \cup Profiles, p \in Places, l \in Beginnings :
             Ask(c, k, x, p, l) /\ Offered(k, x, p, l)
      BY <2>1, BeginDoes
    <3>2. pc'[c] = l /\ kind'[c] = k /\ id'[c] = x /\ to'[c] = p /\ UNCHANGED parent
      BY <2>1, <3>1 DEF Ask, Goto, TypeOK, Begin, rows
    <3>3. x \in Shown => x \in Groups /\ Known(x)
      BY RowsAre DEF ShownIsKnown
    <3>4. QED  BY <3>1, <3>2, <3>3, RowsAre DEF StageOf, Offered, Beginnings, InFlight, Known
  <2> DEFINE Moves(l) == pc'[c] = l /\ UNCHANGED args
  <2>2. ASSUME UNCHANGED args
        PROVE  /\ to'[c] = Root \/ (Known(to[c]))' \/ ~InFlight(c)
               /\ id'[c] \in Groups => (Known(id[c]) => (Known(id[c]))')
    <3>1. StageOf(c) /\ to[c] \in Places
      BY DEF Stages, TypeOK
    <3>2. QED  BY <2>2, <3>1, StepTable DEF StageOf, args, Places
  <2>3. CASE StatementFails(c)
    BY <2>3 DEF StatementFails, StageOf, InFlight, Goto, TypeOK
  <2>4. CASE Answer(c) \/ File(c)
    BY <2>4 DEF Answer, File, StageOf, InFlight, Goto, TypeOK
  <2>5. CASE GetParent(c)
    BY <2>2, <2>5 DEF GetParent, Stages, StageOf, InFlight, Goto, TypeOK, args
  <2>6. CASE Insert(c)
    <3>1. PICK g \in Groups : parent' = [parent EXCEPT ![g] = to[c]] /\ id' = [id EXCEPT ![c] = g]
      BY <2>6 DEF Insert
    <3>2. (Known(g))'
      BY <3>1, RowsAre DEF Known, TypeOK
    <3>3. to[c] = Root \/ (Known(to[c]))'
      BY <2>6, StepTable DEF Insert, Stages, StageOf, InFlight, TypeOK, Places
    <3>4. pc'[c] = "answer" /\ kind'[c] = "create" /\ id'[c] = g /\ to'[c] = to[c]
      BY <2>6, <3>1 DEF Insert, Goto, Stages, StageOf, TypeOK
    <3>5. QED  BY <3>2, <3>3, <3>4 DEF StageOf, InFlight, Known
  <2>7. CASE Get(c) \/ Walk(c)
    BY <2>2, <2>7 DEF Get, Walk, Stages, StageOf, InFlight, Goto, TypeOK, args
  <2>8. CASE Write(c)
    BY <2>2, <2>8 DEF Write, Stages, StageOf, InFlight, Goto, TypeOK, args
  <2>9. CASE ReadParent(c) \/ Reparent(c) \/ Unfile(c)
    BY <2>2, <2>9 DEF ReadParent, Reparent, Unfile, Stages, StageOf, InFlight, Goto, TypeOK, args
  <2>10. CASE Erase(c)
    BY <2>2, <2>10, GroupTreeAssumption DEF Erase, Stages, StageOf, InFlight, Goto, TypeOK, args,
       Known, Absent
  <2>11. QED
    BY <2>1, <2>3, <2>4, <2>5, <2>6, <2>7, <2>8, <2>9, <2>10 DEF CallStep
<1>3. QED  BY <1>1, <1>2 DEF Stages

LEMMA AnswerShows ==
  ASSUME TypeOK, Stages, NEW c \in Calls, Answer(c), NEW g \in Groups, shown'[g] # shown[g]
  PROVE  \/ g = id[c] /\ kind[c] # "delete" /\ shown'[g] = to[c]
         \/ g = id[c] /\ kind[c] = "delete" /\ shown'[g] = Gone
         \/ shown[g] = id[c] /\ kind[c] = "delete" /\ shown'[g] = Root
<1>1. kind[c] \in {"create", "rename", "move", "delete"}
  BY DEF Answer, Stages, StageOf, TypeOK, Kinds
<1>2. CASE kind[c] = "delete"
  BY <1>2 DEF Answer, Without
<1>3. CASE kind[c] # "delete"
  BY <1>1, <1>3 DEF Answer, TypeOK
<1>4. QED  BY <1>2, <1>3

LEMMA StepShownIsKnown ==
  ASSUME TypeOK, Stages, ShownIsKnown, NEW c \in Calls, CallStep(c)
  PROVE  ShownIsKnown'
<1>1. ASSUME NEW g \in Groups, shown'[g] \notin Absent, shown'[g] = shown[g]
      PROVE  (Known(g) /\ (shown[g] = Root \/ Known(shown[g])))'
  <2>1. g \in Shown /\ shown[g] \in Places
    BY <1>1, RowsAre DEF Shown
  <2>2. QED  BY <1>1, <2>1, StepTable DEF ShownIsKnown, Places
<1>2. ASSUME NEW g \in Groups, shown'[g] \notin Absent, shown'[g] # shown[g]
      PROVE  (Known(g) /\ (shown[g] = Root \/ Known(shown[g])))'
  <2>1. Answer(c)
    BY <1>2 DEF CallStep, Begin, StatementFails, GetParent, Insert, Get, Walk, Write, ReadParent,
       Reparent, Unfile, Erase, File
  <2>2. UNCHANGED parent
    BY <2>1 DEF Answer, rows
  <2>3. CASE g = id[c] /\ shown'[g] = to[c]
    BY <2>1, <2>2, <2>3 DEF Answer, Stages, StageOf, InFlight, Known
  <2>4. CASE shown[g] = id[c] /\ shown'[g] = Root
    <3>1. g \in Shown
      BY <2>1, <2>4, GroupTreeAssumption DEF Answer, Stages, StageOf, Shown, Absent
    <3>2. QED  BY <2>2, <2>4, <3>1 DEF ShownIsKnown, Known
  <2>5. QED
    BY <1>2, <2>1, <2>3, <2>4, AnswerShows DEF Absent
<1>3. Shown' = {g \in Groups : shown'[g] \notin Absent}
  BY DEF Shown
<1>4. QED  BY <1>1, <1>2, <1>3 DEF ShownIsKnown

----------------------------------------------------------------------------
(* The walk of is_descendant().                                            *)

\* Under an undisturbed call, only births change the table.
Births == \A g \in Groups : Known(g) => parent'[g] = parent[g]

LEMMA OnlyBirths ==
  ASSUME TypeOK, Stages, Overlaps, NEW c \in Calls, CallStep(c), ~raced',
         NEW d \in Calls, d # c, InFlight(d), kind[d] \in {"rename", "move", "delete"}
  PROVE  Births
<1>1. CASE ReadStep(c) \/ Unfile(c) \/ File(c)
  BY <1>1 DEF ReadStep, Begin, StatementFails, Answer, GetParent, Get, Walk, ReadParent, Unfile,
     File, rows, Births
<1>2. CASE Insert(c)
  BY <1>2 DEF Insert, Births, Known, TypeOK
<1>3. CASE Write(c) \/ Reparent(c) \/ Erase(c)
  <2>1. InFlight(c) /\ kind[c] \in {"rename", "move", "delete"}
    BY <1>3 DEF Write, Reparent, Erase, InFlight, Stages, StageOf
  <2>2. Disturb(c, d)
    BY <2>1 DEF Disturb
  <2>3. raced
    BY <2>1, <2>2 DEF Overlaps
  <2>4. QED  BY <2>3, StepIsNoted, History
<1>4. QED  BY <1>1, <1>2, <1>3 DEF CallStep, ReadStep

LEMMA ClearStays ==
  ASSUME TypeOK, Births, NEW d \in Calls, Clear(d), to'[d] = to[d], id'[d] = id[d]
  PROVE  (Clear(d))'
<1>1. CASE to[d] = Root
  BY <1>1 DEF Clear
<1>2. ASSUME NEW V \in SUBSET Groups, ClearBy(d, V) PROVE (ClearBy(d, V))'
  BY <1>2 DEF ClearBy, Births, Known, Rows
<1>3. QED  BY <1>1, <1>2 DEF Clear

LEMMA PassedStays ==
  ASSUME TypeOK, Births, NEW d \in Calls, NEW h \in [0..step[d] -> Groups], Passed(d, h),
         to'[d] = to[d], id'[d] = id[d], at'[d] = at[d], step'[d] = step[d]
  PROVE  (Passed(d, h))'
<1>1. step[d] \in Nat
  BY DEF TypeOK
<1>2. ASSUME NEW i \in 0..step[d], i < step[d] PROVE parent'[h[i]] = parent[h[i]]
  <2>1. i + 1 \in 0..step[d]
    BY <1>1, <1>2
  <2>2. h[i] \in Groups /\ parent[h[i]] \in Groups
    BY <1>2, <2>1 DEF Passed
  <2>3. QED  BY <2>2, RowsAre DEF Births, Known, Places
<1>3. h[step[d]] \in Groups
  BY <1>1
<1>4. (Known(at[d]))'
  BY <1>3 DEF Passed, Births, Known
<1>5. QED  BY <1>2, <1>4 DEF Passed

\* A walk that reaches the root has been past every group above the new parent.
LEMMA PassedIsClear ==
  ASSUME TypeOK, NEW c \in Calls, NEW h \in [0..step[c] -> Groups], Passed(c, h),
         at[c] # id[c], at[c] \in Rows => parent[at[c]] = Root
  PROVE  Clear(c)
<1> DEFINE V == {h[i] : i \in 0..step[c]}
<1>1. step[c] \in Nat
  BY DEF TypeOK
<1>2. V \in SUBSET Groups
  OBVIOUS
<1>3. to[c] \in V
  BY <1>1 DEF Passed
<1>4. id[c] \notin V
  <2>1. \A i \in 0..step[c] : i < step[c] \/ i = step[c]
    BY <1>1
  <2>2. QED  BY <2>1 DEF Passed
<1>5. ASSUME NEW i \in 0..step[c]
      PROVE  Known(h[i]) /\ (h[i] \in Rows => parent[h[i]] \in V \cup {Root})
  <2>1. CASE i = step[c]
    BY <2>1 DEF Passed
  <2>2. CASE i < step[c]
    <3>1. i + 1 \in 0..step[c]
      BY <1>1, <2>2
    <3>2. parent[h[i]] = h[i + 1]
      BY <2>2 DEF Passed
    <3>3. h[i + 1] \in V /\ h[i + 1] \in Groups
      BY <3>1
    <3>4. QED  BY <3>2, <3>3, RowsAre DEF Known
  <2>3. QED  BY <1>1, <2>1, <2>2
<1>6. ClearBy(c, V)
  BY <1>3, <1>4, <1>5 DEF ClearBy
<1>7. QED  BY <1>2, <1>6 DEF Clear

\* One iteration further.
LEMMA PassedFurther ==
  ASSUME TypeOK, NEW c \in Calls, NEW h \in [0..step[c] -> Groups], Passed(c, h),
         at[c] # id[c], at[c] \in Rows, parent[at[c]] \in Groups,
         to'[c] = to[c], id'[c] = id[c], at'[c] = parent[at[c]], step'[c] = step[c] + 1,
         UNCHANGED parent
  PROVE  \E k \in [0..step'[c] -> Groups] : (Passed(c, k))'
<1> DEFINE k == [i \in 0..(step[c] + 1) |-> IF i <= step[c] THEN h[i] ELSE parent[at[c]]]
<1>1. step[c] \in Nat
  BY DEF TypeOK
<1>2. k \in [0..step'[c] -> Groups]
  BY <1>1
<1>3. k[0] = to[c] /\ k[step[c] + 1] = parent[at[c]]
  BY <1>1 DEF Passed
<1>4. Known(parent[at[c]])
  BY RowsAre DEF Known, TypeOK, Rows, Absent
<1>5. ASSUME NEW i \in 0..(step[c] + 1), i < step[c] + 1
      PROVE  k[i] # id[c] /\ parent[k[i]] = k[i + 1]
  <2>1. CASE i < step[c]
    BY <1>1, <2>1 DEF Passed
  <2>2. CASE i = step[c]
    BY <1>1, <2>2 DEF Passed
  <2>3. QED  BY <1>1, <1>5, <2>1, <2>2
<1>6. PICK q \in [0..step'[c] -> Groups] : q = k
  BY <1>2
<1>7. \A i \in 0..step'[c] : i < step'[c] => q[i] # id'[c] /\ parent'[q[i]] = q[i + 1]
  BY <1>5, <1>6
<1>8. q[0] = to'[c] /\ q[step'[c]] = at'[c] /\ (Known(at[c]))'
  BY <1>3, <1>4, <1>6 DEF Known
<1>9. (Passed(c, q))'
  BY <1>7, <1>8 DEF Passed
<1>10. QED  BY <1>9

----------------------------------------------------------------------------
(* Depth.                                                                  *)

\* A chain of n groups from the root to g.
Chain(n, h, g) ==
  /\ parent[h[1]] = Root /\ h[n] = g
  /\ \A i \in 1..n : i < n => parent[h[i + 1]] = h[i]

Reaches(g) == \E n \in Nat \ {0} : \E h \in [1..n -> Groups] : Chain(n, h, g)

LEMMA ReachesFromParent ==
  ASSUME NEW g \in Groups, parent[g] \in Groups, Reaches(parent[g])
  PROVE  Reaches(g)
<1> PICK n \in Nat \ {0} : \E h \in [1..n -> Groups] : Chain(n, h, parent[g])
  BY DEF Reaches
<1>1. PICK h \in [1..n -> Groups] : Chain(n, h, parent[g])
  OBVIOUS
<1> DEFINE k == [i \in 1..(n + 1) |-> IF i <= n THEN h[i] ELSE g]
<1>2. n + 1 \in Nat \ {0} /\ k \in [1..(n + 1) -> Groups]
  OBVIOUS
<1>3. parent[k[1]] = Root /\ k[n + 1] = g
  BY <1>1 DEF Chain
<1>4. ASSUME NEW i \in 1..(n + 1), i < n + 1 PROVE parent[k[i + 1]] = k[i]
  <2>1. CASE i < n
    BY <1>1, <2>1 DEF Chain
  <2>2. CASE i = n
    BY <1>1, <2>2 DEF Chain
  <2>3. QED  BY <1>4, <2>1, <2>2
<1>5. Chain(n + 1, k, g)
  BY <1>3, <1>4 DEF Chain
<1> HIDE DEF k
<1>6. QED  BY <1>2, <1>5 DEF Reaches

LEMMA ForestReaches ==
  ASSUME TypeOK, Acyclic(parent), NEW g \in Rows
  PROVE  Reaches(g)
<1> DEFINE U == {x \in Rows : ~Reaches(x)}
<1>1. U \in SUBSET {x \in Groups : parent[x] \notin Absent}
  BY DEF Rows
<1>2. ASSUME NEW x \in U, parent[x] \notin U PROVE FALSE
  <2>1. x \in Groups /\ parent[x] \in Places
    BY <1>2, RowsAre
  <2>2. CASE parent[x] = Root
    <3> DEFINE h == [i \in 1..1 |-> x]
    <3>1. h \in [1..1 -> Groups] /\ parent[h[1]] = Root /\ h[1] = x
      BY <2>1, <2>2
    <3>2. \A i \in 1..1 : ~(i < 1)
      OBVIOUS
    <3>3. Chain(1, h, x)
      BY <3>1, <3>2 DEF Chain
    <3> HIDE DEF h
    <3>4. Reaches(x)
      BY <3>1, <3>3, 1 \in Nat \ {0} DEF Reaches
    <3>5. QED  BY <3>4
  <2>3. CASE parent[x] \in Groups
    <3>1. parent[x] \in Rows
      BY <2>1, <2>3 DEF TypeOK
    <3>2. Reaches(parent[x])
      BY <1>2, <3>1
    <3>3. QED  BY <2>1, <2>3, <3>2, ReachesFromParent
  <2>4. QED  BY <2>1, <2>2, <2>3 DEF Places
<1>3. U = {}
  BY <1>1, <1>2 DEF Acyclic
<1>4. QED  BY <1>3

\* A walk of Depth steps that is not at the root has shown a chain too long.
LEMMA LongWalkIsTall ==
  ASSUME TypeOK, Acyclic(parent), NEW c \in Calls, NEW h \in [0..step[c] -> Groups], Passed(c, h),
         step[c] = Depth
  PROVE  Tall
<1>1. Depth - 1 \in 0..Depth /\ Depth - 1 < Depth /\ Depth \in 0..Depth /\ (Depth - 1) + 1 = Depth
  OBVIOUS
<1>2. parent[h[Depth - 1]] = h[Depth] /\ h[Depth - 1] \in Groups /\ h[Depth] \in Groups
  BY <1>1 DEF Passed
<1>3. h[Depth] \in Rows
  BY <1>2 DEF TypeOK
<1> PICK n \in Nat \ {0} : \E r \in [1..n -> Groups] : Chain(n, r, h[Depth])
  BY <1>3, ForestReaches DEF Reaches
<1>4. PICK r \in [1..n -> Groups] : Chain(n, r, h[Depth])
  OBVIOUS
<1> DEFINE f == [j \in 1..(Depth + 1) |-> IF j <= n THEN r[j] ELSE h[Depth - (j - n)]]
<1>5. ASSUME NEW j \in 1..(Depth + 1), j > n PROVE Depth - (j - n) \in 0..Depth
  BY <1>5
<1>6. f \in [1..(Depth + 1) -> Groups]
  <2>1. \A j \in 1..(Depth + 1) : (IF j <= n THEN r[j] ELSE h[Depth - (j - n)]) \in Groups
    BY <1>5
  <2>2. QED  BY <2>1
<1>7. parent[f[1]] = Root
  BY <1>4 DEF Chain
<1>8. ASSUME NEW i \in 1..Depth PROVE parent[f[i + 1]] = f[i]
  <2>1. CASE i < n
    BY <1>4, <2>1 DEF Chain
  <2>2. CASE i = n
    <3>1. f[i + 1] = h[Depth - 1] /\ f[i] = r[n]
      BY <2>2
    <3>2. QED  BY <1>2, <1>4, <3>1 DEF Chain
  <2>3. CASE i > n
    <3>1. f[i + 1] = h[Depth - (i + 1 - n)] /\ f[i] = h[Depth - (i - n)]
      BY <2>3
    <3>2. /\ Depth - (i + 1 - n) \in 0..Depth /\ Depth - (i + 1 - n) < Depth
          /\ (Depth - (i + 1 - n)) + 1 = Depth - (i - n)
      BY <2>3
    <3>3. parent[h[Depth - (i + 1 - n)]] = h[(Depth - (i + 1 - n)) + 1]
      BY <3>2 DEF Passed
    <3>4. QED  BY <3>1, <3>2, <3>3
  <2>4. QED  BY <2>1, <2>2, <2>3
<1>9. QED  BY <1>6, <1>7, <1>8 DEF Tall

\* The walk goes on, or ends at the root.
LEMMA WalkGoesOn ==
  ASSUME TypeOK, Stages, Deepness, Walking, Acyclic(parent), NEW c \in Calls, Walk(c), ~raced, ~deep
  PROVE  /\ pc'[c] = "walk" =>
              IF at'[c] = Root THEN (Clear(c))'
              ELSE \E h \in [0..step'[c] -> Groups] : (Passed(c, h))'
         /\ pc'[c] = "write" => (Clear(c))'
<1>1. /\ UNCHANGED <<to, id, parent>> /\ at[c] \in Places /\ step[c] \in 0..Depth
      /\ pc[c] = "walk"
  BY DEF Walk, args, rows, TypeOK
<1>2. Clear(c) => (Clear(c))'
  <2>1. ASSUME NEW V \in SUBSET Groups, ClearBy(c, V) PROVE (ClearBy(c, V))'
    BY <1>1, <2>1 DEF ClearBy, Known, Rows
  <2>2. QED  BY <1>1, <2>1 DEF Clear
<1>3. CASE at[c] = Root
  <2>1. Clear(c)
    BY <1>1, <1>3 DEF Walking
  <2>2. id[c] \in Groups
    BY <1>1 DEF Stages, StageOf, InFlight
  <2>3. pc'[c] # "walk"
    BY <1>3, <2>2, RowsAre DEF Walk, Goto, TypeOK
  <2>4. QED  BY <1>2, <2>1, <2>3
<1>4. CASE at[c] \in Groups
  <2>1. PICK h \in [0..step[c] -> Groups] : Passed(c, h)
    BY <1>1, <1>4, RowsAre DEF Walking
  <2>2. step[c] # Depth
    BY <2>1, LongWalkIsTall DEF Deepness
  <2>3. at[c] # Root /\ step[c] # Steps
    BY <1>4, <2>2, RowsAre DEF Steps
  <2>4. pc'[c] # "write"
    BY <1>1, <2>3 DEF Walk, Goto, TypeOK
  <2>5. CASE pc'[c] = "walk"
    <3>1. /\ at[c] # id[c] /\ step' = [step EXCEPT ![c] = step[c] + 1]
          /\ at' = [at EXCEPT ![c] = IF at[c] \in Rows THEN parent[at[c]] ELSE Root]
      BY <1>1, <2>3, <2>5 DEF Walk, Goto, TypeOK
    <3>2. /\ step'[c] = step[c] + 1
          /\ at'[c] = IF at[c] \in Rows THEN parent[at[c]] ELSE Root
      BY <3>1 DEF TypeOK
    <3>3. CASE at[c] \in Rows /\ parent[at[c]] \in Groups
      <4>1. at'[c] = parent[at[c]] /\ at'[c] # Root
        BY <3>2, <3>3, RowsAre
      <4>2. \E k \in [0..step'[c] -> Groups] : (Passed(c, k))'
        BY <1>1, <2>1, <3>1, <3>2, <3>3, <4>1, PassedFurther
      <4>3. QED  BY <2>4, <4>1, <4>2
    <3>4. CASE ~(at[c] \in Rows /\ parent[at[c]] \in Groups)
      <4>1. at[c] \in Rows => parent[at[c]] = Root
        BY <3>4, RowsAre DEF Places
      <4>2. at'[c] = Root
        BY <3>2, <4>1
      <4>3. Clear(c)
        BY <2>1, <3>1, <4>1, PassedIsClear
      <4>4. QED  BY <1>2, <2>4, <4>2, <4>3
    <3>5. QED  BY <3>3, <3>4
  <2>6. QED  BY <2>4, <2>5
<1>5. QED  BY <1>1, <1>3, <1>4 DEF Places

\* It begins at the new parent.
LEMMA GetBegins ==
  ASSUME TypeOK, Stages, NEW c \in Calls, Get(c)
  PROVE  /\ pc'[c] = "walk" =>
              /\ at'[c] # Root
              /\ \E h \in [0..step'[c] -> Groups] : (Passed(c, h))'
         /\ pc'[c] = "write" => (Clear(c))'
<1>1. CASE pc'[c] = "walk"
  <2>1. /\ UNCHANGED <<to, id, parent>> /\ to[c] # Root /\ InFlight(c)
        /\ at'[c] = to[c] /\ step'[c] = 0
    BY <1>1 DEF Get, Goto, TypeOK, args, rows, InFlight
  <2>2. to[c] \in Groups /\ Known(to[c])
    BY <2>1 DEF Stages, StageOf, TypeOK, Places
  <2>3. PICK h \in [0..step'[c] -> Groups] : h = [i \in 0..0 |-> to[c]]
    BY <2>1, <2>2
  <2>4. \A i \in 0..0 : ~(i < 0)
    OBVIOUS
  <2>5. (Passed(c, h))'
    BY <2>1, <2>2, <2>3, <2>4 DEF Passed, Known
  <2>6. QED  BY <1>1, <2>1, <2>5
<1>2. CASE pc'[c] = "write"
  <2>1. to'[c] = Root
    BY <1>2 DEF Get, Goto, TypeOK, args
  <2>2. QED  BY <1>2, <2>1 DEF Clear
<1>3. QED  BY <1>1, <1>2

LEMMA StepWalking ==
  ASSUME TypeOK, Stages, ShownIsKnown, Overlaps, Deepness, Walking, ForestIfAlone,
         NEW c \in Calls, CallStep(c)
  PROVE  Walking'
<1>1. SUFFICES ASSUME ~raced', ~deep' PROVE Walking'
  BY DEF Walking
<1>2. ~raced /\ ~deep /\ Acyclic(parent)
  BY <1>1, StepIsNoted, History DEF ForestIfAlone
<1> DEFINE WalkingOf(d) ==
      /\ pc[d] = "walk" =>
           IF at[d] = Root THEN Clear(d)
           ELSE \E h \in [0..step[d] -> Groups] : Passed(d, h)
      /\ pc[d] = "write" => Clear(d)
<1>3. ASSUME NEW d \in Calls, d # c PROVE (WalkingOf(d))'
  <2>1. CASE pc[d] \notin {"walk", "write"}
    BY <1>3, <2>1, OthersStay
  <2>2. CASE pc[d] \in {"walk", "write"}
    <3>1. InFlight(d) /\ kind[d] \in {"rename", "move"}
      BY <2>2 DEF InFlight, Stages, StageOf
    <3>2. Births
      BY <1>1, <1>3, <3>1, OnlyBirths
    <3>3. pc'[d] = pc[d] /\ at'[d] = at[d] /\ step'[d] = step[d] /\ to'[d] = to[d] /\ id'[d] = id[d]
      BY <1>3, OthersStay
    <3>4. Clear(d) => (Clear(d))'
      BY <3>2, <3>3, ClearStays
    <3>5. \A h \in [0..step[d] -> Groups] : Passed(d, h) => (Passed(d, h))'
      BY <3>2, <3>3, PassedStays
    <3>6. WalkingOf(d)
      BY <1>2 DEF Walking
    <3>7. QED  BY <3>3, <3>4, <3>5, <3>6
  <2>3. QED  BY <2>1, <2>2
<1>4. (WalkingOf(c))'
  <2>1. CASE Walk(c)
    BY <1>2, <2>1, WalkGoesOn
  <2>2. CASE Get(c)
    BY <2>2, GetBegins
  <2>3. CASE Begin(c)
    <3>1. PICK k \in Kinds, x \in Places \cup Profiles, p \in Places, l \in Beginnings :
             Ask(c, k, x, p, l)
      BY <2>3, BeginDoes
    <3>2. QED  BY <3>1 DEF Ask, Goto, TypeOK, Beginnings
  <2>4. CASE ~Walk(c) /\ ~Get(c) /\ ~Begin(c)
    BY <2>4 DEF CallStep, StatementFails, Answer, GetParent, Insert, Write, ReadParent, Reparent,
       Unfile, Erase, File, Goto, TypeOK
  <2>5. QED  BY <2>1, <2>2, <2>3, <2>4
<1>5. QED  BY <1>3, <1>4 DEF Walking

LEMMA StepReading ==
  ASSUME TypeOK, Stages, Overlaps, Reading, NEW c \in Calls, CallStep(c)
  PROVE  Reading'
<1>1. SUFFICES ASSUME ~raced' PROVE Reading'
  BY DEF Reading
<1>2. ~raced
  BY <1>1, StepIsNoted, History
<1> DEFINE ReadingOf(d) == pc[d] = "reparent" /\ id[d] \in Rows => at[d] = parent[id[d]]
<1>3. ASSUME NEW d \in Calls, d # c PROVE (ReadingOf(d))'
  <2>1. CASE pc[d] # "reparent"
    BY <1>3, <2>1, OthersStay
  <2>2. CASE pc[d] = "reparent"
    <3>1. InFlight(d) /\ kind[d] = "delete" /\ id[d] \in Groups /\ Known(id[d])
      BY <2>2 DEF InFlight, Stages, StageOf
    <3>2. Births
      BY <1>1, <1>3, <3>1, OnlyBirths
    <3>3. parent'[id[d]] = parent[id[d]]
      BY <3>1, <3>2 DEF Births
    <3>4. QED  BY <1>2, <1>3, <2>2, <3>3, OthersStay DEF Reading, Rows
  <2>3. QED  BY <2>1, <2>2
<1>4. (ReadingOf(c))'
  <2>1. CASE ReadParent(c)
    BY <2>1 DEF ReadParent, Goto, TypeOK, args, rows, Rows
  <2>2. CASE Begin(c)
    BY <2>2 DEF Begin, Ask, Goto, TypeOK
  <2>3. CASE ~ReadParent(c) /\ ~Begin(c)
    BY <2>3 DEF CallStep, StatementFails, Answer, GetParent, Insert, Get, Walk, Write, Reparent,
       Unfile, Erase, File, Goto, TypeOK
  <2>4. QED  BY <2>1, <2>2, <2>3
<1>5. QED  BY <1>3, <1>4 DEF Reading

----------------------------------------------------------------------------
(* The forest.                                                             *)

\* A cycle, or an endless chain, is a set of rows whose parents are in the set.
LEMMA NoClosedSet ==
  ASSUME TypeOK, Acyclic(parent), NEW T \in SUBSET Rows, \A g \in T : parent[g] \in T
  PROVE  T = {}
BY DEF Acyclic, Rows

LEMMA InsertKeepsForest ==
  ASSUME TypeOK, Acyclic(parent), NEW g \in Groups, NEW p \in Places, Refers(p),
         parent[g] = Unborn, parent' = [parent EXCEPT ![g] = p]
  PROVE  Acyclic(parent')
<1>1. SUFFICES ASSUME NEW S \in SUBSET {h \in Groups : parent'[h] \notin Absent}, S # {},
                      \A h \in S : parent'[h] \in S
               PROVE  FALSE
  BY DEF Acyclic
<1> DEFINE T == S \ {g}
<1>2. g \notin Rows /\ p # g
  BY RowsAre DEF Rows, Refers, Absent
<1>3. \A h \in T : h \in Rows /\ parent[h] = parent'[h]
  BY <1>1 DEF TypeOK, Rows
<1>4. \A h \in T : parent[h] \in T
  BY <1>1, <1>2, <1>3 DEF TypeOK
<1>5. T = {}
  BY <1>3, <1>4, NoClosedSet
<1>6. S = {g} /\ parent'[g] = p
  BY <1>1, <1>5 DEF TypeOK
<1>7. QED  BY <1>1, <1>2, <1>6

\* A group moved below one that is not below it.
LEMMA MoveKeepsForest ==
  ASSUME TypeOK, Acyclic(parent), NEW c \in Calls, id[c] \in Rows, Clear(c),
         parent' = [parent EXCEPT ![id[c]] = to[c]]
  PROVE  Acyclic(parent')
<1>1. SUFFICES ASSUME NEW S \in SUBSET {h \in Groups : parent'[h] \notin Absent}, S # {},
                      \A h \in S : parent'[h] \in S
               PROVE  FALSE
  BY DEF Acyclic
<1>2. /\ \A h \in S : h # id[c] => parent'[h] = parent[h]
      /\ parent'[id[c]] = to[c]
      /\ S \subseteq Rows
  BY <1>1, RowsAre DEF TypeOK, Rows
<1>3. CASE id[c] \notin S
  BY <1>1, <1>2, <1>3, NoClosedSet
<1>4. CASE id[c] \in S
  <2>1. to[c] \in S /\ to[c] # Root
    BY <1>1, <1>2, <1>4, RowsAre
  <2>2. PICK V \in SUBSET Groups : ClearBy(c, V)
    BY <2>1 DEF Clear
  <2> DEFINE T == S \cap V
  <2>3. \A h \in T : parent[h] \in T
    BY <1>1, <1>2, <2>2, RowsAre DEF ClearBy
  <2>4. T = {}
    BY <1>2, <2>3, NoClosedSet
  <2>5. QED  BY <2>1, <2>2, <2>4 DEF ClearBy
<1>5. QED  BY <1>3, <1>4

\* The subgroups of a group moved up to its parent.
LEMMA ReparentKeepsForest ==
  ASSUME TypeOK, Acyclic(parent), NEW c \in Calls, Reparent(c), id[c] \in Groups,
         id[c] \in Rows => at[c] = parent[id[c]]
  PROVE  Acyclic(parent')
<1>1. SUFFICES ASSUME NEW S \in SUBSET {h \in Groups : parent'[h] \notin Absent}, S # {},
                      \A h \in S : parent'[h] \in S
               PROVE  FALSE
  BY DEF Acyclic
<1>2. \A h \in Groups : parent'[h] = IF h \in Rows /\ parent[h] = id[c] THEN at[c] ELSE parent[h]
  BY DEF Reparent
<1>3. S \subseteq Rows
  BY <1>1, <1>2, RowsAre DEF Rows
<1>4. CASE \A h \in S : parent[h] # id[c]
  BY <1>1, <1>2, <1>3, <1>4, RowsAre, NoClosedSet
<1>5. CASE \E h \in S : parent[h] = id[c]
  <2>1. PICK h \in S : parent[h] = id[c]
    BY <1>5
  <2>2. at[c] \in S
    BY <1>1, <1>2, <1>3, <2>1
  <2>3. id[c] \in Rows /\ at[c] = parent[id[c]]
    BY <2>1 DEF TypeOK
  <2> DEFINE T == S \cup {id[c]}
  <2>4. T \in SUBSET Rows
    BY <1>3, <2>3
  <2>5. \A x \in T : parent[x] \in T
    BY <1>1, <1>2, <1>3, <2>2, <2>3
  <2>6. T = {}
    BY <2>4, <2>5, NoClosedSet
  <2>7. QED  BY <2>6
<1>6. QED  BY <1>4, <1>5

LEMMA EraseKeepsForest ==
  ASSUME TypeOK, Acyclic(parent), NEW g \in Groups, parent' = [parent EXCEPT ![g] = Gone]
  PROVE  Acyclic(parent')
<1>1. SUFFICES ASSUME NEW S \in SUBSET {h \in Groups : parent'[h] \notin Absent}, S # {},
                      \A h \in S : parent'[h] \in S
               PROVE  FALSE
  BY DEF Acyclic
<1>2. \A h \in S : h \in Rows /\ parent'[h] = parent[h]
  BY <1>1 DEF TypeOK, Rows, Absent
<1>3. QED  BY <1>1, <1>2, NoClosedSet

LEMMA StepForest ==
  ASSUME TypeOK, Stages, Walking, Reading, ForestIfAlone, NEW c \in Calls, CallStep(c)
  PROVE  ForestIfAlone'
<1>1. SUFFICES ASSUME ~raced', ~deep' PROVE Acyclic(parent')
  BY DEF ForestIfAlone
<1>2. ~raced /\ ~deep /\ Acyclic(parent)
  BY <1>1, StepIsNoted, History DEF ForestIfAlone
<1>3. CASE UNCHANGED parent
  BY <1>2, <1>3
<1>4. CASE Insert(c)
  BY <1>2, <1>4, InsertKeepsForest DEF Insert, TypeOK
<1>5. CASE Write(c)
  <2>1. Clear(c)
    BY <1>2, <1>5 DEF Write, Walking
  <2>2. QED  BY <1>2, <1>3, <1>5, <2>1, MoveKeepsForest DEF Write
<1>6. CASE Reparent(c)
  <2>1. id[c] \in Groups
    BY <1>6 DEF Reparent, Stages, StageOf, InFlight
  <2>2. id[c] \in Rows => at[c] = parent[id[c]]
    BY <1>2, <1>6 DEF Reading, Reparent
  <2>3. QED  BY <1>2, <1>6, <2>1, <2>2, ReparentKeepsForest
<1>7. CASE Erase(c)
  <2>1. id[c] \in Groups
    BY <1>7 DEF Erase, Stages, StageOf, InFlight
  <2>2. QED  BY <1>2, <1>7, <2>1, EraseKeepsForest DEF Erase
<1>8. QED
  BY <1>3, <1>4, <1>5, <1>6, <1>7 DEF CallStep, Begin, StatementFails, Answer, GetParent, Get, Walk,
     ReadParent, Unfile, File, rows

----------------------------------------------------------------------------
(* The store.                                                              *)

LEMMA BeginSets ==
  ASSUME TypeOK, ShownIsKnown, NEW c \in Calls, Begin(c)
  PROVE  /\ pc[c] = "idle" /\ pc'[c] \in Beginnings
         /\ kind'[c] \in {"rename", "move"} => id'[c] \in Shown
         /\ UNCHANGED <<parent, shown>>
<1>1. PICK k \in Kinds, x \in Places \cup Profiles, p \in Places, l \in Beginnings :
         Ask(c, k, x, p, l) /\ Offered(k, x, p, l)
  BY BeginDoes
<1>2. pc'[c] = l /\ kind'[c] = k /\ id'[c] = x
  BY <1>1 DEF Ask, Goto, TypeOK
<1>3. QED  BY <1>1, <1>2 DEF Begin, Offered, rows

\* While a deletion is under way, no other call takes a step.
LEMMA DeletesAlone ==
  ASSUME TypeOK, ShownIsKnown, Overlaps, NEW c \in Calls, CallStep(c), ~raced',
         NEW d \in Calls, d # c, InFlight(d), kind[d] = "delete"
  PROVE  FALSE
<1>1. ~raced /\ Overlaps'
  BY StepIsNoted, History
<1>2. ~InFlight(c)
  BY <1>1 DEF Overlaps, Disturb
<1>3. Begin(c)
  BY <1>2 DEF CallStep, InFlight, StatementFails, Answer, GetParent, Insert, Get, Walk, Write,
     ReadParent, Reparent, Unfile, Erase, File
<1>4. InFlight(c)' /\ InFlight(d)' /\ kind'[d] = "delete"
  BY <1>3, OthersStay, BeginSets DEF InFlight, Beginnings
<1>5. QED  BY <1>1, <1>4 DEF Overlaps, Disturb

LEMMA StepTargets ==
  ASSUME Forest, Targets, Agrees, Answers, NEW c \in Calls, CallStep(c)
  PROVE  Targets'
<1>1. SUFFICES ASSUME Undisturbed',
                      NEW d \in Calls, InFlight(d)', kind'[d] \in {"rename", "move"}
               PROVE  id'[d] \in Rows' /\ id'[d] \in Shown'
  BY DEF Targets
<1>2. Undisturbed /\ ~raced' /\ Overlaps'
  BY <1>1, StepIsNoted, History, StepShown DEF Undisturbed, Forest
<1> USE DEF Forest
<1>3. CASE d # c
  <2>1. InFlight(d) /\ kind[d] \in {"rename", "move"} /\ id'[d] = id[d]
    BY <1>1, <1>3, OthersStay DEF InFlight
  <2>2. id[d] \in Rows /\ id[d] \in Shown
    BY <1>2, <2>1 DEF Targets
  <2>3. id[d] \in Rows'
    BY <1>2, <1>3, <2>1, <2>2, OnlyBirths, RowsAre DEF Births, Known, Rows, Absent
  <2>4. CASE shown'[id[d]] = shown[id[d]]
    BY <2>1, <2>2, <2>3, <2>4 DEF Shown
  <2>5. CASE shown'[id[d]] # shown[id[d]]
    <3>1. Answer(c)
      BY <2>5 DEF CallStep, Begin, StatementFails, GetParent, Insert, Get, Walk, Write, ReadParent,
         Reparent, Unfile, Erase, File
    <3>2. kind[c] # "delete"
      BY <1>2, <1>3, <2>1, <3>1 DEF Answer, Overlaps, Disturb, InFlight, Undisturbed
    <3>3. shown'[id[d]] = to[c]
      BY <2>2, <2>5, <3>1, <3>2, AnswerShows, RowsAre
    <3>4. shown'[id[d]] \notin Absent
      BY <3>3, RowsAre DEF TypeOK, Absent
    <3>5. QED  BY <2>1, <2>2, <2>3, <3>4, RowsAre DEF Shown
  <2>6. QED  BY <2>4, <2>5
<1>4. CASE d = c /\ Begin(c)
  <2>1. id'[c] \in Shown /\ UNCHANGED <<parent, shown>> /\ pc[c] = "idle"
    BY <1>1, <1>4, BeginSets
  <2>2. ASSUME NEW e \in Calls, Owed(e, id'[c]) PROVE FALSE
    <3>1. e # c /\ InFlight(e)
      BY <2>1, <2>2 DEF Owed, InFlight
    <3>2. InFlight(e)' /\ kind'[e] = kind[e]
      BY <3>1, OthersStay DEF InFlight
    <3>3. kind[e] \notin {"delete", "rename", "move"}
      BY <1>1, <1>2, <1>4, <3>1, <3>2 DEF Overlaps, Disturb
    <3>4. pc[e] = "answer" /\ id'[c] = id[e]
      BY <2>2, <3>3 DEF Owed
    <3>5. kind[e] = "create"
      BY <3>3, <3>4 DEF Stages, StageOf, TypeOK, Kinds
    <3>6. shown[id[e]] = Unborn
      BY <1>2, <3>4, <3>5 DEF Answers, AnswerOf
    <3>7. QED  BY <2>1, <3>4, <3>6 DEF Shown, Absent
  <2>3. shown[id'[c]] = parent[id'[c]] /\ id'[c] \in Groups
    BY <1>2, <2>1, <2>2, RowsAre DEF Agrees
  <2>4. QED  BY <1>4, <2>1, <2>3 DEF Shown, Rows
<1>5. CASE d = c /\ ~Begin(c)
  <2>1. pc[c] \in {"get", "walk", "write"} /\ kind'[c] = kind[c] /\ id'[c] = id[c]
    <3>1. CASE Insert(c)
      BY <1>1, <1>5, <3>1 DEF Insert, Stages, StageOf
    <3>2. CASE ~Insert(c)
      <4>1. UNCHANGED <<kind, id>>
        BY <1>5, <3>2 DEF CallStep, StatementFails, Answer, GetParent, Get, Walk, Write, ReadParent,
           Reparent, Unfile, Erase, File, args
      <4>2. pc[c] \notin {"answer", "file"}
        BY <1>1, <1>5 DEF CallStep, StatementFails, Answer, GetParent, Insert, Get, Walk, Write,
           ReadParent, Reparent, Unfile, Erase, File, Goto, InFlight, TypeOK
      <4>3. InFlight(c)
        BY <1>5 DEF CallStep, StatementFails, Answer, GetParent, Insert, Get, Walk, Write,
           ReadParent, Reparent, Unfile, Erase, File, InFlight
      <4>4. QED
        BY <1>1, <1>5, <4>1, <4>2, <4>3 DEF InFlight, Stages, StageOf, TypeOK
    <3>3. QED  BY <3>1, <3>2
  <2>2. id[c] \in Rows /\ id[c] \in Shown
    BY <1>1, <1>2, <1>5, <2>1 DEF Targets, InFlight
  <2>3. UNCHANGED shown
    BY <1>5, <2>1 DEF CallStep, StatementFails, Answer, GetParent, Insert, Get, Walk, Write,
       ReadParent, Reparent, Unfile, Erase, File
  <2>4. UNCHANGED parent \/ parent' = [parent EXCEPT ![id[c]] = to[c]]
    BY <1>5, <2>1 DEF CallStep, StatementFails, Answer, GetParent, Insert, Get, Walk, Write,
       ReadParent, Reparent, Unfile, Erase, File, rows
  <2>5. id[c] \in Rows'
    BY <2>2, <2>4, RowsAre DEF Rows, TypeOK, Absent
  <2>6. QED  BY <1>5, <2>1, <2>2, <2>3, <2>5 DEF Shown
<1>6. QED  BY <1>3, <1>4, <1>5

LEMMA StepAnswers ==
  ASSUME Forest, Targets, Agrees, Answers, Distinct, NEW c \in Calls, CallStep(c)
  PROVE  Answers' /\ Distinct'
<1> USE DEF Forest
<1>1. ASSUME pc'[c] = "answer" PROVE Insert(c) \/ Write(c) \/ Erase(c)
  BY <1>1, BeginSets DEF CallStep, StatementFails, Answer, GetParent, Get, Walk,
     ReadParent, Reparent, Unfile, File, Goto, TypeOK, Beginnings
<1>2. Distinct'
  <2>1. CASE Insert(c)
    <3>1. kind[c] = "create" /\ parent[id'[c]] = Unborn
      BY <2>1 DEF Insert, Stages, StageOf, TypeOK
    <3>2. \A d \in Calls : pc[d] = "answer" => parent[id[d]] # Unborn
      BY DEF Stages, StageOf, Known
    <3>3. QED  BY <3>1, <3>2, OthersStay DEF Distinct
  <2>2. CASE ~Insert(c)
    <3>1. pc'[c] = "answer" => kind'[c] # "create"
      BY <1>1, <2>2 DEF Write, Erase, Stages, StageOf, args
    <3>2. QED  BY <3>1, OthersStay DEF Distinct
  <2>3. QED  BY <2>1, <2>2
<1>3. ASSUME Undisturbed', NEW d \in Calls, d # c, pc'[d] = "answer" PROVE (AnswerOf(d))'
  <2>1. Undisturbed /\ ~raced'
    BY <1>3, StepIsNoted, History, StepShown DEF Undisturbed
  <2>2. pc[d] = "answer" /\ kind'[d] = kind[d] /\ id'[d] = id[d] /\ to'[d] = to[d] /\ InFlight(d)
    BY <1>3, OthersStay DEF InFlight
  <2>3. AnswerOf(d) /\ id[d] \in Groups /\ Known(id[d]) /\ kind[d] # "delete"
    BY <1>3, <2>1, <2>2, DeletesAlone DEF Answers, Stages, StageOf
  <2>4. CASE kind[d] \in {"rename", "move"}
    <3>1. parent'[id[d]] = parent[id[d]]
      BY <1>3, <2>1, <2>2, <2>3, <2>4, OnlyBirths DEF Births
    <3>2. QED  BY <2>2, <2>3, <2>4, <3>1 DEF AnswerOf
  <2>5. CASE kind[d] = "create"
    <3>1. shown[id[d]] = Unborn /\ parent[id[d]] = to[d]
      BY <2>3, <2>5 DEF AnswerOf
    <3>2. InFlight(c) /\ kind[c] \in {"rename", "move"} => id[c] # id[d]
      BY <2>1, <3>1 DEF Targets, Shown, Absent
    <3>3. ~(InFlight(c) /\ kind[c] = "delete")
      BY <1>3, <2>1, <2>2 DEF Overlaps, Disturb, Undisturbed
    <3>4. parent'[id[d]] = parent[id[d]]
      <4>1. CASE Insert(c)
        BY <2>3, <4>1 DEF Insert, Known, TypeOK
      <4>2. CASE Write(c)
        BY <2>3, <3>2, <4>2 DEF Write, TypeOK, InFlight, Stages, StageOf
      <4>3. CASE Reparent(c) \/ Erase(c)
        BY <3>3, <4>3 DEF Reparent, Erase, InFlight, Stages, StageOf
      <4>4. QED
        BY <4>1, <4>2, <4>3 DEF CallStep, Begin, StatementFails, Answer, GetParent, Get, Walk,
           ReadParent, Unfile, File, rows
    <3>5. shown'[id[d]] = shown[id[d]]
      <4>1. CASE Answer(c)
        <5>1. kind[c] \in {"create", "rename", "move"} /\ InFlight(c)
          BY <3>3, <4>1 DEF Answer, InFlight, Stages, StageOf, TypeOK, Kinds
        <5>2. id[c] # id[d]
          BY <1>3, <2>2, <2>5, <3>2, <4>1, <5>1 DEF Distinct, Answer
        <5>3. QED  BY <2>3, <4>1, <5>1, <5>2, AnswerShows
      <4>2. CASE ~Answer(c)
        BY <4>2 DEF CallStep, Begin, StatementFails, GetParent, Insert, Get, Walk, Write,
           ReadParent, Reparent, Unfile, Erase, File
      <4>3. QED  BY <4>1, <4>2
    <3>6. QED  BY <2>2, <2>5, <3>1, <3>4, <3>5 DEF AnswerOf
  <2>6. QED  BY <2>2, <2>3, <2>4, <2>5 DEF Stages, StageOf, TypeOK, Kinds
<1>4. ASSUME Undisturbed', pc'[c] = "answer" PROVE (AnswerOf(c))'
  <2>1. Undisturbed /\ ~raced'
    BY <1>4, StepIsNoted, History, StepShown DEF Undisturbed
  <2>2. CASE Insert(c)
    <3>1. PICK g \in Groups : /\ parent[g] = Unborn
                              /\ parent' = [parent EXCEPT ![g] = to[c]]
                              /\ id' = [id EXCEPT ![c] = g]
      BY <2>2 DEF Insert
    <3>2. ASSUME NEW d \in Calls, Owed(d, g) PROVE FALSE
      <4>1. pc[d] = "answer" => id[d] # g
        BY <3>1 DEF Stages, StageOf, Known
      <4>2. at[d] # Unborn
        BY RowsAre DEF TypeOK
      <4>3. QED  BY <3>1, <3>2, <4>1, <4>2 DEF Owed, Reparented
    <3>3. shown[g] = Unborn
      BY <2>1, <3>1, <3>2 DEF Agrees
    <3>4. QED
      BY <2>2, <3>1, <3>3 DEF Insert, AnswerOf, Stages, StageOf, TypeOK
  <2>3. CASE Write(c)
    <3>1. id[c] \in Rows
      BY <2>1, <2>3 DEF Write, Targets, InFlight, Stages, StageOf
    <3>2. QED  BY <2>3, <3>1, RowsAre DEF Write, AnswerOf, Stages, StageOf, TypeOK, args
  <2>4. CASE Erase(c)
    BY <2>4 DEF Erase, AnswerOf, Stages, StageOf, InFlight, TypeOK, args
  <2>5. QED  BY <1>1, <1>4, <2>2, <2>3, <2>4
<1>5. QED  BY <1>2, <1>3, <1>4 DEF Answers

LEMMA StepAgrees ==
  ASSUME Forest, Targets, Agrees, Answers, NEW c \in Calls, CallStep(c)
  PROVE  Agrees'
<1> USE DEF Forest
<1>1. SUFFICES ASSUME Undisturbed', NEW g \in Groups, shown'[g] # parent'[g]
               PROVE  \E d \in Calls : (Owed(d, g))'
  BY DEF Agrees
<1>2. Undisturbed /\ ~raced'
  BY <1>1, StepIsNoted, History, StepShown DEF Undisturbed
<1>3. shown[g] = parent[g] \/ \E d \in Calls : Owed(d, g)
  BY <1>2 DEF Agrees
<1>4. ASSUME NEW d \in Calls, d # c, Owed(d, g) PROVE (Owed(d, g))'
  <2>1. InFlight(d)
    BY <1>4 DEF Owed, InFlight
  <2>2. kind[d] # "delete"
    BY <1>2, <1>4, <2>1, DeletesAlone
  <2>3. QED  BY <1>4, <2>2, OthersStay DEF Owed
<1>5. ASSUME ~Owed(c, g), shown'[g] = shown[g], parent'[g] = parent[g]
      PROVE  \E d \in Calls : (Owed(d, g))'
  BY <1>1, <1>3, <1>4, <1>5
<1>6. CASE Begin(c) \/ GetParent(c) \/ Get(c) \/ Walk(c) \/ ReadParent(c) \/ File(c)
  BY <1>5, <1>6, BeginSets DEF GetParent, Get, Walk, ReadParent, File, rows, Owed
<1>7. CASE StatementFails(c)
  <2>1. pc[c] \notin {"unfile", "erase", "answer"}
    BY <1>1, <1>7 DEF StatementFails, Undisturbed
  <2>2. QED  BY <1>5, <1>7, <2>1 DEF StatementFails, rows, Owed
<1>8. CASE Insert(c) \/ Write(c)
  <2>1. pc'[c] = "answer" /\ pc[c] \in {"insert", "write"} /\ UNCHANGED shown
    BY <1>8 DEF Insert, Write, Goto, TypeOK
  <2>2. CASE g = id'[c]
    BY <2>1, <2>2 DEF Owed
  <2>3. CASE g # id'[c]
    <3>1. parent'[g] = parent[g]
      BY <1>8, <2>3 DEF Insert, Write, TypeOK, args
    <3>2. QED  BY <1>5, <2>1, <3>1 DEF Owed
  <2>4. QED  BY <2>2, <2>3
<1>9. CASE Reparent(c) \/ Unfile(c) \/ Erase(c)
  <2>1. InFlight(c) /\ kind[c] = "delete" /\ id[c] \in Groups /\ UNCHANGED <<args, at, shown>>
    BY <1>9 DEF Reparent, Unfile, Erase, InFlight, Stages, StageOf, walk
  <2>2. ASSUME NEW d \in Calls, d # c, InFlight(d) PROVE FALSE
    BY <1>2, <2>1, <2>2 DEF Overlaps, Disturb, Undisturbed
  <2>3. shown[g] = parent[g] \/ Owed(c, g)
    BY <1>3, <2>2 DEF Owed, InFlight
  <2>4. CASE Reparent(c)
    <3>1. shown[g] = parent[g] /\ pc'[c] = "unfile" /\ kind'[c] = "delete"
      BY <2>1, <2>3, <2>4 DEF Reparent, Owed, Goto, TypeOK, args
    <3>2. parent'[g] = IF g \in Rows /\ parent[g] = id[c] THEN at[c] ELSE parent[g]
      BY <2>4 DEF Reparent
    <3>3. (Reparented(c, g))'
      BY <1>1, <2>1, <3>1, <3>2 DEF Reparented, args
    <3>4. QED  BY <3>1, <3>3 DEF Owed
  <2>5. CASE Unfile(c)
    <3>1. pc'[c] = "erase" /\ kind'[c] = "delete" /\ UNCHANGED parent /\ pc[c] = "unfile"
      BY <2>1, <2>5 DEF Unfile, Goto, TypeOK, args
    <3>2. Reparented(c, g)
      BY <1>1, <2>1, <2>3, <3>1 DEF Owed
    <3>3. (Reparented(c, g))'
      BY <2>1, <3>1, <3>2 DEF Reparented, args
    <3>4. QED  BY <3>1, <3>3 DEF Owed
  <2>6. CASE Erase(c)
    <3>1. pc'[c] = "answer" /\ kind'[c] = "delete" /\ id'[c] = id[c] /\ pc[c] = "erase"
      BY <2>1, <2>6 DEF Erase, Goto, TypeOK, args
    <3>2. CASE g = id[c]
      BY <3>1, <3>2 DEF Owed
    <3>3. CASE g # id[c]
      <4>1. parent'[g] = parent[g]
        BY <2>6, <3>3 DEF Erase, TypeOK
      <4>2. Reparented(c, g)
        BY <1>1, <2>1, <2>3, <3>1, <4>1 DEF Owed
      <4>3. (Reparented(c, g))'
        BY <2>1, <4>1, <4>2 DEF Reparented, args
      <4>4. QED  BY <3>1, <4>3 DEF Owed
    <3>4. QED  BY <3>2, <3>3
  <2>7. QED  BY <1>9, <2>4, <2>5, <2>6
<1>10. CASE Answer(c)
  <2>1. /\ AnswerOf(c) /\ InFlight(c) /\ UNCHANGED parent /\ pc[c] = "answer"
        /\ kind[c] \in {"create", "rename", "move", "delete"}
    BY <1>2, <1>10 DEF Answers, Answer, InFlight, rows, Stages, StageOf, TypeOK, Kinds
  <2>2. CASE kind[c] = "delete"
    <3>1. ASSUME NEW d \in Calls, d # c, InFlight(d) PROVE FALSE
      BY <1>2, <2>1, <2>2, <3>1 DEF Overlaps, Disturb, Undisturbed
    <3>2. shown[g] = parent[g] \/ g = id[c] \/ Reparented(c, g)
      BY <1>3, <3>1 DEF Owed, InFlight
    <3>3. shown'[g] = IF g = id[c] THEN Gone ELSE IF shown[g] = id[c] THEN Root ELSE shown[g]
      <4>1. shown' = Without(id[c])
        BY <1>10, <2>2 DEF Answer
      <4>2. QED  BY <4>1 DEF Without
    <3>4. shown[g] = id[c] => at[c] = Root
      BY <1>1, <1>10, <2>2 DEF Answer, Undisturbed
    <3>5. QED
      BY <1>1, <2>1, <2>2, <3>2, <3>3, <3>4 DEF AnswerOf, Reparented
  <2>3. CASE kind[c] # "delete"
    <3>1. kind[c] # "create" => id[c] \in Shown
      BY <1>2, <2>1, <2>3 DEF Targets
    <3>2. shown' = [shown EXCEPT ![id[c]] = to[c]]
      BY <1>10, <2>1, <2>3, <3>1 DEF Answer
    <3>3. parent[id[c]] = to[c]
      BY <2>1, <2>3 DEF AnswerOf
    <3>4. g # id[c] /\ shown'[g] = shown[g]
      BY <1>1, <2>1, <3>2, <3>3 DEF TypeOK
    <3>5. QED  BY <1>5, <2>1, <2>3, <3>4 DEF Owed
  <2>4. QED  BY <2>2, <2>3
<1>11. QED  BY <1>6, <1>7, <1>8, <1>9, <1>10 DEF CallStep

----------------------------------------------------------------------------

LEMMA StepInv == IInv /\ [Next]_vars => IInv'
<1> SUFFICES ASSUME IInv, [Next]_vars PROVE IInv'
  OBVIOUS
<1> USE DEF IInv
<1>1. ASSUME NEW c \in Calls, CallStep(c) PROVE IInv'
  <2>1. Forest'
    BY <1>1, StepTypes, StepStages, StepShownIsKnown, StepIsNoted, History, StepWalking, StepReading,
       StepForest DEF Forest
  <2>2. QED  BY <1>1, <2>1, StepTargets, StepAgrees, StepAnswers
<1>2. CASE UNCHANGED vars
  <2>1. TypeOK' /\ Stages' /\ ShownIsKnown' /\ Overlaps' /\ Reading' /\ ForestIfAlone'
    BY <1>2 DEF Forest, vars, rows, args, walk, notes, TypeOK, Rows, Shown, Stages, StageOf, InFlight,
       Known, ShownIsKnown, Overlaps, Disturb, Reading, ForestIfAlone
  <2>2. Deepness' /\ Walking'
    BY <1>2 DEF Forest, vars, rows, args, walk, notes, Deepness, Tall, Walking, Clear, ClearBy, Rows,
       Known, Passed
  <2>3. Targets' /\ Agrees' /\ Answers' /\ Distinct'
    BY <1>2 DEF vars, rows, args, walk, notes, Targets, Agrees, Answers, Distinct, AnswerOf, Owed,
       Reparented, Undisturbed, InFlight, Rows, Shown
  <2>4. QED  BY <2>1, <2>2, <2>3 DEF Forest
<1>3. QED  BY <1>1, <1>2 DEF Next, CallStep

LEMMA Invariance == Spec => []IInv
BY InitInv, StepInv, PTL DEF Spec

\* The table, the store and the calls keep their types; no row refers to a
\* missing one, whatever calls overlap.
THEOREM TreeTypes == Spec => []TypeOK
<1>1. IInv => TypeOK
  BY DEF IInv, Forest
<1>2. QED  BY <1>1, Invariance, PTL

\* is_descendant()'s bounded walk keeps the groups a forest for every bound:
\* without overlapping updates or deletions, and without a chain longer than the
\* bound, no sequence of calls and failures makes a cycle.
THEOREM GroupsStayForest == Spec => []ForestIfAlone
<1>1. IInv => ForestIfAlone
  BY DEF IInv, Forest
<1>2. QED  BY <1>1, Invariance, PTL

\* The window shows the stored tree when no call is in flight, unless calls
\* overlapped, a deletion stopped half way or a nested group was deleted.
THEOREM StoreAgrees == Spec => []StoreAgreesIfAlone
<1>1. IInv => StoreAgreesIfAlone
  <2>1. Quiet => \A c \in Calls, g \in Groups : ~Owed(c, g)
    BY DEF Quiet, InFlight, Owed
  <2>2. QED  BY <2>1 DEF IInv, Agrees, Undisturbed, StoreAgreesIfAlone
<1>2. QED  BY <1>1, Invariance, PTL

=============================================================================
