------------------------------ MODULE GroupTree ------------------------------
(***************************************************************************)
(* The folders of the session tree: ConnectionGroupManager                 *)
(* (lib/src/connection/mod.rs) over the statements of                      *)
(* connection_groups_repo.rs, and the copy of the tree that the window     *)
(* keeps in sessionTreeStore.ts.                                           *)
(*                                                                         *)
(* Each call runs on a thread of its own and takes a connection of the     *)
(* database pool for every statement, so that a step is one statement, or  *)
(* the assignment the store makes with the answer.  No transaction spans   *)
(* two statements.  SQLite enforces the foreign keys (the bundled build of *)
(* Cargo.toml has them on).                                                *)
(***************************************************************************)
EXTENDS Naturals

CONSTANTS
  Groups,    \* groups that ever exist
  Profiles,  \* connection profiles, which groups contain
  Calls,     \* calls of the store's operations
  Depth,     \* the steps of is_descendant(): 64 in the code
  Root, Unborn, Gone

Absent == {Unborn, Gone}
Places == Groups \cup {Root}
Kinds  == {"create", "rename", "move", "delete", "file"}

ASSUME GroupTreeAssumption ==
  /\ Depth \in Nat \ {0}
  /\ {Root, Unborn, Gone} \cap Groups = {} /\ Root \notin Absent /\ Unborn # Gone

VARIABLES
  parent,   \* rows of connection_groups
  home,     \* group_id of each row of connections
  shown,    \* the store's `groups`
  pc,       \* where each call is
  kind,     \* its operation
  id,       \* the group, or the profile, it is about
  to,       \* the parent, or the group, asked for
  at,       \* a local: `current` of is_descendant(), `parent_id` of delete()
  step,     \* iteration of is_descendant()
  raced,    \* history: have two calls that disturb each other overlapped?
  deep,     \* history: has a chain had more than Depth groups?
  halfway,  \* history: has delete() failed after its first UPDATE?
  drifted   \* history: has the store misplaced subgroups of a deleted group?

rows  == <<parent, home>>
args  == <<kind, id, to>>
walk  == <<at, step>>
notes == <<raced, deep, halfway, drifted>>
vars  == <<rows, shown, pc, args, walk, notes>>

InFlight(c) == pc[c] \notin {"idle", "ok", "failed"}
Quiet == \A c \in Calls : ~InFlight(c)
Rows  == {g \in Groups : parent[g] \notin Absent}
Shown == {g \in Groups : shown[g] \notin Absent}

\* Every set of groups has one whose parent is outside of it.
Acyclic(f) ==
  \A S \in SUBSET {g \in Groups : f[g] \notin Absent} :
    S = {} \/ \E g \in S : f[g] \notin S

Sound(f) ==
  /\ Acyclic(f)
  /\ \A g \in Groups : f[g] \in Groups => f[f[g]] \notin Absent

\* A chain of groups, each the parent of the next, too long for the walk.
Tall == \E f \in [1..Depth + 1 -> Groups] :
          parent[f[1]] = Root /\ \A i \in 1..Depth : parent[f[i + 1]] = f[i]

Init ==
  /\ parent \in {f \in [Groups -> Places \cup {Unborn}] : Sound(f)}
  /\ home \in [Profiles -> Rows \cup {Root}]
  /\ shown   = parent
  /\ pc      = [c \in Calls |-> "idle"]
  /\ kind    = [c \in Calls |-> "create"]
  /\ id      = [c \in Calls |-> Root]
  /\ to      = [c \in Calls |-> Root]
  /\ at      = [c \in Calls |-> Root]
  /\ step    = [c \in Calls |-> 0]
  /\ raced   = FALSE /\ halfway = FALSE /\ drifted = FALSE
  /\ deep = Tall

----------------------------------------------------------------------------
(* Helpers.                                                                *)

Goto(c, l) == pc' = [pc EXCEPT ![c] = l]

\* A deletion disturbs every call, two updates disturb each other.
Disturb(c, d) ==
  \/ "delete" \in {kind[c], kind[d]}
  \/ {kind[c], kind[d]} \subseteq {"rename", "move"}

\* The history variables follow every step.
Noted ==
  /\ raced' = (raced \/ \E c, d \in Calls : /\ c # d /\ InFlight(c)' /\ InFlight(d)'
                                            /\ Disturb(c, d)')
  /\ deep' = (deep \/ Tall')

\* Seeded bug: the foreign keys are off.
Unchecked(p) == TRUE

\* What an INSERT or UPDATE may refer to.
Refers(p) == p = Root \/ p \in Rows

----------------------------------------------------------------------------
(* The store calls.                                                        *)

Ask(c, k, x, p, l) ==
  /\ kind' = [kind EXCEPT ![c] = k]
  /\ id' = [id EXCEPT ![c] = x]
  /\ to' = [to EXCEPT ![c] = p]
  /\ Goto(c, l)

\* What the dialogs offer is taken from the store.  A rename sends the parent
\* the store has, a move the one chosen; a profile is filed by its update.
Begin(c) ==
  /\ pc[c] = "idle"
  /\ \/ \E p \in Shown \cup {Root} :
          Ask(c, "create", Root, p, IF p = Root THEN "insert" ELSE "getParent")
     \/ \E g \in Shown : Ask(c, "rename", g, shown[g], "get")
     \/ \E g \in Shown, p \in Shown \cup {Root} :
          g # p /\ p # shown[g] /\ Ask(c, "move", g, p, "get")
     \/ \E g \in Shown : Ask(c, "delete", g, Root, "readParent")
     \/ \E x \in Profiles, p \in Shown \cup {Root} : Ask(c, "file", x, p, "file")
  /\ UNCHANGED <<rows, shown, walk, halfway, drifted>>
  /\ Noted

\* Any statement may fail: no connection in time, a busy or broken database.
StatementFails(c) ==
  /\ InFlight(c) /\ pc[c] # "answer"
  /\ Goto(c, "failed")
  /\ halfway' = (halfway \/ pc[c] \in {"unfile", "erase"})
  /\ UNCHANGED <<rows, shown, args, walk, drifted>>
  /\ Noted

----------------------------------------------------------------------------
(* ConnectionGroupManager::create().                                       *)

GetParent(c) ==
  /\ pc[c] = "getParent"
  /\ Goto(c, IF to[c] \in Rows THEN "insert" ELSE "failed")
  /\ UNCHANGED <<rows, shown, args, walk, halfway, drifted>>
  /\ Noted

Insert(c) ==
  /\ pc[c] = "insert" /\ Refers(to[c])
  /\ \E g \in Groups :
       /\ parent[g] = Unborn
       /\ parent' = [parent EXCEPT ![g] = to[c]]
       /\ id' = [id EXCEPT ![c] = g]
  /\ Goto(c, "answer")
  /\ UNCHANGED <<home, shown, kind, to, walk, halfway, drifted>>
  /\ Noted

----------------------------------------------------------------------------
(* ConnectionGroupManager::update() and is_descendant().                   *)

\* Seeded bug: only the new parent itself is compared.
OneStep == 1

Steps == Depth

Get(c) ==
  /\ pc[c] = "get"
  /\ IF id[c] \notin Rows THEN Goto(c, "failed") /\ UNCHANGED walk
     ELSE IF to[c] = Root THEN Goto(c, "write") /\ UNCHANGED walk
     ELSE /\ Goto(c, "walk")
          /\ at' = [at EXCEPT ![c] = to[c]]
          /\ step' = [step EXCEPT ![c] = 0]
  /\ UNCHANGED <<rows, shown, args, halfway, drifted>>
  /\ Noted

\* One iteration with the SELECT it ends in.  A group that is gone has no
\* parent.
Walk(c) ==
  /\ pc[c] = "walk"
  /\ \/ /\ at[c] = id[c] /\ step[c] < Steps
        /\ Goto(c, "failed") /\ UNCHANGED walk
     \/ /\ at[c] = Root \/ step[c] = Steps
        /\ Goto(c, "write") /\ UNCHANGED walk
     \/ /\ at[c] \notin {id[c], Root} /\ step[c] < Steps
        /\ at' = [at EXCEPT ![c] = IF at[c] \in Rows THEN parent[at[c]] ELSE Root]
        /\ step' = [step EXCEPT ![c] = step[c] + 1]
        /\ UNCHANGED pc
  /\ UNCHANGED <<rows, shown, args, halfway, drifted>>
  /\ Noted

\* The UPDATE succeeds without a row to change.
Write(c) ==
  /\ pc[c] = "write"
  /\ \/ /\ id[c] \in Rows /\ Refers(to[c])
        /\ parent' = [parent EXCEPT ![id[c]] = to[c]]
     \/ id[c] \notin Rows /\ UNCHANGED parent
  /\ Goto(c, "answer")
  /\ UNCHANGED <<home, shown, args, walk, halfway, drifted>>
  /\ Noted

----------------------------------------------------------------------------
(* ConnectionGroupsRepo::delete().                                         *)

ReadParent(c) ==
  /\ pc[c] = "readParent"
  /\ at' = [at EXCEPT ![c] = IF id[c] \in Rows THEN parent[id[c]] ELSE Root]
  /\ Goto(c, "reparent")
  /\ UNCHANGED <<rows, shown, args, step, halfway, drifted>>
  /\ Noted

Reparent(c) ==
  /\ pc[c] = "reparent"
  /\ LET kids == {g \in Rows : parent[g] = id[c]}
     IN  /\ kids = {} \/ Refers(at[c])
         /\ parent' = [g \in Groups |-> IF g \in kids THEN at[c] ELSE parent[g]]
  /\ Goto(c, "unfile")
  /\ UNCHANGED <<home, shown, args, walk, halfway, drifted>>
  /\ Noted

Unfile(c) ==
  /\ pc[c] = "unfile"
  /\ home' = [x \in Profiles |-> IF home[x] = id[c] THEN Root ELSE home[x]]
  /\ Goto(c, "erase")
  /\ UNCHANGED <<parent, shown, args, walk, halfway, drifted>>
  /\ Noted

\* The DELETE is refused while another row refers to the group.
Erase(c) ==
  /\ pc[c] = "erase"
  /\ \A g \in Groups \ {id[c]} : parent[g] # id[c]
  /\ \A x \in Profiles : home[x] # id[c]
  /\ parent' = [parent EXCEPT ![id[c]] = Gone]
  /\ Goto(c, "answer")
  /\ UNCHANGED <<home, shown, args, walk, halfway, drifted>>
  /\ Noted

----------------------------------------------------------------------------
(* ConnectionsRepo::update(), as far as a profile's group is concerned.     *)

File(c) ==
  /\ pc[c] = "file" /\ Refers(to[c])
  /\ home' = [home EXCEPT ![id[c]] = to[c]]
  /\ Goto(c, "ok")
  /\ UNCHANGED <<parent, shown, args, walk, halfway, drifted>>
  /\ Noted

----------------------------------------------------------------------------
(* The store's `set` after the await.                                      *)

\* Seeded bug: deleteGroup only drops the group itself.
FilterOnly(g) == [h \in Groups |-> IF h = g THEN Gone ELSE shown[h]]

\* What deleteGroup makes of the store: subgroups of the group go to the root.
Without(g) ==
  [h \in Groups |-> IF h = g THEN Gone ELSE IF shown[h] = g THEN Root ELSE shown[h]]

Answer(c) ==
  /\ pc[c] = "answer"
  /\ CASE kind[c] = "create"           -> shown' = [shown EXCEPT ![id[c]] = to[c]]
       [] kind[c] \in {"rename", "move"} ->
            shown' = IF id[c] \in Shown THEN [shown EXCEPT ![id[c]] = to[c]] ELSE shown
       [] kind[c] = "delete"           -> shown' = Without(id[c])
  /\ Goto(c, "ok")
  /\ drifted' = (drifted \/ /\ kind[c] = "delete" /\ at[c] # Root
                            /\ \E h \in Groups : shown[h] = id[c])
  /\ UNCHANGED <<rows, args, walk, halfway>>
  /\ Noted

----------------------------------------------------------------------------

Next ==
  \E c \in Calls :
    \/ Begin(c) \/ StatementFails(c) \/ Answer(c)
    \/ GetParent(c) \/ Insert(c)
    \/ Get(c) \/ Walk(c) \/ Write(c)
    \/ ReadParent(c) \/ Reparent(c) \/ Unfile(c) \/ Erase(c)
    \/ File(c)

Spec == Init /\ [][Next]_vars

----------------------------------------------------------------------------
(* Properties.                                                             *)

\* Type invariant of the table, the store and the calls; that no row refers to
\* a missing one is the foreign keys' doing.
TypeOK ==
  /\ parent \in [Groups -> Places \cup Absent] /\ shown \in [Groups -> Places \cup Absent]
  /\ home \in [Profiles -> Places]
  /\ \A g \in Groups : parent[g] \in Groups => parent[g] \in Rows
  /\ pc \in [Calls -> {"idle", "ok", "failed", "getParent", "insert", "get", "walk", "write",
                       "readParent", "reparent", "unfile", "erase", "file", "answer"}]
  /\ kind \in [Calls -> Kinds] /\ id \in [Calls -> Places \cup Profiles]
  /\ to \in [Calls -> Places] /\ at \in [Calls -> Places] /\ step \in [Calls -> 0..Depth]
  /\ <<raced, deep, halfway, drifted>> \in BOOLEAN \X BOOLEAN \X BOOLEAN \X BOOLEAN

\* The groups stay a forest, whatever fails and whatever the store sends, as
\* long as no move or deletion overlaps another call that disturbs it and no
\* chain of groups outgrows the walk of is_descendant().
ForestIfAlone == raced \/ deep \/ Acyclic(parent)

\* When no call is in flight the window shows the tree that is stored, unless
\* calls overlapped, a deletion stopped half way, or a group below another one
\* was deleted: the store then puts its subgroups at the root.
StoreAgreesIfAlone ==
  Quiet => \/ raced \/ halfway \/ drifted
           \/ \A g \in Groups : g \in Rows \cup Shown => shown[g] = parent[g]

\* What connection/group.rs says of the two uses of update(): renaming changes
\* the name and leaves the group where it is.  It fails after a deletion: the
\* store sends the root as the parent of a group the table keeps elsewhere.
RenameKeepsPlace ==
  [][~raced' => \A c \in Calls : kind[c] = "rename" /\ pc[c] = "write" /\ pc'[c] = "answer"
                                   => UNCHANGED parent]_vars

=============================================================================
