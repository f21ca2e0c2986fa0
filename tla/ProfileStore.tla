---------------------------- MODULE ProfileStore ----------------------------
(***************************************************************************)
(* A connection profile in its two stores: the row of the table            *)
(* `connections` and the secret in the system's keyring, which             *)
(* ConnectionManager (lib/src/connection/mod.rs) changes one after the     *)
(* other, and the connecting calls that read one after the other.          *)
(*                                                                         *)
(* No operation touches two profiles, so the module is about one of them.  *)
(* A step is one statement or one keyring operation: other calls run       *)
(* between them, and each may fail.  Of the fields of a row only the       *)
(* reference to the secret matters; `with` notes beside it the secret that *)
(* the fields were saved with.                                             *)
(***************************************************************************)
EXTENDS Naturals

CONSTANTS
  Calls,   \* calls of create, update, delete or of a connecting command
  First,   \* the secret of a profile that exists from the beginning
  None     \* no secret

ASSUME ProfileAssumption == First \notin Calls /\ None \notin Calls \cup {First}

\* A secret is named after the call that brings it.
Secrets == Calls \cup {First}

VARIABLES
  row,      \* whether the row is there
  ref,      \* credential_ref.is_some() of the row
  with,     \* history: the secret the row was saved with
  keyring,  \* the secret under the profile's key
  pc,       \* where each call is
  kind,     \* its operation
  given,    \* input.secret.is_some()
  sees,     \* existing.credential_ref.is_some() of the row it read
  seen,     \* history: `with` of the row it read
  got,      \* what resolve_secret() returned
  purged,   \* history: has a delete removed the secret?
  halfway,  \* history: has an edit failed between its two writes?
  raced     \* history: has an edit overlapped another call?

store  == <<row, ref, with, keyring>>
locals == <<given, sees, seen, got>>
vars   == <<store, pc, kind, locals, purged, halfway, raced>>

InFlight(c) == pc[c] \notin {"idle", "ok", "failed"}
Quiet == \A c \in Calls : ~InFlight(c)

Init ==
  /\ \/ row = "unborn" /\ ref = FALSE /\ keyring = None
     \/ row = "stored" /\ ref = TRUE /\ keyring = First
     \/ row = "stored" /\ ref = FALSE /\ keyring = None
  /\ with    = keyring
  /\ pc      = [c \in Calls |-> "idle"]
  /\ kind    = [c \in Calls |-> "create"]
  /\ given   = [c \in Calls |-> FALSE]
  /\ sees    = [c \in Calls |-> FALSE]
  /\ seen    = [c \in Calls |-> None]
  /\ got     = [c \in Calls |-> None]
  /\ purged  = FALSE /\ halfway = FALSE /\ raced = FALSE

----------------------------------------------------------------------------
(* Helpers.                                                                *)

Goto(c, l) == pc' = [pc EXCEPT ![c] = l]

\* The history variable follows every step.
Noted ==
  raced' = (raced \/ \E c, d \in Calls : /\ c # d /\ InFlight(c)' /\ InFlight(d)'
                                         /\ kind'[c] # "connect")

\* A call that stops between its writes: the secret is new and the row is
\* not, or the secret is deleted and the row is not.
Torn(c) ==
  \/ pc[c] \in {"insert", "write"} /\ given[c]
  \/ pc[c] = "erase" /\ sees[c]

----------------------------------------------------------------------------

\* Seeded bug: create() refers to a secret it has not stored.
RowOnly(k, s) == IF k = "create" THEN "insert" ELSE "get"

\* The first statement of each operation.
Entry(k, s) == CASE k = "create" -> IF s THEN "set" ELSE "insert"
                 [] OTHER        -> "get"

\* The window knows a profile once it is stored.
Begin(c) ==
  /\ pc[c] = "idle"
  /\ \E k \in {"create", "update", "delete", "connect"}, s \in BOOLEAN :
       /\ IF k = "create" THEN row = "unborn" /\ \A d \in Calls : ~(InFlight(d) /\ kind[d] = k)
                          ELSE row # "unborn"
       /\ s => k \in {"create", "update"}
       /\ kind' = [kind EXCEPT ![c] = k]
       /\ given' = [given EXCEPT ![c] = s]
       /\ Goto(c, Entry(k, s))
  /\ UNCHANGED <<store, sees, seen, got, purged, halfway>>
  /\ Noted

\* A keyring operation or a statement fails: `?` ends the call.
Fails(c) ==
  /\ InFlight(c)
  /\ Goto(c, "failed")
  /\ halfway' = (halfway \/ Torn(c))
  /\ UNCHANGED <<store, kind, locals, purged>>
  /\ Noted

\* ConnectionsRepo::get(), which all but create() begin with.
Get(c) ==
  /\ pc[c] = "get"
  /\ \/ /\ row = "stored"
        /\ sees' = [sees EXCEPT ![c] = ref]
        /\ seen' = [seen EXCEPT ![c] = with]
        /\ Goto(c, CASE kind[c] = "update"  -> IF given[c] THEN "set" ELSE "write"
                     [] kind[c] = "delete"  -> IF ref THEN "unset" ELSE "erase"
                     [] kind[c] = "connect" -> IF ref THEN "resolve" ELSE "ok")
     \/ /\ row # "stored"
        /\ Goto(c, IF kind[c] = "delete" THEN "erase" ELSE "failed")
        /\ UNCHANGED <<sees, seen>>
  /\ UNCHANGED <<store, kind, given, got, purged, halfway>>
  /\ Noted

\* Seeded bug: the secret goes under a new key, and the row keeps the old one.
OtherKey(c) == IF kind[c] = "update" /\ sees[c] THEN keyring ELSE c

Overwritten(c) == c

SetSecret(c) ==
  /\ pc[c] = "set"
  /\ keyring' = Overwritten(c)
  /\ Goto(c, IF kind[c] = "create" THEN "insert" ELSE "write")
  /\ UNCHANGED <<row, ref, with, kind, locals, purged, halfway>>
  /\ Noted

\* Seeded bug: an update without a secret forgets the one there is.
RefGiven(c) == given[c]

\* credential_ref of the row that create() or update() writes.
NewRef(c) == given[c] \/ sees[c]

NewWith(c) == IF given[c] THEN c ELSE seen[c]

Insert(c) ==
  /\ pc[c] = "insert"
  /\ row' = "stored" /\ ref' = NewRef(c) /\ with' = NewWith(c)
  /\ Goto(c, "ok")
  /\ UNCHANGED <<keyring, kind, locals, purged, halfway>>
  /\ Noted

\* Seeded bug: the UPDATE brings a deleted row back.
Always == TRUE

\* The UPDATE succeeds without a row to change.
HasRow == row = "stored"

Write(c) ==
  /\ pc[c] = "write"
  /\ \/ HasRow /\ ref' = NewRef(c) /\ with' = NewWith(c)
     \/ ~HasRow /\ UNCHANGED <<ref, with>>
  /\ Goto(c, "ok")
  /\ UNCHANGED <<row, keyring, kind, locals, purged, halfway>>
  /\ Noted

Unset(c) ==
  /\ pc[c] = "unset"
  /\ keyring' = None /\ purged' = TRUE
  /\ Goto(c, "erase")
  /\ UNCHANGED <<row, ref, with, kind, locals, halfway>>
  /\ Noted

Erase(c) ==
  /\ pc[c] = "erase"
  /\ row' = "deleted" /\ ref' = FALSE /\ with' = None
  /\ Goto(c, "ok")
  /\ UNCHANGED <<keyring, kind, locals, purged, halfway>>
  /\ Noted

\* resolve_secret() of get_or_connect() and of the RDP command.
Resolve(c) ==
  /\ pc[c] = "resolve"
  /\ got' = [got EXCEPT ![c] = keyring]
  /\ Goto(c, "ok")
  /\ UNCHANGED <<store, kind, given, sees, seen, purged, halfway>>
  /\ Noted

Next ==
  \E c \in Calls :
    \/ Begin(c) \/ Fails(c) \/ Get(c)
    \/ SetSecret(c) \/ Insert(c) \/ Write(c)
    \/ Unset(c) \/ Erase(c) \/ Resolve(c)

Spec == Init /\ [][Next]_vars

----------------------------------------------------------------------------
(* Properties.                                                             *)

\* Type invariant of the two stores and of the calls.
TypeOK ==
  /\ row # "stored" => ~ref /\ with = None
  /\ row \in {"unborn", "stored", "deleted"} /\ ref \in BOOLEAN
  /\ with \in Secrets \cup {None} /\ keyring \in Secrets \cup {None}
  /\ pc \in [Calls -> {"idle", "get", "set", "insert", "write", "unset", "erase", "resolve",
                       "ok", "failed"}]
  /\ kind \in [Calls -> {"create", "update", "delete", "connect"}]
  /\ given \in [Calls -> BOOLEAN] /\ sees \in [Calls -> BOOLEAN]
  /\ seen \in [Calls -> Secrets \cup {None}] /\ got \in [Calls -> Secrets \cup {None}]
  /\ purged \in BOOLEAN /\ halfway \in BOOLEAN /\ raced \in BOOLEAN

\* A stored profile that refers to a secret has one, however creations,
\* updates and failures interleave: create() and update() write the secret
\* before the row that refers to it.  Only a delete that got as far as the
\* keyring and no further takes it away.
CredentialKept == ref => keyring # None \/ purged

\* Once no call is in flight, the keyring holds the secret that the stored
\* fields were saved with and none when no row refers to one, unless an edit
\* failed between its two writes or overlapped another call.  Two overlapping
\* edits may leave the host of one with the password of the other for good.
StoresAgreeIfAlone ==
  Quiet /\ ~raced /\ ~halfway => keyring = with /\ (ref <=> keyring # None)

\* A connecting call that no edit overlaps uses the fields of a profile with
\* the secret that was saved with them, unless an earlier edit failed between
\* its writes.
ConnectsWithItsSecret ==
  \A c \in Calls : /\ kind[c] = "connect" /\ pc[c] = "ok" /\ sees[c]
                   => raced \/ halfway \/ got[c] = seen[c]

=============================================================================
