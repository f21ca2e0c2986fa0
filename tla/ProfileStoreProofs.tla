------------------------- MODULE ProfileStoreProofs -------------------------
(***************************************************************************)
(* The four properties of ProfileStore, for every set of calls.            *)
(***************************************************************************)
EXTENDS ProfileStore, TLAPS

USE ProfileAssumption

----------------------------------------------------------------------------
(* The parts of the inductive invariant.                                   *)

\* Which operations come to which step, and what they have read by then.
Paths ==
  \A c \in Calls :
    /\ pc[c] \in {"idle", "get"} \/ kind[c] = "create" => ~sees[c] /\ seen[c] = None
    /\ pc[c] = "get" => kind[c] # "create"
    /\ pc[c] = "set" => kind[c] \in {"create", "update"} /\ given[c]
    /\ pc[c] = "insert" => kind[c] = "create"
    /\ pc[c] = "write" => kind[c] = "update"
    /\ pc[c] \in {"unset", "erase"} => kind[c] = "delete"
    /\ pc[c] = "unset" => sees[c]
    /\ pc[c] = "resolve" => kind[c] = "connect" /\ sees[c]

\* A row about to be written refers to a secret that is there already.
Armed ==
  \A c \in Calls : pc[c] \in {"insert", "write"} /\ NewRef(c) => keyring # None \/ purged

Shape == TypeOK /\ Paths

\* An edit in flight is alone, unless the history says otherwise.
Alone ==
  raced \/ \A c, d \in Calls : c # d /\ InFlight(c) /\ InFlight(d) => kind[c] = "connect"

\* The keyring and the row say the same.
Agree == keyring = with /\ (ref <=> keyring # None)

\* How far the stores are apart while c edits them.
Between(c) ==
  /\ pc[c] \in {"get", "set", "unset"} => Agree
  /\ pc[c] \in {"insert", "write"} => /\ keyring = NewWith(c)
                                      /\ NewRef(c) <=> keyring # None
                                      /\ ~given[c] => Agree
  /\ pc[c] = "write" \/ (pc[c] = "set" /\ kind[c] = "update") => row = "stored"
  /\ pc[c] = "erase" => keyring = None /\ (~sees[c] => Agree)

\* Without an edit the stores agree, and what a connecting call read is what
\* is stored.
Settled ==
  /\ (\A c \in Calls : InFlight(c) => kind[c] = "connect") => Agree
  /\ \A c \in Calls : kind[c] # "connect" => Between(c)
  /\ \A c \in Calls : kind[c] = "connect" /\ pc[c] = "resolve" => seen[c] = with
  /\ \A c \in Calls : kind[c] = "connect" /\ pc[c] = "ok" /\ sees[c] => got[c] = seen[c]

Consistent == raced \/ halfway \/ Settled

----------------------------------------------------------------------------

LEMMA Booleans ==
  ASSUME Noted PROVE raced' \in BOOLEAN
BY Zenon DEF Noted

LEMMA InitShape == Init => Shape /\ Armed /\ CredentialKept
BY DEF Init, Shape, TypeOK, Paths, Armed, CredentialKept, NewRef, Secrets

LEMMA BeginShape ==
  ASSUME Shape, NEW c \in Calls, Begin(c) PROVE Shape'
BY Booleans DEF Begin, Shape, TypeOK, Paths, Entry, Goto, store, Secrets

LEMMA FailsShape ==
  ASSUME Shape, NEW c \in Calls, Fails(c) PROVE Shape'
<1>1. halfway' \in BOOLEAN
  BY Zenon DEF Fails
<1>2. QED
  BY <1>1, Booleans DEF Fails, Shape, TypeOK, Paths, InFlight, Goto, store, locals, Secrets

LEMMA GetShape ==
  ASSUME Shape, NEW c \in Calls, Get(c) PROVE Shape'
BY Booleans DEF Get, Shape, TypeOK, Paths, Goto, store, Secrets

LEMMA SetSecretShape ==
  ASSUME Shape, NEW c \in Calls, SetSecret(c) PROVE Shape'
BY Booleans DEF SetSecret, Overwritten, Shape, TypeOK, Paths, Goto, locals, Secrets

LEMMA InsertShape ==
  ASSUME Shape, NEW c \in Calls, Insert(c) PROVE Shape'
BY Booleans DEF Insert, NewRef, NewWith, Shape, TypeOK, Paths, Goto, locals, Secrets

LEMMA WriteShape ==
  ASSUME Shape, NEW c \in Calls, Write(c) PROVE Shape'
BY Booleans DEF Write, HasRow, NewRef, NewWith, Shape, TypeOK, Paths, Goto, locals, Secrets

LEMMA UnsetShape ==
  ASSUME Shape, NEW c \in Calls, Unset(c) PROVE Shape'
BY Booleans DEF Unset, Shape, TypeOK, Paths, Goto, locals, Secrets

LEMMA EraseShape ==
  ASSUME Shape, NEW c \in Calls, Erase(c) PROVE Shape'
BY Booleans DEF Erase, Shape, TypeOK, Paths, Goto, locals, Secrets

LEMMA ResolveShape ==
  ASSUME Shape, NEW c \in Calls, Resolve(c) PROVE Shape'
BY Booleans DEF Resolve, Shape, TypeOK, Paths, Goto, store, Secrets

LEMMA NextShape == Shape /\ [Next]_vars => Shape'
<1> SUFFICES ASSUME Shape, [Next]_vars PROVE Shape'
  OBVIOUS
<1>1. CASE UNCHANGED vars
  BY <1>1 DEF Shape, TypeOK, Paths, vars, store, locals
<1>2. ASSUME NEW c \in Calls,
             \/ Begin(c) \/ Fails(c) \/ Get(c)
             \/ SetSecret(c) \/ Insert(c) \/ Write(c)
             \/ Unset(c) \/ Erase(c) \/ Resolve(c)
      PROVE  Shape'
  BY <1>2, BeginShape, FailsShape, GetShape, SetSecretShape, InsertShape, WriteShape,
     UnsetShape, EraseShape, ResolveShape
<1>3. QED  BY <1>1, <1>2 DEF Next

----------------------------------------------------------------------------
(* A reference always has its secret.                                      *)

LEMMA NextKept == Shape /\ Armed /\ CredentialKept /\ [Next]_vars => Armed' /\ CredentialKept'
<1> SUFFICES ASSUME Shape, Armed, CredentialKept, [Next]_vars
             PROVE  Armed' /\ CredentialKept'
  OBVIOUS
<1> USE DEF Shape, TypeOK, Paths, Armed, CredentialKept, NewRef, Goto
<1>1. CASE UNCHANGED vars
  BY <1>1 DEF vars, store, locals
<1>2. ASSUME NEW c \in Calls, Begin(c) PROVE Armed' /\ CredentialKept'
  BY <1>2 DEF Begin, Entry, store
<1>3. ASSUME NEW c \in Calls, Fails(c) PROVE Armed' /\ CredentialKept'
  BY <1>3 DEF Fails, store, locals
<1>4. ASSUME NEW c \in Calls, Get(c) PROVE Armed' /\ CredentialKept'
  BY <1>4 DEF Get, store
<1>5. ASSUME NEW c \in Calls, SetSecret(c) PROVE Armed' /\ CredentialKept'
  BY <1>5 DEF SetSecret, Overwritten, locals
<1>6. ASSUME NEW c \in Calls, Insert(c) PROVE Armed' /\ CredentialKept'
  BY <1>6 DEF Insert, locals
<1>7. ASSUME NEW c \in Calls, Write(c) PROVE Armed' /\ CredentialKept'
  BY <1>7 DEF Write, locals
<1>8. ASSUME NEW c \in Calls, Unset(c) PROVE Armed' /\ CredentialKept'
  BY <1>8 DEF Unset, locals
<1>9. ASSUME NEW c \in Calls, Erase(c) PROVE Armed' /\ CredentialKept'
  BY <1>9 DEF Erase, locals
<1>10. ASSUME NEW c \in Calls, Resolve(c) PROVE Armed' /\ CredentialKept'
  BY <1>10 DEF Resolve, store
<1>11. QED
  BY <1>1, <1>2, <1>3, <1>4, <1>5, <1>6, <1>7, <1>8, <1>9, <1>10 DEF Next

\* Every variable stays in its type, and no row that is not there refers to a
\* secret.
THEOREM ProfileTypes == Spec => []TypeOK
<1>1. Init => Shape
  BY InitShape
<1>2. Shape /\ [Next]_vars => Shape'
  BY NextShape
<1>3. Shape => TypeOK
  BY DEF Shape
<1>4. QED  BY <1>1, <1>2, <1>3, PTL DEF Spec

\* create() and update() write the secret before the row that refers to it:
\* however they interleave and fail, a stored reference has its secret, unless a
\* delete took it away.
THEOREM ReferenceHasSecret == Spec => []CredentialKept
<1> DEFINE Inv == Shape /\ Armed /\ CredentialKept
<1>1. Init => Inv
  BY InitShape
<1>2. Inv /\ [Next]_vars => Inv'
  BY NextShape, NextKept
<1>3. Inv => CredentialKept
  OBVIOUS
<1> HIDE DEF Inv
<1>4. QED  BY <1>1, <1>2, <1>3, PTL DEF Spec

----------------------------------------------------------------------------
(* The two stores agree.                                                   *)

LEMMA NextAlone == Alone /\ [Next]_vars => Alone'
<1> SUFFICES ASSUME Alone, [Next]_vars PROVE Alone'
  OBVIOUS
<1>1. CASE UNCHANGED vars
  BY <1>1 DEF Alone, InFlight, vars
<1>2. CASE Next
  <2>1. Noted
    BY <1>2 DEF Next, Begin, Fails, Get, SetSecret, Insert, Write, Unset, Erase, Resolve
  <2>2. QED  BY <2>1 DEF Noted, Alone, InFlight
<1>3. QED  BY <1>1, <1>2

LEMMA InitConsistent == Init => Alone /\ Consistent
BY DEF Init, Alone, Consistent, Settled, Agree, Between, InFlight

\* What the steps below begin with: nothing has gone wrong so far.
LEMMA StillSettled ==
  ASSUME Alone, Consistent, NEW c \in Calls, ~raced', ~halfway',
         \/ Begin(c) \/ Fails(c) \/ Get(c)
         \/ SetSecret(c) \/ Insert(c) \/ Write(c)
         \/ Unset(c) \/ Erase(c) \/ Resolve(c)
  PROVE  /\ Settled /\ ~raced /\ ~halfway
         /\ InFlight(c) /\ kind[c] # "connect" =>
              \A d \in Calls \ {c} : ~InFlight(d)
<1>1. ~raced
  BY DEF Begin, Fails, Get, SetSecret, Insert, Write, Unset, Erase, Resolve, Noted
<1>2. ~halfway
  BY DEF Begin, Fails, Get, SetSecret, Insert, Write, Unset, Erase, Resolve
<1>3. QED  BY <1>1, <1>2 DEF Alone, Consistent

LEMMA NextConsistent == Shape /\ Alone /\ Consistent /\ [Next]_vars => Consistent'
<1> SUFFICES ASSUME Shape, Alone, Consistent, [Next]_vars, ~raced', ~halfway'
             PROVE  Settled'
  BY DEF Consistent
<1> USE DEF Shape, TypeOK, Paths, Settled, Between, Agree, NewRef, NewWith, Goto, InFlight
<1>1. CASE UNCHANGED vars
  BY <1>1 DEF vars, store, locals, Consistent
<1>2. ASSUME NEW c \in Calls, Begin(c) PROVE Settled'
  <2>1. /\ Settled /\ ~raced /\ ~halfway
        /\ InFlight(c) /\ kind[c] # "connect" => \A d \in Calls \ {c} : ~InFlight(d)
    BY <1>2, StillSettled
  <2>2. kind'[c] = "connect" \/ \A d \in Calls \ {c} : ~InFlight(d)
    BY <1>2 DEF Begin, Entry, Noted
  <2>3. ASSUME \A d \in Calls : InFlight(d)' => kind'[d] = "connect" PROVE Agree'
    BY <1>2, <2>1, <2>2, <2>3 DEF Begin, Entry, store
  <2>4. ASSUME NEW d \in Calls, kind'[d] # "connect" PROVE Between(d)'
    <3>1. CASE d = c
      BY <1>2, <2>1, <2>2, <2>4, <3>1 DEF Begin, Entry, store
    <3>2. CASE d # c
      BY <1>2, <2>1, <2>2, <2>4, <3>2 DEF Begin, Entry, store
    <3>3. QED  BY <3>1, <3>2
  <2>5. ASSUME NEW d \in Calls, kind'[d] = "connect"
        PROVE  /\ pc'[d] = "resolve" => seen'[d] = with'
               /\ pc'[d] = "ok" /\ sees'[d] => got'[d] = seen'[d]
    BY <1>2, <2>1, <2>2, <2>5 DEF Begin, Entry, store
  <2>6. QED  BY <2>3, <2>4, <2>5
<1>3. ASSUME NEW c \in Calls, Fails(c) PROVE Settled'
  <2>1. /\ Settled /\ ~raced /\ ~halfway
        /\ InFlight(c) /\ kind[c] # "connect" => \A d \in Calls \ {c} : ~InFlight(d)
    BY <1>3, StillSettled
  <2>3. ASSUME \A d \in Calls : InFlight(d)' => kind'[d] = "connect" PROVE Agree'
    BY <1>3, <2>1, <2>3 DEF Fails, Torn, store, locals
  <2>4. ASSUME NEW d \in Calls, kind'[d] # "connect" PROVE Between(d)'
    <3>1. CASE d = c
      BY <1>3, <2>1, <2>4, <3>1 DEF Fails, Torn, store, locals
    <3>2. CASE d # c
      BY <1>3, <2>1, <2>4, <3>2 DEF Fails, Torn, store, locals
    <3>3. QED  BY <3>1, <3>2
  <2>5. ASSUME NEW d \in Calls, kind'[d] = "connect"
        PROVE  /\ pc'[d] = "resolve" => seen'[d] = with'
               /\ pc'[d] = "ok" /\ sees'[d] => got'[d] = seen'[d]
    BY <1>3, <2>1, <2>5 DEF Fails, Torn, store, locals
  <2>6. QED  BY <2>3, <2>4, <2>5
<1>4. ASSUME NEW c \in Calls, Get(c) PROVE Settled'
  <2>1. /\ Settled /\ ~raced /\ ~halfway
        /\ InFlight(c) /\ kind[c] # "connect" => \A d \in Calls \ {c} : ~InFlight(d)
    BY <1>4, StillSettled
  <2>3. ASSUME \A d \in Calls : InFlight(d)' => kind'[d] = "connect" PROVE Agree'
    BY <1>4, <2>1, <2>3 DEF Get, store
  <2>4. ASSUME NEW d \in Calls, kind'[d] # "connect" PROVE Between(d)'
    <3>1. CASE d = c
      BY <1>4, <2>1, <2>4, <3>1 DEF Get, store
    <3>2. CASE d # c
      BY <1>4, <2>1, <2>4, <3>2 DEF Get, store
    <3>3. QED  BY <3>1, <3>2
  <2>5. ASSUME NEW d \in Calls, kind'[d] = "connect"
        PROVE  /\ pc'[d] = "resolve" => seen'[d] = with'
               /\ pc'[d] = "ok" /\ sees'[d] => got'[d] = seen'[d]
    BY <1>4, <2>1, <2>5 DEF Get, store
  <2>6. QED  BY <2>3, <2>4, <2>5
<1>5. ASSUME NEW c \in Calls, SetSecret(c) PROVE Settled'
  <2>1. /\ Settled /\ ~raced /\ ~halfway
        /\ InFlight(c) /\ kind[c] # "connect" => \A d \in Calls \ {c} : ~InFlight(d)
    BY <1>5, StillSettled
  <2>3. ASSUME \A d \in Calls : InFlight(d)' => kind'[d] = "connect" PROVE Agree'
    BY <1>5, <2>1, <2>3 DEF SetSecret, Overwritten, locals
  <2>4. ASSUME NEW d \in Calls, kind'[d] # "connect" PROVE Between(d)'
    <3>1. CASE d = c
      BY <1>5, <2>1, <2>4, <3>1 DEF SetSecret, Overwritten, locals
    <3>2. CASE d # c
      BY <1>5, <2>1, <2>4, <3>2 DEF SetSecret, Overwritten, locals
    <3>3. QED  BY <3>1, <3>2
  <2>5. ASSUME NEW d \in Calls, kind'[d] = "connect"
        PROVE  /\ pc'[d] = "resolve" => seen'[d] = with'
               /\ pc'[d] = "ok" /\ sees'[d] => got'[d] = seen'[d]
    BY <1>5, <2>1, <2>5 DEF SetSecret, Overwritten, locals
  <2>6. QED  BY <2>3, <2>4, <2>5
<1>6. ASSUME NEW c \in Calls, Insert(c) PROVE Settled'
  <2>1. /\ Settled /\ ~raced /\ ~halfway
        /\ InFlight(c) /\ kind[c] # "connect" => \A d \in Calls \ {c} : ~InFlight(d)
    BY <1>6, StillSettled
  <2>3. ASSUME \A d \in Calls : InFlight(d)' => kind'[d] = "connect" PROVE Agree'
    BY <1>6, <2>1, <2>3 DEF Insert, locals
  <2>4. ASSUME NEW d \in Calls, kind'[d] # "connect" PROVE Between(d)'
    <3>1. CASE d = c
      BY <1>6, <2>1, <2>4, <3>1 DEF Insert, locals
    <3>2. CASE d # c
      BY <1>6, <2>1, <2>4, <3>2 DEF Insert, locals
    <3>3. QED  BY <3>1, <3>2
  <2>5. ASSUME NEW d \in Calls, kind'[d] = "connect"
        PROVE  /\ pc'[d] = "resolve" => seen'[d] = with'
               /\ pc'[d] = "ok" /\ sees'[d] => got'[d] = seen'[d]
    BY <1>6, <2>1, <2>5 DEF Insert, locals
  <2>6. QED  BY <2>3, <2>4, <2>5
<1>7. ASSUME NEW c \in Calls, Write(c) PROVE Settled'
  <2>1. /\ Settled /\ ~raced /\ ~halfway
        /\ InFlight(c) /\ kind[c] # "connect" => \A d \in Calls \ {c} : ~InFlight(d)
    BY <1>7, StillSettled
  <2>3. ASSUME \A d \in Calls : InFlight(d)' => kind'[d] = "connect" PROVE Agree'
    BY <1>7, <2>1, <2>3 DEF Write, HasRow, locals
  <2>4. ASSUME NEW d \in Calls, kind'[d] # "connect" PROVE Between(d)'
    <3>1. CASE d = c
      BY <1>7, <2>1, <2>4, <3>1 DEF Write, HasRow, locals
    <3>2. CASE d # c
      BY <1>7, <2>1, <2>4, <3>2 DEF Write, HasRow, locals
    <3>3. QED  BY <3>1, <3>2
  <2>5. ASSUME NEW d \in Calls, kind'[d] = "connect"
        PROVE  /\ pc'[d] = "resolve" => seen'[d] = with'
               /\ pc'[d] = "ok" /\ sees'[d] => got'[d] = seen'[d]
    BY <1>7, <2>1, <2>5 DEF Write, HasRow, locals
  <2>6. QED  BY <2>3, <2>4, <2>5
<1>8. ASSUME NEW c \in Calls, Unset(c) PROVE Settled'
  <2>1. /\ Settled /\ ~raced /\ ~halfway
        /\ InFlight(c) /\ kind[c] # "connect" => \A d \in Calls \ {c} : ~InFlight(d)
    BY <1>8, StillSettled
  <2>3. ASSUME \A d \in Calls : InFlight(d)' => kind'[d] = "connect" PROVE Agree'
    BY <1>8, <2>1, <2>3 DEF Unset, locals
  <2>4. ASSUME NEW d \in Calls, kind'[d] # "connect" PROVE Between(d)'
    <3>1. CASE d = c
      BY <1>8, <2>1, <2>4, <3>1 DEF Unset, locals
    <3>2. CASE d # c
      BY <1>8, <2>1, <2>4, <3>2 DEF Unset, locals
    <3>3. QED  BY <3>1, <3>2
  <2>5. ASSUME NEW d \in Calls, kind'[d] = "connect"
        PROVE  /\ pc'[d] = "resolve" => seen'[d] = with'
               /\ pc'[d] = "ok" /\ sees'[d] => got'[d] = seen'[d]
    BY <1>8, <2>1, <2>5 DEF Unset, locals
  <2>6. QED  BY <2>3, <2>4, <2>5
<1>9. ASSUME NEW c \in Calls, Erase(c) PROVE Settled'
  <2>1. /\ Settled /\ ~raced /\ ~halfway
        /\ InFlight(c) /\ kind[c] # "connect" => \A d \in Calls \ {c} : ~InFlight(d)
    BY <1>9, StillSettled
  <2>3. ASSUME \A d \in Calls : InFlight(d)' => kind'[d] = "connect" PROVE Agree'
    BY <1>9, <2>1, <2>3 DEF Erase, locals
  <2>4. ASSUME NEW d \in Calls, kind'[d] # "connect" PROVE Between(d)'
    <3>1. CASE d = c
      BY <1>9, <2>1, <2>4, <3>1 DEF Erase, locals
    <3>2. CASE d # c
      BY <1>9, <2>1, <2>4, <3>2 DEF Erase, locals
    <3>3. QED  BY <3>1, <3>2
  <2>5. ASSUME NEW d \in Calls, kind'[d] = "connect"
        PROVE  /\ pc'[d] = "resolve" => seen'[d] = with'
               /\ pc'[d] = "ok" /\ sees'[d] => got'[d] = seen'[d]
    BY <1>9, <2>1, <2>5 DEF Erase, locals
  <2>6. QED  BY <2>3, <2>4, <2>5
<1>10. ASSUME NEW c \in Calls, Resolve(c) PROVE Settled'
  <2>1. /\ Settled /\ ~raced /\ ~halfway
        /\ InFlight(c) /\ kind[c] # "connect" => \A d \in Calls \ {c} : ~InFlight(d)
    BY <1>10, StillSettled
  <2>2. Agree
    BY <1>10, <2>1 DEF Resolve, Alone
  <2>3. ASSUME \A d \in Calls : InFlight(d)' => kind'[d] = "connect" PROVE Agree'
    BY <1>10, <2>1, <2>3 DEF Resolve, store
  <2>4. ASSUME NEW d \in Calls, kind'[d] # "connect" PROVE Between(d)'
    <3>1. CASE d = c
      BY <1>10, <2>1, <2>4, <3>1 DEF Resolve, store
    <3>2. CASE d # c
      BY <1>10, <2>1, <2>4, <3>2 DEF Resolve, store
    <3>3. QED  BY <3>1, <3>2
  <2>5. ASSUME NEW d \in Calls, kind'[d] = "connect"
        PROVE  /\ pc'[d] = "resolve" => seen'[d] = with'
               /\ pc'[d] = "ok" /\ sees'[d] => got'[d] = seen'[d]
    BY <1>10, <2>1, <2>2, <2>5 DEF Resolve, store
  <2>6. QED  BY <2>3, <2>4, <2>5
<1>11. QED
  BY <1>1, <1>2, <1>3, <1>4, <1>5, <1>6, <1>7, <1>8, <1>9, <1>10 DEF Next

LEMMA SettledAgree == Shape /\ Consistent => StoresAgreeIfAlone /\ ConnectsWithItsSecret
<1> SUFFICES ASSUME Shape, Consistent PROVE StoresAgreeIfAlone /\ ConnectsWithItsSecret
  OBVIOUS
<1>1. StoresAgreeIfAlone
  BY DEF StoresAgreeIfAlone, Quiet, Consistent, Settled, Agree
<1>2. ConnectsWithItsSecret
  BY DEF ConnectsWithItsSecret, Consistent, Settled
<1>3. QED  BY <1>1, <1>2

LEMMA Invariance == Spec => [](Shape /\ Alone /\ Consistent)
<1> DEFINE Inv == Shape /\ Alone /\ Consistent
<1>1. Init => Inv
  BY InitShape, InitConsistent
<1>2. Inv /\ [Next]_vars => Inv'
  BY NextShape, NextAlone, NextConsistent
<1> HIDE DEF Inv
<1>3. Spec => []Inv
  BY <1>1, <1>2, PTL DEF Spec
<1>4. QED  BY <1>3 DEF Inv

\* When no call is in flight, the keyring holds what the stored fields were saved
\* with, for any number of calls, as long as no edit overlapped another call or
\* failed between its two writes.
THEOREM StoresAgree == Spec => []StoresAgreeIfAlone
BY Invariance, SettledAgree, PTL

\* A connecting call that no edit overlapped uses the fields of the row it read
\* with the secret they were saved with.
THEOREM ConnectUsesItsSecret == Spec => []ConnectsWithItsSecret
BY Invariance, SettledAgree, PTL

=============================================================================
