------------------------- MODULE SessionTabsProofs -------------------------
(***************************************************************************)
(* The four invariants of SessionTabs, for every number of calls and ids,  *)
(* and those of RdpSession, what an RDP tab shows, for every number of     *)
(* windows, layouts and commands.  The two share the facts about lists     *)
(* from which an element is taken; neither reads the other's variables.    *)
(***************************************************************************)
EXTENDS SessionTabs, RdpSession, SequenceTheorems, WellFoundedInduction, TLAPS

USE TabsAssumption

----------------------------------------------------------------------------
(* The parts of the inductive invariant.                                   *)

\* Ids and keys are handed out once and in order.
Numbered ==
  /\ \A t \in TabSet : t.id <= made /\ t.key <= made
  /\ \A c \in Calls : opened[c] <= made /\ target[c] <= made
  /\ excluded \cup unwanted \subseteq 1..made

Distinct ==
  \A j, k \in DOMAIN tabs : tabs[j].id = tabs[k].id \/ tabs[j].key = tabs[k].key => j = k

\* A channel that is not in a tab yet is in no other place either.
Unseen(id) ==
  /\ id \notin excluded \cup unwanted \cup closing
  /\ \A t \in TabSet : t.id # id /\ t.key # id
  /\ \A c \in Calls : target[c] # id

Apart ==
  \A c \in Calls :
    /\ pc[c] = "idle" => target[c] = NoId
    /\ pc[c] \in {"idle", "connecting"} => opened[c] = NoId
    /\ pc[c] = "opened" => /\ opened[c] # NoId /\ Unseen(opened[c])
                           /\ \A d \in Calls : pc[d] = "opened" /\ opened[d] = opened[c] => d = c

\* A shell that has ended never runs again, and only terminals have one.
Ended ==
  /\ statuses \cap live = {}
  /\ \A t \in TabSet : t.disc \/ t.kind = "other" => t.id \notin live
  /\ \A t \in TabSet : t.kind = "other" => \A c \in Calls : target[c] # t.id

\* A tab whose id is kept among the excluded is one the user has excluded.
Shown == \A t \in TabSet : t.id \in excluded => t.key \in unwanted

\* A reconnect finds no tab of its target that runs, and one that was not
\* overtaken finds its tab as it left it.
Reconnects(c) == pc[c] \in {"connecting", "opened"} /\ target[c] # NoId

Waiting ==
  \A c \in Calls : Reconnects(c) =>
    /\ \A t \in TabSet : t.id = target[c] => t.disc
    /\ c \notin overtaken =>
         /\ HasTab(target[c])
         /\ \A d \in Calls : Reconnects(d) /\ target[d] = target[c] => d = c

Active == (tabs = <<>> <=> activeId = NoId) /\ (tabs # <<>> => HasTab(activeId))

IInv == /\ TypeOK /\ Numbered /\ Distinct /\ Apart /\ Ended /\ Shown /\ Waiting
        /\ Active /\ NoOrphanShell

----------------------------------------------------------------------------
(* The list of tabs.                                                       *)

LEMMA TabsProp ==
  ASSUME TypeOK
  PROVE  /\ DOMAIN tabs = 1..Len(tabs) /\ Len(tabs) \in Nat
         /\ \A k \in 1..Len(tabs) : tabs[k] \in Tabs /\ tabs[k] \in TabSet
         /\ \A t \in TabSet : t \in Tabs /\ \E k \in 1..Len(tabs) : t = tabs[k]
<1>1. tabs \in Seq(Tabs)
  BY DEF TypeOK
<1>2. DOMAIN tabs = 1..Len(tabs) /\ Len(tabs) \in Nat /\ \A k \in 1..Len(tabs) : tabs[k] \in Tabs
  BY <1>1
<1>3. QED  BY <1>2 DEF TabSet, ToSet

LEMMA TabFields ==
  \A t \in Tabs : t.id \in Ids /\ t.key \in Ids /\ t.kind \in Kinds /\ t.disc \in BOOLEAN
  BY DEF Tabs

LEMMA OneTab ==
  ASSUME TypeOK, Distinct, NEW t \in TabSet, NEW u \in TabSet, t.id = u.id \/ t.key = u.key
  PROVE  t = u
<1>1. PICK j \in 1..Len(tabs) : t = tabs[j]
  BY TabsProp
<1>2. PICK k \in 1..Len(tabs) : u = tabs[k]
  BY TabsProp
<1>3. QED  BY <1>1, <1>2, TabsProp DEF Distinct

LEMMA FoundTab ==
  ASSUME TypeOK, Distinct, NEW id, HasTab(id)
  PROVE  /\ Position(id) \in 1..Len(tabs) /\ Tab(id) \in TabSet /\ Tab(id).id = id
         /\ \A k \in 1..Len(tabs) : tabs[k].id = id <=> k = Position(id)
<1>1. PICK t \in TabSet : t.id = id
  BY DEF HasTab
<1>2. PICK k \in 1..Len(tabs) : t = tabs[k]
  BY TabsProp
<1>3. Position(id) \in DOMAIN tabs /\ tabs[Position(id)].id = id
  BY <1>1, <1>2, TabsProp DEF Position
<1>4. QED  BY <1>3, TabsProp DEF Tab, Distinct

\* A step that leaves the list alone.
LEMMA TabsStay ==
  ASSUME tabs' = tabs
  PROVE  TabSet' = TabSet /\ (Distinct => Distinct') /\ \A id : HasTab(id)' <=> HasTab(id)
  BY DEF TabSet, Distinct, HasTab

LEMMA AddedTab ==
  ASSUME TypeOK, Distinct, NEW t \in Tabs, \A u \in TabSet : u.id # t.id /\ u.key # t.key,
         AddTab(t)
  PROVE  tabs' \in Seq(Tabs) /\ TabSet' = TabSet \cup {t} /\ Distinct' /\ Active'
<1>1. tabs \in Seq(Tabs) /\ tabs' = Append(tabs, t) /\ activeId' = t.id
  BY DEF TypeOK, AddTab
<1>2. /\ tabs' \in Seq(Tabs) /\ Len(tabs') = Len(tabs) + 1 /\ tabs'[Len(tabs) + 1] = t
      /\ DOMAIN tabs' = 1..(Len(tabs) + 1) /\ Len(tabs) \in Nat
      /\ \A k \in 1..Len(tabs) : tabs'[k] = tabs[k]
  BY <1>1
<1>3. \A k \in DOMAIN tabs' : k = Len(tabs) + 1 \/ k \in 1..Len(tabs)
  BY <1>2
<1>4. TabSet' = TabSet \cup {t}
  <2>1. TabSet' = {tabs'[k] : k \in DOMAIN tabs'} /\ TabSet = {tabs[k] : k \in 1..Len(tabs)}
    BY TabsProp DEF TabSet, ToSet
  <2>2. Len(tabs) + 1 \in DOMAIN tabs' /\ \A k \in 1..Len(tabs) : k \in DOMAIN tabs'
    BY <1>2
  <2>3. QED  BY <1>2, <1>3, <2>1, <2>2
<1>5. Distinct'
  <2> SUFFICES ASSUME NEW j \in DOMAIN tabs', NEW k \in DOMAIN tabs',
                      tabs'[j].id = tabs'[k].id \/ tabs'[j].key = tabs'[k].key
               PROVE  j = k
    BY DEF Distinct
  <2>1. \A i \in 1..Len(tabs) : tabs[i].id # t.id /\ tabs[i].key # t.key
    BY TabsProp
  <2>2. CASE j = Len(tabs) + 1
    BY <2>1, <2>2, <1>2, <1>3
  <2>3. CASE j \in 1..Len(tabs)
    <3>1. CASE k = Len(tabs) + 1
      BY <2>1, <2>3, <3>1, <1>2
    <3>2. CASE k \in 1..Len(tabs)
      BY <2>3, <3>2, <1>2, TabsProp DEF Distinct
    <3>3. QED  BY <3>1, <3>2, <1>3
  <2>4. QED  BY <2>2, <2>3, <1>3
<1>6. Active'
  <2>1. tabs' # <<>>
    BY <1>2
  <2>2. t.id # NoId
    BY TabFields DEF Ids, NoId
  <2>3. QED  BY <1>1, <1>4, <2>1, <2>2 DEF Active, HasTab
<1>7. QED  BY <1>2, <1>4, <1>5, <1>6

\* map() applies G to every tab.
LEMMA MappedTabs ==
  ASSUME TypeOK, NEW G, \A t \in Tabs : G[t] \in Tabs,
         tabs' = [k \in DOMAIN tabs |-> G[tabs[k]]]
  PROVE  /\ tabs' \in Seq(Tabs) /\ DOMAIN tabs' = DOMAIN tabs
         /\ \A t \in TabSet : G[t] \in TabSet'
         /\ \A t \in TabSet' : \E u \in TabSet : t = G[u]
         /\ tabs' = <<>> <=> tabs = <<>>
         /\ (\A j, k \in DOMAIN tabs : G[tabs[j]].id = G[tabs[k]].id \/ G[tabs[j]].key = G[tabs[k]].key
               => j = k) => Distinct'
<1>1. /\ DOMAIN tabs = 1..Len(tabs) /\ Len(tabs) \in Nat
      /\ \A k \in 1..Len(tabs) : tabs[k] \in Tabs /\ tabs[k] \in TabSet
      /\ \A t \in TabSet : t \in Tabs /\ \E k \in 1..Len(tabs) : t = tabs[k]
  BY TabsProp
<1>2. tabs' \in [1..Len(tabs) -> Tabs] /\ DOMAIN tabs' = 1..Len(tabs)
      /\ \A k \in 1..Len(tabs) : tabs'[k] = G[tabs[k]]
  BY <1>1
<1>3. tabs' \in Seq(Tabs) /\ Len(tabs') = Len(tabs)
  BY <1>1, <1>2
<1>4. TabSet' = {tabs'[k] : k \in 1..Len(tabs)}
  BY <1>2 DEF TabSet, ToSet
<1>5. tabs' = <<>> <=> tabs = <<>>
  <2>1. tabs \in Seq(Tabs)
    BY DEF TypeOK
  <2>2. (tabs = <<>> <=> Len(tabs) = 0) /\ (tabs' = <<>> <=> Len(tabs') = 0)
    BY <2>1, <1>3, EmptySeq
  <2>3. QED  BY <2>2, <1>3
<1>6. /\ \A t \in TabSet : G[t] \in TabSet'
      /\ \A t \in TabSet' : \E u \in TabSet : t = G[u]
  BY <1>1, <1>2, <1>4
<1>7. QED  BY <1>1, <1>2, <1>3, <1>5, <1>6 DEF Distinct

\* RemoveAt() leaves out one element.
LEMMA LeftOut ==
  ASSUME NEW S, NEW s \in Seq(S), NEW p \in 1..Len(s)
  PROVE  /\ RemoveAt(s, p) \in Seq(S) /\ Len(RemoveAt(s, p)) = Len(s) - 1
         /\ \A k \in 1..(Len(s) - 1) : RemoveAt(s, p)[k] = s[IF k < p THEN k ELSE k + 1]
<1> DEFINE n == Len(s)
           a == SubSeq(s, 1, p - 1)
           b == SubSeq(s, p + 1, n)
<1>1. n \in Nat /\ p \in 1..n /\ RemoveAt(s, p) = a \o b
  BY DEF RemoveAt
<1>2. a \in Seq(S) /\ Len(a) = p - 1 /\ \A k \in 1..(p - 1) : a[k] = s[k]
  OBVIOUS
<1>3. b \in Seq(S) /\ Len(b) = n - p /\ \A k \in 1..(n - p) : b[k] = s[p + k]
  OBVIOUS
<1> HIDE DEF n, a, b
<1>4. /\ a \o b \in Seq(S) /\ Len(a \o b) = Len(a) + Len(b)
      /\ \A k \in 1..(Len(a) + Len(b)) : (a \o b)[k] = IF k <= Len(a) THEN a[k] ELSE b[k - Len(a)]
  BY <1>2, <1>3, ConcatProperties
<1>5. ASSUME NEW k \in 1..(n - 1) PROVE RemoveAt(s, p)[k] = s[IF k < p THEN k ELSE k + 1]
  <2>1. CASE k < p
    BY <2>1, <1>1, <1>2, <1>3, <1>4
  <2>2. CASE ~ k < p
    <3>1. k - (p - 1) \in 1..(n - p) /\ p + (k - (p - 1)) = k + 1 /\ ~ k <= p - 1
          /\ k \in 1..(p - 1 + (n - p))
      BY <2>2, <1>1
    <3>2. RemoveAt(s, p)[k] = b[k - (p - 1)]
      BY <3>1, <1>1, <1>2, <1>3, <1>4
    <3>3. b[k - (p - 1)] = s[k + 1]
      BY <3>1, <1>3
    <3>4. QED  BY <2>2, <3>2, <3>3
  <2>3. QED  BY <2>1, <2>2
<1>6. Len(RemoveAt(s, p)) = n - 1
  BY <1>1, <1>2, <1>3, <1>4
<1>7. QED  BY <1>1, <1>4, <1>5, <1>6 DEF n

LEMMA ClosedTab ==
  ASSUME TypeOK, Distinct, NEW id, HasTab(id), tabs' = RemoveAt(tabs, Position(id))
  PROVE  /\ tabs' \in Seq(Tabs) /\ TabSet' = TabSet \ {Tab(id)} /\ Distinct'
         /\ tabs' # <<>> => Last(tabs') \in TabSet'
<1> DEFINE p == Position(id)
           n == Len(tabs)
           old(k) == IF k < p THEN k ELSE k + 1
<1>1. /\ tabs \in Seq(Tabs) /\ n \in Nat /\ p \in 1..n /\ DOMAIN tabs = 1..n
      /\ \A k \in 1..n : tabs[k] \in Tabs /\ tabs[k] \in TabSet
      /\ \A k \in 1..n : tabs[k].id = id <=> k = p
      /\ Tab(id) = tabs[p] /\ tabs' = RemoveAt(tabs, p)
  BY TabsProp, FoundTab DEF TypeOK, Tab
<1> HIDE DEF p, n
<1>2. /\ tabs' \in Seq(Tabs) /\ Len(tabs') = n - 1
      /\ \A k \in 1..(n - 1) : tabs'[k] = tabs[old(k)]
  BY <1>1, LeftOut DEF n
<1>3. \A k \in 1..(n - 1) : old(k) \in 1..n /\ old(k) # p
  BY <1>1
<1>4. \A k \in 1..n : k # p => \E j \in 1..(n - 1) : old(j) = k
  <2> SUFFICES ASSUME NEW k \in 1..n, k # p PROVE \E j \in 1..(n - 1) : old(j) = k
    OBVIOUS
  <2>1. CASE k < p
    <3>1. k \in 1..(n - 1) /\ old(k) = k
      BY <2>1, <1>1
    <3>2. QED  BY <3>1
  <2>2. CASE ~ k < p
    <3>1. k - 1 \in 1..(n - 1) /\ old(k - 1) = k
      BY <2>2, <1>1
    <3>2. QED  BY <3>1
  <2>3. QED  BY <2>1, <2>2
<1>5. \A j, k \in 1..(n - 1) : old(j) = old(k) => j = k
  BY <1>1
<1>6. DOMAIN tabs' = 1..(n - 1)
  BY <1>2
<1> HIDE DEF old
<1>7. TabSet' = TabSet \ {Tab(id)}
  <2>1. TabSet' = {tabs'[k] : k \in 1..(n - 1)} /\ TabSet = {tabs[k] : k \in 1..n}
    BY <1>1, <1>6 DEF TabSet, ToSet
  <2>2. ASSUME NEW t \in TabSet' PROVE t \in TabSet \ {Tab(id)}
    <3>1. PICK k \in 1..(n - 1) : t = tabs[old(k)]
      BY <1>2, <2>1
    <3>2. tabs[old(k)].id # id /\ tabs[p].id = id
      BY <1>1, <1>3
    <3>3. QED  BY <1>1, <1>3, <3>1, <3>2
  <2>3. ASSUME NEW t \in TabSet \ {Tab(id)} PROVE t \in TabSet'
    <3>1. PICK k \in 1..n : t = tabs[k] /\ k # p
      BY <1>1, <2>1
    <3>2. PICK j \in 1..(n - 1) : old(j) = k
      BY <1>4, <3>1
    <3>3. QED  BY <1>2, <2>1, <3>1, <3>2
  <2>4. QED  BY <2>2, <2>3
<1>8. Distinct'
  BY <1>1, <1>2, <1>3, <1>5, <1>6 DEF Distinct
<1>9. ASSUME tabs' # <<>> PROVE Last(tabs') \in TabSet'
  <2>1. Len(tabs') # 0
    BY <1>2, <1>9, EmptySeq
  <2>2. Len(tabs') \in DOMAIN tabs'
    BY <1>1, <1>2, <1>6, <2>1
  <2>3. QED  BY <2>2 DEF Last, TabSet, ToSet
<1>10. QED  BY <1>2, <1>7, <1>8, <1>9

----------------------------------------------------------------------------
(* The initial state, and one lemma per operation.                         *)

LEMMA TabsInit ==
  Init => IInv
<1> SUFFICES ASSUME Init PROVE IInv
  OBVIOUS
<1>1. TypeOK
  <2>1. tabs \in Seq(Tabs) /\ made \in 0..MaxIds
    BY DEF Init
  <2>2. /\ live \in SUBSET (1..made) /\ statuses \in SUBSET (1..made)
        /\ closing \in SUBSET (1..made) /\ lost \in SUBSET (1..made)
        /\ overtaken \in SUBSET Calls /\ excluded \in SUBSET Ids /\ unwanted \in SUBSET Ids
    BY DEF Init
  <2>3. /\ pc \in [Calls -> {"idle", "connecting", "opened", "done", "failed"}]
        /\ kind \in [Calls -> {"ssh", "agent"}]
        /\ target \in [Calls -> Ids \cup {NoId}] /\ opened \in [Calls -> Ids \cup {NoId}]
    BY DEF Init
  <2>4. QED  BY <2>1, <2>2, <2>3 DEF Init, TypeOK
<1>2. TabSet = {} /\ Distinct /\ Active
  BY DEF Init, TabSet, ToSet, Distinct, Active
<1>3. Numbered
  BY <1>2 DEF Init, Numbered, NoId
<1>4. \A c \in Calls : pc[c] = "idle" /\ target[c] = NoId
  BY DEF Init
<1>5. Apart /\ Waiting
  BY <1>4 DEF Init, Apart, Waiting, Reconnects
<1>6. Ended /\ Shown /\ NoOrphanShell
  BY <1>2 DEF Init, Ended, Shown, NoOrphanShell
<1>7. QED  BY <1>1, <1>2, <1>3, <1>5, <1>6 DEF IInv

LEMMA StartOpenStep ==
  ASSUME IInv, NEW c \in Calls, NEW k \in Kinds, StartOpen(c, k)
  PROVE  IInv'
<1>1. /\ lost' = lost /\ tabs' = tabs /\ activeId' = activeId /\ live' = live /\ made' = made
      /\ closing' = closing /\ target' = target /\ opened' = opened /\ excluded' = excluded
      /\ unwanted' = unwanted /\ statuses' = statuses /\ overtaken' = overtaken
      /\ pc[c] = "idle" /\ pc' = [pc EXCEPT ![c] = "connecting"]
  BY DEF StartOpen, tabVars, multiVars, backVars
<1>2. /\ TypeOK /\ Numbered /\ Distinct /\ Apart /\ Ended /\ Shown /\ Waiting /\ Active
      /\ NoOrphanShell
  BY DEF IInv
<1>3. TabSet' = TabSet /\ Distinct'
  BY <1>1, <1>2, TabsStay
<1>4. pc'[c] = "connecting" /\ target[c] = NoId /\ \A d \in Calls : d # c => pc'[d] = pc[d]
  BY <1>1, <1>2 DEF TypeOK, Apart
<1>5. TypeOK'
  BY <1>2 DEF StartOpen, TypeOK, Kinds, tabVars, multiVars, backVars
<1>6. Numbered' /\ Ended' /\ Shown' /\ Active'
  BY <1>1, <1>2, <1>3 DEF Numbered, Ended, Shown, Active, HasTab
<1>7. Apart'
  BY <1>1, <1>2, <1>3, <1>4 DEF Apart, Unseen
<1>8. Waiting'
  BY <1>1, <1>2, <1>3, <1>4 DEF Waiting, Reconnects, HasTab
<1>9. NoOrphanShell'
  BY <1>1, <1>2, <1>3, <1>4 DEF NoOrphanShell, HasTab
<1>10. QED  BY <1>3, <1>5, <1>6, <1>7, <1>8, <1>9 DEF IInv

LEMMA StartReconnectStep ==
  ASSUME IInv, NEW c \in Calls, NEW id \in Ids, StartReconnect(c, id)
  PROVE  IInv'
<1>1. /\ lost' = lost /\ tabs' = tabs /\ activeId' = activeId /\ live' = live /\ made' = made
      /\ closing' = closing /\ opened' = opened /\ excluded' = excluded
      /\ unwanted' = unwanted /\ statuses' = statuses
      /\ overtaken' = IF Reconnectors(id) = {} THEN overtaken
                      ELSE overtaken \cup Reconnectors(id) \cup {c}
      /\ target' = [target EXCEPT ![c] = id]
      /\ pc[c] = "idle" /\ pc' = [pc EXCEPT ![c] = "connecting"]
      /\ HasTab(id) /\ IsTerminal(Tab(id)) /\ Tab(id).disc
  BY DEF StartReconnect, tabVars, multiVars, backVars
<1>2. /\ TypeOK /\ Numbered /\ Distinct /\ Apart /\ Ended /\ Shown /\ Waiting /\ Active
      /\ NoOrphanShell
  BY DEF IInv
<1>3. TabSet' = TabSet /\ Distinct'
  BY <1>1, <1>2, TabsStay
<1>4. /\ Tab(id) \in TabSet /\ Tab(id).id = id /\ Tab(id).kind \in {"ssh", "agent"}
      /\ id # NoId /\ \A t \in TabSet : t.id = id => t = Tab(id)
  BY <1>1, <1>2, FoundTab, OneTab DEF IsTerminal, Ids, NoId
<1>5. /\ pc'[c] = "connecting" /\ target'[c] = id
      /\ \A d \in Calls : d # c => pc'[d] = pc[d] /\ target'[d] = target[d]
  BY <1>1, <1>2 DEF TypeOK
<1>6. TypeOK'
  <2>1. overtaken' \in SUBSET Calls
    BY <1>1, <1>2 DEF TypeOK, Reconnectors
  <2>2. pc' \in [Calls -> {"idle", "connecting", "opened", "done", "failed"}]
        /\ target' \in [Calls -> Ids \cup {NoId}]
    BY <1>1, <1>2 DEF TypeOK
  <2>3. kind' \in [Calls -> {"ssh", "agent"}] /\ multi' = multi
    BY <1>2, <1>4 DEF StartReconnect, TypeOK, multiVars
  <2>4. QED  BY <1>1, <1>2, <2>1, <2>2, <2>3 DEF TypeOK
<1>7. Numbered' /\ Shown' /\ Active'
  BY <1>1, <1>2, <1>3, <1>4, <1>5 DEF Numbered, Shown, Active, HasTab
<1>8. Ended'
  BY <1>1, <1>2, <1>3, <1>4, <1>5 DEF Ended
<1>9. Apart'
  <2>1. \A d \in Calls : pc[d] = "opened" => Unseen(opened[d])'
    BY <1>1, <1>2, <1>3, <1>4, <1>5 DEF Apart, Unseen
  <2>2. QED  BY <1>1, <1>2, <1>5, <2>1 DEF Apart
<1>10. Waiting'
  <2>1. \A d \in Calls : d # c => (Reconnects(d)' <=> Reconnects(d)) /\ target'[d] = target[d]
    BY <1>5 DEF Reconnects
  <2>2. \A d \in Calls : Reconnects(d) /\ target[d] = id => d \in Reconnectors(id)
    BY DEF Reconnects, Reconnectors
  <2>3. ASSUME NEW d \in Calls, Reconnects(d)', NEW t \in TabSet, t.id = target'[d]
        PROVE  t.disc
    BY <1>1, <1>2, <1>4, <1>5, <2>1, <2>3 DEF Waiting
  <2>4. ASSUME NEW d \in Calls, Reconnects(d)', d \notin overtaken', NEW e \in Calls,
               Reconnects(e)', target'[e] = target'[d]
        PROVE  e = d
    <3>1. overtaken \subseteq overtaken'
      BY <1>1
    <3>2. CASE d = c
      BY <1>1, <1>5, <2>1, <2>2, <2>4, <3>2
    <3>3. CASE d # c
      <4>1. Reconnects(d) /\ d \notin overtaken
        BY <2>1, <2>4, <3>1, <3>3
      <4>2. CASE e = c
        <5>1. d \in Reconnectors(id)
          BY <1>5, <2>1, <2>2, <2>4, <3>3, <4>1, <4>2
        <5>2. QED  BY <1>1, <2>4, <5>1
      <4>3. CASE e # c
        BY <1>2, <2>1, <2>4, <3>3, <4>1, <4>3 DEF Waiting
      <4>4. QED  BY <4>2, <4>3
    <3>4. QED  BY <3>2, <3>3
  <2>5. ASSUME NEW d \in Calls, Reconnects(d)', d \notin overtaken' PROVE HasTab(target[d])'
    <3>1. overtaken \subseteq overtaken' /\ \A i : HasTab(i) => HasTab(i)'
      BY <1>1, <1>3 DEF HasTab
    <3>2. HasTab(target'[d])
      BY <1>1, <1>2, <1>5, <2>1, <2>5, <3>1 DEF Waiting
    <3>3. QED  BY <1>3, <3>2 DEF HasTab
  <2>6. QED  BY <1>3, <2>3, <2>4, <2>5 DEF Waiting
<1>11. NoOrphanShell'
  <2>1. overtaken \subseteq overtaken'
    BY <1>1
  <2>2. \A d \in Calls : pc[d] = "opened" => pc'[d] = "opened"
    BY <1>1, <1>5
  <2>3. QED  BY <1>1, <1>2, <1>3, <2>1, <2>2 DEF NoOrphanShell, HasTab
<1>12. QED  BY <1>3, <1>6, <1>7, <1>8, <1>9, <1>10, <1>11 DEF IInv

LEMMA BackEndOpensStep ==
  ASSUME IInv, NEW c \in Calls, BackEndOpens(c)
  PROVE  IInv'
<1>1. /\ lost' = lost /\ tabs' = tabs /\ activeId' = activeId /\ target' = target
      /\ closing' = closing /\ excluded' = excluded
      /\ unwanted' = unwanted /\ statuses' = statuses /\ overtaken' = overtaken
      /\ pc[c] = "connecting"
  BY DEF BackEndOpens, tabVars, multiVars
<1>2. /\ TypeOK /\ Numbered /\ Distinct /\ Apart /\ Ended /\ Shown /\ Waiting /\ Active
      /\ NoOrphanShell
  BY DEF IInv
<1>3. TabSet' = TabSet /\ Distinct'
  BY <1>1, <1>2, TabsStay
<1>4. Shown' /\ Active'
  BY <1>1, <1>2, <1>3 DEF Shown, Active, HasTab
<1>5. \A t \in TabSet : t.id \in Nat /\ t.key \in Nat /\ t.id <= made /\ t.key <= made
  BY <1>2, TabsProp, TabFields DEF Numbered, Ids
<1>6. /\ made \in Nat /\ excluded \cup unwanted \cup closing \cup statuses \cup live \cup lost \subseteq 1..made
      /\ \A d \in Calls : /\ opened[d] \in Nat /\ opened[d] <= made
                          /\ target[d] \in Nat /\ target[d] <= made
  BY <1>2 DEF TypeOK, Numbered, Ids, NoId
<1>7. CASE /\ made < MaxIds /\ made' = Advanced(made) /\ live' = live \cup {made + 1}
           /\ opened' = [opened EXCEPT ![c] = made + 1] /\ pc' = [pc EXCEPT ![c] = "opened"]
  <2>1. /\ made' = made + 1 /\ pc'[c] = "opened" /\ opened'[c] = made + 1
        /\ live' = live \cup {made + 1}
        /\ \A d \in Calls : d # c => pc'[d] = pc[d] /\ opened'[d] = opened[d]
    BY <1>2, <1>7 DEF Advanced, TypeOK
  <2>2. made + 1 \in Ids
    BY <1>6, <1>7 DEF Ids
  <2>3. made' \in 0..MaxIds /\ 1..made \subseteq 1..made'
    BY <1>6, <1>7, <2>1
  <2>4. TypeOK'
    <3>1. opened' \in [Calls -> Ids \cup {NoId}]
      BY <1>2, <1>7, <2>2 DEF TypeOK
    <3>2. pc' \in [Calls -> {"idle", "connecting", "opened", "done", "failed"}]
      BY <1>2, <1>7 DEF TypeOK
    <3>3. /\ live' \in SUBSET (1..made') /\ statuses' \in SUBSET (1..made')
          /\ closing' \in SUBSET (1..made') /\ lost' \in SUBSET (1..made')
      BY <1>1, <1>6, <2>1, <2>3
    <3>4. multi' = multi /\ kind' = kind
      BY DEF BackEndOpens, multiVars
    <3>5. QED  BY <1>1, <1>2, <2>3, <3>1, <3>2, <3>3, <3>4 DEF TypeOK
  <2>5. Numbered'
    <3>1. \A t \in TabSet' : t.id <= made' /\ t.key <= made'
      BY <1>3, <1>5, <1>6, <2>1
    <3>2. \A d \in Calls : opened'[d] <= made' /\ target'[d] <= made'
      BY <1>1, <1>6, <2>1
    <3>3. QED  BY <1>1, <1>6, <2>3, <3>1, <3>2 DEF Numbered
  <2>6. /\ made + 1 \notin 1..made /\ made + 1 # NoId
        /\ \A t \in TabSet : t.id # made + 1 /\ t.key # made + 1
        /\ \A d \in Calls : opened[d] # made + 1
    BY <1>5, <1>6 DEF NoId
  <2>7. Apart'
    <3>1. \A i : Unseen(i)' <=> Unseen(i)
      BY <1>1, <1>3 DEF Unseen
    <3>2. Unseen(made + 1)
      BY <1>6, <2>6 DEF Unseen
    <3>3. QED  BY <1>1, <1>2, <2>1, <2>6, <3>1, <3>2 DEF Apart
  <2>8. Ended'
    BY <1>1, <1>2, <1>3, <1>6, <2>1, <2>6 DEF Ended
  <2>9. Waiting'
    <3>1. \A d \in Calls : Reconnects(d)' <=> Reconnects(d)
      BY <1>1, <2>1 DEF Reconnects
    <3>2. QED  BY <1>1, <1>2, <1>3, <3>1 DEF Waiting, HasTab
  <2>10. NoOrphanShell'
    <3>1. \A d \in overtaken : d \in Calls
      BY <1>2 DEF TypeOK
    <3>2. opened[c] = NoId /\ NoId \notin live
      BY <1>1, <1>2, <1>6 DEF Apart, NoId
    <3>3. \A d \in overtaken : opened[d] \in live => d # c
      BY <3>1, <3>2
    <3>4. QED  BY <1>1, <1>2, <1>3, <2>1, <3>1, <3>3 DEF NoOrphanShell, HasTab
  <2>11. QED  BY <1>3, <1>4, <2>4, <2>5, <2>7, <2>8, <2>9, <2>10 DEF IInv
<1>8. CASE pc' = [pc EXCEPT ![c] = "failed"] /\ UNCHANGED <<made, live, opened>>
  <2>1. pc'[c] = "failed" /\ \A d \in Calls : d # c => pc'[d] = pc[d]
    BY <1>2, <1>8 DEF TypeOK
  <2>2. TypeOK'
    BY <1>2, <1>8 DEF TypeOK, BackEndOpens, tabVars, multiVars
  <2>3. Numbered' /\ Ended'
    BY <1>1, <1>2, <1>3, <1>8 DEF Numbered, Ended
  <2>4. Apart'
    BY <1>1, <1>2, <1>3, <1>8, <2>1 DEF Apart, Unseen
  <2>5. Waiting'
    BY <1>1, <1>2, <1>3, <2>1 DEF Waiting, Reconnects, HasTab
  <2>6. NoOrphanShell'
    BY <1>1, <1>2, <1>3, <1>8, <2>1 DEF NoOrphanShell, HasTab
  <2>7. QED  BY <1>3, <1>4, <2>2, <2>3, <2>4, <2>5, <2>6 DEF IInv
<1>9. QED  BY <1>7, <1>8 DEF BackEndOpens

LEMMA FinishOpenStep ==
  ASSUME IInv, NEW c \in Calls, FinishOpen(c)
  PROVE  IInv'
<1> DEFINE t == [id |-> opened[c], key |-> opened[c], kind |-> kind[c], disc |-> FALSE]
<1>1. /\ lost' = lost /\ live' = live /\ made' = made /\ target' = target /\ opened' = opened
      /\ closing' = closing /\ excluded' = excluded
      /\ unwanted' = unwanted /\ statuses' = statuses /\ overtaken' = overtaken
      /\ pc[c] = "opened" /\ target[c] = NoId /\ pc' = [pc EXCEPT ![c] = "done"]
      /\ AddTab(t)
  BY DEF FinishOpen, multiVars, backVars
<1>2. /\ TypeOK /\ Numbered /\ Distinct /\ Apart /\ Ended /\ Shown /\ Waiting /\ Active
      /\ NoOrphanShell
  BY DEF IInv
<1>3. /\ opened[c] \in Ids /\ opened[c] # NoId /\ Unseen(opened[c]) /\ kind[c] \in {"ssh", "agent"}
      /\ \A d \in Calls : pc[d] = "opened" /\ opened[d] = opened[c] => d = c
  BY <1>1, <1>2 DEF Apart, TypeOK
<1>4. /\ t \in Tabs /\ t.id = opened[c] /\ t.key = opened[c] /\ t.kind \in {"ssh", "agent"}
      /\ t.disc = FALSE /\ activeId' = t.id
  BY <1>1, <1>3 DEF Tabs, Kinds, AddTab
<1> HIDE DEF t
<1>5. tabs' \in Seq(Tabs) /\ TabSet' = TabSet \cup {t} /\ Distinct' /\ Active'
  BY <1>1, <1>2, <1>3, <1>4, AddedTab DEF Unseen
<1>6. pc'[c] = "done" /\ \A d \in Calls : d # c => pc'[d] = pc[d]
  BY <1>1, <1>2 DEF TypeOK
<1>7. TypeOK'
  <2>1. multi' = multi /\ kind' = kind
    BY DEF FinishOpen, multiVars
  <2>2. pc' \in [Calls -> {"idle", "connecting", "opened", "done", "failed"}]
    BY <1>1, <1>2 DEF TypeOK
  <2>3. QED  BY <1>1, <1>2, <1>3, <1>4, <1>5, <2>1, <2>2 DEF TypeOK
<1>8. Numbered'
  BY <1>1, <1>2, <1>4, <1>5 DEF Numbered
<1>9. Ended'
  BY <1>1, <1>2, <1>4, <1>5 DEF Ended
<1>10. Shown'
  BY <1>1, <1>2, <1>3, <1>4, <1>5 DEF Shown, Unseen
<1>11. Apart'
  <2>1. \A d \in Calls : pc[d] = "opened" /\ d # c => Unseen(opened[d])'
    BY <1>1, <1>2, <1>3, <1>4, <1>5 DEF Apart, Unseen
  <2>2. QED  BY <1>1, <1>2, <1>6, <2>1 DEF Apart
<1>12. Waiting'
  <2>1. \A d \in Calls : Reconnects(d)' <=> Reconnects(d)
    BY <1>1, <1>6 DEF Reconnects
  <2>2. \A d \in Calls : target[d] # t.id
    BY <1>3, <1>4 DEF Unseen
  <2>3. QED  BY <1>1, <1>2, <1>5, <2>1, <2>2 DEF Waiting, HasTab
<1>13. NoOrphanShell'
  BY <1>1, <1>2, <1>4, <1>5, <1>6 DEF NoOrphanShell, HasTab
<1>14. QED  BY <1>5, <1>7, <1>8, <1>9, <1>10, <1>11, <1>12, <1>13 DEF IInv

LEMMA OpenOtherStep ==
  ASSUME IInv, OpenOther
  PROVE  IInv'
<1> DEFINE t == [id |-> made + 1, key |-> made + 1, kind |-> "other", disc |-> FALSE]
<1>1. /\ lost' = lost /\ live' = live /\ target' = target /\ opened' = opened /\ pc' = pc
      /\ closing' = closing /\ excluded' = excluded
      /\ unwanted' = unwanted /\ statuses' = statuses /\ overtaken' = overtaken
      /\ made < MaxIds /\ made' = made + 1 /\ AddTab(t)
  BY DEF OpenOther, multiVars, backVars, callVars, Advanced
<1>2. /\ TypeOK /\ Numbered /\ Distinct /\ Apart /\ Ended /\ Shown /\ Waiting /\ Active
      /\ NoOrphanShell
  BY DEF IInv
<1>3. \A u \in TabSet : u.id \in Nat /\ u.key \in Nat /\ u.id <= made /\ u.key <= made
  BY <1>2, TabsProp, TabFields DEF Numbered, Ids
<1>4. /\ made \in Nat /\ excluded \cup unwanted \cup closing \cup statuses \cup live \cup lost \subseteq 1..made
      /\ \A d \in Calls : /\ opened[d] \in Nat /\ opened[d] <= made
                          /\ target[d] \in Nat /\ target[d] <= made
  BY <1>2 DEF TypeOK, Numbered, Ids, NoId
<1>5. made + 1 \in Ids /\ made' \in 0..MaxIds /\ 1..made \subseteq 1..made'
  BY <1>1, <1>4 DEF Ids
<1>6. /\ made + 1 \notin 1..made
      /\ \A u \in TabSet : u.id # made + 1 /\ u.key # made + 1
      /\ \A d \in Calls : opened[d] # made + 1 /\ target[d] # made + 1
  BY <1>3, <1>4
<1>7. /\ t \in Tabs /\ t.id = made + 1 /\ t.key = made + 1 /\ t.kind = "other"
      /\ t.disc = FALSE /\ activeId' = t.id
  BY <1>1, <1>5 DEF Tabs, Kinds, AddTab
<1> HIDE DEF t
<1>8. tabs' \in Seq(Tabs) /\ TabSet' = TabSet \cup {t} /\ Distinct' /\ Active'
  BY <1>1, <1>2, <1>6, <1>7, AddedTab
<1>9. TypeOK'
  <2>1. multi' = multi /\ kind' = kind
    BY DEF OpenOther, multiVars, callVars
  <2>2. /\ live' \in SUBSET (1..made') /\ statuses' \in SUBSET (1..made')
        /\ closing' \in SUBSET (1..made') /\ lost' \in SUBSET (1..made')
    BY <1>1, <1>4, <1>5
  <2>3. QED  BY <1>1, <1>2, <1>5, <1>7, <1>8, <2>1, <2>2 DEF TypeOK
<1>10. Numbered'
  <2>1. \A u \in TabSet' : u.id <= made' /\ u.key <= made'
    BY <1>1, <1>3, <1>4, <1>7, <1>8
  <2>2. \A d \in Calls : opened'[d] <= made' /\ target'[d] <= made'
    BY <1>1, <1>4
  <2>3. QED  BY <1>1, <1>4, <1>5, <2>1, <2>2 DEF Numbered
<1>11. Ended'
  BY <1>1, <1>2, <1>4, <1>6, <1>7, <1>8 DEF Ended
<1>12. Shown'
  BY <1>1, <1>2, <1>4, <1>6, <1>7, <1>8 DEF Shown
<1>13. Apart'
  <2>1. \A d \in Calls : pc[d] = "opened" => Unseen(opened[d])'
    BY <1>1, <1>2, <1>6, <1>7, <1>8 DEF Apart, Unseen
  <2>2. QED  BY <1>1, <1>2, <2>1 DEF Apart
<1>14. Waiting'
  BY <1>1, <1>2, <1>6, <1>7, <1>8 DEF Waiting, Reconnects, HasTab
<1>15. NoOrphanShell'
  BY <1>1, <1>2, <1>8 DEF NoOrphanShell, HasTab
<1>16. QED  BY <1>8, <1>9, <1>10, <1>11, <1>12, <1>13, <1>14, <1>15 DEF IInv

LEMMA CloseTabStep ==
  ASSUME IInv, NEW id \in Ids, CloseTab(id)
  PROVE  IInv'
<1>1. /\ lost' = lost /\ live' = live /\ made' = made /\ target' = target /\ opened' = opened /\ pc' = pc
      /\ excluded' = excluded /\ unwanted' = unwanted /\ statuses' = statuses
      /\ overtaken' = overtaken \cup Reconnectors(id)
      /\ HasTab(id) /\ tabs' = RemoveAt(tabs, Position(id))
      /\ activeId' = IF activeId # id THEN activeId ELSE IF tabs' = <<>> THEN NoId ELSE Last(tabs').id
      /\ closing' = IF ClosesChannel(Tab(id)) THEN closing \cup {id} ELSE closing
  BY DEF CloseTab, multiVars, callVars
<1>2. /\ TypeOK /\ Numbered /\ Distinct /\ Apart /\ Ended /\ Shown /\ Waiting /\ Active
      /\ NoOrphanShell
  BY DEF IInv
<1>3. /\ tabs' \in Seq(Tabs) /\ TabSet' = TabSet \ {Tab(id)} /\ Distinct'
      /\ tabs' # <<>> => Last(tabs') \in TabSet'
  BY <1>1, <1>2, ClosedTab
<1>4. /\ Tab(id) \in TabSet /\ Tab(id).id = id /\ \A t \in TabSet : t.id = id => t = Tab(id)
  BY <1>1, <1>2, FoundTab, OneTab
<1>5. \A t \in TabSet : t.id \in Ids /\ t.kind \in Kinds
  BY <1>2, TabsProp, TabFields
<1>6. Active'
  <2>1. tabs' = <<>> => TabSet' = {}
    BY DEF TabSet, ToSet
  <2>2. activeId # NoId /\ HasTab(activeId)
    <3>1. tabs # <<>>
      BY <1>4 DEF TabSet, ToSet
    <3>2. QED  BY <1>2, <3>1 DEF Active
  <2>3. CASE activeId # id
    <3>1. PICK t \in TabSet : t.id = activeId
      BY <2>2 DEF HasTab
    <3>2. t \in TabSet'
      BY <1>3, <1>4, <2>3, <3>1
    <3>3. QED  BY <1>1, <2>1, <2>2, <2>3, <3>1, <3>2 DEF Active, HasTab
  <2>4. CASE activeId = id
    <3>1. CASE tabs' = <<>>
      BY <1>1, <2>4, <3>1 DEF Active
    <3>2. CASE tabs' # <<>>
      <4>1. activeId' = Last(tabs').id /\ Last(tabs') \in TabSet' /\ Last(tabs') \in TabSet
        BY <1>1, <1>3, <2>4, <3>2
      <4>2. activeId' # NoId
        BY <1>5, <4>1 DEF Ids, NoId
      <4>3. QED  BY <3>2, <4>1, <4>2 DEF Active, HasTab
    <3>3. QED  BY <3>1, <3>2
  <2>5. QED  BY <2>3, <2>4
<1>7. id <= made /\ id \in 1..made
  BY <1>2, <1>4 DEF Numbered, Ids, TypeOK
<1>8. TypeOK'
  <2>1. multi' = multi /\ kind' = kind
    BY DEF CloseTab, multiVars, callVars
  <2>2. activeId' \in Ids \cup {NoId}
    BY <1>1, <1>2, <1>3, <1>5 DEF TypeOK
  <2>3. closing' \in SUBSET (1..made')
    BY <1>1, <1>2, <1>7 DEF TypeOK
  <2>4. overtaken' \in SUBSET Calls
    BY <1>1, <1>2 DEF TypeOK, Reconnectors
  <2>5. QED  BY <1>1, <1>2, <1>3, <2>1, <2>2, <2>3, <2>4 DEF TypeOK
<1>9. Numbered' /\ Ended' /\ Shown'
  BY <1>1, <1>2, <1>3 DEF Numbered, Ended, Shown
<1>10. Apart'
  <2>1. \A d \in Calls : pc[d] = "opened" => opened[d] # id
    BY <1>2, <1>4 DEF Apart, Unseen
  <2>2. \A d \in Calls : pc[d] = "opened" => Unseen(opened[d])'
    BY <1>1, <1>2, <1>3, <2>1 DEF Apart, Unseen
  <2>3. QED  BY <1>1, <1>2, <2>2 DEF Apart
<1>11. Waiting'
  <2>1. \A d \in Calls : Reconnects(d)' <=> Reconnects(d)
    BY <1>1 DEF Reconnects
  <2>2. \A d \in Calls : Reconnects(d) /\ d \notin overtaken' => target[d] # id
    BY <1>1 DEF Reconnectors, Reconnects
  <2>3. \A i : i # id /\ HasTab(i) => HasTab(i)'
    BY <1>3, <1>4 DEF HasTab
  <2>4. ASSUME NEW d \in Calls, Reconnects(d), d \notin overtaken' PROVE HasTab(target[d])'
    BY <1>1, <1>2, <2>2, <2>3, <2>4 DEF Waiting, HasTab
  <2>5. QED  BY <1>1, <1>2, <1>3, <2>1, <2>4 DEF Waiting
<1>12. NoOrphanShell'
  <2> SUFFICES ASSUME NEW i \in live \ lost
               PROVE  \/ \E t \in TabSet' : t.id = i
                      \/ i \in closing'
                      \/ \E c \in Calls : pc[c] = "opened" /\ opened[c] = i
                      \/ \E c \in overtaken' : opened[c] = i
    BY <1>1 DEF NoOrphanShell, HasTab
  <2>1. CASE i = id
    <3>1. Tab(id).kind # "other"
      BY <1>1, <1>2, <1>4, <2>1 DEF Ended
    <3>2. ClosesChannel(Tab(id))
      BY <1>4, <1>5, <3>1 DEF ClosesChannel, IsTerminal, Kinds
    <3>3. QED  BY <1>1, <2>1, <3>2
  <2>2. CASE i # id
    BY <1>1, <1>2, <1>3, <1>4, <2>2 DEF NoOrphanShell, HasTab
  <2>3. QED  BY <2>1, <2>2
<1>13. QED  BY <1>3, <1>6, <1>8, <1>9, <1>10, <1>11, <1>12 DEF IInv

LEMMA SetActiveStep ==
  ASSUME IInv, NEW id \in Ids, SetActive(id)
  PROVE  IInv'
<1>1. /\ lost' = lost /\ tabs' = tabs /\ live' = live /\ made' = made /\ target' = target /\ opened' = opened
      /\ pc' = pc /\ excluded' = excluded /\ unwanted' = unwanted /\ statuses' = statuses
      /\ closing' = closing /\ overtaken' = overtaken /\ activeId' = id /\ HasTab(id)
      /\ multi' = multi /\ kind' = kind
  BY DEF SetActive, multiVars, backVars, callVars
<1>2. /\ TypeOK /\ Numbered /\ Distinct /\ Apart /\ Ended /\ Shown /\ Waiting /\ Active
      /\ NoOrphanShell
  BY DEF IInv
<1>3. TabSet' = TabSet /\ Distinct'
  BY <1>1, <1>2, TabsStay
<1>4. TypeOK'
  BY <1>1, <1>2 DEF TypeOK
<1>5. Active'
  <2>1. tabs # <<>>
    BY <1>1 DEF HasTab, TabSet, ToSet
  <2>2. id # NoId
    BY DEF Ids, NoId
  <2>3. QED  BY <1>1, <1>3, <2>1, <2>2 DEF Active, HasTab
<1>6. Numbered' /\ Ended' /\ Shown' /\ NoOrphanShell'
  BY <1>1, <1>2, <1>3 DEF Numbered, Ended, Shown, NoOrphanShell, HasTab
<1>7. Apart'
  BY <1>1, <1>2, <1>3 DEF Apart, Unseen
<1>8. Waiting'
  BY <1>1, <1>2, <1>3 DEF Waiting, Reconnects, HasTab
<1>9. QED  BY <1>3, <1>4, <1>5, <1>6, <1>7, <1>8 DEF IInv

LEMMA ToggleMultiExecStep ==
  ASSUME IInv, ToggleMultiExec
  PROVE  IInv'
<1>1. /\ lost' = lost /\ tabs' = tabs /\ live' = live /\ made' = made /\ target' = target /\ opened' = opened
      /\ pc' = pc /\ excluded' = excluded /\ unwanted' = unwanted /\ statuses' = statuses
      /\ closing' = closing /\ overtaken' = overtaken /\ activeId' = activeId /\ kind' = kind
      /\ multi' = ~multi
  BY DEF ToggleMultiExec, tabVars, backVars, callVars
<1>2. /\ TypeOK /\ Numbered /\ Distinct /\ Apart /\ Ended /\ Shown /\ Waiting /\ Active
      /\ NoOrphanShell
  BY DEF IInv
<1>3. TabSet' = TabSet /\ Distinct'
  BY <1>1, <1>2, TabsStay
<1>4. multi' \in BOOLEAN
  BY <1>1
<1>5. TypeOK'
  BY <1>1, <1>2, <1>4 DEF TypeOK
<1>6. Numbered' /\ Ended' /\ Shown' /\ NoOrphanShell'
  BY <1>1, <1>2, <1>3 DEF Numbered, Ended, Shown, NoOrphanShell, HasTab
<1>7. Apart'
  BY <1>1, <1>2, <1>3 DEF Apart, Unseen
<1>8. Waiting' /\ Active'
  BY <1>1, <1>2, <1>3 DEF Waiting, Reconnects, Active, HasTab
<1>9. QED  BY <1>3, <1>5, <1>6, <1>7, <1>8 DEF IInv

LEMMA ToggleExcludedStep ==
  ASSUME IInv, NEW id \in Ids, ToggleExcluded(id)
  PROVE  IInv'
<1>1. /\ lost' = lost /\ tabs' = tabs /\ live' = live /\ made' = made /\ target' = target /\ opened' = opened
      /\ pc' = pc /\ statuses' = statuses /\ multi' = multi /\ kind' = kind
      /\ closing' = closing /\ overtaken' = overtaken /\ activeId' = activeId /\ HasTab(id)
      /\ excluded' = SymDiff(excluded, {id})
      /\ unwanted' = IF id \in excluded THEN unwanted \ {Tab(id).key} ELSE unwanted \cup {Tab(id).key}
  BY DEF ToggleExcluded, tabVars, backVars, callVars
<1>2. /\ TypeOK /\ Numbered /\ Distinct /\ Apart /\ Ended /\ Shown /\ Waiting /\ Active
      /\ NoOrphanShell
  BY DEF IInv
<1>3. TabSet' = TabSet /\ Distinct'
  BY <1>1, <1>2, TabsStay
<1>4. /\ Tab(id) \in TabSet /\ Tab(id).id = id
      /\ \A t \in TabSet : t.id = id \/ t.key = Tab(id).key => t = Tab(id)
  BY <1>1, <1>2, FoundTab, OneTab
<1>5. /\ Tab(id).key \in Ids /\ id \in 1..made /\ Tab(id).key \in 1..made
  BY <1>2, <1>4, TabsProp, TabFields DEF Numbered, Ids, TypeOK
<1>6. /\ \A i : i # id => (i \in excluded' <=> i \in excluded)
      /\ id \in excluded' <=> id \notin excluded
      /\ \A i : i # Tab(id).key => (i \in unwanted' <=> i \in unwanted)
      /\ Tab(id).key \in unwanted' <=> id \notin excluded
  BY <1>1 DEF SymDiff
<1>7. excluded' \subseteq 1..made /\ unwanted' \subseteq 1..made
  BY <1>2, <1>5, <1>6 DEF Numbered
<1>8. TypeOK'
  <2>1. excluded' \in SUBSET Ids /\ unwanted' \in SUBSET Ids
    BY <1>2, <1>5, <1>6 DEF TypeOK
  <2>2. QED  BY <1>1, <1>2, <2>1 DEF TypeOK
<1>9. Numbered' /\ Ended' /\ NoOrphanShell'
  BY <1>1, <1>2, <1>3, <1>7 DEF Numbered, Ended, NoOrphanShell, HasTab
<1>10. Shown'
  BY <1>2, <1>3, <1>4, <1>6 DEF Shown
<1>11. Apart'
  <2>1. \A i : Unseen(i) => Unseen(i)'
    BY <1>1, <1>3, <1>4, <1>6 DEF Unseen
  <2>2. QED  BY <1>1, <1>2, <2>1 DEF Apart
<1>12. Waiting' /\ Active'
  BY <1>1, <1>2, <1>3 DEF Waiting, Reconnects, Active, HasTab
<1>13. QED  BY <1>3, <1>8, <1>9, <1>10, <1>11, <1>12 DEF IInv

LEMMA PoolDropsStep ==
  ASSUME IInv, NEW id \in Ids, PoolDrops(id)
  PROVE  IInv'
<1>1. /\ tabs' = tabs /\ made' = made /\ target' = target /\ opened' = opened
      /\ pc' = pc /\ excluded' = excluded /\ unwanted' = unwanted /\ statuses' = statuses
      /\ overtaken' = overtaken /\ activeId' = activeId /\ kind' = kind /\ multi' = multi
      /\ closing' = closing /\ live' = live /\ lost' = lost \cup {id} /\ id \in live
  BY DEF PoolDrops, tabVars, multiVars, callVars
<1>2. /\ TypeOK /\ Numbered /\ Distinct /\ Apart /\ Ended /\ Shown /\ Waiting /\ Active
      /\ NoOrphanShell
  BY DEF IInv
<1>3. TabSet' = TabSet /\ Distinct'
  BY <1>1, <1>2, TabsStay
<1>4. lost' \in SUBSET (1..made')
  BY <1>1, <1>2 DEF TypeOK
<1>5. TypeOK'
  BY <1>1, <1>2, <1>4 DEF TypeOK
<1>6. Numbered' /\ Ended' /\ Shown' /\ NoOrphanShell'
  BY <1>1, <1>2, <1>3 DEF Numbered, Ended, Shown, NoOrphanShell, HasTab
<1>7. Apart'
  BY <1>1, <1>2, <1>3 DEF Apart, Unseen
<1>8. Waiting' /\ Active'
  BY <1>1, <1>2, <1>3 DEF Waiting, Reconnects, Active, HasTab
<1>9. QED  BY <1>3, <1>5, <1>6, <1>7, <1>8 DEF IInv

LEMMA BackEndClosesStep ==
  ASSUME IInv, NEW id \in Ids, BackEndCloses(id)
  PROVE  IInv'
<1>1. /\ lost' = lost /\ tabs' = tabs /\ made' = made /\ target' = target /\ opened' = opened
      /\ pc' = pc /\ excluded' = excluded /\ unwanted' = unwanted /\ statuses' = statuses
      /\ overtaken' = overtaken /\ activeId' = activeId /\ kind' = kind /\ multi' = multi
      /\ closing' = closing \ {id} /\ live' = ShellsAfterClose(id)
  BY DEF BackEndCloses, tabVars, multiVars, callVars
<1>2. /\ TypeOK /\ Numbered /\ Distinct /\ Apart /\ Ended /\ Shown /\ Waiting /\ Active
      /\ NoOrphanShell
  BY DEF IInv
<1>3. TabSet' = TabSet /\ Distinct'
  BY <1>1, <1>2, TabsStay
<1>4. /\ live' \in SUBSET (1..made') /\ closing' \in SUBSET (1..made')
      /\ live' \subseteq live /\ live' \ lost \subseteq (live \ lost) \ {id}
  BY <1>1, <1>2 DEF TypeOK, ShellsAfterClose
<1>5. TypeOK'
  BY <1>1, <1>2, <1>4 DEF TypeOK
<1>6. Numbered' /\ Ended' /\ Shown' /\ NoOrphanShell'
  BY <1>1, <1>2, <1>3, <1>4 DEF Numbered, Ended, Shown, NoOrphanShell, HasTab
<1>7. Apart'
  BY <1>1, <1>2, <1>3 DEF Apart, Unseen
<1>8. Waiting' /\ Active'
  BY <1>1, <1>2, <1>3 DEF Waiting, Reconnects, Active, HasTab
<1>9. QED  BY <1>3, <1>5, <1>6, <1>7, <1>8 DEF IInv

LEMMA ShellEndsStep ==
  ASSUME IInv, NEW id \in Ids, ShellEnds(id)
  PROVE  IInv'
<1>1. /\ lost' = lost /\ tabs' = tabs /\ made' = made /\ target' = target /\ opened' = opened
      /\ pc' = pc /\ excluded' = excluded /\ unwanted' = unwanted /\ closing' = closing
      /\ overtaken' = overtaken /\ activeId' = activeId /\ kind' = kind /\ multi' = multi
      /\ id \in live /\ statuses' = statuses \cup {id} /\ live' = live \ {id}
  BY DEF ShellEnds, tabVars, multiVars, callVars
<1>2. /\ TypeOK /\ Numbered /\ Distinct /\ Apart /\ Ended /\ Shown /\ Waiting /\ Active
      /\ NoOrphanShell
  BY DEF IInv
<1>3. TabSet' = TabSet /\ Distinct'
  BY <1>1, <1>2, TabsStay
<1>4. live' \in SUBSET (1..made') /\ statuses' \in SUBSET (1..made')
  BY <1>1, <1>2 DEF TypeOK
<1>5. TypeOK'
  BY <1>1, <1>2, <1>4 DEF TypeOK
<1>6. Numbered' /\ Ended' /\ Shown' /\ NoOrphanShell'
  BY <1>1, <1>2, <1>3 DEF Numbered, Ended, Shown, NoOrphanShell, HasTab
<1>7. Apart'
  BY <1>1, <1>2, <1>3 DEF Apart, Unseen
<1>8. Waiting' /\ Active'
  BY <1>1, <1>2, <1>3 DEF Waiting, Reconnects, Active, HasTab
<1>9. QED  BY <1>3, <1>5, <1>6, <1>7, <1>8 DEF IInv

LEMMA DeliverStep ==
  ASSUME IInv, NEW id \in Ids, Deliver(id)
  PROVE  IInv'
<1> DEFINE G == [t \in Tabs |-> IF t.id = id /\ IsTerminal(t) THEN [t EXCEPT !.disc = TRUE] ELSE t]
<1>1. /\ lost' = lost /\ made' = made /\ target' = target /\ opened' = opened /\ live' = live
      /\ pc' = pc /\ excluded' = excluded /\ unwanted' = unwanted /\ closing' = closing
      /\ overtaken' = overtaken /\ activeId' = activeId /\ kind' = kind /\ multi' = multi
      /\ id \in statuses /\ statuses' = statuses \ {id}
  BY DEF Deliver, multiVars, callVars
<1>2. /\ TypeOK /\ Numbered /\ Distinct /\ Apart /\ Ended /\ Shown /\ Waiting /\ Active
      /\ NoOrphanShell
  BY DEF IInv
<1>3. \A k \in DOMAIN tabs : tabs[k] \in Tabs /\ tabs[k] \in TabSet
  BY <1>2, TabsProp
<1>4. tabs' = [k \in DOMAIN tabs |-> G[tabs[k]]]
  BY <1>3 DEF Deliver, MapTabs
<1>5. \A t \in Tabs : /\ G[t] \in Tabs /\ G[t].id = t.id /\ G[t].key = t.key /\ G[t].kind = t.kind
                      /\ t.disc => G[t].disc
                      /\ G[t].disc => t.disc \/ t.id = id
  BY DEF Tabs
<1> HIDE DEF G
<1>6. /\ tabs' \in Seq(Tabs) /\ DOMAIN tabs' = DOMAIN tabs
      /\ \A t \in TabSet : G[t] \in TabSet'
      /\ \A t \in TabSet' : \E u \in TabSet : t = G[u]
      /\ tabs' = <<>> <=> tabs = <<>>
  BY <1>2, <1>4, <1>5, MappedTabs
<1>7. \A t \in TabSet : t \in Tabs
  BY <1>2, TabsProp
<1>8. Distinct'
  <2>1. \A j, k \in DOMAIN tabs : G[tabs[j]].id = G[tabs[k]].id \/ G[tabs[j]].key = G[tabs[k]].key
                                    => j = k
    BY <1>2, <1>3, <1>5 DEF Distinct
  <2>2. QED  BY <1>2, <1>4, <1>5, <2>1, MappedTabs
\* What a tab was before the step.
<1>9. \A t \in TabSet' : \E u \in TabSet :
        /\ t.id = u.id /\ t.key = u.key /\ t.kind = u.kind /\ (t.disc => u.disc \/ u.id = id)
  BY <1>5, <1>6, <1>7
\* What it becomes.
<1>10. \A u \in TabSet : \E t \in TabSet' : t.id = u.id /\ (u.disc => t.disc)
  BY <1>5, <1>6, <1>7
<1>11. id \notin live
  BY <1>1, <1>2 DEF Ended
<1>12. TypeOK'
  <2>1. statuses' \in SUBSET (1..made')
    BY <1>1, <1>2 DEF TypeOK
  <2>2. QED  BY <1>1, <1>2, <1>6, <2>1 DEF TypeOK
<1>13. Numbered' /\ Shown'
  BY <1>1, <1>2, <1>9 DEF Numbered, Shown
<1>14. Ended'
  BY <1>1, <1>2, <1>9, <1>11 DEF Ended
<1>15. Apart'
  <2>1. \A i : Unseen(i) => Unseen(i)'
    BY <1>1, <1>9 DEF Unseen
  <2>2. QED  BY <1>1, <1>2, <2>1 DEF Apart
<1>16. Waiting'
  <2>1. \A d \in Calls : Reconnects(d)' <=> Reconnects(d)
    BY <1>1 DEF Reconnects
  <2>2. \A i : HasTab(i) => HasTab(i)'
    BY <1>10 DEF HasTab
  <2>3. ASSUME NEW d \in Calls, Reconnects(d), NEW t \in TabSet', t.id = target[d] PROVE t.disc
    <3>1. PICK u \in TabSet : t.id = u.id /\ t = G[u]
      BY <1>5, <1>6, <1>7
    <3>2. u.disc
      BY <1>2, <2>3, <3>1 DEF Waiting
    <3>3. QED  BY <1>5, <1>7, <3>1, <3>2
  <2>4. \A d \in Calls : Reconnects(d) /\ d \notin overtaken => HasTab(target[d])'
    BY <1>1, <1>2, <2>2 DEF Waiting, HasTab
  <2>5. QED  BY <1>1, <1>2, <2>1, <2>3, <2>4 DEF Waiting
<1>17. Active'
  BY <1>1, <1>2, <1>6, <1>10 DEF Active, HasTab
<1>18. NoOrphanShell'
  BY <1>1, <1>2, <1>10 DEF NoOrphanShell, HasTab
<1>19. QED  BY <1>8, <1>12, <1>13, <1>14, <1>15, <1>16, <1>17, <1>18 DEF IInv

LEMMA FinishReconnectStep ==
  ASSUME IInv, NEW c \in Calls, FinishReconnect(c)
  PROVE  IInv'
<1> DEFINE G == [t \in Tabs |-> IF t.id = target[c] THEN Reconnected(t, opened[c]) ELSE t]
<1>1. /\ lost' = lost /\ made' = made /\ target' = target /\ opened' = opened /\ live' = live
      /\ excluded' = excluded /\ unwanted' = unwanted /\ closing' = closing
      /\ overtaken' = overtaken /\ kind' = kind /\ multi' = multi /\ statuses' = statuses
      /\ pc[c] = "opened" /\ target[c] # NoId /\ pc' = [pc EXCEPT ![c] = "done"]
      /\ activeId' = IF activeId = target[c] THEN opened[c] ELSE activeId
  BY DEF FinishReconnect, multiVars, backVars, ActiveAfter
<1>2. /\ TypeOK /\ Numbered /\ Distinct /\ Apart /\ Ended /\ Shown /\ Waiting /\ Active
      /\ NoOrphanShell
  BY DEF IInv
<1>3. /\ opened[c] \in Ids /\ opened[c] # NoId /\ Unseen(opened[c])
      /\ \A d \in Calls : pc[d] = "opened" /\ opened[d] = opened[c] => d = c
  BY <1>1, <1>2 DEF Apart, TypeOK
<1>4. \A k \in DOMAIN tabs : tabs[k] \in Tabs /\ tabs[k] \in TabSet
  BY <1>2, TabsProp
<1>5. tabs' = [k \in DOMAIN tabs |-> G[tabs[k]]]
  BY <1>4 DEF FinishReconnect, MapTabs
<1>6. \A t \in Tabs : /\ G[t] \in Tabs /\ G[t].key = t.key /\ G[t].kind = t.kind
                      /\ t.id = target[c] => G[t].id = opened[c] /\ G[t].disc = FALSE
                      /\ t.id # target[c] => G[t] = t
  BY <1>3 DEF Tabs, Reconnected
<1> HIDE DEF G
<1>7. /\ tabs' \in Seq(Tabs) /\ DOMAIN tabs' = DOMAIN tabs
      /\ \A t \in TabSet : G[t] \in TabSet'
      /\ \A t \in TabSet' : \E u \in TabSet : t = G[u]
      /\ tabs' = <<>> <=> tabs = <<>>
  BY <1>2, <1>5, <1>6, MappedTabs
<1>8. \A t \in TabSet : t \in Tabs /\ t.id # opened[c] /\ t.key # opened[c]
  BY <1>2, <1>3, TabsProp DEF Unseen
<1>9. Distinct'
  <2>1. ASSUME NEW j \in DOMAIN tabs, NEW k \in DOMAIN tabs,
               G[tabs[j]].id = G[tabs[k]].id \/ G[tabs[j]].key = G[tabs[k]].key
        PROVE  tabs[j].id = tabs[k].id \/ tabs[j].key = tabs[k].key
    BY <1>4, <1>6, <1>8, <2>1
  <2>2. \A j, k \in DOMAIN tabs : G[tabs[j]].id = G[tabs[k]].id \/ G[tabs[j]].key = G[tabs[k]].key
                                    => j = k
    BY <1>2, <2>1 DEF Distinct
  <2>3. QED  BY <1>2, <1>5, <1>6, <2>2, MappedTabs
\* A tab is as it was, or it is the one that was reconnected.
<1>10. \A t \in TabSet' : \/ t \in TabSet /\ t.id # target[c]
                          \/ /\ t.id = opened[c] /\ t.disc = FALSE
                             /\ \E u \in TabSet : u.id = target[c] /\ u.key = t.key /\ u.kind = t.kind
  BY <1>6, <1>7, <1>8
<1>11. /\ \A u \in TabSet : u.id # target[c] => u \in TabSet'
       /\ HasTab(target[c]) => \E t \in TabSet' : t.id = opened[c]
  BY <1>6, <1>7, <1>8 DEF HasTab
<1>12. pc'[c] = "done" /\ \A d \in Calls : d # c => pc'[d] = pc[d]
  BY <1>1, <1>2 DEF TypeOK
<1>13. TypeOK'
  <2>1. pc' \in [Calls -> {"idle", "connecting", "opened", "done", "failed"}]
    BY <1>1, <1>2 DEF TypeOK
  <2>2. QED  BY <1>1, <1>2, <1>3, <1>7, <2>1 DEF TypeOK
<1>14. Numbered'
  BY <1>1, <1>2, <1>10 DEF Numbered
<1>15. Shown'
  BY <1>1, <1>2, <1>3, <1>8, <1>10 DEF Shown, Unseen
<1>16. Ended'
  BY <1>1, <1>2, <1>10 DEF Ended
<1>17. Apart'
  <2>1. \A d \in Calls : pc[d] = "opened" /\ d # c => Unseen(opened[d])'
    BY <1>1, <1>2, <1>3, <1>10 DEF Apart, Unseen
  <2>2. QED  BY <1>1, <1>2, <1>12, <2>1 DEF Apart
<1>18. Waiting'
  <2>1. Reconnects(c) /\ \A d \in Calls : Reconnects(d)' => Reconnects(d) /\ d # c
    BY <1>1, <1>12 DEF Reconnects
  <2>2. \A d \in Calls : target[d] # opened[c]
    BY <1>3 DEF Unseen
  <2>3. ASSUME NEW d \in Calls, Reconnects(d)', NEW t \in TabSet', t.id = target[d] PROVE t.disc
    <3>1. t.id # opened[c]
      BY <2>2, <2>3
    <3>2. t \in TabSet
      BY <1>10, <3>1
    <3>3. QED  BY <1>2, <2>1, <2>3, <3>2 DEF Waiting
  <2>4. ASSUME NEW d \in Calls, Reconnects(d)', d \notin overtaken PROVE HasTab(target[d])'
    <3>1. target[d] # target[c]
      BY <1>2, <2>1, <2>4 DEF Waiting
    <3>2. HasTab(target[d])
      BY <1>2, <2>1, <2>4 DEF Waiting
    <3>3. QED  BY <1>1, <1>11, <3>1, <3>2 DEF HasTab
  <2>5. QED  BY <1>1, <1>2, <2>1, <2>3, <2>4 DEF Waiting
<1>19. Active'
  BY <1>1, <1>2, <1>3, <1>7, <1>11 DEF Active, HasTab
<1>20. NoOrphanShell'
  <2> SUFFICES ASSUME NEW i \in live \ lost
               PROVE  \/ \E t \in TabSet' : t.id = i
                      \/ i \in closing
                      \/ \E d \in Calls : pc'[d] = "opened" /\ opened[d] = i
                      \/ \E d \in overtaken : opened[d] = i
    BY <1>1 DEF NoOrphanShell, HasTab
  <2>1. CASE HasTab(i)
    <3>1. PICK u \in TabSet : u.id = i
      BY <2>1 DEF HasTab
    <3>2. i # target[c]
      BY <1>1, <1>2, <3>1 DEF Waiting, Reconnects, Ended
    <3>3. QED  BY <1>11, <3>1, <3>2
  <2>2. CASE i = opened[c]
    <3>1. c \in overtaken \/ HasTab(target[c])
      BY <1>1, <1>2 DEF Waiting, Reconnects
    <3>2. QED  BY <1>11, <2>2, <3>1
  <2>3. QED  BY <1>2, <1>12, <2>1, <2>2 DEF NoOrphanShell
<1>21. QED  BY <1>9, <1>13, <1>14, <1>15, <1>16, <1>17, <1>18, <1>19, <1>20 DEF IInv

LEMMA TabsStep ==
  IInv /\ [Next]_vars => IInv'
<1> SUFFICES ASSUME IInv, [Next]_vars PROVE IInv'
  OBVIOUS
<1>1. ASSUME NEW c \in Calls, NEW k \in Kinds, StartOpen(c, k) PROVE IInv'
  BY <1>1, StartOpenStep
<1>2. ASSUME NEW c \in Calls, NEW id \in Ids, StartReconnect(c, id) PROVE IInv'
  BY <1>2, StartReconnectStep
<1>3. ASSUME NEW c \in Calls, BackEndOpens(c) PROVE IInv'
  BY <1>3, BackEndOpensStep
<1>4. ASSUME NEW c \in Calls, FinishOpen(c) PROVE IInv'
  BY <1>4, FinishOpenStep
<1>5. ASSUME NEW c \in Calls, FinishReconnect(c) PROVE IInv'
  BY <1>5, FinishReconnectStep
<1>6. CASE OpenOther
  BY <1>6, OpenOtherStep
<1>7. ASSUME NEW id \in Ids, CloseTab(id) PROVE IInv'
  BY <1>7, CloseTabStep
<1>8. ASSUME NEW id \in Ids, SetActive(id) PROVE IInv'
  BY <1>8, SetActiveStep
<1>9. ASSUME NEW id \in Ids, ToggleExcluded(id) PROVE IInv'
  BY <1>9, ToggleExcludedStep
<1>10. CASE ToggleMultiExec
  BY <1>10, ToggleMultiExecStep
<1>11. ASSUME NEW id \in Ids, BackEndCloses(id) PROVE IInv'
  BY <1>11, BackEndClosesStep
<1>12. ASSUME NEW id \in Ids, ShellEnds(id) PROVE IInv'
  BY <1>12, ShellEndsStep
<1>13. ASSUME NEW id \in Ids, Deliver(id) PROVE IInv'
  BY <1>13, DeliverStep
<1>14. ASSUME NEW id \in Ids, PoolDrops(id) PROVE IInv'
  BY <1>14, PoolDropsStep
<1>15. CASE UNCHANGED vars
  <2>1. /\ tabs' = tabs /\ activeId' = activeId /\ multi' = multi /\ excluded' = excluded
        /\ made' = made /\ live' = live /\ statuses' = statuses /\ closing' = closing /\ pc' = pc
        /\ kind' = kind /\ target' = target /\ opened' = opened /\ unwanted' = unwanted
        /\ overtaken' = overtaken /\ lost' = lost
    BY <1>15 DEF vars
  <2>2. TypeOK' /\ TabSet' = TabSet /\ Distinct'
    BY <2>1, TabsStay DEF IInv, TypeOK
  <2>3. Numbered' /\ Ended' /\ Shown' /\ NoOrphanShell' /\ Active'
    BY <2>1, <2>2 DEF IInv, Numbered, Ended, Shown, NoOrphanShell, Active, HasTab
  <2>4. Apart' /\ Waiting'
    BY <2>1, <2>2 DEF IInv, Apart, Unseen, Waiting, Reconnects, HasTab
  <2>5. QED  BY <2>2, <2>3, <2>4 DEF IInv
<1>16. QED
  BY <1>1, <1>2, <1>3, <1>4, <1>5, <1>6, <1>7, <1>8, <1>9, <1>10, <1>11, <1>12, <1>13, <1>14,
     <1>15 DEF Next

----------------------------------------------------------------------------

LEMMA TabsInv ==
  Spec => []IInv
<1>1. QED  BY TabsInit, TabsStep, PTL DEF Spec

\* The tabs, the calls and the channels keep their types.
THEOREM TabTypes ==
  Spec => []TypeOK
<1>1. IInv => TypeOK
  BY DEF IInv
<1>2. QED  BY <1>1, TabsInv, PTL

\* The tab on show is one of the tabs, and no two tabs share an id, through
\* openings and reconnects that change the tabs after they awaited the back end.
THEOREM ActiveTabIsOpen ==
  Spec => []ActiveIsOpen
<1>1. IInv => ActiveIsOpen
  <2> SUFFICES ASSUME IInv PROVE ActiveIsOpen
    OBVIOUS
  <2>1. ASSUME tabs # <<>> PROVE \E k \in DOMAIN tabs : tabs[k].id = activeId
    <3>1. PICK t \in TabSet : t.id = activeId
      BY <2>1 DEF IInv, Active, HasTab
    <3>2. QED  BY <3>1, TabsProp DEF IInv
  <2>2. QED  BY <2>1 DEF IInv, Active, Distinct, ActiveIsOpen
<1>2. QED  BY <1>1, TabsInv, PTL

\* Every running shell has its tab or something on its way that sees to it,
\* unless the pool dropped its session before it was closed, or it was opened by
\* a reconnect whose tab was closed, or reconnected again, in the meantime.
THEOREM NoShellIsOrphan ==
  Spec => []NoOrphanShell
<1>1. IInv => NoOrphanShell
  BY DEF IInv
<1>2. QED  BY <1>1, TabsInv, PTL

\* With multi-exec on, what is typed in a terminal that is not excluded reaches
\* every other that runs and is not excluded.
THEOREM BroadcastReachesShown ==
  Spec => []BroadcastReaches
<1>1. IInv => BroadcastReaches
  <2> SUFFICES ASSUME IInv, multi, NEW s \in TabSet, NEW t \in TabSet \ {s},
                      t.kind = "ssh", t.key \notin unwanted, t.id \in live
               PROVE  t \in Recipients(s)
    BY DEF BroadcastReaches
  <2>1. TypeOK /\ Distinct /\ Ended /\ Shown
    BY DEF IInv
  <2>2. t.id # s.id
    BY <2>1, OneTab
  <2>3. t.disc = FALSE
    BY <2>1, TabsProp, TabFields DEF Ended
  <2>4. QED  BY <2>1, <2>2, <2>3 DEF Recipients, Shown
<1>2. QED  BY <1>1, TabsInv, PTL

----------------------------------------------------------------------------
(* RdpSession, the session of an RDP tab, for any number of windows,       *)
(* layouts and commands.                                                   *)

USE RdpAssumption

Cmds == [kind : {"show", "hide", "bounds", "disconnect"}, bounds : 0..MaxLayouts]

\* The commands of these kinds that are under way, and the last of them.
Those(K)   == {k \in DOMAIN cmds : cmds[k].kind \in K}
LastOne(K) == {k \in Those(K) : \A j \in Those(K) : j <= k}
Shows  == {"show", "hide"}
Places == {"show", "bounds"}

\* How far connect() is says what can be there.  A mounted view has not asked
\* for its session to be removed.
Stages ==
  /\ stage = "start" => proc = "none"
  /\ stage # "done" => cmds = <<>> /\ ~idRef
  /\ stage \in {"answer", "done"} <=> session # "none"
  /\ session = "none" => watch = "none"
  /\ view = "mounted" =>
       /\ stage = "done" => idRef
       /\ stage \in {"answer", "done"} => session = "open"
       /\ Len(cmds) <= MaxCmds /\ Those({"disconnect"}) = {}

\* A window is opened once, and what is embedded was opened.
WasOpened(w) == w \in Windows /\ place[w] # Unopened

Opened ==
  /\ \A w \in wins : WasOpened(w)
  /\ session # "none" => WasOpened(hwnd) /\ lastBounds # 0
  /\ stage = "found" \/ watch \in {"attach", "store"} => WasOpened(found)
  /\ \A k \in Those(Places) : cmds[k].bounds # 0

\* The last command of a kind says how things will be; without one, they are so.
ShownAsTab ==
  idRef => /\ \A k \in LastOne(Shows) : cmds[k].kind = "show" <=> visible
           /\ Those(Shows) = {} /\ hwnd \in wins => (vis[hwnd] <=> visible)

PlacedAsPanel ==
  /\ idRef /\ visible /\ ~dirty => /\ \A k \in LastOne(Places) : cmds[k].bounds = layout
                                   /\ Those(Places) = {} => lastBounds = layout
  /\ session = "open" /\ hwnd \in wins => place[hwnd] = lastBounds

Embedding ==
  /\ stage # "start" /\ ~idRef => /\ asked = layout /\ (visible \/ wins = {})
                                  /\ stage \in {"found", "answer"} => visible
  /\ watch = "store" => /\ visible /\ cmds = <<>>
                        /\ found \in wins => vis[found] /\ place[found] = lastBounds

Calm == view = "mounted" /\ ~upset => ShownAsTab /\ PlacedAsPanel /\ Embedding

RdpInv == SessionTypeOK /\ Stages /\ Opened /\ Calm

----------------------------------------------------------------------------
(* Facts about lists and the commands under way.                           *)

\* The least element of a set of naturals, from the well-foundedness of <.
LEMMA LeastNat ==
  ASSUME NEW T \in SUBSET Nat, T # {}
  PROVE  \E m \in T : \A n \in T : m <= n
<1> DEFINE R == {p \in Nat \X Nat : p[1] < p[2]}
<1>1. IsWellFoundedOn(R, Nat)
  <2>1. R = OpToRel(<, Nat)
    BY Zenon DEF OpToRel
  <2>2. QED  BY <2>1, NatLessThanWellFounded, Zenon
<1>2. PICK m \in T : \A n \in T : ~ (<<n, m>> \in R)
  BY <1>1, WFMin, Zenon
<1>3. \A n \in T : ~ (n < m)
  BY <1>2
<1>4. QED  BY <1>3

\* Leaving out one element leaves out the first only where the two are equal.
LEMMA FirstOrSame ==
  ASSUME NEW S, NEW s \in Seq(S), NEW i \in 1..Len(s), RemoveAt(s, i) = Tail(s)
  PROVE  s[i] = s[1]
<1>1. \A k \in 1..(i - 1) : s[k] = s[k + 1]
  <2> SUFFICES ASSUME NEW k \in 1..(i - 1) PROVE s[k] = s[k + 1]
    OBVIOUS
  <2>1. k \in 1..(Len(s) - 1) /\ k < i
    OBVIOUS
  <2>2. RemoveAt(s, i)[k] = s[k]
    BY <2>1, LeftOut
  <2>3. Tail(s)[k] = s[k + 1]
    BY <2>1
  <2>4. QED  BY <2>2, <2>3
<1> DEFINE T == {k \in 1..i : s[k] = s[i]}
<1>2. T \in SUBSET Nat /\ i \in T
  OBVIOUS
<1>3. PICK m \in T : \A n \in T : m <= n
  BY <1>2, LeastNat
<1>4. m = 1
  <2>1. CASE m > 1
    <3>1. m - 1 \in 1..(i - 1) /\ (m - 1) + 1 = m
      BY <2>1, <1>2
    <3>2. s[m - 1] = s[m]
      BY <3>1, <1>1
    <3>3. m - 1 \in T
      BY <3>1, <3>2
    <3>4. QED  BY <3>3, <1>3, <1>2
  <2>2. QED  BY <2>1, <1>2
<1>5. QED  BY <1>4, <1>3

\* find_window_for_process() finds a window if there is one.
LEMMA LargestIsOne ==
  ASSUME wins \in SUBSET Windows
  PROVE  Largest \in wins \/ (wins = {} /\ Largest = NoWindow)
<1> DEFINE T == {MaxWindows - w : w \in wins}
<1>1. CASE wins # {}
  <2>1. T \in SUBSET Nat /\ T # {}
    <3>1. \A w \in wins : MaxWindows - w \in Nat
      BY DEF Windows
    <3>2. QED  BY <1>1, <3>1
  <2>2. PICK m \in T : \A n \in T : m <= n
    BY <2>1, LeastNat
  <2>3. PICK w \in wins : m = MaxWindows - w
    BY <2>2
  <2>4. \A v \in wins : MaxWindows - w <= MaxWindows - v
    BY <2>2, <2>3
  <2>5. \A v \in wins : v <= w
    BY <2>4 DEF Windows
  <2>6. QED  BY <1>1, <2>5 DEF Largest
<1>2. CASE wins = {}
  BY <1>2 DEF Largest
<1>3. QED  BY <1>1, <1>2

\* A command joins those under way.
LEMMA JoinedCmd ==
  ASSUME cmds \in Seq(Cmds), NEW c \in Cmds, cmds' = Append(cmds, c), NEW K
  PROVE  /\ cmds' \in Seq(Cmds) /\ Len(cmds') = Len(cmds) + 1 /\ cmds' # <<>>
         /\ \A k \in Those(K)' : \/ c.kind \in K /\ cmds'[k] = c
                                 \/ k \in Those(K) /\ cmds'[k] = cmds[k]
         /\ c.kind \in K => Those(K)' # {} /\ \A k \in LastOne(K)' : cmds'[k] = c
         /\ c.kind \notin K => /\ Those(K)' = Those(K)
                               /\ \A k \in LastOne(K)' : k \in LastOne(K) /\ cmds'[k] = cmds[k]
<1> DEFINE n == Len(cmds)
<1>1. /\ n \in Nat /\ DOMAIN cmds = 1..n /\ DOMAIN cmds' = 1..(n + 1) /\ cmds' \in Seq(Cmds)
      /\ Len(cmds') = n + 1 /\ cmds'[n + 1] = c /\ \A k \in 1..n : cmds'[k] = cmds[k]
  OBVIOUS
<1> HIDE DEF n
<1>2. \A k : k \in 1..(n + 1) <=> k \in 1..n \/ k = n + 1
  BY <1>1
<1>3. n + 1 \notin 1..n /\ \A k \in 1..n : ~ (n + 1 <= k)
  BY <1>1
<1>4. \A k : k \in Those(K)' <=> k \in Those(K) \/ (k = n + 1 /\ c.kind \in K)
  BY <1>1, <1>2, <1>3 DEF Those
<1>5. \A k \in Those(K) : k \in 1..n /\ cmds'[k] = cmds[k]
  BY <1>1 DEF Those
<1>6. cmds' # <<>>
  BY <1>1
<1>7. ASSUME c.kind \in K PROVE Those(K)' # {} /\ \A k \in LastOne(K)' : cmds'[k] = c
  BY <1>1, <1>3, <1>4, <1>5, <1>7 DEF LastOne
<1>8. ASSUME c.kind \notin K
      PROVE  Those(K)' = Those(K) /\ \A k \in LastOne(K)' : k \in LastOne(K) /\ cmds'[k] = cmds[k]
  <2>1. Those(K)' = Those(K)
    BY <1>4, <1>8
  <2>2. QED  BY <1>5, <2>1 DEF LastOne
<1>9. QED  BY <1>1, <1>4, <1>5, <1>6, <1>7, <1>8 DEF n

\* Any one of them is taken.
LEMMA OneLess ==
  ASSUME cmds \in Seq(Cmds), NEW i \in 1..Len(cmds), cmds' = RemoveAt(cmds, i)
  PROVE  /\ cmds' \in Seq(Cmds) /\ Len(cmds') = Len(cmds) - 1 /\ Len(cmds) \in Nat /\ cmds # <<>>
         /\ \A K : \A k \in Those(K)' : \E j \in Those(K) : cmds'[k] = cmds[j]
<1> DEFINE n == Len(cmds)
<1>1. /\ n \in Nat /\ DOMAIN cmds = 1..n /\ i \in 1..n /\ cmds' \in Seq(Cmds) /\ Len(cmds') = n - 1
      /\ \A k \in 1..(n - 1) : cmds'[k] = cmds[IF k < i THEN k ELSE k + 1]
  BY LeftOut
<1>2. cmds # <<>>
  BY <1>1
<1>3. DOMAIN cmds' = 1..(n - 1)
  BY <1>1
<1> HIDE DEF n
<1>4. \A k \in 1..(n - 1) : (IF k < i THEN k ELSE k + 1) \in 1..n
  BY <1>1
<1>5. \A k \in 1..(n - 1) : \E j \in 1..n : cmds'[k] = cmds[j]
  BY <1>1, <1>4
<1>6. QED  BY <1>1, <1>2, <1>3, <1>5 DEF Those, n

\* The first of them is taken.
LEMMA FirstDone ==
  ASSUME cmds \in Seq(Cmds), cmds # <<>>, cmds' = Tail(cmds), NEW K
  PROVE  /\ cmds' \in Seq(Cmds) /\ Len(cmds') = Len(cmds) - 1 /\ cmds[1] \in Cmds
         /\ \A k \in Those(K)' : k + 1 \in Those(K) /\ cmds'[k] = cmds[k + 1]
         /\ \A k \in LastOne(K)' : k + 1 \in LastOne(K) /\ cmds'[k] = cmds[k + 1]
         /\ Those(K)' = {} => IF cmds[1].kind \in K THEN 1 \in LastOne(K) ELSE Those(K) = {}
         /\ cmds[1].kind \in K => 1 \in Those(K)
<1> DEFINE n == Len(cmds)
<1>1. /\ n \in Nat \ {0} /\ DOMAIN cmds = 1..n /\ DOMAIN cmds' = 1..(n - 1) /\ cmds' \in Seq(Cmds)
      /\ Len(cmds') = n - 1 /\ cmds[1] \in Cmds /\ \A k \in 1..(n - 1) : cmds'[k] = cmds[k + 1]
  OBVIOUS
<1> HIDE DEF n
<1>2. \A k \in 1..n : k = 1 \/ (k - 1 \in 1..(n - 1) /\ (k - 1) + 1 = k)
  BY <1>1
<1>3. 1 \in 1..n /\ \A k \in 1..(n - 1) : k + 1 \in 1..n /\ 1 <= k + 1
  BY <1>1
<1>4. \A k \in Those(K)' : k \in 1..(n - 1) /\ k + 1 \in Those(K) /\ cmds'[k] = cmds[k + 1]
  BY <1>1, <1>3 DEF Those
<1>5. \A k \in Those(K) : k = 1 \/ (k - 1 \in Those(K)' /\ (k - 1) + 1 = k)
  BY <1>1, <1>2 DEF Those
<1>6. ASSUME NEW k \in LastOne(K)' PROVE k + 1 \in LastOne(K)
  <2>1. k \in Those(K)' /\ \A j \in Those(K)' : j <= k
    BY DEF LastOne
  <2>2. ASSUME NEW j \in Those(K) PROVE j <= k + 1
    <3>1. CASE j = 1
      BY <3>1, <1>3, <1>4, <2>1
    <3>2. CASE j # 1
      <4>1. j - 1 <= k /\ j \in 1..n /\ k \in 1..(n - 1)
        BY <3>2, <1>1, <1>4, <1>5, <2>1 DEF Those
      <4>2. QED  BY <1>1, <4>1
    <3>3. QED  BY <3>1, <3>2
  <2>3. QED  BY <1>4, <2>1, <2>2 DEF LastOne
<1>7. ASSUME Those(K)' = {}
      PROVE  IF cmds[1].kind \in K THEN 1 \in LastOne(K) ELSE Those(K) = {}
  <2>1. \A k \in Those(K) : k = 1
    BY <1>5, <1>7
  <2>2. 1 \in Those(K) <=> cmds[1].kind \in K
    BY <1>1, <1>3 DEF Those
  <2>3. QED  BY <2>1, <2>2 DEF LastOne
<1>8. cmds[1].kind \in K => 1 \in Those(K)
  BY <1>1, <1>3 DEF Those
<1>9. \A k \in LastOne(K)' : k \in Those(K)'
  BY DEF LastOne
<1>10. QED  BY <1>1, <1>4, <1>6, <1>7, <1>8, <1>9 DEF n

----------------------------------------------------------------------------
(* The initial state, and one lemma per action.                            *)

\* What a step that is nothing of Upsets leaves.
LEMMA NotUpset ==
  ASSUME Noted, ~upset'
  PROVE  /\ ~upset
         /\ ~idRef /\ stage # "start" => visible' = visible /\ layout' = layout
         /\ cmds # <<>> /\ Len(cmds') < Len(cmds) => cmds' = Tail(cmds)
         /\ wins' # wins => visible /\ cmds = <<>>
         /\ watch \in {"attach", "store"} => visible' /\ cmds' = <<>>
  BY DEF Noted, Upsets

LEMMA NotedType ==
  ASSUME SessionTypeOK, Noted
  PROVE  upset' \in BOOLEAN
  BY DEF SessionTypeOK, Noted, Upsets

LEMMA CmdsStay ==
  ASSUME cmds' = cmds
  PROVE  \A K : Those(K)' = Those(K) /\ LastOne(K)' = LastOne(K)
  BY DEF Those, LastOne

LEMMA NoCmds ==
  ASSUME cmds = <<>>
  PROVE  \A K : Those(K) = {} /\ LastOne(K) = {}
  BY DEF Those, LastOne

\* Placing and showing a window.
LEMMA PlacedWindow ==
  ASSUME SessionTypeOK, NEW w, NEW b \in 0..MaxLayouts, Placed(w, b)
  PROVE  /\ place' \in [Windows -> 0..Anywhere]
         /\ \A v \in Windows \ {w} : place'[v] = place[v]
         /\ w \in wins => place'[w] = b
         /\ w \notin wins => place' = place
         /\ \A v \in Windows : place[v] # 0 /\ b # 0 => place'[v] # 0
<1>1. place \in [Windows -> 0..Anywhere] /\ b \in 0..Anywhere /\ wins \subseteq Windows
  BY DEF SessionTypeOK, Anywhere
<1>2. CASE w \in wins
  <2>1. place' = [place EXCEPT ![w] = b]
    BY <1>2 DEF Placed
  <2>2. QED  BY <1>1, <1>2, <2>1
<1>3. CASE w \notin wins
  <2>1. place' = place
    BY <1>3 DEF Placed, placeVars
  <2>2. QED  BY <1>1, <1>3, <2>1
<1>4. QED  BY <1>2, <1>3

LEMMA ShownWindow ==
  ASSUME SessionTypeOK, NEW w
  PROVE  /\ Attached(w) \in [Windows -> BOOLEAN]
         /\ \A v \in Windows \ {w} : Attached(w)[v] = vis[v]
         /\ w \in wins => Attached(w)[w] = TRUE
         /\ \A v \in Windows : Attached(w)[v] => v \in wins
  BY DEF SessionTypeOK, Attached

LEMMA RdpStarts ==
  ASSUME RdpInit
  PROVE  RdpInv
<1> USE DEF RdpInit
<1>1. SessionTypeOK
  <2>1. cmds \in Seq([kind : {"show", "hide", "bounds", "disconnect"}, bounds : 0..MaxLayouts])
        /\ Len(cmds) <= MaxCmds + 1
    OBVIOUS
  <2>2. place \in [Windows -> 0..Anywhere] /\ vis \in [Windows -> BOOLEAN]
        /\ \A w \in Windows : ~vis[w]
    BY DEF Unopened, Anywhere
  <2>3. layout \in 1..MaxLayouts /\ asked \in 1..MaxLayouts /\ hwnd \in 0..MaxWindows
        /\ found \in 0..MaxWindows /\ lastBounds \in 0..MaxLayouts
    BY DEF NoWindow
  <2>4. QED  BY <2>1, <2>2, <2>3 DEF SessionTypeOK
<1>2. cmds = <<>> /\ \A K : Those(K) = {} /\ LastOne(K) = {}
  BY NoCmds
<1>3. Stages
  BY <1>2 DEF Stages
<1>4. Opened
  BY <1>2 DEF Opened
<1>5. Calm
  BY <1>2 DEF Calm, ShownAsTab, PlacedAsPanel, Embedding
<1>6. QED  BY <1>1, <1>3, <1>4, <1>5 DEF RdpInv

LEMMA ConnectStep ==
  ASSUME RdpInv, Connect
  PROVE  RdpInv'
<1>1. /\ stage = "start" /\ view = "mounted" /\ asked' = layout
      /\ (stage' = "waiting" /\ proc' = "running") \/ (stage' = "failed" /\ proc' = proc)
      /\ view' = view /\ visible' = visible /\ layout' = layout /\ dirty' = dirty /\ idRef' = idRef
      /\ cmds' = cmds /\ wins' = wins /\ vis' = vis /\ place' = place
      /\ session' = session /\ hwnd' = hwnd /\ lastBounds' = lastBounds
      /\ watch' = watch /\ found' = found /\ stray' = stray /\ Noted
  BY DEF Connect, viewVars, placeVars, sessVars
<1>2. SessionTypeOK /\ Stages /\ Opened /\ Calm
  BY DEF RdpInv
<1>3. /\ proc = "none" /\ cmds = <<>> /\ ~idRef /\ session = "none" /\ watch = "none" /\ wins = {}
  BY <1>1, <1>2 DEF Stages, SessionTypeOK
<1>4. SessionTypeOK'
  BY <1>1, <1>2, <1>3, NotedType DEF SessionTypeOK, Windows, Anywhere
<1>5. \A K : Those(K)' = Those(K) /\ LastOne(K)' = LastOne(K)
  BY <1>1, CmdsStay
<1>6. Stages'
  BY <1>1, <1>2, <1>3, <1>5 DEF Stages
<1>7. Opened'
  BY <1>1, <1>2, <1>3, <1>5 DEF Opened, WasOpened, Windows, Unopened
<1>8. Calm'
  BY <1>1, <1>3 DEF Calm, ShownAsTab, PlacedAsPanel, Embedding
<1>9. QED  BY <1>4, <1>6, <1>7, <1>8 DEF RdpInv

LEMMA FindWindowStep ==
  ASSUME RdpInv, FindWindow
  PROVE  RdpInv'
<1>1. /\ stage = "waiting" /\ view # "closed" /\ asked' = asked
      /\ view' = view /\ visible' = visible /\ layout' = layout /\ dirty' = dirty /\ idRef' = idRef
      /\ cmds' = cmds /\ place' = place
      /\ session' = session /\ hwnd' = hwnd /\ lastBounds' = lastBounds
      /\ watch' = watch /\ stray' = stray /\ Noted
  BY DEF FindWindow, viewVars, placeVars, sessVars
<1>2. SessionTypeOK /\ Stages /\ Opened /\ Calm
  BY DEF RdpInv
<1>3. /\ cmds = <<>> /\ ~idRef /\ session = "none" /\ watch = "none"
  BY <1>1, <1>2 DEF Stages
<1>4. \A K : Those(K)' = Those(K) /\ LastOne(K)' = LastOne(K)
  BY <1>1, CmdsStay
<1>5. CASE /\ Largest # NoWindow /\ stage' = "found" /\ found' = Largest
           /\ UNCHANGED <<proc, wins, vis>>
  <2>1. Largest \in wins /\ wins # {} /\ Largest \in Windows
    BY <1>2, <1>5, LargestIsOne DEF SessionTypeOK
  <2>2. SessionTypeOK'
    <3>1. found' \in 0..MaxWindows
      BY <1>5, <2>1 DEF Windows
    <3>2. QED  BY <1>1, <1>2, <1>5, <3>1, NotedType DEF SessionTypeOK, Windows, Anywhere
  <2>3. Stages'
    BY <1>1, <1>2, <1>3, <1>4, <1>5 DEF Stages
  <2>4. Opened'
    BY <1>1, <1>2, <1>3, <1>4, <1>5, <2>1 DEF Opened, WasOpened, Windows, Unopened
  <2>5. Calm'
    <3> SUFFICES ASSUME view' = "mounted", ~upset'
                 PROVE  ShownAsTab' /\ PlacedAsPanel' /\ Embedding'
      BY DEF Calm
    <3>1. ~upset /\ Embedding
      BY <1>1, <1>2, NotUpset DEF Calm
    <3>2. QED  BY <1>1, <1>3, <1>5, <2>1, <3>1 DEF ShownAsTab, PlacedAsPanel, Embedding
  <2>6. QED  BY <2>2, <2>3, <2>4, <2>5 DEF RdpInv
<1>6. CASE /\ stage' = "failed" /\ proc' = "ended" /\ wins' = {}
           /\ vis' = [w \in Windows |-> FALSE] /\ UNCHANGED found
  <2>1. SessionTypeOK'
    BY <1>1, <1>2, <1>6, NotedType DEF SessionTypeOK, Windows, Anywhere
  <2>2. Stages'
    BY <1>1, <1>2, <1>3, <1>4, <1>6 DEF Stages
  <2>3. Opened'
    BY <1>1, <1>2, <1>3, <1>4, <1>6 DEF Opened, WasOpened, Windows, Unopened
  <2>4. Calm'
    <3> SUFFICES ASSUME view' = "mounted", ~upset'
                 PROVE  ShownAsTab' /\ PlacedAsPanel' /\ Embedding'
      BY DEF Calm
    <3>1. ~upset /\ Embedding
      BY <1>1, <1>2, NotUpset DEF Calm
    <3>2. QED  BY <1>1, <1>3, <1>6, <3>1 DEF ShownAsTab, PlacedAsPanel, Embedding
  <2>5. QED  BY <2>1, <2>2, <2>3, <2>4 DEF RdpInv
<1>7. QED  BY <1>5, <1>6 DEF FindWindow, Windows

LEMMA EmbedStep ==
  ASSUME RdpInv, Embed
  PROVE  RdpInv'
<1>1. /\ stage = "found" /\ view # "closed" /\ asked' = asked
      /\ view' = view /\ visible' = visible /\ layout' = layout /\ dirty' = dirty /\ idRef' = idRef
      /\ cmds' = cmds /\ proc' = proc /\ wins' = wins /\ found' = found /\ Noted
  BY DEF Embed, viewVars
<1>2. SessionTypeOK /\ Stages /\ Opened /\ Calm
  BY DEF RdpInv
<1>3. /\ cmds = <<>> /\ ~idRef /\ session = "none" /\ watch = "none" /\ WasOpened(found)
      /\ found \in Windows
  BY <1>1, <1>2 DEF Stages, Opened, WasOpened
<1>4. \A K : Those(K)' = Those(K) /\ LastOne(K)' = LastOne(K)
  BY <1>1, CmdsStay
<1>5. asked \in 1..MaxLayouts /\ asked \in 0..MaxLayouts /\ asked # 0
  BY <1>2 DEF SessionTypeOK
<1>6. /\ Attached(found) \in [Windows -> BOOLEAN]
      /\ \A v \in Windows : Attached(found)[v] => v \in wins
  BY <1>2, ShownWindow
<1>7. CASE /\ found \in wins
           /\ vis' = Attached(found) /\ Placed(found, asked)
           /\ session' = "open" /\ hwnd' = found /\ lastBounds' = asked
           /\ watch' = "polls" /\ stage' = "answer" /\ UNCHANGED stray
  <2>1. /\ place' \in [Windows -> 0..Anywhere] /\ place'[found] = asked
        /\ \A v \in Windows \ {found} : place'[v] = place[v]
    BY <1>2, <1>5, <1>7, PlacedWindow
  <2>2. SessionTypeOK'
    <3>1. hwnd' \in 0..MaxWindows
      BY <1>3, <1>7 DEF Windows
    <3>2. upset' \in BOOLEAN
      BY <1>1, <1>2, NotedType
    <3>3. \A w \in Windows' : vis'[w] => w \in wins'
      BY <1>1, <1>6, <1>7 DEF Windows
    <3>4. QED  BY <1>1, <1>2, <1>3, <1>5, <1>6, <1>7, <2>1, <3>1, <3>2, <3>3
                  DEF SessionTypeOK, Windows, Anywhere
  <2>3. Stages'
    BY <1>1, <1>2, <1>3, <1>4, <1>7 DEF Stages
  <2>4. \A w : WasOpened(w) => WasOpened(w)'
    BY <1>5, <2>1 DEF WasOpened, Windows, Unopened
  <2>5. Opened'
    BY <1>1, <1>2, <1>3, <1>4, <1>5, <1>7, <2>4 DEF Opened
  <2>6. Calm'
    <3> SUFFICES ASSUME view' = "mounted", ~upset'
                 PROVE  ShownAsTab' /\ PlacedAsPanel' /\ Embedding'
      BY DEF Calm
    <3>1. ~upset /\ Embedding
      BY <1>1, <1>2, NotUpset DEF Calm
    <3>2. QED  BY <1>1, <1>3, <1>7, <2>1, <3>1 DEF ShownAsTab, PlacedAsPanel, Embedding
  <2>7. QED  BY <2>2, <2>3, <2>5, <2>6 DEF RdpInv
<1>8. CASE /\ vis' \in {vis, Attached(found)}
           /\ stage' = "failed" /\ stray' = TRUE
           /\ session' = session /\ hwnd' = hwnd /\ lastBounds' = lastBounds /\ watch' = watch
           /\ place' = place
  <2>1. SessionTypeOK'
    <3>1. vis' \in [Windows -> BOOLEAN] /\ \A w \in Windows : vis'[w] => w \in wins
      BY <1>2, <1>6, <1>8 DEF SessionTypeOK
    <3>2. upset' \in BOOLEAN
      BY <1>1, <1>2, NotedType
    <3>3. QED  BY <1>1, <1>2, <1>8, <3>1, <3>2 DEF SessionTypeOK, Windows, Anywhere
  <2>2. Stages'
    BY <1>1, <1>2, <1>3, <1>4, <1>8 DEF Stages
  <2>3. Opened'
    BY <1>1, <1>2, <1>3, <1>4, <1>8 DEF Opened, WasOpened, Windows, Unopened
  <2>4. Calm'
    <3> SUFFICES ASSUME view' = "mounted", ~upset'
                 PROVE  ShownAsTab' /\ PlacedAsPanel' /\ Embedding'
      BY DEF Calm
    <3>1. ~upset /\ Embedding
      BY <1>1, <1>2, NotUpset DEF Calm
    <3>2. QED  BY <1>1, <1>3, <1>8, <3>1 DEF ShownAsTab, PlacedAsPanel, Embedding
  <2>5. QED  BY <2>1, <2>2, <2>3, <2>4 DEF RdpInv
<1>9. QED  BY <1>7, <1>8 DEF Embed, sessVars, placeVars

\* What a command that is joined leaves as it was.
LEMMA ViewStep ==
  ASSUME RdpInv, Noted, view # "closed",
         proc' = proc, wins' = wins, vis' = vis, place' = place,
         session' = session, hwnd' = hwnd, lastBounds' = lastBounds,
         watch' = watch, found' = found, asked' = asked, stray' = stray,
         view' \in {"mounted", "gone"}, visible' \in BOOLEAN, layout' \in 1..MaxLayouts,
         dirty' \in BOOLEAN, idRef' \in BOOLEAN,
         stage' \in {"start", "waiting", "found", "answer", "done", "failed"},
         cmds' \in Seq(Cmds), Len(cmds') <= MaxCmds + 1, Stages',
         stage' = "found" => stage = "found",
         \A k \in Those(Places)' : cmds'[k].bounds # 0
  PROVE  SessionTypeOK' /\ Opened'
<1>1. SessionTypeOK /\ Opened
  BY DEF RdpInv
<1>2. upset' \in BOOLEAN
  BY <1>1, NotedType
<1>3. QED  BY <1>1, <1>2 DEF SessionTypeOK, Opened, WasOpened, Windows, Anywhere, Unopened,
                             Cmds

LEMMA AnswerStep ==
  ASSUME RdpInv, Answer
  PROVE  RdpInv'
<1> DEFINE c == IF view = "gone" THEN Cmd("disconnect", 0) ELSE Cmd("show", asked)
<1>1. /\ stage = "answer" /\ view # "closed" /\ stage' = "done" /\ idRef' = (view = "mounted")
      /\ cmds' = Append(cmds, c) /\ asked' = asked
      /\ view' = view /\ visible' = visible /\ layout' = layout /\ dirty' = dirty
      /\ proc' = proc /\ wins' = wins /\ vis' = vis /\ place' = place
      /\ session' = session /\ hwnd' = hwnd /\ lastBounds' = lastBounds
      /\ watch' = watch /\ found' = found /\ stray' = stray /\ Noted
  BY DEF Answer, Answered, procVars, placeVars, sessVars
<1>2. SessionTypeOK /\ Stages /\ Opened /\ Calm /\ cmds \in Seq(Cmds)
  BY DEF RdpInv, SessionTypeOK, Cmds
<1>3. cmds = <<>> /\ ~idRef /\ \A K : Those(K) = {}
  BY <1>1, <1>2, NoCmds DEF Stages
<1>4. /\ c \in Cmds /\ asked \in 1..MaxLayouts
      /\ view = "gone" => c.kind = "disconnect"
      /\ view # "gone" => c.kind = "show" /\ c.bounds = asked
      /\ c.kind \in Places => c.bounds # 0
  BY <1>2 DEF SessionTypeOK, Cmds, Cmd, Places
<1> HIDE DEF c
<1>5. /\ cmds' \in Seq(Cmds) /\ Len(cmds') = Len(cmds) + 1 /\ cmds' # <<>>
      /\ \A K : \A k \in Those(K)' : \/ c.kind \in K /\ cmds'[k] = c
                                     \/ k \in Those(K) /\ cmds'[k] = cmds[k]
      /\ \A K : c.kind \in K => Those(K)' # {} /\ \A k \in LastOne(K)' : cmds'[k] = c
      /\ \A K : c.kind \notin K => Those(K)' = Those(K)
  BY <1>1, <1>2, <1>4, JoinedCmd
<1>6. Len(cmds') = 1 /\ 1 <= MaxCmds
  BY <1>3, <1>5
<1>7. view \in {"mounted", "gone"}
  BY <1>1, <1>2 DEF SessionTypeOK
<1>8. Stages'
  BY <1>1, <1>2, <1>3, <1>4, <1>5, <1>6, <1>7 DEF Stages
<1>9. SessionTypeOK' /\ Opened'
  <2>1. /\ visible' \in BOOLEAN /\ layout' \in 1..MaxLayouts /\ dirty' \in BOOLEAN
        /\ idRef' \in BOOLEAN
    BY <1>1, <1>2 DEF SessionTypeOK
  <2>2. \A k \in Those(Places)' : cmds'[k].bounds # 0
    BY <1>3, <1>4, <1>5
  <2>3. Len(cmds') <= MaxCmds + 1
    BY <1>6
  <2>4. QED  BY <1>1, <1>5, <1>7, <1>8, <2>1, <2>2, <2>3, ViewStep
<1>10. Calm'
  <2> SUFFICES ASSUME view' = "mounted", ~upset'
               PROVE  ShownAsTab' /\ PlacedAsPanel' /\ Embedding'
    BY DEF Calm
  <2>1. ~upset /\ Embedding /\ PlacedAsPanel /\ (watch \in {"attach", "store"} => cmds' = <<>>)
    BY <1>1, <1>2, NotUpset DEF Calm
  <2>2. asked = layout /\ visible /\ c.kind = "show" /\ c.bounds = asked
    BY <1>1, <1>3, <1>4, <2>1 DEF Embedding
  <2>3. ShownAsTab'
    BY <1>1, <1>5, <2>2 DEF ShownAsTab, Shows
  <2>4. PlacedAsPanel'
    BY <1>1, <1>5, <2>1, <2>2 DEF PlacedAsPanel, Places
  <2>5. Embedding'
    BY <1>1, <1>5, <2>1 DEF Embedding
  <2>6. QED  BY <2>3, <2>4, <2>5
<1>11. QED  BY <1>8, <1>9, <1>10 DEF RdpInv

LEMMA ToggleStep ==
  ASSUME RdpInv, Toggle
  PROVE  RdpInv'
<1> DEFINE c == IF visible THEN Cmd("hide", 0) ELSE Cmd("show", layout)
<1>1. /\ view = "mounted" /\ Len(cmds) < MaxCmds /\ visible' = ~visible /\ dirty' = ~visible
      /\ cmds' = IF idRef THEN Append(cmds, c) ELSE cmds
      /\ view' = view /\ layout' = layout /\ idRef' = idRef /\ stage' = stage /\ asked' = asked
      /\ proc' = proc /\ wins' = wins /\ vis' = vis /\ place' = place
      /\ session' = session /\ hwnd' = hwnd /\ lastBounds' = lastBounds
      /\ watch' = watch /\ found' = found /\ stray' = stray /\ Noted
  BY DEF Toggle, Invoke, OnLeave, procVars, placeVars, sessVars
<1>2. SessionTypeOK /\ Stages /\ Opened /\ Calm /\ cmds \in Seq(Cmds)
  BY DEF RdpInv, SessionTypeOK, Cmds
<1>3. /\ c \in Cmds /\ c.kind \in {"show", "hide"} /\ (c.kind = "show" <=> ~visible)
      /\ c.kind \in Places => c.bounds # 0
  BY <1>2 DEF SessionTypeOK, Cmds, Cmd, Places
<1> HIDE DEF c
<1>4. /\ Len(cmds) \in Nat /\ view' \in {"mounted", "gone"} /\ visible' \in BOOLEAN
      /\ layout' \in 1..MaxLayouts /\ dirty' \in BOOLEAN /\ idRef' \in BOOLEAN
      /\ stage' \in {"start", "waiting", "found", "answer", "done", "failed"}
  <2>1. Len(cmds) \in Nat
    BY <1>2
  <2>2. visible \in BOOLEAN /\ layout \in 1..MaxLayouts /\ idRef \in BOOLEAN
        /\ stage \in {"start", "waiting", "found", "answer", "done", "failed"}
    BY <1>2 DEF SessionTypeOK
  <2>3. QED  BY <1>1, <2>1, <2>2
<1>5. CASE ~idRef
  <2>1. cmds' = cmds /\ \A K : Those(K)' = Those(K) /\ LastOne(K)' = LastOne(K)
    BY <1>1, <1>5, CmdsStay
  <2>2. Stages'
    BY <1>1, <1>2, <1>5, <2>1 DEF Stages
  <2>3. SessionTypeOK' /\ Opened'
    <3>1. /\ cmds' \in Seq(Cmds) /\ Len(cmds') <= MaxCmds + 1
          /\ \A k \in Those(Places)' : cmds'[k].bounds # 0
      BY <1>2, <2>1 DEF SessionTypeOK, Opened
    <3>2. QED  BY <1>1, <1>4, <2>2, <3>1, ViewStep
  <2>4. Calm'
    <3> SUFFICES ASSUME view' = "mounted", ~upset'
                 PROVE  ShownAsTab' /\ PlacedAsPanel' /\ Embedding'
      BY DEF Calm
    <3>1. /\ ~upset /\ Embedding /\ PlacedAsPanel /\ stage = "start"
          /\ watch \in {"attach", "store"} => visible' /\ cmds' = <<>>
      BY <1>1, <1>2, <1>5, NotUpset DEF Calm, SessionTypeOK
    <3>2. QED  BY <1>1, <1>5, <3>1 DEF ShownAsTab, PlacedAsPanel, Embedding
  <2>5. QED  BY <2>2, <2>3, <2>4 DEF RdpInv
<1>6. CASE idRef
  <2>1. cmds' = Append(cmds, c) /\ stage = "done"
    BY <1>1, <1>2, <1>6 DEF Stages
  <2>2. /\ cmds' \in Seq(Cmds) /\ Len(cmds') = Len(cmds) + 1 /\ cmds' # <<>>
        /\ \A K : \A k \in Those(K)' : \/ c.kind \in K /\ cmds'[k] = c
                                       \/ k \in Those(K) /\ cmds'[k] = cmds[k]
        /\ \A K : c.kind \in K => Those(K)' # {} /\ \A k \in LastOne(K)' : cmds'[k] = c
        /\ \A K : c.kind \notin K => Those(K)' = Those(K)
    BY <1>2, <1>3, <2>1, JoinedCmd
  <2>3. Len(cmds') <= MaxCmds /\ Len(cmds') <= MaxCmds + 1
    BY <1>1, <1>4, <2>2
  <2>4. Stages'
    BY <1>1, <1>2, <1>3, <1>6, <2>1, <2>2, <2>3 DEF Stages
  <2>5. SessionTypeOK' /\ Opened'
    <3>1. \A k \in Those(Places)' : cmds'[k].bounds # 0
      BY <1>2, <1>3, <2>2 DEF Opened
    <3>2. QED  BY <1>1, <1>4, <2>2, <2>3, <2>4, <3>1, ViewStep
  <2>6. Calm'
    <3> SUFFICES ASSUME view' = "mounted", ~upset'
                 PROVE  ShownAsTab' /\ PlacedAsPanel' /\ Embedding'
      BY DEF Calm
    <3>1. /\ ~upset /\ Embedding /\ PlacedAsPanel
          /\ watch \in {"attach", "store"} => cmds' = <<>>
      BY <1>1, <1>2, NotUpset DEF Calm
    <3>2. ShownAsTab'
      BY <1>1, <1>3, <1>4, <2>2 DEF ShownAsTab, Shows
    <3>3. PlacedAsPanel'
      BY <1>1, <3>1 DEF PlacedAsPanel
    <3>4. Embedding'
      BY <1>1, <1>6, <2>2, <3>1 DEF Embedding
    <3>5. QED  BY <3>2, <3>3, <3>4
  <2>7. QED  BY <2>4, <2>5, <2>6 DEF RdpInv
<1>7. QED  BY <1>5, <1>6

LEMMA ResizeStep ==
  ASSUME RdpInv, Resize
  PROVE  RdpInv'
<1>1. /\ view = "mounted" /\ layout < MaxLayouts /\ layout' = layout + 1 /\ dirty' = visible
      /\ view' = view /\ visible' = visible /\ idRef' = idRef /\ cmds' = cmds
      /\ stage' = stage /\ asked' = asked
      /\ proc' = proc /\ wins' = wins /\ vis' = vis /\ place' = place
      /\ session' = session /\ hwnd' = hwnd /\ lastBounds' = lastBounds
      /\ watch' = watch /\ found' = found /\ stray' = stray /\ Noted
  BY DEF Resize, procVars, placeVars, sessVars
<1>2. SessionTypeOK /\ Stages /\ Opened /\ Calm
  BY DEF RdpInv
<1>3. \A K : Those(K)' = Those(K) /\ LastOne(K)' = LastOne(K)
  BY <1>1, CmdsStay
<1>4. Stages'
  BY <1>1, <1>2, <1>3 DEF Stages
<1>5. SessionTypeOK' /\ Opened'
  <2>1. layout' \in 1..MaxLayouts
    BY <1>1, <1>2 DEF SessionTypeOK
  <2>2. /\ view' \in {"mounted", "gone"} /\ visible' \in BOOLEAN /\ dirty' \in BOOLEAN
        /\ idRef' \in BOOLEAN /\ cmds' \in Seq(Cmds) /\ Len(cmds') <= MaxCmds + 1
        /\ stage' \in {"start", "waiting", "found", "answer", "done", "failed"}
        /\ \A k \in Those(Places)' : cmds'[k].bounds # 0
    BY <1>1, <1>2, <1>3 DEF SessionTypeOK, Opened, Cmds
  <2>3. QED  BY <1>1, <1>4, <2>1, <2>2, ViewStep
<1>6. Calm'
  <2> SUFFICES ASSUME view' = "mounted", ~upset'
               PROVE  ShownAsTab' /\ PlacedAsPanel' /\ Embedding'
    BY DEF Calm
  <2>1. /\ ~upset /\ ShownAsTab /\ PlacedAsPanel /\ Embedding
        /\ ~idRef /\ stage # "start" => layout' = layout
        /\ watch \in {"attach", "store"} => visible' /\ cmds' = <<>>
    BY <1>1, <1>2, NotUpset DEF Calm
  <2>2. ShownAsTab' /\ PlacedAsPanel'
    BY <1>1, <1>3, <2>1 DEF ShownAsTab, PlacedAsPanel
  <2>3. Embedding'
    BY <1>1, <2>1 DEF Embedding
  <2>4. QED  BY <2>2, <2>3
<1>7. QED  BY <1>4, <1>5, <1>6 DEF RdpInv

LEMMA SyncStep ==
  ASSUME RdpInv, Sync
  PROVE  RdpInv'
<1> DEFINE c == Cmd("bounds", layout)
<1>1. /\ view = "mounted" /\ Len(cmds) < MaxCmds /\ dirty' = FALSE
      /\ cmds' = IF idRef THEN Append(cmds, c) ELSE cmds
      /\ view' = view /\ visible' = visible /\ layout' = layout /\ idRef' = idRef
      /\ stage' = stage /\ asked' = asked
      /\ proc' = proc /\ wins' = wins /\ vis' = vis /\ place' = place
      /\ session' = session /\ hwnd' = hwnd /\ lastBounds' = lastBounds
      /\ watch' = watch /\ found' = found /\ stray' = stray /\ Noted
  BY DEF Sync, Invoke, procVars, placeVars, sessVars
<1>2. SessionTypeOK /\ Stages /\ Opened /\ Calm /\ cmds \in Seq(Cmds)
  BY DEF RdpInv, SessionTypeOK, Cmds
<1>3. c \in Cmds /\ c.kind = "bounds" /\ c.bounds = layout /\ c.bounds # 0
  BY <1>2 DEF SessionTypeOK, Cmds, Cmd
<1> HIDE DEF c
<1>4. /\ Len(cmds) \in Nat /\ view' \in {"mounted", "gone"} /\ visible' \in BOOLEAN
      /\ layout' \in 1..MaxLayouts /\ dirty' \in BOOLEAN /\ idRef' \in BOOLEAN
      /\ stage' \in {"start", "waiting", "found", "answer", "done", "failed"}
  <2>1. Len(cmds) \in Nat
    BY <1>2
  <2>2. visible \in BOOLEAN /\ layout \in 1..MaxLayouts /\ idRef \in BOOLEAN
        /\ stage \in {"start", "waiting", "found", "answer", "done", "failed"}
    BY <1>2 DEF SessionTypeOK
  <2>3. QED  BY <1>1, <2>1, <2>2
<1>5. CASE ~idRef
  <2>1. cmds' = cmds /\ \A K : Those(K)' = Those(K) /\ LastOne(K)' = LastOne(K)
    BY <1>1, <1>5, CmdsStay
  <2>2. Stages'
    BY <1>1, <1>2, <1>5, <2>1 DEF Stages
  <2>3. SessionTypeOK' /\ Opened'
    <3>1. /\ cmds' \in Seq(Cmds) /\ Len(cmds') <= MaxCmds + 1
          /\ \A k \in Those(Places)' : cmds'[k].bounds # 0
      BY <1>2, <2>1 DEF SessionTypeOK, Opened
    <3>2. QED  BY <1>1, <1>4, <2>2, <3>1, ViewStep
  <2>4. Calm'
    <3> SUFFICES ASSUME view' = "mounted", ~upset'
                 PROVE  ShownAsTab' /\ PlacedAsPanel' /\ Embedding'
      BY DEF Calm
    <3>1. ~upset /\ Embedding /\ PlacedAsPanel
      BY <1>1, <1>2, NotUpset DEF Calm
    <3>2. QED  BY <1>1, <1>5, <2>1, <3>1 DEF ShownAsTab, PlacedAsPanel, Embedding
  <2>5. QED  BY <2>2, <2>3, <2>4 DEF RdpInv
<1>6. CASE idRef
  <2>1. cmds' = Append(cmds, c) /\ stage = "done"
    BY <1>1, <1>2, <1>6 DEF Stages
  <2>2. /\ cmds' \in Seq(Cmds) /\ Len(cmds') = Len(cmds) + 1 /\ cmds' # <<>>
        /\ \A K : \A k \in Those(K)' : \/ c.kind \in K /\ cmds'[k] = c
                                       \/ k \in Those(K) /\ cmds'[k] = cmds[k]
        /\ \A K : c.kind \in K => Those(K)' # {} /\ \A k \in LastOne(K)' : cmds'[k] = c
        /\ \A K : c.kind \notin K => /\ Those(K)' = Those(K)
                                     /\ \A k \in LastOne(K)' : k \in LastOne(K) /\ cmds'[k] = cmds[k]
    BY <1>2, <1>3, <2>1, JoinedCmd
  <2>3. Len(cmds') <= MaxCmds /\ Len(cmds') <= MaxCmds + 1
    BY <1>1, <1>4, <2>2
  <2>4. Stages'
    BY <1>1, <1>2, <1>3, <1>6, <2>1, <2>2, <2>3 DEF Stages
  <2>5. SessionTypeOK' /\ Opened'
    <3>1. \A k \in Those(Places)' : cmds'[k].bounds # 0
      BY <1>2, <1>3, <2>2 DEF Opened
    <3>2. QED  BY <1>1, <1>4, <2>2, <2>3, <2>4, <3>1, ViewStep
  <2>6. Calm'
    <3> SUFFICES ASSUME view' = "mounted", ~upset'
                 PROVE  ShownAsTab' /\ PlacedAsPanel' /\ Embedding'
      BY DEF Calm
    <3>1. /\ ~upset /\ Embedding /\ PlacedAsPanel /\ ShownAsTab
          /\ watch \in {"attach", "store"} => cmds' = <<>>
      BY <1>1, <1>2, NotUpset DEF Calm
    <3>2. ShownAsTab'
      <4>1. c.kind \notin Shows
        BY <1>3 DEF Shows
      <4>2. QED  BY <1>1, <2>2, <3>1, <4>1 DEF ShownAsTab
    <3>3. PlacedAsPanel'
      <4>1. c.kind \in Places
        BY <1>3 DEF Places
      <4>2. QED  BY <1>1, <1>3, <2>2, <3>1, <4>1 DEF PlacedAsPanel
    <3>4. Embedding'
      BY <1>1, <1>6, <2>2, <3>1 DEF Embedding
    <3>5. QED  BY <3>2, <3>3, <3>4
  <2>7. QED  BY <2>4, <2>5, <2>6 DEF RdpInv
<1>7. QED  BY <1>5, <1>6

LEMMA UnmountStep ==
  ASSUME RdpInv, Unmount
  PROVE  RdpInv'
<1> DEFINE c == Cmd("disconnect", 0)
<1>1. /\ view = "mounted" /\ view' = "gone" /\ dirty' = FALSE
      /\ cmds' = IF idRef THEN Append(cmds, c) ELSE cmds
      /\ visible' = visible /\ layout' = layout /\ idRef' = idRef
      /\ stage' = stage /\ asked' = asked
      /\ proc' = proc /\ wins' = wins /\ vis' = vis /\ place' = place
      /\ session' = session /\ hwnd' = hwnd /\ lastBounds' = lastBounds
      /\ watch' = watch /\ found' = found /\ stray' = stray /\ Noted
  BY DEF Unmount, Invoke, procVars, placeVars, sessVars
<1>2. SessionTypeOK /\ Stages /\ Opened /\ cmds \in Seq(Cmds)
  BY DEF RdpInv, SessionTypeOK, Cmds
<1>3. c \in Cmds /\ c.kind = "disconnect"
  BY DEF Cmds, Cmd
<1> HIDE DEF c
<1>4. /\ cmds' \in Seq(Cmds) /\ Len(cmds') <= MaxCmds + 1 /\ (~idRef => cmds' = cmds)
      /\ \A k \in Those(Places)' : cmds'[k].bounds # 0
  <2>1. CASE ~idRef
    <3>1. cmds' = cmds
      BY <1>1, <2>1
    <3>2. QED  BY <1>2, <2>1, <3>1, CmdsStay DEF SessionTypeOK, Opened
  <2>2. CASE idRef
    <3>1. /\ cmds' \in Seq(Cmds) /\ Len(cmds') = Len(cmds) + 1
          /\ \A k \in Those(Places)' : \/ c.kind \in Places /\ cmds'[k] = c
                                       \/ k \in Those(Places) /\ cmds'[k] = cmds[k]
      BY <1>1, <1>2, <1>3, <2>2, JoinedCmd
    <3>2. Len(cmds) <= MaxCmds /\ Len(cmds) \in Nat
      BY <1>1, <1>2 DEF Stages
    <3>3. QED  BY <1>2, <1>3, <2>2, <3>1, <3>2 DEF Opened, Places
  <2>3. QED  BY <2>1, <2>2
<1>5. Stages'
  BY <1>1, <1>2, <1>4 DEF Stages
<1>6. SessionTypeOK' /\ Opened'
  <2>1. /\ visible' \in BOOLEAN /\ dirty' \in BOOLEAN
        /\ idRef' \in BOOLEAN /\ layout' \in 1..MaxLayouts
        /\ stage' \in {"start", "waiting", "found", "answer", "done", "failed"}
    BY <1>1, <1>2 DEF SessionTypeOK
  <2>2. QED  BY <1>1, <1>4, <1>5, <2>1, ViewStep
<1>7. Calm'
  BY <1>1 DEF Calm
<1>8. QED  BY <1>5, <1>6, <1>7 DEF RdpInv

LEMMA ExitStep ==
  ASSUME RdpInv, Exit
  PROVE  RdpInv'
<1>1. /\ view' = "closed" /\ watch' = "none" /\ cmds' = <<>> /\ view # "closed"
      /\ visible' = visible /\ layout' = layout /\ dirty' = dirty /\ idRef' = idRef
      /\ stage' = stage /\ asked' = asked
      /\ proc' = proc /\ wins' = wins /\ vis' = vis /\ place' = place
      /\ session' = session /\ hwnd' = hwnd /\ lastBounds' = lastBounds
      /\ found' = found /\ stray' = stray /\ Noted
  BY DEF Exit, procVars, placeVars, sessVars
<1>2. SessionTypeOK /\ Stages /\ Opened
  BY DEF RdpInv
<1>3. Those(Places)' = {}
  BY <1>1 DEF Those
<1>4. SessionTypeOK'
  <2>1. /\ cmds' \in Seq([kind : {"show", "hide", "bounds", "disconnect"}, bounds : 0..MaxLayouts])
        /\ Len(cmds') <= MaxCmds + 1
    BY <1>1
  <2>2. upset' \in BOOLEAN
    BY <1>1, <1>2, NotedType
  <2>3. QED  BY <1>1, <1>2, <2>1, <2>2 DEF SessionTypeOK, Windows, Anywhere
<1>5. Stages'
  BY <1>1, <1>2 DEF Stages
<1>6. Opened'
  BY <1>1, <1>2, <1>3 DEF Opened, WasOpened, Windows, Unopened
<1>7. QED  BY <1>1, <1>4, <1>5, <1>6 DEF Calm, RdpInv

\* What a command does to an open session.
LEMMA RunDoes ==
  ASSUME NEW c \in Cmds, session = "open", Run(c)
  PROVE  /\ hwnd' = hwnd
         /\ c.kind # "disconnect" => /\ proc' = proc /\ wins' = wins /\ session' = session
                                     /\ watch' = watch
         /\ c.kind = "bounds" => lastBounds' = c.bounds /\ Placed(hwnd, c.bounds)
                                 /\ vis' = vis
         /\ c.kind = "show" => lastBounds' = c.bounds /\ Placed(hwnd, c.bounds)
                               /\ vis' = Attached(hwnd)
         /\ c.kind = "hide" => /\ lastBounds' = lastBounds /\ place' = place
                               /\ vis' = IF hwnd \in wins THEN [vis EXCEPT ![hwnd] = FALSE] ELSE vis
         /\ c.kind = "disconnect" => /\ session' = "removed" /\ watch' = "done" /\ proc' = "ended"
                                     /\ wins' = {} /\ vis' = [w \in Windows |-> FALSE]
                                     /\ place' = place /\ lastBounds' = lastBounds
<1>1. c.kind \in {"show", "hide", "bounds", "disconnect"}
  BY DEF Cmds
<1>2. CASE c.kind = "bounds"
  BY <1>2 DEF Run
<1>3. CASE c.kind = "show"
  BY <1>3 DEF Run
<1>4. CASE c.kind = "hide"
  BY <1>4 DEF Run, placeVars, sessVars
<1>5. CASE c.kind = "disconnect"
  BY <1>5 DEF Run, Kill, ClientGone, placeVars, Windows
<1>6. QED  BY <1>1, <1>2, <1>3, <1>4, <1>5

LEMMA CommandStep ==
  ASSUME RdpInv, NEW i \in 1..(MaxCmds + 1), RunCommand(i)
  PROVE  RdpInv'
<1> DEFINE c == cmds[i]
<1>1. /\ i \in 1..Len(cmds) /\ cmds' = RemoveAt(cmds, i)
      /\ (Run(c) /\ Noted) \/ (RunFails(c) /\ upset' = TRUE)
      /\ view' = view /\ visible' = visible /\ layout' = layout /\ dirty' = dirty
      /\ idRef' = idRef /\ stage' = stage /\ asked' = asked
      /\ found' = found /\ stray' = stray
  BY DEF RunCommand, viewVars
<1>2. SessionTypeOK /\ Stages /\ Opened /\ Calm /\ cmds \in Seq(Cmds)
  BY DEF RdpInv, SessionTypeOK, Cmds
<1>3. /\ cmds' \in Seq(Cmds) /\ Len(cmds') = Len(cmds) - 1 /\ Len(cmds) \in Nat /\ cmds # <<>>
      /\ \A K : \A k \in Those(K)' : \E j \in Those(K) : cmds'[k] = cmds[j]
  BY <1>1, <1>2, OneLess
<1>4. c \in Cmds /\ (c.kind \in Places => c.bounds # 0) /\ c.bounds \in 0..MaxLayouts
      /\ (view = "mounted" => c.kind # "disconnect")
  <2>1. c \in Cmds /\ i \in DOMAIN cmds
    BY <1>1, <1>2
  <2>2. c.kind \in Places => i \in Those(Places)
    BY <2>1 DEF Those
  <2>3. c.kind = "disconnect" => i \in Those({"disconnect"})
    BY <2>1 DEF Those
  <2>4. QED  BY <1>2, <2>1, <2>2, <2>3 DEF Opened, Stages, Cmds
<1> HIDE DEF c
<1>5. stage = "done"
  BY <1>2, <1>3 DEF Stages
<1>6. Len(cmds') <= MaxCmds + 1 /\ (view = "mounted" => Len(cmds') <= MaxCmds)
  BY <1>2, <1>3 DEF SessionTypeOK, Stages
\* The types of what the command changes, and what a window keeps.
<1>7. /\ proc' \in {"none", "running", "ended"} /\ wins' \in SUBSET Windows
      /\ vis' \in [Windows -> BOOLEAN] /\ (\A w \in Windows : vis'[w] => w \in wins')
      /\ (proc' # "running" => wins' = {}) /\ (session' = "removed" => proc' = "ended")
      /\ place' \in [Windows -> 0..Anywhere]
      /\ session' \in {"none", "open", "removed"} /\ hwnd' = hwnd
      /\ lastBounds' \in 0..MaxLayouts /\ watch' \in {watch, "done"}
      /\ \A w \in Windows : place[w] # 0 => place'[w] # 0
      /\ wins' \subseteq wins /\ (lastBounds # 0 => lastBounds' # 0)
      /\ (session' = "none" <=> session = "none")
      /\ (view = "mounted" => session' = session)
  <2>0. CASE RunFails(c)
    <3>1. /\ session = "open" /\ c.kind \in Places /\ lastBounds' \in {lastBounds, c.bounds}
          /\ proc' = proc /\ wins' = wins /\ vis' = vis /\ place' = place /\ session' = session
          /\ hwnd' = hwnd /\ watch' = watch
      BY <2>0 DEF RunFails, procVars, placeVars, Places
    <3>2. lastBounds' \in 0..MaxLayouts /\ (lastBounds # 0 => lastBounds' # 0)
      BY <1>2, <1>4, <3>1 DEF SessionTypeOK
    <3>3. QED  BY <1>2, <3>1, <3>2 DEF SessionTypeOK
  <2>1. CASE Run(c) /\ session # "open"
    <3>1. /\ proc' = proc /\ wins' = wins /\ vis' = vis /\ place' = place /\ session' = session
          /\ hwnd' = hwnd /\ lastBounds' = lastBounds /\ watch' = watch
      BY <1>1, <2>1 DEF Run, procVars, placeVars, sessVars
    <3>2. QED  BY <1>2, <3>1 DEF SessionTypeOK
  <2>2. CASE Run(c) /\ session = "open" /\ c.kind = "disconnect"
    BY <1>1, <1>2, <1>4, <2>2, RunDoes DEF SessionTypeOK
  <2>3. CASE Run(c) /\ session = "open" /\ c.kind = "hide"
    <3>1. /\ vis' \in [Windows -> BOOLEAN]
          /\ \A w \in Windows : vis'[w] => vis[w]
      BY <1>1, <1>2, <1>4, <2>3, RunDoes DEF SessionTypeOK
    <3>2. QED  BY <1>1, <1>2, <1>4, <2>3, <3>1, RunDoes DEF SessionTypeOK
  <2>4. CASE Run(c) /\ session = "open" /\ c.kind \in Places
    <3>1. /\ place' \in [Windows -> 0..Anywhere]
          /\ \A w \in Windows : place[w] # 0 => place'[w] # 0
      <4>1. Placed(hwnd, c.bounds) /\ c.bounds # 0
        BY <1>4, <2>4, RunDoes DEF Places
      <4>2. QED  BY <1>2, <1>4, <4>1, PlacedWindow
    <3>2. vis' \in {vis, Attached(hwnd)}
      BY <1>1, <1>4, <2>4, RunDoes DEF Places
    <3>3. vis' \in [Windows -> BOOLEAN] /\ \A w \in Windows : vis'[w] => w \in wins
      <4>1. /\ Attached(hwnd) \in [Windows -> BOOLEAN]
            /\ \A w \in Windows : Attached(hwnd)[w] => w \in wins
        BY <1>2, ShownWindow
      <4>2. vis \in [Windows -> BOOLEAN] /\ \A w \in Windows : vis[w] => w \in wins
        BY <1>2 DEF SessionTypeOK
      <4>3. QED  BY <3>2, <4>1, <4>2
    <3>4. /\ proc' = proc /\ wins' = wins /\ session' = session /\ watch' = watch /\ hwnd' = hwnd
          /\ lastBounds' = c.bounds
      BY <1>1, <1>4, <2>4, RunDoes DEF Places
    <3>5. QED  BY <1>2, <1>4, <2>4, <3>1, <3>3, <3>4 DEF SessionTypeOK
  <2>5. QED  BY <1>1, <1>4, <2>0, <2>1, <2>2, <2>3, <2>4 DEF Cmds, Places
<1>8. SessionTypeOK'
  <2>1. upset' \in BOOLEAN
    BY <1>1, <1>2, NotedType DEF SessionTypeOK
  <2>2. hwnd' \in 0..MaxWindows /\ watch' \in {"none", "polls", "attach", "store", "done"}
    BY <1>2, <1>7 DEF SessionTypeOK
  <2>3. QED  BY <1>1, <1>2, <1>3, <1>6, <1>7, <2>1, <2>2 DEF SessionTypeOK, Cmds, Windows, Anywhere
<1>9. Stages'
  BY <1>1, <1>2, <1>3, <1>5, <1>6, <1>7 DEF Stages
<1>10. Opened'
  <2>1. \A w : WasOpened(w) => WasOpened(w)'
    BY <1>7 DEF WasOpened, Windows, Unopened
  <2>2. QED  BY <1>1, <1>2, <1>3, <1>5, <1>7, <2>1 DEF Opened
<1>11. Calm'
  <2> SUFFICES ASSUME view' = "mounted", ~upset'
               PROVE  ShownAsTab' /\ PlacedAsPanel' /\ Embedding'
    BY DEF Calm
  <2>0. Run(c) /\ Noted
    BY <1>1
  <2>1. Len(cmds') < Len(cmds)
    BY <1>3
  <2>2. /\ view = "mounted" /\ ~upset /\ ShownAsTab /\ PlacedAsPanel /\ Embedding
        /\ cmds' = Tail(cmds) /\ idRef /\ session = "open" /\ watch # "store"
    BY <1>1, <1>2, <1>3, <1>5, <2>0, <2>1, NotUpset DEF Calm, Stages, Embedding
  <2>3. c = cmds[1] /\ c.kind # "disconnect" /\ hwnd' = hwnd /\ wins' = wins /\ session' = session
        /\ watch' = watch
    BY <1>1, <1>2, <1>4, <2>0, <2>2, FirstOrSame, RunDoes DEF c
  <2>4. \A K : /\ \A k \in LastOne(K)' : k + 1 \in LastOne(K) /\ cmds'[k] = cmds[k + 1]
               /\ Those(K)' = {} => IF c.kind \in K THEN 1 \in LastOne(K) ELSE Those(K) = {}
    BY <1>2, <1>3, <2>2, <2>3, FirstDone
  <2>5. hwnd \in wins => hwnd \in Windows
    BY <1>2 DEF SessionTypeOK
  <2>6. vis \in [Windows -> BOOLEAN] /\ place \in [Windows -> 0..Anywhere]
    BY <1>2 DEF SessionTypeOK
  <2>7. ShownAsTab'
    <3>1. ASSUME NEW k \in LastOne(Shows)' PROVE cmds'[k].kind = "show" <=> visible
      <4>1. k + 1 \in LastOne(Shows) /\ cmds'[k] = cmds[k + 1]
        BY <2>4
      <4>2. \A j \in LastOne(Shows) : cmds[j].kind = "show" <=> visible
        BY <2>2 DEF ShownAsTab
      <4>3. QED  BY <4>1, <4>2
    <3>2. ASSUME Those(Shows)' = {}, hwnd \in wins PROVE vis'[hwnd] <=> visible
      <4>1. CASE c.kind = "show"
        <5>1. 1 \in LastOne(Shows) /\ visible
          BY <2>2, <2>3, <2>4, <3>2, <4>1 DEF ShownAsTab, Shows
        <5>2. vis'[hwnd] = TRUE
          BY <1>2, <1>4, <2>0, <2>2, <3>2, <4>1, RunDoes, ShownWindow
        <5>3. QED  BY <5>1, <5>2
      <4>2. CASE c.kind = "hide"
        <5>1. 1 \in LastOne(Shows) /\ ~visible
          BY <2>2, <2>3, <2>4, <3>2, <4>2 DEF ShownAsTab, Shows
        <5>2. vis'[hwnd] = FALSE
          BY <1>4, <2>0, <2>2, <2>5, <2>6, <3>2, <4>2, RunDoes
        <5>3. QED  BY <5>1, <5>2
      <4>3. CASE c.kind = "bounds"
        <5>1. Those(Shows) = {}
          BY <2>4, <3>2, <4>3 DEF Shows
        <5>2. vis' = vis
          BY <1>4, <2>0, <2>2, <4>3, RunDoes
        <5>3. QED  BY <2>2, <3>2, <5>1, <5>2 DEF ShownAsTab
      <4>4. QED  BY <1>4, <2>3, <4>1, <4>2, <4>3 DEF Cmds
    <3>3. QED  BY <1>1, <2>3, <3>1, <3>2 DEF ShownAsTab
  <2>8. PlacedAsPanel'
    <3>1. ASSUME visible, ~dirty
          PROVE  \A k \in LastOne(Places)' : cmds'[k].bounds = layout
      <4>1. \A j \in LastOne(Places) : cmds[j].bounds = layout
        BY <2>2, <3>1 DEF PlacedAsPanel
      <4>2. ASSUME NEW k \in LastOne(Places)'
            PROVE  k + 1 \in LastOne(Places) /\ cmds'[k] = cmds[k + 1]
        BY <2>4
      <4>3. QED  BY <4>1, <4>2
    <3>2. ASSUME visible, ~dirty, Those(Places)' = {} PROVE lastBounds' = layout
      <4>1. CASE c.kind \in Places
        <5>1. 1 \in LastOne(Places) /\ c.bounds = layout
          BY <2>2, <2>3, <2>4, <3>2, <4>1 DEF PlacedAsPanel
        <5>2. QED  BY <1>4, <2>0, <2>2, <4>1, <5>1, RunDoes DEF Places
      <4>2. CASE c.kind \notin Places
        <5>1. Those(Places) = {} /\ c.kind = "hide"
          BY <1>4, <2>3, <2>4, <3>2, <4>2 DEF Places, Cmds
        <5>2. QED  BY <1>4, <2>0, <2>2, <3>2, <5>1, RunDoes DEF PlacedAsPanel
      <4>3. QED  BY <4>1, <4>2
    <3>3. ASSUME hwnd \in wins PROVE place'[hwnd] = lastBounds'
      <4>1. CASE c.kind \in Places
        <5>1. Placed(hwnd, c.bounds) /\ lastBounds' = c.bounds
          BY <1>4, <2>0, <2>2, <4>1, RunDoes DEF Places
        <5>2. QED  BY <1>2, <1>4, <3>3, <5>1, PlacedWindow
      <4>2. CASE c.kind \notin Places
        <5>1. c.kind = "hide"
          BY <1>4, <2>3, <4>2 DEF Places, Cmds
        <5>2. QED  BY <1>4, <2>0, <2>2, <3>3, <5>1, RunDoes DEF PlacedAsPanel
      <4>3. QED  BY <4>1, <4>2
    <3>4. QED  BY <1>1, <2>3, <3>1, <3>2, <3>3 DEF PlacedAsPanel
  <2>9. Embedding'
    BY <1>1, <2>2, <2>3 DEF Embedding
  <2>10. QED  BY <2>7, <2>8, <2>9
<1>12. QED  BY <1>8, <1>9, <1>10, <1>11 DEF RdpInv

LEMMA PollStep ==
  ASSUME RdpInv, Poll
  PROVE  RdpInv'
<1>1. /\ watch = "polls" /\ Largest # NoWindow /\ found' = Largest /\ watch' = "attach"
      /\ view' = view /\ visible' = visible /\ layout' = layout /\ dirty' = dirty /\ idRef' = idRef
      /\ cmds' = cmds /\ stage' = stage /\ asked' = asked
      /\ proc' = proc /\ wins' = wins /\ vis' = vis /\ place' = place
      /\ session' = session /\ hwnd' = hwnd /\ lastBounds' = lastBounds
      /\ stray' = stray /\ Noted
  BY DEF Poll, viewVars, procVars, placeVars, sessVars
<1>2. SessionTypeOK /\ Stages /\ Opened /\ Calm
  BY DEF RdpInv
<1>3. found' \in wins /\ found' \in Windows /\ WasOpened(found')
  BY <1>1, <1>2, LargestIsOne DEF SessionTypeOK, Opened
<1>4. \A K : Those(K)' = Those(K) /\ LastOne(K)' = LastOne(K)
  BY <1>1, CmdsStay
<1>5. SessionTypeOK'
  <2>1. found' \in 0..MaxWindows /\ upset' \in BOOLEAN
    BY <1>1, <1>2, <1>3, NotedType DEF Windows
  <2>2. QED  BY <1>1, <1>2, <2>1 DEF SessionTypeOK, Windows, Anywhere
<1>6. Stages'
  BY <1>1, <1>2, <1>4 DEF Stages
<1>7. Opened'
  BY <1>1, <1>2, <1>3, <1>4 DEF Opened, WasOpened, Windows, Unopened
<1>8. Calm'
  <2> SUFFICES ASSUME view' = "mounted", ~upset'
               PROVE  ShownAsTab' /\ PlacedAsPanel' /\ Embedding'
    BY DEF Calm
  <2>1. ~upset /\ ShownAsTab /\ PlacedAsPanel /\ Embedding
    BY <1>1, <1>2, NotUpset DEF Calm
  <2>2. ShownAsTab' /\ PlacedAsPanel'
    BY <1>1, <1>4, <2>1 DEF ShownAsTab, PlacedAsPanel
  <2>3. Embedding'
    BY <1>1, <2>1 DEF Embedding
  <2>4. QED  BY <2>2, <2>3
<1>9. QED  BY <1>5, <1>6, <1>7, <1>8 DEF RdpInv

LEMMA ReattachStep ==
  ASSUME RdpInv, Reattach
  PROVE  RdpInv'
<1>1. /\ watch = "attach" /\ watch' = "store"
      /\ vis' = Attached(found)
      /\ (Placed(found, lastBounds) /\ Noted) \/ (place' = place /\ upset' = TRUE)
      /\ view' = view /\ visible' = visible /\ layout' = layout /\ dirty' = dirty /\ idRef' = idRef
      /\ cmds' = cmds /\ stage' = stage /\ asked' = asked /\ proc' = proc /\ wins' = wins
      /\ session' = session /\ hwnd' = hwnd /\ lastBounds' = lastBounds
      /\ found' = found /\ stray' = stray
  BY DEF Reattach, viewVars, placeVars, sessVars
<1>2. SessionTypeOK /\ Stages /\ Opened /\ Calm
  BY DEF RdpInv
<1>3. WasOpened(found) /\ session # "none" /\ lastBounds # 0 /\ lastBounds \in 0..MaxLayouts
      /\ stage \in {"answer", "done"} /\ WasOpened(hwnd)
  BY <1>1, <1>2 DEF Opened, Stages, SessionTypeOK
<1>4. \A K : Those(K)' = Those(K) /\ LastOne(K)' = LastOne(K)
  BY <1>1, CmdsStay
<1>5. /\ place' \in [Windows -> 0..Anywhere]
      /\ \A v \in Windows \ {found} : place'[v] = place[v]
      /\ place'[found] # 0
      /\ found \in wins => place'[found] = lastBounds \/ upset'
      /\ found \notin wins => place' = place
  <2>1. place \in [Windows -> 0..Anywhere] /\ found \in Windows /\ place[found] # 0
    BY <1>2, <1>3 DEF SessionTypeOK, WasOpened, Unopened
  <2>2. CASE Placed(found, lastBounds)
    BY <1>2, <1>3, <2>1, <2>2, PlacedWindow
  <2>3. QED  BY <1>1, <2>1, <2>2
<1>6. /\ vis' \in [Windows -> BOOLEAN]
      /\ \A v \in Windows \ {found} : vis'[v] = vis[v]
      /\ found \in wins => vis'[found] = TRUE
      /\ \A v \in Windows : vis'[v] => v \in wins
  BY <1>1, <1>2, ShownWindow
<1>7. SessionTypeOK'
  <2>1. upset' \in BOOLEAN
    BY <1>1, <1>2, NotedType DEF SessionTypeOK
  <2>2. QED  BY <1>1, <1>2, <1>5, <1>6, <2>1 DEF SessionTypeOK, Windows, Anywhere
<1>8. Stages'
  BY <1>1, <1>2, <1>4 DEF Stages
<1>9. Opened'
  <2>1. \A w : WasOpened(w) => WasOpened(w)'
    BY <1>5 DEF WasOpened, Unopened
  <2>2. QED  BY <1>1, <1>2, <1>3, <1>4, <2>1 DEF Opened
<1>10. Calm'
  <2> SUFFICES ASSUME view' = "mounted", ~upset'
               PROVE  ShownAsTab' /\ PlacedAsPanel' /\ Embedding'
    BY DEF Calm
  <2>1. ~upset /\ ShownAsTab /\ PlacedAsPanel /\ Embedding /\ visible /\ cmds = <<>>
        /\ view = "mounted"
    <3>1. Noted
      BY <1>1
    <3>2. QED  BY <1>1, <1>2, <3>1, NotUpset DEF Calm
  <2>2. hwnd \in Windows /\ session = "open"
    BY <1>2, <1>3, <2>1 DEF WasOpened, Stages
  <2>3. ShownAsTab'
    BY <1>1, <1>4, <1>6, <2>1, <2>2 DEF ShownAsTab
  <2>4. PlacedAsPanel'
    BY <1>1, <1>4, <1>5, <2>1, <2>2 DEF PlacedAsPanel
  <2>5. Embedding'
    BY <1>1, <1>5, <1>6, <2>1 DEF Embedding
  <2>6. QED  BY <2>3, <2>4, <2>5
<1>11. QED  BY <1>7, <1>8, <1>9, <1>10 DEF RdpInv

LEMMA StoreStep ==
  ASSUME RdpInv, Store
  PROVE  RdpInv'
<1>1. /\ watch = "store" /\ hwnd' = found /\ watch' = "polls"
      /\ view' = view /\ visible' = visible /\ layout' = layout /\ dirty' = dirty /\ idRef' = idRef
      /\ cmds' = cmds /\ stage' = stage /\ asked' = asked
      /\ proc' = proc /\ wins' = wins /\ vis' = vis /\ place' = place
      /\ session' = session /\ lastBounds' = lastBounds
      /\ found' = found /\ stray' = stray /\ Noted
  BY DEF Store, viewVars, procVars, placeVars
<1>2. SessionTypeOK /\ Stages /\ Opened /\ Calm
  BY DEF RdpInv
<1>3. WasOpened(found) /\ session # "none"
  BY <1>1, <1>2 DEF Opened, Stages, SessionTypeOK
<1>4. \A K : Those(K)' = Those(K) /\ LastOne(K)' = LastOne(K)
  BY <1>1, CmdsStay
<1>5. SessionTypeOK'
  <2>1. upset' \in BOOLEAN
    BY <1>1, <1>2, NotedType
  <2>2. QED  BY <1>1, <1>2, <2>1 DEF SessionTypeOK, Windows, Anywhere
<1>6. Stages'
  BY <1>1, <1>2, <1>4 DEF Stages
<1>7. Opened'
  BY <1>1, <1>2, <1>3, <1>4 DEF Opened, WasOpened, Windows, Unopened
<1>8. Calm'
  <2> SUFFICES ASSUME view' = "mounted", ~upset'
               PROVE  ShownAsTab' /\ PlacedAsPanel' /\ Embedding'
    BY DEF Calm
  <2>1. /\ ~upset /\ ShownAsTab /\ PlacedAsPanel /\ Embedding /\ visible
        /\ found \in wins => vis[found] /\ place[found] = lastBounds
    BY <1>1, <1>2, NotUpset DEF Calm, Embedding
  <2>2. ShownAsTab' /\ PlacedAsPanel'
    BY <1>1, <1>4, <2>1 DEF ShownAsTab, PlacedAsPanel
  <2>3. Embedding'
    BY <1>1, <2>1 DEF Embedding
  <2>4. QED  BY <2>2, <2>3
<1>9. QED  BY <1>5, <1>6, <1>7, <1>8 DEF RdpInv

LEMMA WindowOpensStep ==
  ASSUME RdpInv, NEW w \in Windows, WindowOpens(w)
  PROVE  RdpInv'
<1>1. /\ proc = "running" /\ place[w] = 0 /\ wins' = wins \cup {w}
      /\ place' = [place EXCEPT ![w] = MaxLayouts + 1]
      /\ view' = view /\ visible' = visible /\ layout' = layout /\ dirty' = dirty /\ idRef' = idRef
      /\ cmds' = cmds /\ stage' = stage /\ asked' = asked /\ proc' = proc
      /\ session' = session /\ hwnd' = hwnd /\ lastBounds' = lastBounds
      /\ watch' = watch /\ found' = found /\ stray' = stray /\ Noted
  BY DEF WindowOpens, viewVars, sessVars, Unopened, Anywhere
<1>2. PICK b \in BOOLEAN : vis' = [vis EXCEPT ![w] = b]
  BY DEF WindowOpens
<1>3. SessionTypeOK /\ Stages /\ Opened /\ Calm
  BY DEF RdpInv
<1>4. \A K : Those(K)' = Those(K) /\ LastOne(K)' = LastOne(K)
  BY <1>1, CmdsStay
<1>5. /\ place' \in [Windows -> 0..Anywhere] /\ place'[w] # 0
      /\ \A v \in Windows \ {w} : place'[v] = place[v]
  <2>1. place \in [Windows -> 0..Anywhere] /\ MaxLayouts + 1 \in 0..Anywhere
        /\ MaxLayouts + 1 # 0
    BY <1>3 DEF SessionTypeOK, Anywhere
  <2>2. QED  BY <1>1, <2>1
<1>6. /\ vis' \in [Windows -> BOOLEAN] /\ \A v \in Windows \ {w} : vis'[v] = vis[v]
  BY <1>2, <1>3 DEF SessionTypeOK
<1>7. SessionTypeOK'
  <2>1. upset' \in BOOLEAN
    BY <1>1, <1>3, NotedType
  <2>2. wins' \in SUBSET Windows /\ (\A v \in Windows : vis'[v] => v \in wins')
    BY <1>1, <1>3, <1>6 DEF SessionTypeOK
  <2>3. QED  BY <1>1, <1>3, <1>5, <1>6, <2>1, <2>2 DEF SessionTypeOK, Windows, Anywhere
<1>8. Stages'
  BY <1>1, <1>3, <1>4 DEF Stages
<1>9. Opened'
  <2>1. \A v : (WasOpened(v) => WasOpened(v)') /\ WasOpened(w)'
    BY <1>5 DEF WasOpened, Windows, Unopened
  <2>2. QED  BY <1>1, <1>3, <1>4, <2>1 DEF Opened
<1>10. Calm'
  <2> SUFFICES ASSUME view' = "mounted", ~upset'
               PROVE  ShownAsTab' /\ PlacedAsPanel' /\ Embedding'
    BY DEF Calm
  <2>1. w \notin wins
    BY <1>1, <1>3 DEF Opened, WasOpened, Unopened
  <2>2. ~upset /\ ShownAsTab /\ PlacedAsPanel /\ Embedding /\ visible /\ cmds = <<>>
        /\ view = "mounted"
    BY <1>1, <1>3, <2>1, NotUpset DEF Calm
  <2>3. session # "none" => hwnd # w /\ hwnd \in Windows
    BY <1>1, <1>3 DEF Opened, WasOpened, Unopened
  <2>4. watch = "store" => found # w /\ found \in Windows
    BY <1>1, <1>3 DEF Opened, WasOpened, Unopened
  <2>5. idRef => session = "open"
    BY <1>3, <2>2 DEF Stages, SessionTypeOK
  <2>6. ShownAsTab'
    BY <1>1, <1>4, <1>6, <2>2, <2>3, <2>5 DEF ShownAsTab
  <2>7. PlacedAsPanel'
    BY <1>1, <1>4, <1>5, <2>2, <2>3 DEF PlacedAsPanel
  <2>8. Embedding'
    BY <1>1, <1>5, <1>6, <2>2, <2>4 DEF Embedding
  <2>9. QED  BY <2>6, <2>7, <2>8
<1>11. QED  BY <1>7, <1>8, <1>9, <1>10 DEF RdpInv

LEMMA WindowClosesStep ==
  ASSUME RdpInv, NEW w \in Windows, WindowCloses(w)
  PROVE  RdpInv'
<1>1. /\ w \in wins /\ wins' = wins \ {w} /\ vis' = [vis EXCEPT ![w] = FALSE]
      /\ view' = view /\ visible' = visible /\ layout' = layout /\ dirty' = dirty /\ idRef' = idRef
      /\ cmds' = cmds /\ stage' = stage /\ asked' = asked /\ proc' = proc /\ place' = place
      /\ session' = session /\ hwnd' = hwnd /\ lastBounds' = lastBounds
      /\ watch' = watch /\ found' = found /\ stray' = stray /\ Noted
  BY DEF WindowCloses, viewVars, placeVars, sessVars
<1>2. SessionTypeOK /\ Stages /\ Opened /\ Calm
  BY DEF RdpInv
<1>3. \A K : Those(K)' = Those(K) /\ LastOne(K)' = LastOne(K)
  BY <1>1, CmdsStay
<1>4. /\ vis' \in [Windows -> BOOLEAN] /\ ~vis'[w]
      /\ \A v \in Windows \ {w} : vis'[v] = vis[v]
  BY <1>1, <1>2 DEF SessionTypeOK
<1>5. SessionTypeOK'
  <2>1. upset' \in BOOLEAN
    BY <1>1, <1>2, NotedType
  <2>2. wins' \in SUBSET Windows /\ (\A v \in Windows : vis'[v] => v \in wins')
    BY <1>1, <1>2, <1>4 DEF SessionTypeOK
  <2>3. QED  BY <1>1, <1>2, <1>4, <2>1, <2>2 DEF SessionTypeOK, Windows, Anywhere
<1>6. Stages'
  BY <1>1, <1>2, <1>3 DEF Stages
<1>7. Opened'
  BY <1>1, <1>2, <1>3 DEF Opened, WasOpened, Windows, Unopened
<1>8. Calm'
  <2> SUFFICES ASSUME view' = "mounted", ~upset'
               PROVE  ShownAsTab' /\ PlacedAsPanel' /\ Embedding'
    BY DEF Calm
  <2>1. ~upset /\ ShownAsTab /\ PlacedAsPanel /\ Embedding
    BY <1>1, <1>2, NotUpset DEF Calm
  <2>2. \A v \in wins' : v \in Windows /\ v # w /\ v \in wins
    BY <1>1, <1>2 DEF SessionTypeOK
  <2>3. ShownAsTab'
    BY <1>1, <1>3, <1>4, <2>1, <2>2 DEF ShownAsTab
  <2>4. PlacedAsPanel'
    BY <1>1, <1>3, <2>1, <2>2 DEF PlacedAsPanel
  <2>5. Embedding'
    BY <1>1, <1>4, <2>1, <2>2 DEF Embedding
  <2>6. QED  BY <2>3, <2>4, <2>5
<1>9. QED  BY <1>5, <1>6, <1>7, <1>8 DEF RdpInv

LEMMA ClientEndsStep ==
  ASSUME RdpInv, ClientEnds
  PROVE  RdpInv'
<1>1. /\ proc = "running" /\ proc' = "ended" /\ wins' = {} /\ vis' = [w \in Windows |-> FALSE]
      /\ view' = view /\ visible' = visible /\ layout' = layout /\ dirty' = dirty /\ idRef' = idRef
      /\ cmds' = cmds /\ stage' = stage /\ asked' = asked /\ place' = place
      /\ session' = session /\ hwnd' = hwnd /\ lastBounds' = lastBounds
      /\ watch' = watch /\ found' = found /\ stray' = stray /\ Noted
  BY DEF ClientEnds, ClientGone, viewVars, placeVars, sessVars, Windows
<1>2. SessionTypeOK /\ Stages /\ Opened /\ Calm
  BY DEF RdpInv
<1>3. \A K : Those(K)' = Those(K) /\ LastOne(K)' = LastOne(K)
  BY <1>1, CmdsStay
<1>4. SessionTypeOK'
  <2>1. upset' \in BOOLEAN
    BY <1>1, <1>2, NotedType
  <2>2. QED  BY <1>1, <1>2, <2>1 DEF SessionTypeOK, Windows, Anywhere
<1>5. Stages'
  BY <1>1, <1>2, <1>3 DEF Stages
<1>6. Opened'
  BY <1>1, <1>2, <1>3 DEF Opened, WasOpened, Windows, Unopened
<1>7. Calm'
  <2> SUFFICES ASSUME view' = "mounted", ~upset'
               PROVE  ShownAsTab' /\ PlacedAsPanel' /\ Embedding'
    BY DEF Calm
  <2>1. ~upset /\ ShownAsTab /\ PlacedAsPanel /\ Embedding
    BY <1>1, <1>2, NotUpset DEF Calm
  <2>2. QED  BY <1>1, <1>3, <2>1 DEF ShownAsTab, PlacedAsPanel, Embedding
<1>8. QED  BY <1>4, <1>5, <1>6, <1>7 DEF RdpInv

\* The main window moves, which no part of the invariant is about.
LEMMA MoveMainStep ==
  ASSUME RdpInv, MoveMain
  PROVE  RdpInv'
<1>1. /\ view' = view /\ visible' = visible /\ layout' = layout /\ dirty' = dirty /\ idRef' = idRef
      /\ cmds' = cmds /\ stage' = stage /\ asked' = asked
      /\ proc' = proc /\ wins' = wins /\ vis' = vis /\ place' = place
      /\ session' = session /\ hwnd' = hwnd /\ lastBounds' = lastBounds
      /\ watch' = watch /\ found' = found /\ stray' = stray /\ Noted
  BY DEF MoveMain, viewVars, sessVars
<1>2. \A K : Those(K)' = Those(K) /\ LastOne(K)' = LastOne(K)
  BY <1>1, CmdsStay
<1>3. SessionTypeOK'
  <2>1. upset' \in BOOLEAN
    BY <1>1, NotedType DEF RdpInv
  <2>2. QED  BY <1>1, <2>1 DEF RdpInv, SessionTypeOK, Windows, Anywhere
<1>4. Stages' /\ Opened'
  BY <1>1, <1>2 DEF RdpInv, Stages, Opened, WasOpened, Windows, Unopened
<1>5. Calm'
  <2>1. ~upset' => ~upset
    BY <1>1, NotUpset
  <2>2. QED  BY <1>1, <1>2, <2>1 DEF RdpInv, Calm, ShownAsTab, PlacedAsPanel, Embedding
<1>6. QED  BY <1>3, <1>4, <1>5 DEF RdpInv

LEMMA RdpStutter ==
  ASSUME RdpInv, UNCHANGED rdpVars
  PROVE  RdpInv'
<1>1. /\ view' = view /\ visible' = visible /\ layout' = layout /\ dirty' = dirty /\ idRef' = idRef
      /\ cmds' = cmds /\ stage' = stage /\ asked' = asked
      /\ proc' = proc /\ wins' = wins /\ vis' = vis /\ place' = place
      /\ session' = session /\ hwnd' = hwnd /\ lastBounds' = lastBounds
      /\ watch' = watch /\ found' = found /\ stray' = stray /\ upset' = upset
  BY DEF rdpVars, viewVars, procVars, placeVars, sessVars
<1>2. \A K : Those(K)' = Those(K) /\ LastOne(K)' = LastOne(K)
  BY <1>1, CmdsStay
<1>3. SessionTypeOK'
  BY <1>1 DEF RdpInv, SessionTypeOK, Windows, Anywhere
<1>4. Stages' /\ Opened'
  BY <1>1, <1>2 DEF RdpInv, Stages, Opened, WasOpened, Windows, Unopened
<1>5. Calm'
  BY <1>1, <1>2 DEF RdpInv, Calm, ShownAsTab, PlacedAsPanel, Embedding
<1>6. QED  BY <1>3, <1>4, <1>5 DEF RdpInv

LEMMA RdpStep ==
  ASSUME RdpInv, [RdpNext]_rdpVars
  PROVE  RdpInv'
<1>1. CASE Connect        BY <1>1, ConnectStep
<1>2. CASE FindWindow     BY <1>2, FindWindowStep
<1>3. CASE Embed          BY <1>3, EmbedStep
<1>4. CASE Answer         BY <1>4, AnswerStep
<1>5. CASE Toggle         BY <1>5, ToggleStep
<1>6. CASE Resize         BY <1>6, ResizeStep
<1>7. CASE Sync           BY <1>7, SyncStep
<1>8. CASE Unmount        BY <1>8, UnmountStep
<1>9. CASE Exit           BY <1>9, ExitStep
<1>10. CASE \E i \in 1..MaxCmds + 1 : RunCommand(i)
  BY <1>10, CommandStep
<1>11. CASE Poll          BY <1>11, PollStep
<1>12. CASE Reattach      BY <1>12, ReattachStep
<1>13. CASE Store         BY <1>13, StoreStep
<1>14. CASE \E w \in Windows : WindowOpens(w) \/ WindowCloses(w)
  BY <1>14, WindowOpensStep, WindowClosesStep
<1>15. CASE ClientEnds    BY <1>15, ClientEndsStep
<1>16. CASE UNCHANGED rdpVars  BY <1>16, RdpStutter
<1>17. CASE MoveMain      BY <1>17, MoveMainStep
<1>18. QED
  BY <1>1, <1>2, <1>3, <1>4, <1>5, <1>6, <1>7, <1>8, <1>9, <1>10, <1>11, <1>12, <1>13, <1>14,
     <1>15, <1>16, <1>17 DEF RdpNext, Watcher

----------------------------------------------------------------------------

LEMMA RdpInvariant == RdpFairSpec => []RdpInv
<1>1. RdpInit => RdpInv
  BY RdpStarts
<1>2. RdpInv /\ [RdpNext]_rdpVars => RdpInv'
  BY RdpStep
<1>3. QED  BY <1>1, <1>2, PTL DEF RdpFairSpec

----------------------------------------------------------------------------
(* Where the windows were placed.                                          *)

\* Type correctness of what placing a window changes.
PlacingTypes ==
  main \in 0..MaxMoves /\ from \in [Windows -> 0..MaxMoves] /\ moved \in BOOLEAN

\* The window of the session, or the one it is to get, was placed where the
\* main window still is, if that has not moved since any was placed.
Anchored ==
  view = "mounted" /\ ~upset /\ session = "open"
    => LET w == IF watch = "store" THEN found ELSE hwnd
       IN  w \in wins => moved \/ from[w] = main

LEMMA PlacingStarts ==
  ASSUME RdpInit
  PROVE  PlacingTypes /\ Anchored
<1>1. main = 0 /\ from = [w \in Windows |-> 0] /\ moved = FALSE /\ session = "none" /\ 0 \in 0..MaxMoves
  BY DEF RdpInit
<1>2. QED  BY <1>1 DEF PlacingTypes, Anchored

\* Placing a window keeps the types; the window placed is where the main window
\* is, and one that is gone is not placed.
LEMMA PlacedHere ==
  ASSUME PlacingTypes, NEW w, NEW b, Placed(w, b), wins \subseteq Windows, main' = main
  PROVE  PlacingTypes' /\ (w \in wins => from'[w] = main)
<1>1. CASE w \in wins
  <2>1. from' = [from EXCEPT ![w] = main] /\ moved' = FALSE /\ w \in Windows
    BY <1>1 DEF Placed
  <2>2. QED  BY <1>1, <2>1 DEF PlacingTypes, Windows
<1>2. CASE w \notin wins
  BY <1>2 DEF Placed, placeVars, PlacingTypes, Windows
<1>3. QED  BY <1>1, <1>2

LEMMA PlacingStep ==
  ASSUME RdpInv, RdpInv', PlacingTypes, Anchored, [RdpNext]_rdpVars
  PROVE  PlacingTypes' /\ Anchored'
<1>1. SessionTypeOK /\ Stages /\ Opened /\ Calm /\ wins \subseteq Windows
  BY DEF RdpInv, SessionTypeOK
\* Most steps place nothing and move nothing.
<1>2. ASSUME UNCHANGED <<main, placeVars>>
      PROVE  PlacingTypes'
  BY <1>2 DEF PlacingTypes, placeVars, Windows
<1>3. ASSUME UNCHANGED <<main, placeVars>>, upset \in BOOLEAN, ~upset' => ~upset,
             view' = "mounted" => view = "mounted", session' = session, hwnd' = hwnd,
             watch' = watch, found' = found, wins' \subseteq wins
      PROVE  Anchored'
  BY <1>3 DEF Anchored, placeVars
<1>4. ASSUME Noted PROVE upset \in BOOLEAN /\ (~upset' => ~upset)
  BY <1>1, <1>4, NotUpset DEF SessionTypeOK
<1>5. CASE Connect \/ FindWindow
  <2>1. session' = "none" /\ UNCHANGED <<main, placeVars>>
    BY <1>1, <1>5 DEF Connect, FindWindow, Stages, sessVars
  <2>2. QED  BY <1>2, <2>1 DEF Anchored
<1>6. CASE Embed
  <2>1. CASE found \in wins /\ Placed(found, asked) /\ hwnd' = found /\ watch' = "polls"
    <3>1. main' = main /\ wins' = wins
      BY <1>6 DEF Embed
    <3>2. PlacingTypes' /\ from'[found] = main
      BY <1>1, <2>1, <3>1, PlacedHere
    <3>3. QED  BY <2>1, <3>1, <3>2 DEF Anchored
  <2>2. CASE UNCHANGED <<sessVars, watch, placeVars>>
    <3>1. session' # "open" /\ UNCHANGED <<main, placeVars>>
      BY <1>1, <1>6, <2>2 DEF Embed, Stages, sessVars
    <3>2. QED  BY <1>2, <3>1 DEF Anchored
  <2>3. QED  BY <1>6, <2>1, <2>2 DEF Embed
<1>7. CASE Answer \/ Toggle \/ Resize \/ Sync \/ Unmount
  <2>1. /\ UNCHANGED <<main, placeVars>> /\ Noted /\ session' = session /\ hwnd' = hwnd
        /\ watch' = watch /\ found' = found /\ wins' = wins
        /\ view' = "mounted" => view = "mounted"
    BY <1>7 DEF Answer, Toggle, Resize, Sync, Unmount, viewVars, procVars, sessVars
  <2>2. QED  BY <1>2, <1>3, <1>4, <2>1
<1>8. CASE MoveMain
  <2>1. main < MaxMoves /\ main' = main + 1 /\ moved' = TRUE /\ from' = from
    BY <1>8 DEF MoveMain
  <2>2. PlacingTypes'
    BY <2>1 DEF PlacingTypes, Windows
  <2>3. QED  BY <2>1, <2>2 DEF Anchored
<1>9. CASE Exit
  <2>1. view' = "closed" /\ UNCHANGED <<main, placeVars>>
    BY <1>9 DEF Exit, procVars
  <2>2. QED  BY <1>2, <2>1 DEF Anchored
<1>10. ASSUME NEW i \in 1..MaxCmds + 1, RunCommand(i) PROVE PlacingTypes' /\ Anchored'
  <2> DEFINE c == cmds[i]
  <2>1. /\ i \in 1..Len(cmds) /\ cmds \in Seq(Cmds) /\ main' = main /\ found' = found /\ view' = view
        /\ (Run(c) /\ Noted) \/ (RunFails(c) /\ upset' = TRUE)
    BY <1>1, <1>10 DEF RunCommand, viewVars, SessionTypeOK, Cmds
  <2>2. c \in Cmds /\ c.kind \in {"show", "hide", "bounds", "disconnect"}
    <3>1. c \in Cmds
      BY <2>1
    <3>2. QED  BY <3>1 DEF Cmds
  <2> HIDE DEF c
  <2>3. CASE RunFails(c)
    <3>1. UNCHANGED <<main, placeVars>>
      BY <2>1, <2>3 DEF RunFails, procVars
    <3>2. /\ session' = session /\ hwnd' = hwnd /\ watch' = watch /\ wins' = wins
      BY <2>3 DEF RunFails, procVars
    <3>3. upset \in BOOLEAN /\ (~upset' => ~upset)
      BY <1>1, <1>4, <2>1 DEF SessionTypeOK
    <3>4. QED  BY <1>2, <1>3, <2>1, <3>1, <3>2, <3>3
  <2>4. CASE Run(c) /\ Noted /\ session # "open"
    <3>1. UNCHANGED <<procVars, sessVars, watch>>
      BY <2>4 DEF Run
    <3>2. UNCHANGED <<main, placeVars>> /\ session' = session
      BY <2>1, <3>1 DEF procVars, sessVars
    <3>3. QED  BY <1>2, <2>4, <3>2 DEF Anchored
  <2>5. CASE Run(c) /\ Noted /\ session = "open" /\ c.kind \in {"hide", "disconnect"}
    <3>1. UNCHANGED <<main, placeVars>> /\ hwnd' = hwnd
      <4>1. CASE c.kind = "hide"
        BY <2>1, <2>5, <4>1 DEF Run, sessVars
      <4>2. CASE c.kind = "disconnect"
        BY <2>1, <2>5, <4>2 DEF Run
      <4>3. QED  BY <2>5, <4>1, <4>2
    <3>2. /\ c.kind = "hide" => session' = session /\ watch' = watch /\ wins' = wins
          /\ c.kind = "disconnect" => session' = "removed"
      BY <2>2, <2>5, RunDoes
    <3>3. QED  BY <1>2, <1>3, <1>4, <2>1, <2>5, <3>1, <3>2 DEF Anchored
  <2>6. CASE Run(c) /\ Noted /\ session = "open" /\ c.kind \in Places
    <3>1. Placed(hwnd, c.bounds) /\ hwnd' = hwnd /\ watch' = watch /\ wins' = wins
      BY <2>2, <2>6, RunDoes DEF Places
    <3>2. PlacingTypes' /\ (hwnd \in wins => from'[hwnd] = main)
      BY <1>1, <2>1, <3>1, PlacedHere
    <3>3. view = "mounted" /\ ~upset' => watch # "store"
      <4>1. cmds # <<>>
        BY <2>1
      <4>2. QED  BY <1>1, <1>4, <2>6, <4>1 DEF Calm, Embedding
    <3>4. QED  BY <2>1, <3>1, <3>2, <3>3 DEF Anchored
  <2>7. QED  BY <2>1, <2>2, <2>3, <2>4, <2>5, <2>6 DEF Places
<1>11. CASE Poll
  <2>1. /\ UNCHANGED <<main, placeVars>> /\ Noted /\ session' = session /\ hwnd' = hwnd
        /\ watch = "polls" /\ watch' = "attach" /\ wins' = wins /\ view' = view
    BY <1>11 DEF Poll, viewVars, procVars, sessVars
  <2>2. Anchored'
    BY <1>4, <2>1 DEF Anchored, placeVars
  <2>3. QED  BY <1>2, <2>1, <2>2
<1>12. CASE Reattach
  <2>1. /\ main' = main /\ found' = found /\ watch' = "store" /\ wins' = wins
        /\ Placed(found, lastBounds) \/ (UNCHANGED placeVars /\ upset' = TRUE)
    BY <1>12 DEF Reattach
  <2>2. CASE Placed(found, lastBounds)
    <3>1. PlacingTypes' /\ (found \in wins => from'[found] = main)
      BY <1>1, <2>1, <2>2, PlacedHere
    <3>2. QED  BY <2>1, <3>1 DEF Anchored
  <2>3. CASE UNCHANGED placeVars /\ upset' = TRUE
    BY <1>2, <2>1, <2>3 DEF Anchored
  <2>4. QED  BY <2>1, <2>2, <2>3
<1>13. CASE Store
  <2>1. /\ UNCHANGED <<main, placeVars>> /\ Noted /\ session' = session /\ hwnd' = found
        /\ watch = "store" /\ watch' = "polls" /\ wins' = wins /\ view' = view
    BY <1>13 DEF Store, viewVars, procVars, sessVars
  <2>2. Anchored'
    BY <1>4, <2>1 DEF Anchored, placeVars
  <2>3. QED  BY <1>2, <2>1, <2>2
<1>14. ASSUME NEW w \in Windows, WindowOpens(w) PROVE PlacingTypes' /\ Anchored'
  <2>1. /\ main' = main /\ from' = from /\ moved' = moved /\ Noted /\ place[w] = Unopened
        /\ session' = session /\ hwnd' = hwnd /\ watch' = watch /\ found' = found
        /\ wins' = wins \cup {w} /\ view' = view
    BY <1>14 DEF WindowOpens, viewVars, sessVars
  <2>2. PlacingTypes'
    BY <2>1 DEF PlacingTypes, Windows
  <2>3. session = "open" => w # hwnd /\ (watch = "store" => w # found)
    BY <1>1, <2>1 DEF Opened, WasOpened
  <2>4. QED  BY <1>4, <2>1, <2>2, <2>3 DEF Anchored
<1>15. ASSUME NEW w \in Windows, WindowCloses(w) PROVE PlacingTypes' /\ Anchored'
  <2>1. /\ UNCHANGED <<main, placeVars>> /\ Noted /\ session' = session /\ hwnd' = hwnd
        /\ watch' = watch /\ found' = found /\ wins' \subseteq wins /\ view' = view
    BY <1>15 DEF WindowCloses, viewVars, sessVars
  <2>2. QED  BY <1>2, <1>3, <1>4, <2>1
<1>16. CASE ClientEnds
  <2>1. /\ UNCHANGED <<main, placeVars>> /\ Noted /\ session' = session /\ hwnd' = hwnd
        /\ watch' = watch /\ found' = found /\ wins' = {} /\ view' = view
    BY <1>16 DEF ClientEnds, ClientGone, viewVars, sessVars
  <2>2. QED  BY <1>2, <1>3, <1>4, <2>1
<1>17. CASE UNCHANGED rdpVars
  <2>1. /\ UNCHANGED <<main, placeVars>> /\ upset' = upset /\ session' = session /\ hwnd' = hwnd
        /\ watch' = watch /\ found' = found /\ wins' = wins /\ view' = view
    BY <1>17 DEF rdpVars, viewVars, procVars, sessVars
  <2>2. QED  BY <1>1, <1>2, <1>3, <2>1 DEF SessionTypeOK
<1>18. QED
  BY <1>5, <1>6, <1>7, <1>8, <1>9, <1>10, <1>11, <1>12, <1>13, <1>14, <1>15, <1>16, <1>17
     DEF RdpNext, Watcher

LEMMA PlacingInvariant == RdpFairSpec => [](RdpInv /\ PlacingTypes /\ Anchored)
<1>1. RdpInit => RdpInv /\ PlacingTypes /\ Anchored
  BY RdpStarts, PlacingStarts
<1>2. RdpInv /\ PlacingTypes /\ Anchored /\ [RdpNext]_rdpVars
        => (RdpInv /\ PlacingTypes /\ Anchored)'
  <2> SUFFICES ASSUME RdpInv, PlacingTypes, Anchored, [RdpNext]_rdpVars
               PROVE  RdpInv' /\ PlacingTypes' /\ Anchored'
    OBVIOUS
  <2>1. RdpInv'
    BY RdpStep
  <2>2. QED  BY <2>1, PlacingStep
<1>3. QED  BY <1>1, <1>2, PTL DEF RdpFairSpec

\* The view, the session, the watcher and the client keep their types; only a
\* running client has windows, and a session that was removed has ended its own.
THEOREM RdpTypes == RdpFairSpec => []RdpTypeOK
<1>1. RdpInv /\ PlacingTypes /\ Anchored => RdpTypeOK
  BY DEF RdpInv, PlacingTypes, RdpTypeOK
<1>2. QED  BY <1>1, PlacingInvariant, PTL

\* With nothing on its way between the view, the session and the watcher, the
\* window of the active tab is visible and over the panel where it is now, and
\* that of another tab is hidden, unless something of Upsets or a failed
\* positioning has happened, or the main window has moved since a window was
\* placed last.
THEOREM WindowFollows == RdpFairSpec => []WindowFollowsTab
<1>1. RdpInv /\ PlacingTypes /\ Anchored => WindowFollowsTab
  <2> SUFFICES ASSUME RdpInv, Anchored, Settled, Largest # NoWindow, ~upset
               PROVE  \/ visible /\ vis[hwnd] /\ place[hwnd] = layout
                         /\ (moved \/ from[hwnd] = main)
                      \/ ~visible /\ ~vis[hwnd]
    BY DEF WindowFollowsTab
  <2>1. /\ view = "mounted" /\ idRef /\ cmds = <<>> /\ ~dirty /\ Largest = hwnd
        /\ watch = "polls"
    BY DEF Settled
  <2>2. hwnd \in wins
    BY <2>1, LargestIsOne DEF RdpInv, SessionTypeOK
  <2>3. ShownAsTab /\ PlacedAsPanel /\ session = "open"
    BY <2>1 DEF RdpInv, Calm, Stages, SessionTypeOK
  <2>4. Those(Shows) = {} /\ Those(Places) = {}
    BY <2>1, NoCmds
  <2>5. moved \/ from[hwnd] = main
    BY <2>1, <2>2, <2>3 DEF Anchored
  <2>6. QED  BY <2>1, <2>2, <2>3, <2>4, <2>5 DEF ShownAsTab, PlacedAsPanel
<1>2. QED  BY <1>1, PlacingInvariant, PTL

----------------------------------------------------------------------------
(* The end of a closed tab's client.                                       *)

\* The command that ends a closed tab's session stays until it has.
Ending ==
  /\ stage = "failed" /\ proc = "running" => stray
  /\ view = "gone" /\ session = "open" /\ stage = "done" => Those({"disconnect"}) # {}

\* A command that is not the one taken is still there.
LEMMA OthersStay ==
  ASSUME cmds \in Seq(Cmds), NEW i \in 1..Len(cmds), cmds' = RemoveAt(cmds, i), NEW K,
         NEW j \in Those(K), j # i
  PROVE  Those(K)' # {}
<1> DEFINE n == Len(cmds)
           k == IF j < i THEN j ELSE j - 1
<1>1. /\ n \in Nat /\ i \in 1..n /\ j \in 1..n /\ cmds[j].kind \in K
  BY DEF Those
<1>2. /\ cmds' \in Seq(Cmds) /\ Len(cmds') = n - 1
      /\ \A m \in 1..(n - 1) : cmds'[m] = cmds[IF m < i THEN m ELSE m + 1]
  BY LeftOut
<1>3. DOMAIN cmds' = 1..(n - 1)
  BY <1>1, <1>2
<1> HIDE DEF n
<1>4. k \in 1..(n - 1) /\ (IF k < i THEN k ELSE k + 1) = j
  BY <1>1
<1> HIDE DEF k
<1>5. cmds'[k] = cmds[j]
  BY <1>2, <1>4
<1>6. k \in Those(K)'
  BY <1>1, <1>3, <1>4, <1>5 DEF Those
<1>7. QED  BY <1>6

LEMMA EndingStep ==
  ASSUME RdpInv, Ending, [RdpNext]_rdpVars
  PROVE  Ending'
<1> USE DEF Ending
<1>1. SessionTypeOK /\ Stages /\ cmds \in Seq(Cmds)
  BY DEF RdpInv, SessionTypeOK, Cmds
<1>2. ASSUME cmds' = cmds, session' = session, view' = view, stage' = stage, stray' = stray,
             proc' = "running" => proc = "running"
      PROVE  Ending'
  BY <1>2, CmdsStay
<1>3. CASE Connect
  BY <1>1, <1>3 DEF Connect, viewVars, sessVars, Stages
<1>4. CASE FindWindow
  BY <1>4 DEF FindWindow, viewVars, sessVars
<1>5. CASE Embed
  BY <1>5 DEF Embed
<1>6. CASE Answer
  <2>1. /\ view' = view /\ session' = session /\ stage' = "done"
        /\ view = "gone" => cmds' = Append(cmds, Cmd("disconnect", 0))
    BY <1>6 DEF Answer, Answered, sessVars
  <2>2. Cmd("disconnect", 0) \in Cmds /\ Cmd("disconnect", 0).kind \in {"disconnect"}
    BY DEF Cmd, Cmds
  <2>3. view = "gone" => Those({"disconnect"})' # {}
    BY <1>1, <2>1, <2>2, JoinedCmd
  <2>4. QED  BY <2>1, <2>3
<1>7. CASE Toggle \/ Sync \/ Resize
  BY <1>7 DEF Toggle, Sync, Resize, procVars, placeVars
<1>8. CASE Unmount
  <2>1. /\ view = "mounted" /\ session' = session /\ stage' = stage /\ proc' = proc
        /\ stray' = stray
        /\ idRef => cmds' = Append(cmds, Cmd("disconnect", 0))
    BY <1>8 DEF Unmount, Invoke, sessVars, procVars, placeVars
  <2>2. Cmd("disconnect", 0) \in Cmds /\ Cmd("disconnect", 0).kind \in {"disconnect"}
    BY DEF Cmd, Cmds
  <2>3. stage = "done" => Those({"disconnect"})' # {}
    BY <1>1, <2>1, <2>2, JoinedCmd DEF Stages
  <2>4. QED  BY <2>1, <2>3
<1>9. CASE Exit
  BY <1>9 DEF Exit, procVars, placeVars
<1>10. ASSUME NEW i \in 1..MaxCmds + 1, RunCommand(i) PROVE Ending'
  <2>1. /\ i \in 1..Len(cmds) /\ cmds' = RemoveAt(cmds, i)
        /\ Run(cmds[i]) \/ RunFails(cmds[i])
        /\ view' = view /\ stage' = stage /\ stray' = stray
    BY <1>10 DEF RunCommand, viewVars
  <2>2. cmds[i] \in Cmds /\ i \in DOMAIN cmds
    BY <1>1, <2>1
  <2>3. CASE session # "open"
    <3>1. session' = session /\ proc' = proc
      BY <2>1, <2>3 DEF Run, RunFails, procVars, sessVars
    <3>2. QED  BY <2>1, <2>3, <3>1
  <2>4. CASE session = "open" /\ cmds[i].kind = "disconnect"
    <3>1. session' = "removed" /\ proc' = "ended"
      BY <2>1, <2>2, <2>4, RunDoes DEF RunFails
    <3>2. QED  BY <3>1
  <2>5. CASE session = "open" /\ cmds[i].kind # "disconnect"
    <3>1. session' = session /\ proc' = proc
      BY <2>1, <2>2, <2>5, RunDoes DEF RunFails, procVars
    <3>2. \A j \in Those({"disconnect"}) : j # i
      BY <2>5 DEF Those
    <3>3. Those({"disconnect"}) # {} => Those({"disconnect"})' # {}
      BY <1>1, <2>1, <3>2, OthersStay
    <3>4. QED  BY <2>1, <3>1, <3>3
  <2>6. QED  BY <2>3, <2>4, <2>5
<1>11. CASE Watcher \/ ClientEnds \/ MoveMain
  BY <1>2, <1>11 DEF Watcher, Poll, Reattach, Store, ClientEnds, MoveMain,
                     ClientGone, viewVars, procVars, sessVars
<1>12. ASSUME NEW w \in Windows, WindowOpens(w) \/ WindowCloses(w) PROVE Ending'
  BY <1>2, <1>12 DEF WindowOpens, WindowCloses, viewVars, sessVars
<1>13. CASE UNCHANGED rdpVars
  BY <1>2, <1>13 DEF rdpVars, viewVars, procVars, placeVars, sessVars
<1>14. QED
  BY <1>3, <1>4, <1>5, <1>6, <1>7, <1>8, <1>9, <1>10, <1>11, <1>12, <1>13 DEF RdpNext

\* The client of a closed tab has ended, or connect() will still answer, or the
\* command that ends it is under way; or connect() failed with it running.
THEOREM GoneTabIsEnding == RdpFairSpec => []GoneIsEnding
<1>1. RdpInit => Ending
  BY DEF RdpInit, Ending
<1>2. RdpInv /\ Ending /\ [RdpNext]_rdpVars => Ending'
  BY EndingStep
<1>3. RdpInv /\ Ending => GoneIsEnding
  <2> SUFFICES ASSUME RdpInv, Ending, view = "gone", proc = "running", ~stray,
                      stage \notin {"waiting", "found", "answer"}
               PROVE  session = "open" /\ \E k \in DOMAIN cmds : cmds[k].kind = "disconnect"
    BY DEF GoneIsEnding
  <2>1. stage = "done" /\ session = "open"
    BY DEF RdpInv, Ending, Stages, SessionTypeOK
  <2>2. QED  BY <2>1 DEF Ending, Those
<1>4. QED  BY <1>1, <1>2, <1>3, RdpInvariant, PTL DEF RdpFairSpec

=============================================================================
