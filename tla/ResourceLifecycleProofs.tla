----------------------- MODULE ResourceLifecycleProofs -----------------------
(***************************************************************************)
(* Proofs about the credential lifecycle, for any number of Applications   *)
(* under the name, credentials, edits, stripped finalizers and crashes.    *)
(***************************************************************************)
EXTENDS ResourceLifecycle, FiniteSetTheorems, TLAPS

-----------------------------------------------------------------------------
(* The inductive invariant.                                                *)

\* Nobody, API server, cache or controller, has Application u as not being deleted.
Over(u) == ~Alive(app, u) /\ ~Alive(cache, u) /\ ~Alive(seen, u)

\* The entry of u is there and to be released.
Releasable(u) == HasObligations(inventory[u]) /\ inventory[u].entry.release

\* A credential or a Secret of u is there.
Held(u) == credential[u] # 0 \/ secret[u] # 0

Providing == {"previous", "intent", "create", "record", "serve"}

\* Where the controllers stand, and what they hold there.
AppPosition ==
  /\ pc = "idle" <=> seen = None
  /\ pc \in Providing => seen.sql /\ ~seen.deleting
  /\ pc = "discover" => copy # None
  /\ pc = "create" => draft # None /\ draft.entry # None
InventoryPosition ==
  /\ ipc # "idle" => iuid \in Uids /\ iuid <= uids /\ icopy # None
  /\ ipc \in {"remove", "bind", "drop"} => icopy.entry # None
  /\ ipc = "delete" => icopy.entry = None
Down == ~running => cache = None /\ pc = "idle" /\ ipc = "idle" /\ serving = 0
PositionInv == AppPosition /\ InventoryPosition /\ Down

\* UIDs are not reused, deletion is final, and a reading that is not of a deletion
\* is of the Application that is still there, or of one that vanished.
ReadingInv ==
  /\ app # None => app.uid = uids
  /\ \A x \in {cache, seen} : x # None =>
       /\ x.uid <= uids
       /\ ~x.deleting => x.uid \in vanished \/ (app # None /\ app.uid = x.uid)
  /\ cache # None /\ cache.deleting => ~Alive(app, cache.uid)
  /\ seen # None /\ seen.deleting => ~Alive(app, seen.uid) /\ ~Alive(cache, seen.uid)
  /\ ipc \in {"release", "delete"} => Absent(iuid)

\* What there is in the cluster is of no later Application than the readings.
KnownInv ==
  /\ \A u \in Uids : inventory[u] # None => u <= uids
  /\ cache # None /\ seen # None => seen.uid <= cache.uid
  /\ \A u \in Uids : Held(u) => /\ u <= uids
                                /\ cache # None => u <= cache.uid
                                /\ seen # None => u <= seen.uid

\* A credential or a Secret is an obligation of its inventory, under its own UID.
Accounted(u) ==
  /\ Held(u) => HasObligations(inventory[u])
  /\ credential[u] # 0 => inventory[u].entry.uid \in {0, credential[u]}

\* The inventory controller drops an entry whose credential is gone and cannot come
\* back: release is sticky, and no credential is created for a released entry.
RemovalInv ==
  /\ ipc \in {"remove", "bind", "drop"} => Releasable(iuid)
  /\ ipc = "drop" => iuid \in vanished \/ ~Held(iuid)

\* The intent read before a credential is created is still what the inventory says.
CreateInv == pc = "create" => uid \in vanished \/ draft.entry.release \/ inventory[uid] = draft

ObligationInv == (\A u \in Uids \ vanished : Accounted(u)) /\ RemovalInv /\ CreateInv

\* While an Application is provided for, no other of the name has obligations; once
\* it has a credential, none before it does.
ExclusionInv ==
  /\ pc \notin {"idle", "previous"} /\ seen.sql /\ ~seen.deleting =>
       \A v \in Uids \ {uid} : ~HasObligations(inventory[v])
  /\ \A u, v \in Uids : Held(u) /\ v < u => ~HasObligations(inventory[v])

\* What is served is there, and what is released is neither served nor wanted.
ServingInv ==
  /\ serving # 0 => serving \in vanished \/ (app # None /\ app.uid = serving)
  /\ pc # "idle" /\ seen.deleting => serving = 0
  /\ \A u \in Uids \ vanished :
       inventory[u] # None /\ inventory[u].releasing => Over(u) /\ serving # u

\* If spec.sql was never removed, it stays where it was read, it is there for as
\* long as there is an obligation, and a single obligation is not released.
Wants(x, u) == x # None /\ x.uid = u => x.sql
TrimInv ==
  \A u \in Uids \ trimmed :
    /\ seen # None /\ seen.uid = u /\ seen.sql => Wants(cache, u) /\ Wants(app, u)
    /\ cache # None /\ cache.uid = u /\ cache.sql => Wants(app, u)
    /\ HasObligations(inventory[u]) \/ credential[u] # 0 =>
         Wants(app, u) /\ Wants(cache, u) /\ Wants(seen, u)
    /\ Releasable(u) => inventory[u].releasing

IInv ==
  /\ TypeOK /\ PositionInv /\ ReadingInv /\ KnownInv
  /\ ObligationInv /\ ExclusionInv /\ ServingInv /\ TrimInv

-----------------------------------------------------------------------------
(* Inventories.                                                            *)

\* What an inventory and its entry are.
LEMMA InventoryShape ==
  ASSUME NEW i \in Inventory
  PROVE  /\ i # None /\ i.releasing \in BOOLEAN /\ i.deleting \in BOOLEAN
         /\ i.entry # None => i.entry \in ResourceBinding /\ i.entry.uid \in Nat /\ i.entry.release \in BOOLEAN
BY Zenon, NoneIsNoObject DEF Inventory, ResourceBinding

\* An inventory with another entry.
LEMMA EntryShape ==
  ASSUME NEW i \in Inventory, NEW e \in {None} \cup ResourceBinding
  PROVE  /\ [i EXCEPT !.entry = e] \in Inventory
         /\ [i EXCEPT !.entry = e].entry = e
         /\ [i EXCEPT !.entry = e].releasing = i.releasing
         /\ [i EXCEPT !.entry = e].deleting = i.deleting
BY Zenon DEF Inventory

\* Marking an entry for release.
LEMMA ReleaseShape ==
  ASSUME NEW e \in ResourceBinding
  PROVE  /\ [e EXCEPT !.release = TRUE] \in ResourceBinding
         /\ [e EXCEPT !.release = TRUE].release
         /\ [e EXCEPT !.release = TRUE].uid = e.uid
BY Zenon DEF ResourceBinding

\* releaseInventory keeps the entry and marks it.
LEMMA ReleasedShape ==
  ASSUME NEW i \in Inventory
  PROVE  /\ Released(i) \in Inventory /\ Released(i).releasing /\ Released(i).deleting = i.deleting
         /\ i.entry = None => Released(i).entry = None
         /\ i.entry # None => /\ Released(i).entry # None
                              /\ Released(i).entry.release /\ Released(i).entry.uid = i.entry.uid
<1> DEFINE e == IF i.entry = None THEN None ELSE [i.entry EXCEPT !.release = TRUE]
<1>1. Released(i) = [i EXCEPT !.releasing = TRUE, !.entry = e]
  BY Zenon DEF Released, Inventory
<1>2. e \in {None} \cup ResourceBinding
  BY Zenon, InventoryShape, ReleaseShape
<1>3. i.entry # None => e # None /\ e.release /\ e.uid = i.entry.uid
  BY Zenon, InventoryShape, ReleaseShape, NoneIsNoObject
<1>4. i.entry = None => e = None
  BY Zenon
<1> HIDE DEF e
<1>5. /\ Released(i) \in Inventory /\ Released(i).releasing /\ Released(i).deleting = i.deleting
      /\ Released(i).entry = e
  BY Zenon, <1>1, <1>2 DEF Inventory
<1>6. QED
  BY Zenon, <1>3, <1>4, <1>5

\* persistInventoryEntry records the UID and keeps the rest; a release is sticky.
LEMMA PersistedShape ==
  ASSUME NEW i \in Inventory, NEW n \in Nat
  PROVE  /\ Persisted(i, n) \in Inventory /\ Persisted(i, n).entry # None
         /\ Persisted(i, n).entry.uid = n
         /\ Persisted(i, n).releasing = i.releasing /\ Persisted(i, n).deleting = i.deleting
         /\ i.entry # None => Persisted(i, n).entry.release = i.entry.release
         /\ i.entry = None => Persisted(i, n).entry.release = i.releasing
<1> DEFINE e == IF i.entry = None THEN [uid |-> n, release |-> i.releasing] ELSE [i.entry EXCEPT !.uid = n]
<1>1. Persisted(i, n) = [i EXCEPT !.entry = e]
  BY Zenon DEF Persisted, Inventory
<1>2. /\ e \in ResourceBinding /\ e.uid = n
      /\ i.entry # None => e.release = i.entry.release
      /\ i.entry = None => e.release = i.releasing
  BY Zenon, InventoryShape DEF ResourceBinding
<1>3. e # None
  BY Zenon, <1>2, NoneIsNoObject
<1> HIDE DEF e
<1>4. QED
  BY <1>1, <1>2, <1>3, EntryShape

\* What RecordObligations marks: nothing is lost, only a deletion starts releasing,
\* and an entry is released with the inventory or because SQL is not wanted.
LEMMA MarkedShape ==
  ASSUME NEW i \in Inventory, seen.deleting \in BOOLEAN
  PROVE  /\ Marked(i) \in Inventory
         /\ Marked(i).releasing <=> i.releasing \/ seen.deleting
         /\ i.entry = None => Marked(i).entry = None
         /\ i.entry # None => /\ Marked(i).entry # None /\ Marked(i).entry.uid = i.entry.uid
                              /\ i.entry.release => Marked(i).entry.release
                              /\ Marked(i).entry.release =>
                                   i.entry.release \/ Marked(i).releasing \/ ~seen.sql
<1> DEFINE kept == IF i.entry = None \/ (seen.sql /\ ~seen.deleting) THEN i
                   ELSE [i EXCEPT !.entry.release = TRUE]
<1>1. Marked(i) = IF seen.deleting THEN Released(kept) ELSE kept
  BY Zenon DEF Marked
<1>2. /\ kept \in Inventory /\ kept.releasing = i.releasing
      /\ i.entry = None => kept.entry = None
      /\ i.entry # None => /\ kept.entry # None /\ kept.entry.uid = i.entry.uid
                           /\ i.entry.release => kept.entry.release
                           /\ kept.entry.release => i.entry.release \/ seen.deleting \/ ~seen.sql
  <2>1. CASE i.entry = None \/ (seen.sql /\ ~seen.deleting)
    BY Zenon, <2>1
  <2>2. CASE ~(i.entry = None \/ (seen.sql /\ ~seen.deleting))
    <3>1. i.entry \in ResourceBinding
      BY Zenon, <2>2, InventoryShape
    <3>2. kept = [i EXCEPT !.entry = [i.entry EXCEPT !.release = TRUE]]
      <4>1. kept = [i EXCEPT !.entry.release = TRUE]
        BY Zenon, <2>2
      <4>2. [i EXCEPT !.entry.release = TRUE] = [i EXCEPT !.entry = [i.entry EXCEPT !.release = TRUE]]
        BY Zenon DEF Inventory
      <4> HIDE DEF kept
      <4>3. QED
        BY Zenon, <4>1, <4>2
    <3> DEFINE e == [i.entry EXCEPT !.release = TRUE]
    <3>3. e \in ResourceBinding /\ e # None /\ e.release /\ e.uid = i.entry.uid
      BY Zenon, <3>1, ReleaseShape, NoneIsNoObject
    <3>4. kept = [i EXCEPT !.entry = e]
      BY Zenon, <3>2
    <3> HIDE DEF kept, e
    <3>5. kept \in Inventory /\ kept.releasing = i.releasing /\ kept.entry = e
      BY Zenon, <3>3, <3>4, EntryShape
    <3>6. QED
      BY Zenon, <2>2, <3>3, <3>5
  <2>3. QED
    BY Zenon, <2>1, <2>2
<1> HIDE DEF kept
<1>3. CASE seen.deleting
  BY Zenon, <1>1, <1>2, <1>3, ReleasedShape
<1>4. CASE ~seen.deleting
  BY Zenon, <1>1, <1>2, <1>4
<1>5. QED
  BY Zenon, <1>3, <1>4

-----------------------------------------------------------------------------
(* Types and positions.                                                    *)

\* What the Application controller reads.
LEMMA SeenShape ==
  ASSUME TypeOK, PositionInv, pc # "idle"
  PROVE  seen \in Application /\ uid \in Uids /\ seen.deleting \in BOOLEAN /\ seen.sql \in BOOLEAN
<1>1. seen \in Application
  BY Zenon DEF TypeOK, PositionInv, AppPosition, InventoryPosition
<1>2. QED
  BY Zenon, <1>1 DEF Application, uid

\* What RecordObligations makes of the inventory it read.
Drafted == Marked(IF credential[uid] = 0 THEN copy ELSE Persisted(copy, credential[uid]))

\* It keeps every obligation, and the release of it.
LEMMA DraftedShape ==
  ASSUME TypeOK, PositionInv, pc = "discover"
  PROVE  /\ uid \in Uids /\ seen \in Application /\ copy \in Inventory /\ Drafted \in Inventory
         /\ Drafted # None
         /\ copy.entry # None => Drafted.entry # None /\ (copy.entry.release => Drafted.entry.release)
         /\ credential[uid] # 0 => Drafted.entry # None /\ Drafted.entry.uid = credential[uid]
         /\ Drafted.entry # None => copy.entry # None \/ credential[uid] # 0
         /\ Drafted.releasing <=> copy.releasing \/ seen.deleting
         /\ Drafted.entry # None /\ Drafted.entry.release =>
              \/ copy.entry # None /\ copy.entry.release
              \/ Drafted.releasing \/ ~seen.sql
<1> DEFINE base == IF credential[uid] = 0 THEN copy ELSE Persisted(copy, credential[uid])
<1>1. /\ uid \in Uids /\ seen \in Application /\ seen.deleting \in BOOLEAN
      /\ copy \in Inventory /\ credential[uid] \in Nat
  BY Zenon, SeenShape DEF PositionInv, AppPosition, TypeOK
<1>2. /\ base \in Inventory /\ base.releasing = copy.releasing
      /\ copy.entry # None => base.entry # None /\ base.entry.release = copy.entry.release
      /\ credential[uid] # 0 => base.entry # None /\ base.entry.uid = credential[uid]
      /\ base.entry # None => copy.entry # None \/ credential[uid] # 0
      /\ base.entry # None /\ copy.entry = None => base.entry.release = copy.releasing
  <2>1. CASE credential[uid] = 0
    BY Zenon, <1>1, <2>1
  <2>2. CASE credential[uid] # 0
    BY Zenon, <1>1, <2>2, PersistedShape
  <2>3. QED
    BY Zenon, <2>1, <2>2
<1>3. Drafted = Marked(base)
  BY Zenon DEF Drafted
<1> HIDE DEF base
<1>4. /\ Drafted \in Inventory
      /\ Drafted.releasing <=> base.releasing \/ seen.deleting
      /\ base.entry = None => Drafted.entry = None
      /\ base.entry # None => /\ Drafted.entry # None /\ Drafted.entry.uid = base.entry.uid
                              /\ base.entry.release => Drafted.entry.release
                              /\ Drafted.entry.release =>
                                   base.entry.release \/ Drafted.releasing \/ ~seen.sql
  BY Zenon, <1>1, <1>2, <1>3, MarkedShape
<1>5. Drafted # None
  BY Zenon, <1>4, InventoryShape
<1>6. QED
  BY Zenon, <1>1, <1>2, <1>4, <1>5

\* RecordObligations ends the reconcile, or writes that to the inventory it read.
LEMMA RecordShape ==
  ASSUME RecordObligations
  PROVE  /\ pc = "discover" /\ UNCHANGED <<cluster, inventoryController, children, serving>>
         /\ \/ Requeue /\ UNCHANGED inventory
            \/ /\ pc' = "settle" /\ copy' = Drafted /\ UNCHANGED <<draft, seen>>
               /\ \/ inventory' = inventory
                  \/ inventory[uid] = copy /\ inventory' = [inventory EXCEPT ![uid] = Drafted]
<1>1. pc = "discover" /\ UNCHANGED <<cluster, inventoryController, children, serving>>
  BY Zenon DEF RecordObligations, Keep
<1>2. \/ Requeue /\ UNCHANGED inventory
      \/ /\ Drafted = copy \/ inventory[uid] = copy
         /\ inventory' = IF Drafted = copy THEN inventory ELSE [inventory EXCEPT ![uid] = Drafted]
         /\ copy' = Drafted /\ Goto("settle") /\ UNCHANGED draft
  BY Zenon DEF RecordObligations, Drafted
<1>3. QED
  BY Zenon, <1>1, <1>2 DEF Goto

\* An update by the inventory controller is of the inventory it read, if that is
\* unchanged.
LEMMA UpdateShape ==
  ASSUME TypeOK, PositionInv, ipc # "idle", NEW new \in {None} \cup Inventory, UpdateInventory(new)
  PROVE  /\ inventory' \in [Uids -> {None} \cup Inventory]
         /\ UNCHANGED children /\ InventoryIdle
         /\ \A u \in Uids : inventory'[u] = inventory[u]
                            \/ (u = iuid /\ inventory[u] = icopy /\ inventory'[u] = new)
         /\ icopy \in Inventory
<1>1. iuid \in Uids /\ icopy \in Inventory
  BY Zenon DEF TypeOK, PositionInv, AppPosition, InventoryPosition
<1>2. QED
  BY Zenon, <1>1 DEF TypeOK, UpdateInventory

\* What each step of the inventory controller may write.
LEMMA InventoryWrites ==
  ASSUME TypeOK, PositionInv, ipc # "idle"
  PROVE  /\ Released(icopy) \in Inventory
         /\ Persisted(icopy, credential[iuid]) \in Inventory
         /\ [icopy EXCEPT !.entry = None] \in Inventory
         /\ (IF icopy.deleting THEN None ELSE [icopy EXCEPT !.deleting = TRUE]) \in {None} \cup Inventory
<1>1. iuid \in Uids /\ icopy \in Inventory /\ credential[iuid] \in Nat
  BY Zenon DEF TypeOK, PositionInv, AppPosition, InventoryPosition
<1>2. Released(icopy) \in Inventory /\ Persisted(icopy, credential[iuid]) \in Inventory
  BY Zenon, <1>1, ReleasedShape, PersistedShape
<1>3. [icopy EXCEPT !.entry = None] \in Inventory
  BY Zenon, <1>1, EntryShape
<1>4. [icopy EXCEPT !.deleting = TRUE] \in Inventory
  BY Zenon, <1>1 DEF Inventory
<1>5. QED
  BY Zenon, <1>2, <1>3, <1>4

\* Every step keeps the types.
LEMMA TypeStep ==
  ASSUME TypeOK, PositionInv, Next
  PROVE  TypeOK'
<1> USE DEF Controllers, appController, inventoryController, cluster, children, history
<1>0. ASSUME NEW e \in Events, Event(e)
      PROVE  events' \in [Events -> Nat]
  <2>1. events[e] + 1 \in Nat
    BY DEF TypeOK
  <2>2. QED
    BY Zenon, <1>0, <2>1 DEF Event, TypeOK
<1>1. ASSUME NEW sql \in BOOLEAN, CreateApplication(sql)
      PROVE  TypeOK'
  <2>1. uids + 1 \in Uids /\ uids' \in 0..MaxUids
    BY <1>1, LifecycleBounds DEF CreateApplication, TypeOK, Uids
  <2>2. app' \in Application
    BY Zenon, <1>1, <2>1 DEF CreateApplication, Application
  <2>3. QED
    BY <1>1, <2>1, <2>2 DEF CreateApplication, TypeOK
<1>2. CASE EditSql \/ DeleteApplication
  <2>1. app \in Application
    BY Zenon, <1>2 DEF EditSql, DeleteApplication, TypeOK
  <2>2. app' \in Application
    BY Zenon, <1>2, <2>1 DEF EditSql, DeleteApplication, Application
  <2>3. events' \in [Events -> Nat]
    BY Zenon, <1>2, <1>0 DEF EditSql, DeleteApplication, TypeOK, Events
  <2>4. app.uid \in Uids
    BY Zenon, <2>1 DEF Application
  <2>5. trimmed' \subseteq Uids
    BY Zenon, <1>2, <2>4 DEF EditSql, DeleteApplication, TypeOK
  <2>6. QED
    BY Zenon, <1>2, <2>2, <2>3, <2>5 DEF EditSql, DeleteApplication, TypeOK
<1>3. CASE StripFinalizer
  <2>1. app.uid \in Uids
    BY Zenon, <1>3 DEF StripFinalizer, TypeOK, Application
  <2>2. vanished' \subseteq Uids /\ events' \in [Events -> Nat]
    BY Zenon, <1>0, <1>3, <2>1 DEF StripFinalizer, TypeOK, Events
  <2>3. QED
    BY Zenon, <1>3, <2>2 DEF StripFinalizer, TypeOK
<1>4. CASE Crash
  <2>1. events' \in [Events -> Nat]
    BY Zenon, <1>0, <1>4 DEF Crash, Events
  <2>2. QED
    BY Zenon, <1>4, <2>1 DEF Crash, AppIdle, InventoryIdle, TypeOK
<1>5. CASE CacheSync \/ Restart
  BY Zenon, <1>5 DEF CacheSync, Restart, TypeOK
<1>6. ASSUME NEW u \in Uids, SecretMade(u) \/ CredentialGone(u) \/ CredentialCollected(u) \/ SecretCollected(u)
      PROVE  TypeOK'
  <2>0. 0 \in Nat
    OBVIOUS
  <2>1. secret' \in [Uids -> Nat] /\ credential' \in [Uids -> Nat]
    BY Zenon, <1>6, <2>0 DEF SecretMade, CredentialGone, CredentialCollected, SecretCollected,
           TypeOK
  <2>2. terminating' \in [Uids -> BOOLEAN]
    BY Zenon, <1>6 DEF SecretMade, CredentialGone, CredentialCollected, SecretCollected, TypeOK
  <2>3. QED
    BY ZenonT(30), <1>6, <2>1, <2>2 DEF SecretMade, CredentialGone, CredentialCollected,
           SecretCollected, TypeOK
<1>7. CASE Reconcile
  <2>1. seen' \in Application /\ pc' \in {"previous", "ensure"} /\ serving' \in {0} \cup Uids
    BY Zenon, <1>7 DEF Reconcile, TypeOK
  <2>2. QED
    BY Zenon, <1>7, <2>1 DEF Reconcile, Keep, TypeOK
<1>8. CASE Previous
  BY Zenon, <1>8 DEF Previous, Keep, Elsewhere, Requeue, AppIdle, Goto, TypeOK
<1>9. CASE EnsureInventory
  <2>1. uid \in Uids
    BY Zenon, <1>9, SeenShape DEF EnsureInventory, Keep
  <2> DEFINE empty == [releasing |-> FALSE, deleting |-> FALSE, entry |-> None]
  <2>2. empty \in Inventory
    BY Zenon DEF Inventory
  <2> HIDE DEF empty
  <2>3. /\ copy' = inventory[uid] \/ copy' = None \/ copy' = empty
        /\ inventory' = inventory \/ inventory' = [inventory EXCEPT ![uid] = empty]
        /\ pc' \in {"idle", "discover", "settle"}
        /\ seen' \in {None, seen} /\ draft' \in {None, draft}
        /\ UNCHANGED <<cluster, inventoryController, children, serving>>
    BY Zenon, <1>9 DEF EnsureInventory, Keep, Goto, Requeue, AppIdle, empty
  <2>4. copy' \in {None} \cup Inventory /\ inventory' \in [Uids -> {None} \cup Inventory]
    BY <2>1, <2>2, <2>3 DEF TypeOK
  <2>5. QED
    BY <2>3, <2>4 DEF TypeOK
<1>10. CASE RecordObligations
  <2>1. CASE Requeue
    BY Zenon, <1>10, <2>1, RecordShape DEF RecordObligations, Keep, Requeue, AppIdle, TypeOK
  <2>2. CASE ~Requeue
    <3>1. uid \in Uids /\ Drafted \in Inventory
      BY Zenon, <1>10, DraftedShape DEF RecordObligations, Keep
    <3>2. /\ pc' = "settle" /\ copy' = Drafted
          /\ inventory' = inventory \/ inventory' = [inventory EXCEPT ![uid] = Drafted]
          /\ UNCHANGED <<draft, seen, cluster, inventoryController, children, serving>>
      BY Zenon, <1>10, <2>2, RecordShape
    <3>3. inventory' \in [Uids -> {None} \cup Inventory]
      BY Zenon, <3>1, <3>2 DEF TypeOK
    <3>4. QED
      BY Zenon, <3>1, <3>2, <3>3 DEF TypeOK
  <2>3. QED
    BY Zenon, <2>1, <2>2
<1>12. CASE Settle
  <2>1. uid \in Uids
    BY Zenon, <1>12, SeenShape DEF Settle
  <2>2. app' \in {None} \cup Application /\ serving' \in {0} \cup Uids /\ pc' \in {"idle", "intent"}
    BY Zenon, <1>12, <2>1 DEF Settle, Requeue, AppIdle, Goto, TypeOK
  <2>3. {seen', copy', draft'} \subseteq {None, seen, copy, draft}
        /\ seen' \in {None, seen} /\ copy' \in {None, copy} /\ draft' \in {None, draft}
    BY Zenon, <1>12 DEF Settle, Requeue, AppIdle, Goto
  <2>4. UNCHANGED <<cache, running, uids, events, history, inventoryController, children, inventory>>
    BY Zenon, <1>12 DEF Settle
  <2>5. QED
    BY <2>2, <2>3, <2>4 DEF TypeOK
<1>14. CASE ApplicationResource
  <2>1. uid \in Uids
    BY Zenon, <1>14, SeenShape DEF ApplicationResource, Keep
  <2>2. CASE ~Open(inventory[uid])
    BY Zenon, <1>14, <2>2 DEF ApplicationResource, Keep, Requeue, AppIdle, TypeOK
  <2>3. CASE Open(inventory[uid])
    <3>1. inventory[uid] \in Inventory
      BY Zenon, <2>1, <2>3 DEF Open, TypeOK
    <3>2. PICK new \in Inventory : inventory' = [inventory EXCEPT ![uid] = new]
      <4>1. Persisted(inventory[uid], 0) \in Inventory
        BY Zenon, <3>1, PersistedShape
      <4>2. QED
        BY Zenon, <1>14, <2>3, <3>1, <4>1 DEF ApplicationResource
    <3>3. inventory' \in [Uids -> {None} \cup Inventory] /\ inventory'[uid] = new
      BY Zenon, <2>1, <3>2 DEF TypeOK
    <3>4. /\ draft' = inventory'[uid] /\ pc' = "create"
          /\ UNCHANGED <<copy, seen, cluster, inventoryController, children, serving>>
      BY Zenon, <1>14, <2>3 DEF ApplicationResource, Keep, Goto
    <3>5. QED
      BY Zenon, <3>3, <3>4 DEF TypeOK
  <2>4. QED
    BY Zenon, <2>2, <2>3
<1>15. CASE EnsureCredential
  <2>1. uid \in Uids
    BY Zenon, <1>15, SeenShape DEF EnsureCredential, Keep
  <2>2. made' \in [Uids -> Nat]
    <3>1. made[uid] + 1 \in Nat
      BY <2>1 DEF TypeOK
    <3>2. QED
      BY Zenon, <1>15, <2>1, <3>1 DEF EnsureCredential, TypeOK
  <2>3. credential' \in [Uids -> Nat]
    BY Zenon, <1>15, <2>1, <2>2 DEF EnsureCredential, TypeOK
  <2>4. /\ UNCHANGED <<cluster, inventoryController, inventory, serving, secret, terminating>>
        /\ pc' \in {"idle", "record"}
        /\ seen' \in {None, seen} /\ copy' \in {None, copy} /\ draft' \in {None, draft}
    BY Zenon, <1>15 DEF EnsureCredential, Keep, Goto, Requeue, AppIdle
  <2>5. QED
    BY <2>2, <2>3, <2>4 DEF TypeOK
<1>16. CASE RecordResourceUID
  <2>1. uid \in Uids
    BY Zenon, <1>16, SeenShape DEF RecordResourceUID, Keep
  <2>2. CASE ~(Open(inventory[uid]) /\ Persistable(inventory[uid], credential[uid]))
    BY Zenon, <1>16, <2>2 DEF RecordResourceUID, Keep, Requeue, AppIdle, TypeOK
  <2>3. CASE Open(inventory[uid]) /\ Persistable(inventory[uid], credential[uid])
    <3>1. Persisted(inventory[uid], credential[uid]) \in Inventory
      BY Zenon, <2>1, <2>3, PersistedShape DEF Open, TypeOK
    <3>2. inventory' \in [Uids -> {None} \cup Inventory]
      BY Zenon, <1>16, <2>1, <2>3, <3>1 DEF RecordResourceUID, TypeOK
    <3>3. QED
      BY Zenon, <1>16, <2>3, <3>2 DEF RecordResourceUID, Keep, Goto, TypeOK
  <2>4. QED
    BY Zenon, <2>2, <2>3
<1>17. CASE Serve
  <2>1. uid \in Uids
    BY Zenon, <1>17, SeenShape DEF Serve, Keep
  <2>2. serving' \in {0} \cup Uids
    BY Zenon, <1>17, <2>1 DEF Serve, TypeOK
  <2>3. QED
    BY Zenon, <1>17, <2>2 DEF Serve, Keep, Requeue, AppIdle, TypeOK
<1>18. ASSUME NEW u \in Uids, ReconcileInventory(u)
       PROVE  TypeOK'
  <2>1. ipc' \in {"release", "remove", "delete"} /\ iuid' = u /\ icopy' = inventory[u]
        /\ UNCHANGED <<cluster, serving, appController, children, inventory>>
    BY Zenon, <1>18 DEF ReconcileInventory, IKeep, IElsewhere
  <2>2. QED
    BY <2>1 DEF TypeOK
<1>19. ASSUME NEW new \in {None} \cup Inventory, ipc # "idle", UpdateInventory(new),
              UNCHANGED <<cluster, serving, appController>>
       PROVE  TypeOK'
  <2>1. inventory' \in [Uids -> {None} \cup Inventory] /\ UNCHANGED children /\ InventoryIdle
    BY Zenon, <1>19, UpdateShape
  <2>2. QED
    BY Zenon, <1>19, <2>1 DEF InventoryIdle, TypeOK
<1>20. CASE Release \/ Bind \/ Drop \/ DeleteInventory
  <2>1. ipc # "idle" /\ UNCHANGED <<cluster, serving, appController>>
    BY Zenon, <1>20 DEF Release, Bind, Drop, DeleteInventory, IKeep
  <2>2. \E new \in {None} \cup Inventory : UpdateInventory(new)
    BY Zenon, <1>20, <2>1, InventoryWrites DEF Release, Bind, Drop, DeleteInventory
  <2>3. QED
    BY Zenon, <1>19, <2>1, <2>2
<1>21. CASE RemoveApplicationResource
  <2>1. terminating' \in [Uids -> BOOLEAN]
    BY Zenon, <1>21 DEF RemoveApplicationResource, TypeOK
  <2>2. UNCHANGED <<cluster, serving, appController, made, credential, secret, inventory>>
        /\ ipc' \in {"idle", "bind", "drop"} /\ iuid' \in {0, iuid} /\ icopy' \in {None, icopy}
    BY Zenon, <1>21 DEF RemoveApplicationResource, IKeep, IGoto, InventoryIdle
  <2>3. QED
    BY <2>1, <2>2 DEF TypeOK
<1>22. QED
  BY Zenon, <1>1, <1>2, <1>3, <1>4, <1>5, <1>6, <1>7, <1>8, <1>9, <1>10, <1>12, <1>14,
     <1>15, <1>16, <1>17, <1>18, <1>20, <1>21
     DEF Next, AppStep, InventoryStep, DatabaseStep

\* The controllers hold what their position says.
LEMMA PositionStep ==
  ASSUME TypeOK, PositionInv, KnownInv, Next
  PROVE  PositionInv'
<1> USE DEF Controllers, appController, inventoryController, cluster
<1>1. uids \in Nat /\ uids' \in Nat /\ uids <= uids'
  <2>1. uids \in Nat
    BY LifecycleBounds DEF TypeOK
  <2>2. uids' = uids \/ uids' = uids + 1
    BY Zenon DEF Next, CreateApplication, EditSql, DeleteApplication, StripFinalizer, CacheSync,
           Crash, Restart, AppStep, Reconcile, Previous, EnsureInventory, RecordObligations,
           Settle, ApplicationResource, EnsureCredential, RecordResourceUID, Serve, Keep,
           InventoryStep, ReconcileInventory, Release, RemoveApplicationResource, Bind, Drop,
           DeleteInventory, IKeep, DatabaseStep, SecretMade, CredentialGone, CredentialCollected,
           SecretCollected
  <2>3. QED
    BY <2>1, <2>2
<1>2. ASSUME UNCHANGED inventoryController
      PROVE  InventoryPosition'
  <2>1. ipc # "idle" => iuid <= uids'
    <3>1. ipc # "idle" => iuid \in Nat /\ iuid <= uids
      BY DEF PositionInv, InventoryPosition, Uids
    <3>2. QED
      BY <1>1, <3>1
  <2>2. QED
    BY Zenon, <1>2, <2>1 DEF PositionInv, InventoryPosition
<1>3. ASSUME UNCHANGED appController
      PROVE  AppPosition'
  BY Zenon, <1>3 DEF PositionInv, AppPosition
<1>4. ASSUME Requeue
      PROVE  AppPosition'
  BY Zenon, <1>4 DEF Requeue, AppIdle, AppPosition, Providing
<1>5. ASSUME InventoryIdle
      PROVE  InventoryPosition'
  BY Zenon, <1>5 DEF InventoryIdle, InventoryPosition
<1>6. ASSUME pc # "idle" \/ ipc # "idle"
      PROVE  running
  BY Zenon, <1>6 DEF PositionInv, Down
<1>7. CASE \/ \E sql \in BOOLEAN : CreateApplication(sql)
           \/ EditSql \/ DeleteApplication \/ StripFinalizer \/ CacheSync \/ Restart \/ DatabaseStep
  <2>1. UNCHANGED <<appController, inventoryController>>
    BY Zenon, <1>7 DEF CreateApplication, EditSql, DeleteApplication, StripFinalizer, CacheSync,
           Restart, DatabaseStep, SecretMade, CredentialGone, CredentialCollected,
           SecretCollected
  <2>2. Down'
    BY Zenon, <1>7 DEF CreateApplication, EditSql, DeleteApplication, StripFinalizer, CacheSync,
           Restart, DatabaseStep, SecretMade, CredentialGone, CredentialCollected,
           SecretCollected, PositionInv, Down
  <2>3. QED
    BY Zenon, <1>2, <1>3, <2>1, <2>2 DEF PositionInv
<1>8. CASE Crash
  <2>1. Requeue /\ InventoryIdle /\ Down'
    BY Zenon, <1>8 DEF Crash, Requeue, AppIdle, InventoryIdle, Down
  <2>2. QED
    BY Zenon, <1>4, <1>5, <2>1 DEF PositionInv
<1>9. CASE AppStep
  <2>1. running' /\ InventoryPosition'
    <3>1. running' = running /\ UNCHANGED inventoryController
      BY ZenonT(30), <1>9 DEF AppStep, Reconcile, Previous, EnsureInventory, RecordObligations,
             Settle, ApplicationResource, EnsureCredential, RecordResourceUID, Serve, Keep
    <3>2. running \/ pc # "idle"
      BY Zenon, <1>9 DEF AppStep, Reconcile, Previous, EnsureInventory, RecordObligations, Settle,
             ApplicationResource, EnsureCredential, RecordResourceUID, Serve, Keep
    <3>3. QED
      BY Zenon, <1>2, <1>6, <3>1, <3>2
  <2>2. AppPosition'
    <3>1. CASE Reconcile
      <4>1. /\ seen' = cache /\ cache # None
            /\ pc' = "ensure" \/ (pc' = "previous" /\ cache.sql /\ ~cache.deleting)
        BY Zenon, <3>1 DEF Reconcile
      <4>2. QED
        BY Zenon, <4>1 DEF AppPosition, Providing
    <3>2. CASE Previous
      <4>1. Requeue \/ (pc' = "ensure" /\ seen' = seen /\ pc = "previous")
        BY Zenon, <3>2 DEF Previous, Goto, Keep
      <4>2. QED
        BY Zenon, <1>4, <4>1 DEF PositionInv, AppPosition, Providing
    <3>3. CASE EnsureInventory
      <4>1. \/ Requeue
            \/ /\ seen' = seen /\ pc = "ensure"
               /\ \/ pc' = "settle"
                  \/ pc' = "discover" /\ inventory[uid] # None /\ copy' = inventory[uid]
                  \/ pc' = "discover" /\ copy' = [releasing |-> FALSE, deleting |-> FALSE, entry |-> None]
        BY Zenon, <3>3 DEF EnsureInventory, Goto, Keep
      <4>2. [releasing |-> FALSE, deleting |-> FALSE, entry |-> None] # None
        <5>1. [releasing |-> FALSE, deleting |-> FALSE, entry |-> None] \in Inventory
          BY Zenon DEF Inventory
        <5>2. QED
          BY Zenon, <5>1, NoneIsNoObject
      <4>3. QED
        BY Zenon, <1>4, <4>1, <4>2 DEF PositionInv, AppPosition, Providing
    <3>4. CASE RecordObligations
      <4>1. Requeue \/ (pc' = "settle" /\ seen' = seen /\ pc = "discover")
        BY Zenon, <3>4, RecordShape
      <4>2. QED
        BY Zenon, <1>4, <4>1 DEF PositionInv, AppPosition, Providing
    <3>6. CASE Settle
      <4>1. Requeue \/ (pc' = "intent" /\ seen' = seen /\ pc = "settle" /\ seen.sql /\ ~seen.deleting)
        BY Zenon, <3>6 DEF Settle, Goto
      <4>2. QED
        BY Zenon, <1>4, <4>1 DEF PositionInv, AppPosition
    <3>8. CASE ApplicationResource
      <4>1. pc = "intent" /\ uid \in Uids
        BY Zenon, <3>8, SeenShape DEF ApplicationResource, Keep
      <4>2. CASE ~Open(inventory[uid])
        BY Zenon, <1>4, <3>8, <4>2 DEF ApplicationResource
      <4>3. CASE Open(inventory[uid])
        <5>1. /\ pc' = "create" /\ seen' = seen /\ draft' = inventory'[uid]
              /\ inventory' = [inventory EXCEPT ![uid] = IF @.entry = None THEN Persisted(@, 0) ELSE @]
          BY Zenon, <3>8, <4>3 DEF ApplicationResource, Goto
        <5>2. inventory[uid] \in Inventory
          BY Zenon, <4>1, <4>3 DEF Open, TypeOK
        <5>3. draft' = IF inventory[uid].entry = None THEN Persisted(inventory[uid], 0) ELSE inventory[uid]
          BY Zenon, <4>1, <5>1 DEF TypeOK
        <5>4. draft' \in Inventory /\ draft'.entry # None
          BY <5>2, <5>3, PersistedShape
        <5>5. draft' # None
          BY Zenon, <5>4, InventoryShape
        <5>6. QED
          BY Zenon, <4>1, <5>1, <5>4, <5>5 DEF PositionInv, AppPosition, Providing
      <4>4. QED
        BY Zenon, <4>2, <4>3
    <3>9. CASE EnsureCredential
      <4>1. Requeue \/ (pc' = "record" /\ seen' = seen /\ pc = "create")
        BY Zenon, <3>9 DEF EnsureCredential, Goto, Keep
      <4>2. QED
        BY Zenon, <1>4, <4>1 DEF PositionInv, AppPosition, Providing
    <3>10. CASE RecordResourceUID
      <4>1. Requeue \/ (pc' = "serve" /\ seen' = seen /\ pc = "record")
        BY Zenon, <3>10 DEF RecordResourceUID, Goto, Keep
      <4>2. QED
        BY Zenon, <1>4, <4>1 DEF PositionInv, AppPosition, Providing
    <3>11. CASE Serve
      BY Zenon, <1>4, <3>11 DEF Serve
    <3>12. QED
      BY Zenon, <1>9, <3>1, <3>2, <3>3, <3>4, <3>6, <3>8, <3>9, <3>10, <3>11 DEF AppStep
  <2>3. QED
    BY Zenon, <2>1, <2>2 DEF PositionInv, Down
<1>10. CASE InventoryStep
  <2>1. AppPosition' /\ running'
    <3>1. UNCHANGED appController /\ running' = running /\ (running \/ ipc # "idle")
      BY Zenon, <1>10 DEF InventoryStep, ReconcileInventory, Release, RemoveApplicationResource,
             Bind, Drop, DeleteInventory, IKeep
    <3>2. QED
      BY Zenon, <1>3, <1>6, <3>1
  <2>2. InventoryPosition'
    <3>1. ASSUME NEW u \in Uids, ReconcileInventory(u)
          PROVE  InventoryPosition'
      <4>1. /\ iuid' = u /\ icopy' = inventory[u] /\ inventory[u] # None
            /\ \/ ipc' = "release"
               \/ ipc' = "remove" /\ inventory[u].entry # None
               \/ ipc' = "delete" /\ inventory[u].entry = None
        BY Zenon, <3>1 DEF ReconcileInventory
      <4>2. u <= uids /\ u \in Nat
        BY <4>1 DEF KnownInv, Uids
      <4>3. u <= uids'
        BY <1>1, <4>2
      <4>4. QED
        BY Zenon, <4>1, <4>3 DEF InventoryPosition
    <3>2. CASE RemoveApplicationResource
      <4>1. InventoryIdle \/ (ipc' \in {"bind", "drop"} /\ UNCHANGED <<iuid, icopy>> /\ ipc = "remove" /\ uids' = uids)
        BY Zenon, <3>2 DEF RemoveApplicationResource, IGoto, IKeep
      <4>2. QED
        BY Zenon, <1>5, <4>1 DEF PositionInv, InventoryPosition
    <3>3. CASE Release \/ Bind \/ Drop \/ DeleteInventory
      BY Zenon, <1>5, <3>3 DEF Release, Bind, Drop, DeleteInventory, UpdateInventory
    <3>4. QED
      BY Zenon, <1>10, <3>1, <3>2, <3>3 DEF InventoryStep
  <2>3. QED
    BY Zenon, <2>1, <2>2 DEF PositionInv, Down
<1>11. QED
  BY Zenon, <1>7, <1>8, <1>9, <1>10 DEF Next

-----------------------------------------------------------------------------
(* What is read of the Application.                                        *)

\* The histories only grow, each by its own event.
LEMMA HistoryGrows ==
  ASSUME Next
  PROVE  /\ vanished \subseteq vanished' /\ trimmed \subseteq trimmed'
         /\ UNCHANGED vanished \/ StripFinalizer
         /\ UNCHANGED trimmed \/ EditSql
<1> USE DEF cluster, history
<1>1. CASE StripFinalizer \/ EditSql
  BY Zenon, <1>1 DEF StripFinalizer, EditSql
<1>2. CASE AppStep
  BY ZenonT(30), <1>2 DEF AppStep, Reconcile, Previous, EnsureInventory, RecordObligations, Settle,
         ApplicationResource, EnsureCredential, RecordResourceUID, Serve, Keep
<1>3. CASE InventoryStep
  BY Zenon, <1>3 DEF InventoryStep, ReconcileInventory, Release, RemoveApplicationResource, Bind,
         Drop, DeleteInventory, IKeep
<1>4. CASE ~StripFinalizer /\ ~EditSql /\ ~AppStep /\ ~InventoryStep
  BY Zenon, <1>4 DEF Next, CreateApplication, DeleteApplication, CacheSync, Crash, Restart,
         DatabaseStep, SecretMade, CredentialGone, CredentialCollected, SecretCollected
<1>5. QED
  BY Zenon, <1>1, <1>2, <1>3, <1>4

\* UIDs grow, deletion is final, and only a deletion is read of what is gone, or
\* what vanished.
LEMMA ReadingStep ==
  ASSUME TypeOK, PositionInv, ReadingInv, KnownInv, Next
  PROVE  ReadingInv'
<1> USE DEF Controllers, appController, inventoryController, cluster, history
<1>1. uids \in Nat
  BY LifecycleBounds DEF TypeOK
<1>2. /\ app # None => app \in Application /\ app.deleting \in BOOLEAN
      /\ cache # None => cache \in Application /\ cache.uid \in Nat /\ cache.deleting \in BOOLEAN
      /\ seen # None => seen \in Application /\ seen.uid \in Nat /\ seen.deleting \in BOOLEAN
  BY DEF TypeOK, Application, Uids
<1>3. ASSUME UNCHANGED <<app, cache, uids, ipc, iuid, vanished>>, seen' = seen \/ seen' = None
      PROVE  ReadingInv'
  BY Zenon, <1>3 DEF ReadingInv, Alive, Absent
<1>4. ASSUME NEW sql \in BOOLEAN, CreateApplication(sql)
      PROVE  ReadingInv'
  <2>1. /\ app = None /\ app' # None /\ app'.uid = uids + 1 /\ uids' = uids + 1
        /\ UNCHANGED <<cache, seen, ipc, iuid, vanished>>
    <3>1. uids + 1 \in Uids
      BY <1>1, <1>4, LifecycleBounds DEF CreateApplication, TypeOK, Uids
    <3>2. app' \in Application
      BY Zenon, <1>4, <3>1 DEF CreateApplication, Application
    <3>3. QED
      BY Zenon, <1>4, <3>2, NoneIsNoObject DEF CreateApplication
  <2>2. /\ cache # None => cache.uid <= uids /\ (~cache.deleting => cache.uid \in vanished)
        /\ seen # None => seen.uid <= uids /\ (~seen.deleting => seen.uid \in vanished)
        /\ seen # None /\ seen.deleting => ~Alive(cache, seen.uid)
    BY Zenon, <2>1 DEF ReadingInv
  <2>3. ipc \in {"release", "delete"} => iuid \in Nat /\ iuid <= uids
    BY DEF PositionInv, InventoryPosition, Uids
  <2>4. /\ cache # None => cache.uid <= uids + 1 /\ cache.uid # uids + 1
        /\ seen # None => seen.uid <= uids + 1 /\ seen.uid # uids + 1
        /\ ipc \in {"release", "delete"} => iuid # uids + 1
    BY <1>1, <1>2, <2>2, <2>3
  <2>5. QED
    BY Zenon, <2>1, <2>2, <2>4 DEF ReadingInv, Alive, Absent
<1>5. CASE EditSql \/ DeleteApplication
  <2>1. /\ app # None /\ app' # None /\ app'.uid = app.uid /\ (app'.deleting \/ app'.deleting = app.deleting)
        /\ UNCHANGED <<cache, seen, uids, ipc, iuid, vanished>>
    <3>1. app \in Application
      BY Zenon, <1>5 DEF EditSql, DeleteApplication, TypeOK
    <3>2. app' \in Application /\ app'.uid = app.uid /\ (app'.deleting \/ app'.deleting = app.deleting)
      BY Zenon, <1>5, <3>1 DEF EditSql, DeleteApplication, Application
    <3>3. QED
      BY Zenon, <1>5, <3>2, NoneIsNoObject DEF EditSql, DeleteApplication
  <2>2. QED
    BY Zenon, <2>1 DEF ReadingInv, Alive, Absent
<1>6. CASE StripFinalizer
  <2>1. /\ app # None /\ app' = None /\ UNCHANGED <<cache, seen, uids, ipc, iuid>>
        /\ vanished \subseteq vanished'
        /\ Alive(cache, app.uid) \/ Alive(seen, app.uid) => app.uid \in vanished'
    BY Zenon, <1>6 DEF StripFinalizer
  <2>2. /\ cache # None /\ ~cache.deleting => cache.uid \in vanished'
        /\ seen # None /\ ~seen.deleting => seen.uid \in vanished'
    BY Zenon, <2>1 DEF ReadingInv, Alive
  <2>3. QED
    BY Zenon, <2>1, <2>2 DEF ReadingInv, Alive, Absent
<1>7. CASE CacheSync
  <2>1. cache' = app /\ UNCHANGED <<app, seen, uids, ipc, iuid, vanished>>
    BY Zenon, <1>7 DEF CacheSync
  <2>2. QED
    BY <1>1, <2>1 DEF ReadingInv, Alive, Absent
<1>8. CASE Crash
  <2>1. cache' = None /\ seen' = None /\ ipc' = "idle" /\ UNCHANGED <<app, uids, vanished>>
    BY Zenon, <1>8 DEF Crash, AppIdle, InventoryIdle
  <2>2. QED
    BY Zenon, <2>1 DEF ReadingInv, Alive
<1>9. CASE Restart
  <2>1. cache' = app /\ seen = None /\ UNCHANGED <<app, seen, uids, ipc, iuid, vanished>>
    BY Zenon, <1>9 DEF Restart, PositionInv, Down, AppPosition
  <2>2. QED
    BY <1>1, <2>1 DEF ReadingInv, Alive, Absent
<1>10. CASE DatabaseStep
  BY Zenon, <1>3, <1>10 DEF DatabaseStep, SecretMade, CredentialGone, CredentialCollected,
         SecretCollected
<1>11. CASE Reconcile
  <2>1. seen' = cache /\ UNCHANGED <<app, cache, uids, ipc, iuid, vanished>>
    BY Zenon, <1>11 DEF Reconcile, Keep
  <2>2. QED
    BY Zenon, <2>1 DEF ReadingInv, Alive, Absent
<1>12. CASE \/ Previous \/ EnsureInventory \/ RecordObligations
            \/ ApplicationResource \/ EnsureCredential \/ RecordResourceUID \/ Serve
  <2>1. UNCHANGED <<app, cache, uids, ipc, iuid, vanished>>
    BY ZenonT(30), <1>12 DEF Previous, EnsureInventory, RecordObligations, ApplicationResource,
           EnsureCredential, RecordResourceUID, Serve, Keep
  <2>2. seen' = seen \/ seen' = None
    BY ZenonT(30), <1>12 DEF Previous, EnsureInventory, RecordObligations, ApplicationResource,
           EnsureCredential, RecordResourceUID, Serve, Goto, Requeue, AppIdle
  <2>3. QED
    BY Zenon, <1>3, <2>1, <2>2
<1>13. CASE Settle
  <2>1. /\ UNCHANGED <<cache, uids, ipc, iuid, vanished>> /\ (seen' = seen \/ seen' = None)
        /\ app' = app \/ (app' = None /\ app = seen /\ seen' = None /\ seen # None /\ seen.deleting)
    BY Zenon, <1>13 DEF Settle, Requeue, AppIdle, Goto, PositionInv, AppPosition
  <2>2. CASE app' = app
    BY Zenon, <1>3, <2>1, <2>2
  <2>3. CASE app' = None /\ app = seen /\ seen' = None /\ seen # None /\ seen.deleting
    <3>1. cache # None /\ ~cache.deleting => cache.uid \in vanished
      BY Zenon, <2>3 DEF ReadingInv, Alive
    <3>2. QED
      BY Zenon, <2>1, <2>3, <3>1 DEF ReadingInv, Alive, Absent
  <2>4. QED
    BY Zenon, <2>1, <2>2, <2>3
<1>14. ASSUME NEW u \in Uids, ReconcileInventory(u)
       PROVE  ReadingInv'
  <2>1. UNCHANGED <<app, cache, uids, seen, vanished>> /\ iuid' = u /\ (ipc' \in {"release", "delete"} => Absent(u))
    BY ZenonT(30), <1>14 DEF ReconcileInventory, IKeep
  <2>2. QED
    BY Zenon, <2>1 DEF ReadingInv, Alive, Absent
<1>15. CASE RemoveApplicationResource \/ Release \/ Bind \/ Drop \/ DeleteInventory
  <2>1. UNCHANGED <<app, cache, uids, seen, vanished>> /\ ipc' \notin {"release", "delete"}
    BY Zenon, <1>15 DEF RemoveApplicationResource, Release, Bind, Drop, DeleteInventory, IKeep,
           IGoto, UpdateInventory, InventoryIdle
  <2>2. QED
    BY Zenon, <2>1 DEF ReadingInv, Alive
<1>16. QED
  BY Zenon, <1>4, <1>5, <1>6, <1>7, <1>8, <1>9, <1>10, <1>11, <1>12, <1>13, <1>14, <1>15
     DEF Next, AppStep, InventoryStep

-----------------------------------------------------------------------------
(* Who changes inventories, credentials and Secrets.                       *)

\* Every change of an inventory by the Application controller, and by the
\* inventory controller, with the position it is made from.
AppChange(u) ==
  /\ pc # "idle" /\ u = uid /\ UNCHANGED inventoryController
  /\ \/ /\ pc = "ensure" /\ inventory[u] = None
        /\ inventory'[u] = [releasing |-> FALSE, deleting |-> FALSE, entry |-> None]
     \/ pc = "discover" /\ inventory[u] = copy /\ inventory'[u] = Drafted
     \/ /\ pc = "intent" /\ Open(inventory[u]) /\ inventory[u].entry = None
        /\ inventory'[u] = Persisted(inventory[u], 0)
     \/ /\ pc = "record" /\ Open(inventory[u])
        /\ inventory'[u] = Persisted(inventory[u], credential[u])
ControllerChange(u) ==
  /\ ipc' = "idle" /\ u = iuid /\ inventory[u] = icopy /\ UNCHANGED appController
  /\ \/ ipc = "release" /\ inventory'[u] = Released(icopy)
     \/ ipc = "bind" /\ inventory'[u] = Persisted(icopy, credential[u])
     \/ ipc = "drop" /\ inventory'[u] = [icopy EXCEPT !.entry = None]
     \/ ipc = "delete" /\ inventory'[u] \in {None, [icopy EXCEPT !.deleting = TRUE]}

\* An inventory changes only so, and nothing else changes with it.
LEMMA InventoryChange ==
  ASSUME TypeOK, PositionInv, Next, NEW u \in Uids, inventory'[u] # inventory[u]
  PROVE  /\ AppChange(u) \/ ControllerChange(u)
         /\ UNCHANGED <<credential, secret, app, cache, serving, uids, vanished, trimmed>>
         /\ seen' = seen
<1> USE DEF Controllers, appController, inventoryController, cluster, children, history
<1>1. EnsureInventory \/ RecordObligations \/ ApplicationResource \/ RecordResourceUID
      \/ Release \/ Bind \/ Drop \/ DeleteInventory
  BY ZenonT(30) DEF Next, CreateApplication, EditSql, DeleteApplication, StripFinalizer,
         CacheSync, Crash, Restart, AppStep, Reconcile, Previous, Settle, EnsureCredential,
         Serve, Keep, Elsewhere, InventoryStep, ReconcileInventory, IElsewhere,
         RemoveApplicationResource, DatabaseStep, SecretMade, CredentialGone,
         CredentialCollected, SecretCollected
<1>2. ASSUME pc # "idle", UNCHANGED <<cluster, inventoryController, children, serving>>,
             NEW new, inventory' = [inventory EXCEPT ![uid] = new]
      PROVE  u = uid /\ inventory'[u] = new
  BY Zenon, <1>2, SeenShape DEF TypeOK
<1>3. CASE EnsureInventory
  <2>1. /\ pc = "ensure" /\ UNCHANGED <<cluster, inventoryController, children, serving, seen>>
        /\ inventory[uid] = None
        /\ inventory' = [inventory EXCEPT ![uid] = [releasing |-> FALSE, deleting |-> FALSE, entry |-> None]]
    BY ZenonT(30), <1>3 DEF EnsureInventory, Keep, Goto, Requeue
  <2>2. QED
    BY Zenon, <1>2, <2>1 DEF AppChange
<1>4. CASE RecordObligations
  <2>1. /\ pc = "discover" /\ UNCHANGED <<cluster, inventoryController, children, serving>>
        /\ seen' = seen
        /\ inventory[uid] = copy /\ inventory' = [inventory EXCEPT ![uid] = Drafted]
    BY Zenon, <1>4, RecordShape
  <2>2. QED
    BY Zenon, <1>2, <2>1 DEF AppChange
<1>5. CASE ApplicationResource
  <2>1. /\ pc = "intent" /\ UNCHANGED <<cluster, inventoryController, children, serving, seen>>
        /\ Open(inventory[uid])
        /\ inventory' = [inventory EXCEPT ![uid] = IF @.entry = None THEN Persisted(@, 0) ELSE @]
    BY Zenon, <1>5 DEF ApplicationResource, Keep, Goto
  <2>2. uid \in Uids
    BY Zenon, <2>1, SeenShape
  <2>3. inventory' = [inventory EXCEPT ![uid] =
                       IF inventory[uid].entry = None THEN Persisted(inventory[uid], 0) ELSE inventory[uid]]
    BY Zenon, <2>1, <2>2 DEF TypeOK
  <2>4. u = uid /\ inventory'[u] = IF inventory[uid].entry = None THEN Persisted(inventory[uid], 0)
                                   ELSE inventory[uid]
    BY Zenon, <1>2, <2>1, <2>3
  <2>5. QED
    BY Zenon, <2>1, <2>4 DEF AppChange
<1>6. CASE RecordResourceUID
  <2>1. /\ pc = "record" /\ UNCHANGED <<cluster, inventoryController, children, serving, seen>>
        /\ Open(inventory[uid])
        /\ inventory' = [inventory EXCEPT ![uid] = Persisted(@, credential[uid])]
    BY ZenonT(30), <1>6 DEF RecordResourceUID, Keep, Goto
  <2>2. uid \in Uids
    BY Zenon, <2>1, SeenShape
  <2>3. inventory' = [inventory EXCEPT ![uid] = Persisted(inventory[uid], credential[uid])]
    BY Zenon, <2>1, <2>2 DEF TypeOK
  <2>4. u = uid /\ inventory'[u] = Persisted(inventory[u], credential[u])
    BY Zenon, <1>2, <2>1, <2>3
  <2>5. QED
    BY Zenon, <2>1, <2>4 DEF AppChange
<1>7. CASE Release \/ Bind \/ Drop \/ DeleteInventory
  <2>1. ipc # "idle" /\ UNCHANGED <<cluster, serving, appController>>
    BY Zenon, <1>7 DEF Release, Bind, Drop, DeleteInventory, IKeep
  <2>2. ASSUME NEW new \in {None} \cup Inventory, UpdateInventory(new)
        PROVE  /\ u = iuid /\ inventory[u] = icopy /\ inventory'[u] = new
               /\ UNCHANGED children /\ ipc' = "idle"
    <3>1. \A v \in Uids : inventory'[v] = inventory[v]
                          \/ (v = iuid /\ inventory[v] = icopy /\ inventory'[v] = new)
      BY Zenon, <2>1, <2>2, UpdateShape
    <3>2. QED
      BY Zenon, <2>2, <3>1 DEF UpdateInventory, InventoryIdle
  <2>3. CASE Release
    <3>1. ipc = "release" /\ UpdateInventory(Released(icopy)) /\ Released(icopy) \in Inventory
      BY Zenon, <2>1, <2>3, InventoryWrites DEF Release, IKeep
    <3>2. QED
      BY Zenon, <2>1, <2>2, <3>1 DEF ControllerChange
  <2>4. CASE Bind
    <3>1. ipc = "bind" /\ UpdateInventory(Persisted(icopy, credential[iuid]))
          /\ Persisted(icopy, credential[iuid]) \in Inventory
      BY Zenon, <2>1, <2>4, InventoryWrites DEF Bind, IKeep
    <3>2. QED
      BY Zenon, <2>1, <2>2, <3>1 DEF ControllerChange
  <2>5. CASE Drop
    <3>1. ipc = "drop" /\ UpdateInventory([icopy EXCEPT !.entry = None])
          /\ [icopy EXCEPT !.entry = None] \in Inventory
      BY Zenon, <2>1, <2>5, InventoryWrites DEF Drop, IKeep
    <3>2. QED
      BY Zenon, <2>1, <2>2, <3>1 DEF ControllerChange
  <2>6. CASE DeleteInventory
    <3> DEFINE new == IF icopy.deleting THEN None ELSE [icopy EXCEPT !.deleting = TRUE]
    <3>1. ipc = "delete" /\ UpdateInventory(new) /\ new \in {None} \cup Inventory
      BY Zenon, <2>1, <2>6, InventoryWrites DEF DeleteInventory, IKeep
    <3>2. new \in {None, [icopy EXCEPT !.deleting = TRUE]}
      BY Zenon
    <3> HIDE DEF new
    <3>3. QED
      BY Zenon, <2>1, <2>2, <3>1, <3>2 DEF ControllerChange
  <2>7. QED
    BY Zenon, <1>7, <2>3, <2>4, <2>5, <2>6
<1>8. QED
  BY Zenon, <1>1, <1>3, <1>4, <1>5, <1>6, <1>7

\* A credential appears only when one is created, in the position for that.
LEMMA CredentialChange ==
  ASSUME TypeOK, PositionInv, Next, NEW u \in Uids
  PROVE  \/ credential'[u] = credential[u]
         \/ credential'[u] = 0
         \/ /\ pc = "create" /\ u = uid /\ ~draft.entry.release /\ draft.entry.uid = 0
            /\ credential[u] = 0 /\ secret[u] = 0
            /\ UNCHANGED <<inventory, secret, ipc, iuid>>
<1> USE DEF Controllers, appController, inventoryController, cluster, children
<1>1. CASE UNCHANGED credential
  BY Zenon, <1>1
<1>2. ASSUME NEW v \in Uids, CredentialGone(v)
      PROVE  credential'[u] = credential[u] \/ credential'[u] = 0
  BY Zenon, <1>2 DEF CredentialGone, TypeOK
<1>3. CASE EnsureCredential
  <2>1. uid \in Uids
    BY Zenon, <1>3, SeenShape DEF EnsureCredential, Keep
  <2>2. CASE credential[uid] = 0 /\ draft.entry.uid = 0 /\ secret[uid] = 0 /\ ~draft.entry.release
    BY Zenon, <1>3, <2>1, <2>2 DEF EnsureCredential, Keep, TypeOK
  <2>3. CASE ~(credential[uid] = 0 /\ draft.entry.uid = 0 /\ secret[uid] = 0 /\ ~draft.entry.release)
    <3>1. credential' = [credential EXCEPT ![uid] = credential[uid]]
      BY Zenon, <1>3, <2>1, <2>3 DEF EnsureCredential, TypeOK
    <3>2. QED
      BY Zenon, <2>1, <3>1 DEF TypeOK
  <2>4. QED
    BY Zenon, <2>2, <2>3
<1>4. UNCHANGED credential \/ EnsureCredential \/ \E v \in Uids : CredentialGone(v)
  BY Zenon DEF Next, CreateApplication, EditSql, DeleteApplication, StripFinalizer, CacheSync,
         Crash, Restart, AppStep, Reconcile, Previous, EnsureInventory, RecordObligations,
         Settle, ApplicationResource, RecordResourceUID, Serve, Keep, Elsewhere, InventoryStep,
         ReconcileInventory, IElsewhere, Release, Bind, Drop, DeleteInventory, UpdateInventory,
         RemoveApplicationResource, DatabaseStep, SecretMade, CredentialCollected,
         SecretCollected
<1>5. QED
  BY Zenon, <1>1, <1>2, <1>3, <1>4

\* A Secret appears only where there is a credential.
LEMMA SecretChange ==
  ASSUME TypeOK, Next, NEW u \in Uids
  PROVE  secret'[u] = secret[u] \/ secret'[u] = 0 \/ (credential[u] # 0 /\ UNCHANGED <<inventory, credential>>)
<1> USE DEF Controllers, children
<1>1. UNCHANGED secret \/ \E v \in Uids : SecretMade(v) \/ SecretCollected(v)
  BY ZenonT(30) DEF Next, CreateApplication, EditSql, DeleteApplication, StripFinalizer,
         CacheSync, Crash, Restart, AppStep, Reconcile, Previous, EnsureInventory,
         RecordObligations, Settle, ApplicationResource, EnsureCredential, RecordResourceUID,
         Serve, Elsewhere, InventoryStep, ReconcileInventory, IElsewhere, Release, Bind, Drop,
         DeleteInventory, UpdateInventory, RemoveApplicationResource, DatabaseStep,
         CredentialGone, CredentialCollected
<1>2. ASSUME NEW v \in Uids, SecretMade(v) \/ SecretCollected(v)
      PROVE  secret'[u] = secret[u] \/ secret'[u] = 0 \/ (credential[u] # 0 /\ UNCHANGED <<inventory, credential>>)
  BY Zenon, <1>2 DEF SecretMade, SecretCollected, TypeOK
<1>3. QED
  BY Zenon, <1>1, <1>2

\* The inventory controller takes entries out and puts none in.
LEMMA ControllerDrops ==
  ASSUME TypeOK, PositionInv, NEW u \in Uids, ControllerChange(u), ipc \in {"drop", "delete"}
  PROVE  ~HasObligations(inventory'[u])
<1>1. icopy \in Inventory
  BY Zenon DEF PositionInv, InventoryPosition, TypeOK
<1>2. CASE ipc = "drop"
  <2>1. inventory'[u] = [icopy EXCEPT !.entry = None]
    BY Zenon, <1>2 DEF ControllerChange
  <2>2. [icopy EXCEPT !.entry = None].entry = None
    BY Zenon, <1>1 DEF Inventory
  <2>3. QED
    BY Zenon, <2>1, <2>2 DEF HasObligations
<1>3. CASE ipc = "delete"
  <2>1. icopy.entry = None /\ inventory'[u] \in {None, [icopy EXCEPT !.deleting = TRUE]}
    BY Zenon, <1>3 DEF ControllerChange, PositionInv, InventoryPosition
  <2>2. inventory'[u] = None \/ inventory'[u].entry = None
    BY Zenon, <1>1, <2>1 DEF Inventory
  <2>3. QED
    BY Zenon, <2>2 DEF HasObligations
<1>4. QED
  BY Zenon, <1>2, <1>3

\* So an obligation it leaves was there.
LEMMA ControllerObligations ==
  ASSUME TypeOK, PositionInv, NEW u \in Uids, ControllerChange(u), HasObligations(inventory'[u])
  PROVE  HasObligations(inventory[u])
<1>1. /\ inventory[u] = icopy /\ icopy # None /\ icopy \in Inventory
  BY Zenon DEF ControllerChange, PositionInv, InventoryPosition, TypeOK
<1>2. CASE ipc = "release"
  <2>1. icopy.entry = None => inventory'[u].entry = None
    BY Zenon, <1>1, <1>2, ReleasedShape DEF ControllerChange
  <2>2. QED
    BY Zenon, <1>1, <2>1 DEF HasObligations
<1>3. CASE ipc = "bind"
  BY Zenon, <1>1, <1>3 DEF HasObligations, PositionInv, InventoryPosition
<1>4. CASE ipc \in {"drop", "delete"}
  BY Zenon, <1>4, ControllerDrops
<1>5. QED
  BY Zenon, <1>2, <1>3, <1>4 DEF ControllerChange

\* What a change of an inventory means for its entry: one appears only for the
\* Application being reconciled, and a release stays while it is worked on.
LEMMA ChangeShape ==
  ASSUME TypeOK, PositionInv, Next, NEW u \in Uids, inventory'[u] # inventory[u]
  PROVE  /\ HasObligations(inventory'[u]) => HasObligations(inventory[u]) \/ (pc # "idle" /\ u = uid)
         /\ ipc' # "idle" /\ Releasable(u) => Releasable(u)'
<1>1. AppChange(u) \/ ControllerChange(u)
  BY Zenon, InventoryChange
<1>2. inventory[u] # None => inventory[u] \in Inventory
  BY Zenon DEF TypeOK
<1>3. Releasable(u)' <=> HasObligations(inventory'[u]) /\ inventory'[u].entry.release
  BY Zenon DEF Releasable
<1>4. CASE AppChange(u)
  <2>1. pc # "idle" /\ u = uid
    BY Zenon, <1>4 DEF AppChange
  <2>2. CASE ~HasObligations(inventory[u])
    BY Zenon, <2>1, <2>2 DEF Releasable
  <2>3. CASE HasObligations(inventory[u]) /\ pc = "discover"
    <3>1. inventory[u] = copy /\ inventory'[u] = Drafted
      BY ZenonT(30), <1>4, <2>3 DEF AppChange
    <3>2. Drafted # None
          /\ (copy.entry # None => Drafted.entry # None /\ (copy.entry.release => Drafted.entry.release))
      BY Zenon, <2>3, DraftedShape
    <3>3. QED
      BY Zenon, <1>3, <2>1, <2>3, <3>1, <3>2 DEF Releasable, HasObligations
  <2>4. CASE HasObligations(inventory[u]) /\ pc # "discover"
    <3>1. /\ inventory[u] # None /\ inventory[u].entry # None /\ inventory[u] \in Inventory
          /\ inventory'[u] = Persisted(inventory[u], credential[u]) /\ credential[u] \in Nat
      BY Zenon, <1>2, <1>4, <2>4 DEF AppChange, HasObligations, TypeOK
    <3>2. /\ inventory'[u] \in Inventory /\ inventory'[u].entry # None
          /\ inventory'[u].entry.release = inventory[u].entry.release
      BY <3>1, PersistedShape
    <3>3. inventory'[u] # None
      BY Zenon, <3>2, InventoryShape
    <3>4. QED
      BY Zenon, <1>3, <2>1, <3>2, <3>3 DEF Releasable, HasObligations
  <2>5. QED
    BY Zenon, <2>2, <2>3, <2>4
<1>5. CASE ControllerChange(u)
  <2>1. ipc' = "idle"
    BY Zenon, <1>5 DEF ControllerChange
  <2>2. QED
    BY Zenon, <1>5, <2>1, ControllerObligations
<1>6. QED
  BY Zenon, <1>1, <1>4, <1>5

\* A change of an inventory keeps what exists in the cluster accounted for.
LEMMA AccountedChange ==
  ASSUME TypeOK, PositionInv, RemovalInv, Next,
         NEW u \in Uids \ vanished, Accounted(u), inventory'[u] # inventory[u]
  PROVE  Accounted(u)'
<1>1. AppChange(u) \/ ControllerChange(u)
  BY Zenon, InventoryChange
<1>2. /\ credential[u] \in Nat /\ (inventory[u] # None => inventory[u] \in Inventory)
      /\ Held(u)' = Held(u) /\ credential'[u] = credential[u]
  BY Zenon, InventoryChange DEF TypeOK, Held
<1>3. Accounted(u)' <=> /\ Held(u) => HasObligations(inventory'[u])
                        /\ credential[u] # 0 => inventory'[u].entry.uid \in {0, credential[u]}
  BY Zenon, <1>2 DEF Accounted
<1>5. Held(u) <=> credential[u] # 0 \/ secret[u] # 0
  BY Zenon DEF Held
<1>6. ASSUME inventory[u] # None, inventory'[u] = Persisted(inventory[u], credential[u])
      PROVE  /\ inventory'[u] # None /\ inventory'[u].entry # None
             /\ inventory'[u].entry.uid = credential[u]
  <2>1. inventory'[u] \in Inventory
    BY Zenon, <1>2, <1>6, PersistedShape
  <2>2. QED
    BY <1>2, <1>6, <2>1, PersistedShape, InventoryShape
<1>7. CASE AppChange(u)
  <2>1. pc # "idle" /\ u = uid
    BY Zenon, <1>7 DEF AppChange
  <2>2. CASE ~HasObligations(inventory[u])
    BY Zenon, <1>3, <1>5, <2>1, <2>2 DEF Accounted
  <2>3. CASE HasObligations(inventory[u]) /\ pc = "discover"
    <3>1. inventory[u] = copy /\ inventory'[u] = Drafted
      BY ZenonT(30), <1>7, <2>3 DEF AppChange
    <3>2. /\ Drafted # None /\ (copy.entry # None => Drafted.entry # None)
          /\ credential[u] # 0 => Drafted.entry # None /\ Drafted.entry.uid = credential[u]
      BY Zenon, <2>1, <2>3, DraftedShape
    <3>3. QED
      BY Zenon, <1>3, <2>3, <3>1, <3>2 DEF HasObligations
  <2>4. CASE HasObligations(inventory[u]) /\ pc # "discover"
    <3>1. inventory[u] # None /\ inventory'[u] = Persisted(inventory[u], credential[u])
      BY Zenon, <1>7, <2>4 DEF AppChange, HasObligations
    <3>2. QED
      BY Zenon, <1>3, <1>6, <3>1 DEF HasObligations
  <2>5. QED
    BY Zenon, <2>2, <2>3, <2>4
<1>8. CASE ControllerChange(u)
  <2>1. ipc' = "idle" /\ u = iuid /\ inventory[u] = icopy
    BY Zenon, <1>8 DEF ControllerChange
  <2>2. ipc # "idle" /\ icopy # None /\ icopy \in Inventory
    BY Zenon, <1>2, <1>8, <2>1 DEF ControllerChange, PositionInv, InventoryPosition
  <2>3. CASE ipc = "release"
    <3>1. inventory'[u] = Released(icopy)
      BY Zenon, <1>8, <2>3 DEF ControllerChange
    <3>2. /\ inventory'[u] \in Inventory
          /\ icopy.entry = None => inventory'[u].entry = None
          /\ icopy.entry # None => inventory'[u].entry # None /\ inventory'[u].entry.uid = icopy.entry.uid
      BY Zenon, <2>2, <3>1, ReleasedShape
    <3>3. inventory'[u] # None
      BY Zenon, <3>2, InventoryShape
    <3>4. /\ Held(u) => icopy.entry # None
          /\ credential[u] # 0 => icopy.entry.uid \in {0, credential[u]}
      BY Zenon, <2>1 DEF Accounted, HasObligations
    <3>5. QED
      BY Zenon, <1>3, <1>5, <2>1, <2>2, <3>2, <3>3, <3>4 DEF HasObligations
  <2>4. CASE ipc = "bind"
    <3>1. inventory'[u] = Persisted(inventory[u], credential[u]) /\ icopy.entry # None
      BY Zenon, <1>8, <2>1, <2>4 DEF ControllerChange, PositionInv, InventoryPosition
    <3>2. QED
      BY Zenon, <1>3, <1>6, <2>1, <2>2, <3>1 DEF HasObligations
  <2>5. CASE ipc = "drop"
    <3>1. ~Held(u)
      BY Zenon, <2>1, <2>5 DEF RemovalInv
    <3>2. QED
      BY Zenon, <1>3, <1>5, <2>1, <3>1 DEF HasObligations
  <2>6. CASE ipc = "delete"
    <3>1. icopy.entry = None
      BY Zenon, <2>6 DEF PositionInv, InventoryPosition
    <3>2. inventory'[u] = None \/ inventory'[u].entry = None
      BY Zenon, <1>8, <2>2, <2>6, <3>1 DEF ControllerChange, Inventory
    <3>3. ~HasObligations(inventory[u]) /\ ~HasObligations(inventory'[u])
      BY Zenon, <2>1, <3>1, <3>2 DEF HasObligations
    <3>4. QED
      BY Zenon, <1>3, <1>5, <2>1, <3>3 DEF Accounted
  <2>7. QED
    BY Zenon, <1>8, <2>3, <2>4, <2>5, <2>6 DEF ControllerChange
<1>9. QED
  BY Zenon, <1>1, <1>7, <1>8

-----------------------------------------------------------------------------
(* Obligations.                                                            *)

\* What is read of the Application is read from what there is.
LEMMA ReadingChange ==
  ASSUME Next
  PROVE  /\ uids' = uids \/ uids' = uids + 1
         /\ \/ cache' = cache /\ seen' \in {None, cache, seen}
            \/ cache' \in {None, app} /\ seen' \in {None, seen}
<1> USE DEF cluster
<1>1. CASE AppStep
  <2>1. uids' = uids /\ cache' = cache
    BY ZenonT(30), <1>1 DEF AppStep, Reconcile, Previous, EnsureInventory, RecordObligations,
           Settle, ApplicationResource, EnsureCredential, RecordResourceUID, Serve, Keep
  <2>2. seen' \in {None, cache, seen}
    BY ZenonT(30), <1>1 DEF AppStep, Reconcile, Previous, EnsureInventory, RecordObligations,
           Settle, ApplicationResource, EnsureCredential, RecordResourceUID, Serve, Goto,
           Requeue, AppIdle
  <2>3. QED
    BY Zenon, <2>1, <2>2
<1>2. CASE InventoryStep
  BY Zenon, <1>2 DEF InventoryStep, ReconcileInventory, Release, Bind, Drop, DeleteInventory,
         RemoveApplicationResource, IKeep, appController
<1>3. CASE ~AppStep /\ ~InventoryStep
  BY Zenon, <1>3 DEF Next, CreateApplication, EditSql, DeleteApplication, StripFinalizer,
         CacheSync, Crash, AppIdle, Restart, DatabaseStep, SecretMade, CredentialGone,
         CredentialCollected, SecretCollected, Controllers, appController
<1>4. QED
  BY Zenon, <1>1, <1>2, <1>3

\* A credential or Secret that is there was there, or is just being created.
LEMMA HeldChange ==
  ASSUME TypeOK, PositionInv, Next, NEW u \in Uids, Held(u)'
  PROVE  Held(u) \/ (pc = "create" /\ u = uid)
<1>1. credential'[u] # 0 \/ secret'[u] # 0
  BY Zenon DEF Held
<1>2. QED
  BY Zenon, <1>1, CredentialChange, SecretChange DEF Held

\* Inventories are of Applications that were created.
LEMMA InventoryKnown ==
  ASSUME TypeOK, PositionInv, ReadingInv, KnownInv, Next, NEW u \in Uids, inventory'[u] # None
  PROVE  u <= uids'
<1>1. uids <= uids' /\ uids \in Nat /\ uids' \in Nat /\ u \in Nat
  <2>1. uids \in Nat /\ u \in Nat
    BY LifecycleBounds DEF TypeOK, Uids
  <2>2. QED
    BY <2>1, ReadingChange
<1>2. CASE inventory'[u] = inventory[u]
  BY <1>1, <1>2 DEF KnownInv
<1>3. CASE inventory'[u] # inventory[u]
  <2>1. AppChange(u) \/ ControllerChange(u)
    BY Zenon, <1>3, InventoryChange
  <2>2. CASE AppChange(u)
    <3>1. seen # None /\ u = seen.uid
      BY Zenon, <2>2 DEF AppChange, PositionInv, AppPosition, uid
    <3>2. u <= uids
      BY Zenon, <3>1 DEF ReadingInv
    <3>3. QED
      BY <1>1, <3>2
  <2>3. CASE ControllerChange(u)
    <3>1. ipc # "idle" /\ u = iuid
      BY Zenon, <2>3 DEF ControllerChange
    <3>2. u <= uids
      BY Zenon, <3>1 DEF PositionInv, InventoryPosition
    <3>3. QED
      BY <1>1, <3>2
  <2>4. QED
    BY Zenon, <2>1, <2>2, <2>3
<1>4. QED
  BY Zenon, <1>2, <1>3

\* What there is in the cluster is of no later Application than the readings.
LEMMA KnownStep ==
  ASSUME TypeOK, PositionInv, ReadingInv, KnownInv, Next
  PROVE  KnownInv'
<1>1. /\ uids \in Nat /\ uids' \in Nat /\ uids <= uids' /\ Uids \subseteq Nat
      /\ cache # None => cache.uid \in Nat
      /\ seen # None => seen.uid \in Nat
  <2>1. uids \in Nat /\ Uids \subseteq Nat
    BY LifecycleBounds DEF TypeOK, Uids
  <2>2. (cache # None => cache.uid \in Uids) /\ (seen # None => seen.uid \in Uids)
    BY Zenon DEF TypeOK, Application
  <2>3. uids' = uids \/ uids' = uids + 1
    BY Zenon, ReadingChange
  <2>4. uids' \in Nat /\ uids <= uids'
    BY <2>1, <2>3
  <2>5. QED
    BY Zenon, <2>1, <2>2, <2>4
<1>2. /\ cache' # None => (cache # None /\ cache'.uid = cache.uid) \/ cache'.uid = uids
      /\ seen' # None => (seen # None /\ seen' = seen) \/ (cache # None /\ seen' = cache)
  BY Zenon, ReadingChange DEF ReadingInv
<1>3. ASSUME NEW u \in Uids, u <= uids, cache # None => u <= cache.uid, seen # None => u <= seen.uid
      PROVE  /\ u <= uids'
             /\ cache' # None => u <= cache'.uid
             /\ seen' # None => u <= seen'.uid
  <2>1. u <= uids'
    BY <1>1, <1>3
  <2>2. QED
    BY Zenon, <1>2, <1>3, <2>1
<1>4. cache' # None /\ seen' # None => seen'.uid <= cache'.uid
  <2>1. CASE cache' = cache /\ seen' \in {None, cache, seen}
    <3>1. cache # None => cache.uid <= cache.uid
      BY <1>1
    <3>2. QED
      BY Zenon, <2>1, <3>1 DEF KnownInv
  <2>2. CASE cache' \in {None, app} /\ seen' \in {None, seen}
    BY Zenon, <2>2 DEF ReadingInv
  <2>3. QED
    BY Zenon, <2>1, <2>2, ReadingChange
<1>5. ASSUME NEW u \in Uids, Held(u)'
      PROVE  u <= uids' /\ (cache' # None => u <= cache'.uid) /\ (seen' # None => u <= seen'.uid)
  <2>1. CASE Held(u)
    BY Zenon, <1>3, <2>1 DEF KnownInv
  <2>2. CASE pc = "create" /\ u = uid
    <3>1. seen # None /\ u = seen.uid
      BY Zenon, <2>2 DEF PositionInv, AppPosition, uid
    <3>2. u <= uids /\ (cache # None => u <= cache.uid)
      BY Zenon, <3>1 DEF ReadingInv, KnownInv
    <3>3. u <= seen.uid
      BY <1>1, <3>1
    <3>4. QED
      BY Zenon, <1>3, <3>2, <3>3
  <2>3. QED
    BY Zenon, <1>5, <2>1, <2>2, HeldChange
<1>6. \A u \in Uids : inventory'[u] # None => u <= uids'
  BY Zenon, InventoryKnown
<1>7. Uids' = Uids
  BY Zenon DEF Uids
<1>8. QED
  BY Zenon, <1>4, <1>5, <1>6, <1>7 DEF KnownInv

\* A controller's position changes by its own steps, or is lost in a crash.
LEMMA Frames ==
  ASSUME Next
  PROVE  /\ AppStep \/ UNCHANGED appController \/ pc' = "idle"
         /\ InventoryStep \/ UNCHANGED inventoryController \/ ipc' = "idle"
         /\ AppStep => UNCHANGED inventoryController
         /\ InventoryStep => UNCHANGED <<cluster, serving, appController>>
<1>1. AppStep => UNCHANGED inventoryController
  BY Zenon DEF AppStep, Reconcile, Previous, EnsureInventory, RecordObligations, Settle,
         ApplicationResource, EnsureCredential, RecordResourceUID, Serve, Keep
<1>2. InventoryStep => UNCHANGED <<cluster, serving, appController>>
  BY Zenon DEF InventoryStep, ReconcileInventory, Release, Bind, Drop, DeleteInventory,
         RemoveApplicationResource, IKeep
<1>3. ~AppStep /\ ~InventoryStep => Controllers \/ (pc' = "idle" /\ ipc' = "idle")
  BY Zenon DEF Next, CreateApplication, EditSql, DeleteApplication, StripFinalizer, CacheSync,
         Crash, AppIdle, InventoryIdle, Restart, DatabaseStep, SecretMade, CredentialGone,
         CredentialCollected, SecretCollected
<1>4. QED
  BY Zenon, <1>1, <1>2, <1>3 DEF Controllers

\* No step leaves a credential or a Secret without an obligation.
LEMMA AccountedStep ==
  ASSUME TypeOK, PositionInv, ObligationInv, Next, NEW u \in Uids \ vanished'
  PROVE  Accounted(u)'
<1>1. u \in Uids \ vanished /\ Accounted(u) /\ RemovalInv /\ CreateInv
  BY Zenon, HistoryGrows DEF ObligationInv
<1>2. CASE inventory'[u] # inventory[u]
  BY Zenon, <1>1, <1>2, AccountedChange
<1>3. CASE inventory'[u] = inventory[u]
  <2>1. Held(u) <=> credential[u] # 0 \/ secret[u] # 0
    BY Zenon DEF Held
  <2>2. Accounted(u)' <=> /\ credential'[u] # 0 \/ secret'[u] # 0 => HasObligations(inventory[u])
                          /\ credential'[u] # 0 => inventory[u].entry.uid \in {0, credential'[u]}
    BY Zenon, <1>3 DEF Accounted, Held
  <2>3. /\ credential[u] # 0 \/ secret[u] # 0 => HasObligations(inventory[u])
        /\ credential[u] # 0 => inventory[u].entry.uid \in {0, credential[u]}
    BY Zenon, <1>1, <2>1 DEF Accounted
  <2>4. secret'[u] # 0 => HasObligations(inventory[u])
    BY Zenon, <2>3, SecretChange
  <2>5. CASE credential'[u] \in {0, credential[u]}
    BY Zenon, <2>2, <2>3, <2>4, <2>5
  <2>6. CASE credential'[u] \notin {0, credential[u]}
    <3>1. pc = "create" /\ u = uid /\ ~draft.entry.release /\ draft.entry.uid = 0
      BY Zenon, <2>6, CredentialChange
    <3>2. inventory[u] = draft /\ draft # None /\ draft.entry # None
      BY Zenon, <1>1, <3>1 DEF CreateInv, PositionInv, AppPosition
    <3>3. QED
      BY Zenon, <2>2, <3>1, <3>2 DEF HasObligations
  <2>7. QED
    BY Zenon, <2>5, <2>6
<1>4. QED
  BY Zenon, <1>2, <1>3

\* An entry under removal stays one to be released, and one that is dropped has
\* neither credential nor Secret: none is created for a released entry.
LEMMA RemovalStep ==
  ASSUME TypeOK, PositionInv, ObligationInv, Next
  PROVE  RemovalInv'
<1>1. RemovalInv /\ CreateInv /\ vanished \subseteq vanished'
  BY Zenon, HistoryGrows DEF ObligationInv
<1>2. CASE ipc' \notin {"remove", "bind", "drop"}
  BY Zenon, <1>2 DEF RemovalInv
<1>3. CASE InventoryStep
  <2>1. ASSUME NEW u \in Uids, ReconcileInventory(u), ipc' = "remove"
        PROVE  RemovalInv'
    BY Zenon, <2>1 DEF ReconcileInventory, IElsewhere, RemovalInv, Releasable, HasObligations
  <2>2. CASE RemoveApplicationResource
    <3>1. ipc = "remove" /\ UNCHANGED <<inventory, credential, secret>>
      BY Zenon, <2>2 DEF RemoveApplicationResource, IKeep
    <3>2. CASE ipc' = "idle"
      BY Zenon, <3>2 DEF RemovalInv
    <3>3. CASE ipc' # "idle"
      <4>1. UNCHANGED iuid /\ (ipc' = "drop" => credential[iuid] = 0 /\ secret[iuid] = 0)
        BY Zenon, <2>2, <3>3 DEF RemoveApplicationResource, IGoto, InventoryIdle
      <4>2. Releasable(iuid)
        BY Zenon, <1>1, <3>1 DEF RemovalInv
      <4>3. QED
        BY Zenon, <3>1, <4>1, <4>2 DEF RemovalInv, Releasable, Held
    <3>4. QED
      BY Zenon, <3>2, <3>3
  <2>3. CASE Release \/ Bind \/ Drop \/ DeleteInventory
    BY Zenon, <2>3 DEF Release, Bind, Drop, DeleteInventory, UpdateInventory, InventoryIdle,
           RemovalInv
  <2>4. QED
    BY Zenon, <1>2, <1>3, <2>1, <2>2, <2>3 DEF InventoryStep, ReconcileInventory
<1>4. CASE UNCHANGED inventoryController /\ ipc' \in {"remove", "bind", "drop"}
  <2>1. UNCHANGED <<ipc, iuid>> /\ ipc \in {"remove", "bind", "drop"} /\ ipc' # "idle"
    BY Zenon, <1>4 DEF inventoryController
  <2>2. Releasable(iuid) /\ iuid \in Uids
    BY Zenon, <1>1, <2>1 DEF RemovalInv, PositionInv, InventoryPosition
  <2>3. HasObligations(inventory'[iuid]) /\ inventory'[iuid].entry.release
    <3>1. CASE inventory'[iuid] = inventory[iuid]
      BY Zenon, <2>2, <3>1 DEF Releasable
    <3>2. CASE inventory'[iuid] # inventory[iuid]
      <4>1. \A u \in Uids : u = iuid => Releasable(u)'
        BY Zenon, <2>1, <2>2, <3>2, ChangeShape
      <4>2. QED
        BY Zenon, <2>2, <4>1 DEF Releasable
    <3>3. QED
      BY Zenon, <3>1, <3>2
  <2>4. ipc = "drop" /\ iuid \notin vanished' => credential'[iuid] = 0 /\ secret'[iuid] = 0
    <3>1. SUFFICES ASSUME ipc = "drop", iuid \notin vanished'
                   PROVE  credential'[iuid] = 0 /\ secret'[iuid] = 0
      BY Zenon
    <3>2. credential[iuid] = 0 /\ secret[iuid] = 0
      BY Zenon, <1>1, <3>1 DEF RemovalInv, Held
    <3>3. ~(pc = "create" /\ iuid = uid /\ ~draft.entry.release)
      BY Zenon, <1>1, <2>2, <3>1, HistoryGrows DEF CreateInv, Releasable
    <3>4. QED
      BY Zenon, <2>2, <3>2, <3>3, CredentialChange, SecretChange
  <2>5. Releasable(iuid)' /\ (ipc = "drop" => iuid \in vanished' \/ ~Held(iuid)')
    BY Zenon, <2>1, <2>3, <2>4 DEF Releasable, Held
  <2>6. QED
    BY Zenon, <2>1, <2>5 DEF RemovalInv
<1>5. QED
  BY Zenon, <1>2, <1>3, <1>4, Frames

\* The inventory an intent was read from is changed before the credential is created
\* only if the entry is already to be released: its Application is still there.
LEMMA CreateStep ==
  ASSUME TypeOK, PositionInv, ReadingInv, RemovalInv, CreateInv, Next
  PROVE  CreateInv'
<1> SUFFICES ASSUME pc' = "create" PROVE CreateInv'
  BY Zenon DEF CreateInv
<1>1. CASE AppStep
  <2>1. ApplicationResource
    BY Zenon, <1>1 DEF AppStep, Reconcile, Previous, EnsureInventory, RecordObligations, Settle,
           EnsureCredential, RecordResourceUID, Serve, Goto, Requeue, AppIdle
  <2>2. draft' = inventory'[uid] /\ UNCHANGED seen
    BY Zenon, <2>1 DEF ApplicationResource, Goto, Requeue, AppIdle
  <2>3. QED
    BY Zenon, <2>2 DEF CreateInv, uid
<1>2. CASE UNCHANGED appController
  <2>1. pc = "create" /\ UNCHANGED <<seen, draft>>
    BY Zenon, <1>2 DEF appController
  <2>2. uid \in Uids /\ uid' = uid /\ seen # None /\ ~seen.deleting
    BY Zenon, <2>1, SeenShape DEF uid, PositionInv, AppPosition, Providing
  <2>3. CASE uid \in vanished'
    BY Zenon, <2>2, <2>3 DEF CreateInv
  <2>4. uid \notin vanished' => uid \notin vanished
    BY Zenon, HistoryGrows
  <2>5. uid \notin vanished => app # None /\ app.uid = uid
    BY Zenon, <2>2 DEF ReadingInv, uid
  <2>6. CASE inventory'[uid] = inventory[uid] /\ uid \notin vanished'
    BY Zenon, <2>1, <2>2, <2>6, <2>4 DEF CreateInv
  <2>7. CASE inventory'[uid] # inventory[uid] /\ uid \notin vanished'
    <3>1. \A u \in Uids : u = uid => AppChange(u) \/ ControllerChange(u)
      BY Zenon, <2>2, <2>7, InventoryChange
    <3>2. ControllerChange(uid)
      BY Zenon, <2>1, <2>2, <3>1 DEF AppChange
    <3>3. uid = iuid /\ ipc \in {"bind", "drop"}
      BY Zenon, <2>5, <2>7, <2>4, <3>2 DEF ControllerChange, ReadingInv, Absent
    <3>4. inventory[uid].entry.release
      BY Zenon, <3>3 DEF RemovalInv, Releasable
    <3>5. QED
      BY Zenon, <2>1, <2>2, <2>7, <2>4, <3>4 DEF CreateInv
  <2>8. QED
    BY Zenon, <2>3, <2>6, <2>7
<1>3. QED
  BY Zenon, <1>1, <1>2, Frames

\* The obligations, together.
LEMMA ObligationStep ==
  ASSUME TypeOK, PositionInv, ReadingInv, ObligationInv, Next
  PROVE  ObligationInv'
<1>1. RemovalInv /\ CreateInv
  BY Zenon DEF ObligationInv
<1>2. \A u \in Uids \ vanished' : Accounted(u)'
  BY Zenon, AccountedStep
<1>3. RemovalInv' /\ CreateInv'
  BY Zenon, <1>1, RemovalStep, CreateStep
<1>4. Uids' = Uids
  BY Zenon DEF Uids
<1>5. QED
  BY Zenon, <1>2, <1>3, <1>4 DEF ObligationInv

\* One Application of the name at a time has obligations while it is provided for,
\* and none before one that holds a credential or a Secret.
LEMMA ExclusionStep ==
  ASSUME TypeOK, PositionInv, KnownInv, ExclusionInv, Next
  PROVE  ExclusionInv'
<1>1. \A u, v \in Uids : v < u => u # v /\ ~(u <= v)
  BY LifecycleBounds DEF Uids
<1>2. ASSUME NEW v \in Uids, ~HasObligations(inventory[v]), pc # "idle" => v # uid
      PROVE  ~HasObligations(inventory'[v])
  BY Zenon, <1>2, ChangeShape
<1>3. ASSUME pc' \notin {"idle", "previous"}, seen'.sql, ~seen'.deleting,
             NEW v \in Uids \ {uid'}
      PROVE  ~HasObligations(inventory'[v])
  <2>1. CASE Reconcile
    BY Zenon, <1>3, <2>1 DEF Reconcile
  <2>2. CASE Previous
    <3>1. UNCHANGED <<seen, inventory>> /\ ~\E w \in Uids \ {uid} : HasObligations(inventory[w])
      BY Zenon, <1>3, <2>2 DEF Previous, Elsewhere, Goto, Requeue, AppIdle
    <3>2. QED
      BY Zenon, <1>3, <3>1 DEF uid
  <2>3. CASE ~Reconcile /\ ~Previous
    <3>1. UNCHANGED seen /\ pc \notin {"idle", "previous"}
      <4>1. CASE AppStep
        BY Zenon, <1>3, <2>3, <4>1 DEF AppStep, EnsureInventory, RecordObligations, Settle,
               ApplicationResource, EnsureCredential, RecordResourceUID, Serve, Keep, Goto,
               Requeue, AppIdle
      <4>2. CASE UNCHANGED appController
        BY Zenon, <1>3, <4>2 DEF appController
      <4>3. QED
        BY Zenon, <1>3, <4>1, <4>2, Frames
    <3>2. v # uid
      BY Zenon, <1>3, <3>1 DEF uid
    <3>3. ~HasObligations(inventory[v])
      BY Zenon, <1>3, <3>1, <3>2 DEF ExclusionInv
    <3>4. QED
      BY Zenon, <1>2, <3>2, <3>3
  <2>4. QED
    BY Zenon, <2>1, <2>2, <2>3
<1>4. ASSUME NEW u \in Uids, NEW v \in Uids, Held(u)', v < u
      PROVE  ~HasObligations(inventory'[v])
  <2>1. CASE Held(u)
    <3>1. ~HasObligations(inventory[v])
      BY Zenon, <1>4, <2>1 DEF ExclusionInv
    <3>2. pc # "idle" => v # uid
      BY Zenon, <1>1, <1>4, <2>1 DEF KnownInv, PositionInv, AppPosition, uid
    <3>3. QED
      BY Zenon, <1>2, <3>1, <3>2
  <2>2. CASE pc = "create" /\ u = uid
    <3>1. seen.sql /\ ~seen.deleting /\ v # uid
      BY Zenon, <1>1, <1>4, <2>2 DEF PositionInv, AppPosition, Providing
    <3>2. ~HasObligations(inventory[v])
      BY Zenon, <2>2, <3>1 DEF ExclusionInv
    <3>3. QED
      BY Zenon, <1>2, <3>1, <3>2
  <2>3. QED
    BY Zenon, <1>4, <2>1, <2>2, HeldChange
<1>8. Uids' = Uids
  BY Zenon DEF Uids
<1>9. (pc \notin {"idle", "previous"} /\ seen.sql /\ ~seen.deleting =>
        \A v \in Uids \ {uid} : ~HasObligations(inventory[v]))'
  BY Zenon, <1>3, <1>8 DEF HasObligations
<1>10. \A u, v \in Uids : Held(u)' /\ v < u => ~HasObligations(inventory'[v])
  BY Zenon, <1>4
<1>11. QED
  BY Zenon, <1>8, <1>9, <1>10 DEF ExclusionInv, HasObligations

-----------------------------------------------------------------------------
(* Serving.                                                                *)

\* The store is given a configuration only by a reconcile that read its
\* Application as not being deleted, and that ends there.
LEMMA ServingChange ==
  ASSUME Next
  PROVE  \/ serving' \in {0, serving}
         \/ /\ serving' = uid /\ pc \in {"settle", "serve"} /\ pc' = "idle"
            /\ pc = "settle" => ~seen.deleting
            /\ UNCHANGED <<app, cache, inventory>>
<1> USE DEF cluster
<1>1. CASE AppStep
  <2>1. CASE Reconcile
    BY Zenon, <2>1 DEF Reconcile
  <2>2. CASE Settle
    BY Zenon, <2>2 DEF Settle, Requeue, AppIdle
  <2>3. CASE Serve
    BY Zenon, <2>3 DEF Serve, Requeue, AppIdle, Keep
  <2>4. QED
    BY ZenonT(30), <1>1, <2>1, <2>2, <2>3 DEF AppStep, Previous, EnsureInventory,
           RecordObligations, ApplicationResource, EnsureCredential, RecordResourceUID, Elsewhere
<1>2. CASE InventoryStep
  BY Zenon, <1>2, Frames
<1>3. CASE ~AppStep /\ ~InventoryStep
  BY Zenon, <1>3 DEF Next, CreateApplication, EditSql, DeleteApplication, StripFinalizer,
         CacheSync, Crash, Restart, DatabaseStep, SecretMade, CredentialGone,
         CredentialCollected, SecretCollected
<1>4. QED
  BY Zenon, <1>1, <1>2, <1>3

\* The Application goes only with its finalizer: stripped, or removed at the end of
\* a reconcile of its deletion.
LEMMA AppLeaves ==
  ASSUME TypeOK, Next, app # None
  PROVE  \/ app' # None /\ app'.uid = app.uid /\ (app.deleting => app'.deleting)
         \/ StripFinalizer
         \/ pc = "settle" /\ seen.deleting
<1> USE DEF cluster
<1>1. app \in Application
  BY Zenon DEF TypeOK
<1>2. CASE EditSql
  <2>1. app' \in Application /\ app'.uid = app.uid /\ app'.deleting = app.deleting
    BY Zenon, <1>1, <1>2 DEF EditSql, Application
  <2>2. QED
    BY Zenon, <2>1, NoneIsNoObject
<1>3. CASE DeleteApplication
  <2>1. app' \in Application /\ app'.uid = app.uid /\ app'.deleting
    BY Zenon, <1>1, <1>3 DEF DeleteApplication, Application
  <2>2. QED
    BY Zenon, <2>1, NoneIsNoObject
<1>4. CASE Settle
  <2>1. pc = "settle" /\ (seen.deleting \/ app' = app)
    BY Zenon, <1>4 DEF Settle
  <2>2. QED
    BY Zenon, <2>1
<1>5. CASE UNCHANGED app \/ StripFinalizer
  BY Zenon, <1>5
<1>6. ~EditSql /\ ~DeleteApplication /\ ~Settle => UNCHANGED app \/ StripFinalizer
  BY ZenonT(30) DEF Next, CreateApplication, CacheSync, Crash, Restart, AppStep, Reconcile,
         Previous, EnsureInventory, RecordObligations, ApplicationResource, EnsureCredential,
         RecordResourceUID, Serve, Keep, InventoryStep, ReconcileInventory, Release, Bind, Drop,
         DeleteInventory, IKeep, RemoveApplicationResource, DatabaseStep, SecretMade,
         CredentialGone, CredentialCollected, SecretCollected
<1>7. QED
  BY Zenon, <1>2, <1>3, <1>4, <1>5, <1>6

\* An Application nobody has as staying stays so: deletion is final, the cache and
\* the reconcile copy what is there, and a UID is not used again.
LEMMA OverStep ==
  ASSUME TypeOK, ReadingInv, Next, NEW u \in Uids, u <= uids, Over(u)
  PROVE  Over(u)'
<1>1. ~Alive(app, u) /\ ~Alive(cache, u) /\ ~Alive(seen, u)
  BY Zenon DEF Over
<1>2. ~Alive(app', u)
  <2>1. CASE app' = app \/ app' = None
    BY Zenon, <1>1, <2>1 DEF Alive
  <2>2. ASSUME NEW sql \in BOOLEAN, CreateApplication(sql)
        PROVE  ~Alive(app', u)
    <3>1. app'.uid = uids + 1 /\ uids \in Nat /\ u \in Nat
      BY <2>2, LifecycleBounds DEF CreateApplication, TypeOK, Uids
    <3>2. app'.uid # u
      BY <3>1
    <3>3. QED
      BY Zenon, <3>2 DEF Alive
  <2>3. CASE EditSql \/ DeleteApplication
    <3>1. app \in Application /\ app # None
      BY Zenon, <2>3 DEF TypeOK, EditSql, DeleteApplication
    <3>2. app'.uid = app.uid /\ (app.deleting => app'.deleting)
      BY Zenon, <2>3, <3>1 DEF EditSql, DeleteApplication, Application
    <3>3. QED
      BY Zenon, <1>1, <3>1, <3>2 DEF Alive
  <2>4. QED
    BY ZenonT(30), <2>1, <2>2, <2>3 DEF Next, StripFinalizer, CacheSync, Crash, Restart, AppStep,
           Reconcile, Previous, EnsureInventory, RecordObligations, Settle, ApplicationResource,
           EnsureCredential, RecordResourceUID, Serve, Keep, InventoryStep, ReconcileInventory,
           Release, Bind, Drop, DeleteInventory, IKeep, RemoveApplicationResource, DatabaseStep,
           SecretMade, CredentialGone, CredentialCollected, SecretCollected, cluster
<1>3. cache' \in {None, app, cache} /\ seen' \in {None, cache, seen}
  BY Zenon, ReadingChange
<1>4. ~Alive(cache', u) /\ ~Alive(seen', u)
  BY Zenon, <1>1, <1>3 DEF Alive
<1>5. QED
  BY Zenon, <1>2, <1>4 DEF Over, Alive

\* What is served is there, and what is released is neither served nor wanted.
LEMMA ServingStep ==
  ASSUME TypeOK, PositionInv, ReadingInv, KnownInv, ServingInv, Next
  PROVE  ServingInv'
<1>1. \/ serving' \in {0, serving}
      \/ /\ serving' = uid /\ pc \in {"settle", "serve"} /\ pc' = "idle" /\ ~seen.deleting
         /\ seen # None /\ (uid \in vanished \/ (app # None /\ app.uid = uid))
         /\ UNCHANGED <<app, cache, inventory>>
  <2>1. pc = "serve" => ~seen.deleting
    BY Zenon DEF PositionInv, AppPosition, Providing
  <2>2. pc # "idle" => seen # None
    BY Zenon DEF PositionInv, AppPosition
  <2>3. seen # None /\ ~seen.deleting => uid \in vanished \/ (app # None /\ app.uid = uid)
    BY Zenon DEF ReadingInv, uid
  <2>4. QED
    BY Zenon, <2>1, <2>2, <2>3, ServingChange
<1>2. vanished \subseteq vanished'
  BY Zenon, HistoryGrows
<1>3. serving' # 0 => serving' \in vanished' \/ (app' # None /\ app'.uid = serving')
  <2>1. CASE serving' \notin {0, serving}
    BY Zenon, <1>1, <1>2, <2>1
  <2>2. CASE serving' = serving /\ serving # 0
    <3>1. CASE serving \in vanished
      BY Zenon, <1>2, <2>2, <3>1
    <3>2. CASE app # None /\ app.uid = serving
      <4>1. ~(pc = "settle" /\ seen.deleting)
        BY Zenon, <2>2 DEF ServingInv
      <4>2. CASE StripFinalizer
        BY Zenon, <2>2, <3>2, <4>2 DEF StripFinalizer
      <4>3. QED
        BY Zenon, <2>2, <3>2, <4>1, <4>2, AppLeaves
    <3>3. QED
      BY Zenon, <2>2, <3>1, <3>2 DEF ServingInv
  <2>3. QED
    BY Zenon, <2>1, <2>2
<1>4. pc' # "idle" /\ seen'.deleting => serving' = 0
  <2>1. CASE Reconcile
    BY Zenon, <2>1 DEF Reconcile
  <2>2. CASE ~Reconcile
    <3>1. SUFFICES ASSUME pc' # "idle", seen'.deleting PROVE serving' = 0
      BY Zenon
    <3>2. UNCHANGED seen /\ pc # "idle"
      <4>1. CASE AppStep
        BY Zenon, <2>2, <3>1, <4>1 DEF AppStep, Previous, EnsureInventory, RecordObligations,
               Settle, ApplicationResource, EnsureCredential, RecordResourceUID, Serve, Keep,
               Goto, Requeue, AppIdle
      <4>2. CASE UNCHANGED appController
        BY Zenon, <3>1, <4>2 DEF appController
      <4>3. QED
        BY Zenon, <3>1, <4>1, <4>2, Frames
    <3>3. serving = 0
      BY Zenon, <3>1, <3>2 DEF ServingInv
    <3>4. QED
      BY Zenon, <1>1, <3>1, <3>3
  <2>3. QED
    BY Zenon, <2>1, <2>2
<1>5. ASSUME NEW u \in Uids \ vanished', inventory'[u] # None, inventory'[u].releasing
      PROVE  Over(u)' /\ serving' # u
  <2>0. uids \in Nat /\ u \in Nat /\ u # 0 /\ u \notin vanished
    BY <1>2, LifecycleBounds DEF TypeOK, Uids
  <2>1. ASSUME inventory[u] # None, inventory[u].releasing
        PROVE  Over(u)' /\ serving' # u
    <3>1. Over(u) /\ serving # u /\ u <= uids
      BY Zenon, <2>0, <2>1 DEF ServingInv, KnownInv
    <3>2. Over(u)'
      BY Zenon, <3>1, OverStep
    <3>3. ~(seen # None /\ ~seen.deleting /\ uid = u)
      BY Zenon, <3>1 DEF Over, Alive, uid
    <3>4. QED
      BY Zenon, <1>1, <2>0, <3>1, <3>2, <3>3
  <2>2. CASE inventory'[u] = inventory[u]
    BY Zenon, <1>5, <2>1, <2>2
  <2>3. CASE inventory'[u] # inventory[u]
    <3>1. /\ AppChange(u) \/ ControllerChange(u)
          /\ UNCHANGED <<app, cache, serving, seen>>
      BY Zenon, <2>3, InventoryChange
    <3>2. SUFFICES ASSUME ~(inventory[u] # None /\ inventory[u].releasing)
                   PROVE  Over(u) /\ serving # u
      BY Zenon, <2>1, <3>1 DEF Over, Alive
    <3>3. inventory[u] # None => inventory[u] \in Inventory
      BY Zenon DEF TypeOK
    <3>4. CASE AppChange(u)
      <4>1. CASE pc = "discover"
        <5>1. u = uid /\ inventory[u] = copy /\ inventory'[u] = Drafted /\ copy # None
          BY Zenon, <3>4, <4>1 DEF AppChange, PositionInv, AppPosition
        <5>2. seen # None /\ seen.deleting
          <6>1. Drafted.releasing <=> copy.releasing \/ seen.deleting
            BY Zenon, <4>1, DraftedShape
          <6>2. QED
            BY Zenon, <1>5, <3>2, <4>1, <5>1, <6>1 DEF PositionInv, AppPosition
        <5>3. serving = 0
          BY Zenon, <4>1, <5>2 DEF ServingInv
        <5>4. Over(u)
          BY Zenon, <5>1, <5>2 DEF ReadingInv, Over, Alive, uid
        <5>5. QED
          BY Zenon, <2>0, <5>3, <5>4
      <4>2. CASE pc # "discover"
        <5>1. CASE inventory[u] = None
          BY <1>5, <3>4, <4>2, <5>1 DEF AppChange, Open
        <5>2. CASE inventory[u] # None
          <6>1. PICK n \in Nat : inventory'[u] = Persisted(inventory[u], n)
            BY Zenon, <3>4, <4>2, <5>2 DEF AppChange, TypeOK
          <6>2. inventory'[u].releasing = inventory[u].releasing
            BY <3>3, <5>2, <6>1, PersistedShape
          <6>3. QED
            BY Zenon, <1>5, <3>2, <5>2, <6>2
        <5>3. QED
          BY Zenon, <5>1, <5>2
      <4>3. QED
        BY Zenon, <4>1, <4>2
    <3>5. CASE ControllerChange(u)
      <4>1. u = iuid /\ inventory[u] = icopy /\ icopy # None /\ ipc # "idle"
        BY Zenon, <3>5 DEF ControllerChange, PositionInv, InventoryPosition
      <4>2. CASE ipc = "release"
        <5>1. app = None \/ app.uid # u
          BY Zenon, <4>1, <4>2 DEF ReadingInv, Absent
        <5>2. Over(u)
          BY Zenon, <2>0, <5>1 DEF ReadingInv, Over, Alive
        <5>3. serving # u
          BY Zenon, <2>0, <5>1 DEF ServingInv
        <5>4. QED
          BY Zenon, <5>2, <5>3
      <4>3. CASE ipc # "release"
        <5>1. inventory'[u].releasing = icopy.releasing
          <6>1. icopy \in Inventory /\ credential[u] \in Nat
            BY Zenon, <3>3, <4>1 DEF TypeOK
          <6>2. CASE ipc = "bind"
            BY <3>5, <6>1, <6>2, PersistedShape DEF ControllerChange
          <6>3. CASE ipc = "drop"
            BY Zenon, <3>5, <6>1, <6>3 DEF ControllerChange, Inventory
          <6>4. CASE ipc = "delete"
            BY Zenon, <1>5, <3>5, <6>1, <6>4 DEF ControllerChange, Inventory
          <6>5. QED
            BY Zenon, <3>5, <4>3, <6>2, <6>3, <6>4 DEF ControllerChange
        <5>2. QED
          BY Zenon, <1>5, <3>2, <4>1, <5>1
      <4>4. QED
        BY Zenon, <4>2, <4>3
    <3>6. QED
      BY Zenon, <3>1, <3>4, <3>5
  <2>4. QED
    BY Zenon, <2>2, <2>3
<1>6. Uids' = Uids
  BY Zenon DEF Uids
<1>7. QED
  BY Zenon, <1>3, <1>4, <1>5, <1>6 DEF ServingInv

-----------------------------------------------------------------------------
(* Removed SQL.                                                            *)

\* spec.sql is only removed by the edit that is remembered.
LEMMA WantsStep ==
  ASSUME TypeOK, Next, NEW u \in Uids \ trimmed', u <= uids, Wants(app, u)
  PROVE  Wants(app', u)
<1>1. app # None => app \in Application
  BY Zenon DEF TypeOK
<1>2. ASSUME NEW sql \in BOOLEAN, CreateApplication(sql)
      PROVE  Wants(app', u)
  <2>1. app'.uid = uids + 1 /\ uids \in Nat /\ u \in Nat
    BY <1>2, LifecycleBounds DEF CreateApplication, TypeOK, Uids
  <2>2. app'.uid # u
    BY <2>1
  <2>3. QED
    BY Zenon, <2>2 DEF Wants
<1>3. CASE EditSql
  <2>1. app # None /\ app'.uid = app.uid /\ (app.sql => app.uid \in trimmed') /\ (~app.sql => app'.sql)
    BY Zenon, <1>1, <1>3 DEF EditSql, Application
  <2>2. QED
    BY Zenon, <2>1 DEF Wants
<1>4. CASE DeleteApplication
  <2>1. app # None /\ app'.uid = app.uid /\ app'.sql = app.sql
    BY Zenon, <1>1, <1>4 DEF DeleteApplication, Application
  <2>2. QED
    BY Zenon, <2>1 DEF Wants
<1>5. CASE app' = app \/ app' = None
  BY Zenon, <1>5 DEF Wants
<1>6. QED
  BY ZenonT(30), <1>2, <1>3, <1>4, <1>5 DEF Next, StripFinalizer, CacheSync, Crash, Restart,
         AppStep, Reconcile, Previous, EnsureInventory, RecordObligations, Settle,
         ApplicationResource, EnsureCredential, RecordResourceUID, Serve, Keep, InventoryStep,
         ReconcileInventory, Release, Bind, Drop, DeleteInventory, IKeep,
         RemoveApplicationResource, DatabaseStep, SecretMade, CredentialGone,
         CredentialCollected, SecretCollected, cluster

\* An obligation or a credential that appears is of an Application read with SQL, or
\* there already was one of the two.
LEMMA ObligationChange ==
  ASSUME TypeOK, PositionInv, Next, NEW u \in Uids,
         HasObligations(inventory'[u]) \/ credential'[u] # 0
  PROVE  \/ HasObligations(inventory[u]) \/ credential[u] # 0
         \/ seen # None /\ seen.uid = u /\ seen.sql
<1>1. CASE credential'[u] # 0 /\ credential[u] = 0
  <2>1. pc = "create" /\ u = uid
    BY Zenon, <1>1, CredentialChange
  <2>2. QED
    BY Zenon, <2>1 DEF PositionInv, AppPosition, Providing, uid
<1>2. CASE HasObligations(inventory'[u]) /\ ~HasObligations(inventory[u]) /\ credential[u] = 0
  <2>1. inventory'[u] # inventory[u]
    BY Zenon, <1>2
  <2>2. pc # "idle" /\ u = uid
    BY Zenon, <1>2, <2>1, ChangeShape
  <2>3. CASE pc \in {"intent", "record"}
    BY Zenon, <2>2, <2>3 DEF PositionInv, AppPosition, Providing, uid
  <2>4. CASE pc \notin {"intent", "record"}
    <3>1. AppChange(u) \/ ControllerChange(u)
      BY Zenon, <2>1, InventoryChange
    <3>2. CASE ControllerChange(u)
      BY Zenon, <1>2, <3>2, ControllerObligations
    <3>3. CASE AppChange(u) /\ pc = "ensure"
      <4>1. inventory'[u] = [releasing |-> FALSE, deleting |-> FALSE, entry |-> None]
        BY Zenon, <3>3 DEF AppChange
      <4>2. inventory'[u].entry = None
        BY <4>1
      <4>3. QED
        BY Zenon, <1>2, <4>2 DEF HasObligations
    <3>4. CASE AppChange(u) /\ pc = "discover"
      <4>1. inventory[u] = copy /\ inventory'[u] = Drafted
        BY ZenonT(30), <3>4 DEF AppChange
      <4>2. copy # None /\ (Drafted.entry # None => copy.entry # None \/ credential[u] # 0)
        BY Zenon, <2>2, <3>4, DraftedShape DEF PositionInv, AppPosition
      <4>3. QED
        BY Zenon, <1>2, <4>1, <4>2 DEF HasObligations
    <3>5. QED
      BY Zenon, <2>4, <3>1, <3>2, <3>3, <3>4 DEF AppChange
  <2>5. QED
    BY Zenon, <2>3, <2>4
<1>3. QED
  BY Zenon, <1>1, <1>2

\* A single obligation is marked for release only where SQL is no longer wanted.
LEMMA ReleaseChange ==
  ASSUME TypeOK, PositionInv, Next, NEW u \in Uids, Releasable(u)'
  PROVE  \/ inventory'[u].releasing
         \/ Releasable(u) /\ ~inventory[u].releasing
         \/ /\ seen # None /\ seen.uid = u /\ ~seen.sql
            /\ HasObligations(inventory[u]) \/ credential[u] # 0
<1>1. HasObligations(inventory'[u]) /\ inventory'[u].entry.release
  BY Zenon DEF Releasable
<1>2. CASE inventory'[u] = inventory[u]
  BY Zenon, <1>1, <1>2 DEF Releasable
<1>3. ASSUME NEW i \in Inventory, inventory[u] = i, NEW n \in Nat, inventory'[u] = Persisted(i, n)
      PROVE  inventory'[u].releasing \/ (Releasable(u) /\ ~inventory[u].releasing)
  <2>1. /\ inventory'[u].releasing = i.releasing /\ i.releasing \in BOOLEAN /\ i # None
        /\ i.entry # None => inventory'[u].entry.release = i.entry.release
        /\ i.entry = None => inventory'[u].entry.release = i.releasing
    BY <1>3, PersistedShape, InventoryShape
  <2>2. QED
    BY Zenon, <1>1, <1>3, <2>1 DEF Releasable, HasObligations
<1>4. CASE inventory'[u] # inventory[u]
  <2>1. AppChange(u) \/ ControllerChange(u)
    BY Zenon, <1>4, InventoryChange
  <2>2. inventory[u] # None => inventory[u] \in Inventory
    BY Zenon DEF TypeOK
  <2>3. CASE AppChange(u) /\ pc = "ensure"
    <3>1. inventory'[u] = [releasing |-> FALSE, deleting |-> FALSE, entry |-> None]
      BY Zenon, <2>3 DEF AppChange
    <3>2. inventory'[u].entry = None
      BY <3>1
    <3>3. QED
      BY Zenon, <1>1, <3>2 DEF HasObligations
  <2>4. CASE AppChange(u) /\ pc = "discover"
    <3>1. u = uid /\ inventory[u] = copy /\ inventory'[u] = Drafted /\ seen # None /\ copy # None
      BY ZenonT(30), <2>4 DEF AppChange, PositionInv, AppPosition
    <3>2. /\ Drafted.entry # None /\ Drafted.entry.release
      BY Zenon, <1>1, <3>1 DEF HasObligations
    <3>3. /\ copy.entry # None \/ credential[u] # 0
          /\ Drafted.releasing <=> copy.releasing \/ seen.deleting
          /\ (copy.entry # None /\ copy.entry.release) \/ Drafted.releasing \/ ~seen.sql
      BY Zenon, <2>4, <3>1, <3>2, DraftedShape
    <3>4. QED
      BY Zenon, <3>1, <3>3 DEF Releasable, HasObligations, uid
  <2>5. CASE AppChange(u) /\ pc \notin {"ensure", "discover"}
    <3>1. /\ inventory[u] # None
          /\ inventory'[u] = Persisted(inventory[u], 0) \/ inventory'[u] = Persisted(inventory[u], credential[u])
      BY Zenon, <2>5 DEF AppChange, Open
    <3>2. 0 \in Nat /\ credential[u] \in Nat
      BY DEF TypeOK
    <3>3. QED
      BY Zenon, <1>3, <2>2, <3>1, <3>2
  <2>6. CASE ControllerChange(u)
    <3>1. inventory[u] = icopy /\ icopy # None /\ icopy \in Inventory
      BY Zenon, <2>2, <2>6 DEF ControllerChange, PositionInv, InventoryPosition
    <3>2. CASE ipc = "release"
      BY Zenon, <2>6, <3>1, <3>2, ReleasedShape DEF ControllerChange
    <3>3. CASE ipc = "bind"
      <4>1. inventory'[u] = Persisted(icopy, credential[u]) /\ credential[u] \in Nat
        BY Zenon, <2>6, <3>3 DEF ControllerChange, TypeOK
      <4>2. QED
        BY Zenon, <1>3, <3>1, <4>1
    <3>4. CASE ipc \in {"drop", "delete"}
      BY Zenon, <1>1, <2>6, <3>1, <3>4, ControllerDrops
    <3>5. QED
      BY Zenon, <2>6, <3>2, <3>3, <3>4 DEF ControllerChange
  <2>7. QED
    BY Zenon, <2>1, <2>3, <2>4, <2>5, <2>6
<1>5. QED
  BY Zenon, <1>2, <1>4

\* What was never removed stays wanted wherever it is read, and is released as a
\* whole.
LEMMA TrimStep ==
  ASSUME TypeOK, PositionInv, ReadingInv, KnownInv, TrimInv, Next
  PROVE  TrimInv'
<1>1. ASSUME NEW u \in Uids \ trimmed'
      PROVE  /\ seen' # None /\ seen'.uid = u /\ seen'.sql => Wants(cache', u) /\ Wants(app', u)
             /\ cache' # None /\ cache'.uid = u /\ cache'.sql => Wants(app', u)
             /\ HasObligations(inventory'[u]) \/ credential'[u] # 0 =>
                  Wants(app', u) /\ Wants(cache', u) /\ Wants(seen', u)
             /\ Releasable(u)' => inventory'[u].releasing
  <2>1. u \in Uids \ trimmed
    BY Zenon, <1>1, HistoryGrows
  <2>2. /\ seen # None /\ seen.uid = u /\ seen.sql => Wants(cache, u) /\ Wants(app, u)
        /\ cache # None /\ cache.uid = u /\ cache.sql => Wants(app, u)
        /\ HasObligations(inventory[u]) \/ credential[u] # 0 =>
             Wants(app, u) /\ Wants(cache, u) /\ Wants(seen, u)
        /\ Releasable(u) => inventory[u].releasing
    BY Zenon, <2>1 DEF TrimInv
  <2>3. Wants(app, u) /\ u <= uids => Wants(app', u)
    BY Zenon, <1>1, WantsStep
  <2>4. /\ seen # None /\ seen.uid = u => u <= uids
        /\ cache # None /\ cache.uid = u => u <= uids
        /\ app # None /\ app.uid = u => u = uids
        /\ HasObligations(inventory[u]) \/ credential[u] # 0 => u <= uids
    BY Zenon DEF ReadingInv, KnownInv, Held, HasObligations
  <2>5. uids <= uids
    BY LifecycleBounds DEF TypeOK
  <2>6. \/ cache' = cache /\ seen' \in {None, cache, seen}
        \/ cache' \in {None, app} /\ seen' \in {None, seen}
    BY Zenon, ReadingChange
  <2>7. cache' # None /\ cache'.uid = u /\ cache'.sql => Wants(app', u)
    BY Zenon, <2>2, <2>3, <2>4, <2>5, <2>6 DEF Wants
  <2>8. seen' # None /\ seen'.uid = u /\ seen'.sql => Wants(cache', u) /\ Wants(app', u)
    BY Zenon, <2>2, <2>3, <2>4, <2>6 DEF Wants
  <2>9. HasObligations(inventory'[u]) \/ credential'[u] # 0 =>
          Wants(app', u) /\ Wants(cache', u) /\ Wants(seen', u)
    <3>1. SUFFICES ASSUME HasObligations(inventory'[u]) \/ credential'[u] # 0
                   PROVE  Wants(app', u) /\ Wants(cache', u) /\ Wants(seen', u)
      BY Zenon
    <3>2. \/ HasObligations(inventory[u]) \/ credential[u] # 0
          \/ seen # None /\ seen.uid = u /\ seen.sql
      BY Zenon, <2>1, <3>1, ObligationChange
    <3>3. Wants(app, u) /\ Wants(cache, u) /\ Wants(seen, u) /\ u <= uids
      BY Zenon, <2>2, <2>4, <3>2 DEF Wants
    <3>4. QED
      BY Zenon, <2>3, <2>6, <3>3 DEF Wants
  <2>10. Releasable(u)' => inventory'[u].releasing
    BY Zenon, <2>1, <2>2, ReleaseChange DEF Wants
  <2>11. QED
    BY Zenon, <2>7, <2>8, <2>9, <2>10
<1>2. Uids' = Uids
  BY Zenon DEF Uids
<1>3. QED
  BY Zenon, <1>1, <1>2 DEF TrimInv, Wants, HasObligations

-----------------------------------------------------------------------------
(* The theorems.                                                           *)

\* Nothing is there, nothing is held.
LEMMA InitInv ==
  ASSUME Init
  PROVE  IInv
<1>1. TypeOK
  <2>1. /\ {app, cache, seen} \subseteq {None} \cup Application
        /\ {copy, draft, icopy} \subseteq {None} \cup Inventory
        /\ running \in BOOLEAN
    BY Zenon DEF Init
  <2>2. uids \in 0..MaxUids /\ events \in [Events -> Nat] /\ made \in [Uids -> Nat]
    BY LifecycleBounds DEF Init
  <2>3. /\ inventory \in [Uids -> {None} \cup Inventory]
        /\ credential \in [Uids -> Nat] /\ secret \in [Uids -> Nat]
    BY Zenon DEF Init
  <2>4. terminating \in [Uids -> BOOLEAN]
    BY Zenon DEF Init
  <2>5. QED
    BY Zenon, <2>1, <2>2, <2>3, <2>4 DEF Init, TypeOK
<1>2. PositionInv /\ ReadingInv
  BY Zenon DEF Init, PositionInv, AppPosition, InventoryPosition, Down, ReadingInv, Providing
<1>3. KnownInv /\ ObligationInv /\ ExclusionInv /\ ServingInv /\ TrimInv
  BY Zenon DEF Init, KnownInv, ObligationInv, Accounted, Held, HasObligations, Releasable,
         RemovalInv, CreateInv, ExclusionInv, ServingInv, TrimInv, Wants
<1>4. QED
  BY Zenon, <1>1, <1>2, <1>3 DEF IInv

\* The inductive invariant of the credential lifecycle holds in every reachable
\* state: positions of both controllers, readings against what is there, obligations
\* against what exists, one Application of the name at a time, and serving.
THEOREM Invariance == Spec => []IInv
<1>1. Init => IInv
  BY Zenon, InitInv
<1>2. IInv /\ [Next]_vars => IInv'
  <2> SUFFICES ASSUME IInv, [Next]_vars PROVE IInv'
    BY Zenon
  <2>1. CASE Next
    <3>1. /\ TypeOK /\ PositionInv /\ ReadingInv /\ KnownInv
          /\ ObligationInv /\ ExclusionInv /\ ServingInv /\ TrimInv
      BY Zenon DEF IInv
    <3>2. TypeOK' /\ PositionInv' /\ ReadingInv' /\ KnownInv'
      BY Zenon, <2>1, <3>1, TypeStep, PositionStep, ReadingStep, KnownStep
    <3>3. ObligationInv' /\ ExclusionInv' /\ ServingInv' /\ TrimInv'
      BY Zenon, <2>1, <3>1, ObligationStep, ExclusionStep, ServingStep, TrimStep
    <3>4. QED
      BY Zenon, <3>2, <3>3 DEF IInv
  <2>2. CASE UNCHANGED vars
    <3>1. /\ UNCHANGED <<app, cache, running, uids, events, vanished, trimmed, made, credential, terminating, secret>>
          /\ UNCHANGED <<inventory, serving, pc, seen, copy, draft, ipc, iuid, icopy>>
      BY Zenon, <2>2 DEF vars, cluster, history, children, appController, inventoryController
    <3>2. TypeOK'
      BY Zenon, <3>1 DEF IInv, TypeOK
    <3>3. PositionInv'
      BY Zenon, <3>1 DEF IInv, PositionInv, AppPosition, InventoryPosition, Down
    <3>4. ReadingInv' /\ KnownInv'
      BY Zenon, <3>1 DEF IInv, ReadingInv, Alive, Absent, KnownInv, Held
    <3>5. ObligationInv'
      BY Zenon, <3>1 DEF IInv, ObligationInv, Accounted, Held, RemovalInv, Releasable, CreateInv,
             uid
    <3>6. ExclusionInv'
      BY Zenon, <3>1 DEF IInv, ExclusionInv, Held, uid
    <3>7. ServingInv'
      BY Zenon, <3>1 DEF IInv, ServingInv, Over, Alive
    <3>8. TrimInv'
      BY Zenon, <3>1 DEF IInv, TrimInv, Wants, Releasable
    <3>9. QED
      BY Zenon, <3>2, <3>3, <3>4, <3>5, <3>6, <3>7, <3>8 DEF IInv
  <2>3. QED
    BY Zenon, <2>1, <2>2
<1>3. QED
  BY <1>1, <1>2, PTL DEF Spec

\* Every credential is an obligation of its Application's inventory, recorded under
\* its own UID or not yet, at whatever step the operator crashes, unless the
\* Application vanished while the controller took it for alive.
THEOREM CredentialsSafe == Spec => []CredentialAccounted
<1>1. IInv => CredentialAccounted
  BY Zenon DEF IInv, ObligationInv, Accounted, Held, CredentialAccounted
<1>2. QED
  BY <1>1, Invariance, PTL

\* The credentials, and the Secrets not yet collected, of two Applications of one
\* name never exist together, but for what is outside any inventory after an
\* Application vanished: the database role they share is not dropped under the one
\* that is there.
THEOREM OneCredential == Spec => []OneCredentialPerRole
<1>1. IInv => OneCredentialPerRole
  <2> SUFFICES ASSUME IInv PROVE OneCredentialPerRole
    BY Zenon
  <2> DEFINE S == {u \in Uids : /\ credential[u] # 0 \/ secret[u] # 0
                                /\ u \notin vanished \/ HasObligations(inventory[u])}
  <2>1. \A u \in S : u \in Uids /\ Held(u) /\ HasObligations(inventory[u])
    BY Zenon DEF IInv, ObligationInv, Accounted, Held
  <2>2. \A u, v \in Uids : u < v \/ v < u \/ u = v
    BY LifecycleBounds DEF Uids
  <2>3. \A u, v \in S : u = v
    BY Zenon, <2>1, <2>2 DEF IInv, ExclusionInv
  <2>4. CASE S = {}
    BY <2>4, FS_EmptySet DEF OneCredentialPerRole
  <2>5. CASE S # {}
    <3>1. PICK u \in S : TRUE
      BY Zenon, <2>5
    <3>2. S = {u}
      BY Zenon, <2>3, <3>1
    <3>3. Cardinality(S) = 1
      BY Zenon, <3>2, FS_Singleton
    <3>4. QED
      BY <3>3 DEF OneCredentialPerRole
  <2>6. QED
    BY Zenon, <2>4, <2>5
<1>2. QED
  BY <1>1, Invariance, PTL

\* A configuration is withdrawn before its inventory is handed over for cleanup,
\* unless its Application vanished while it was served or taken for alive, and
\* before its obligation is, unless the user removed spec.sql.
THEOREM WithdrawnSafe == Spec => []WithdrawnBeforeRelease
<1>1. IInv => WithdrawnBeforeRelease
  <2> SUFFICES ASSUME IInv, NEW u \in Uids \ vanished, HandedOver(u), serving = u
               PROVE  u \in trimmed /\ ~inventory[u].releasing
    BY Zenon DEF WithdrawnBeforeRelease
  <2>1. ~inventory[u].releasing
    BY Zenon DEF IInv, ServingInv, HandedOver, HasObligations
  <2>2. Releasable(u)
    BY Zenon, <2>1 DEF HandedOver, Releasable
  <2>3. QED
    BY Zenon, <2>1, <2>2 DEF IInv, TrimInv
<1>2. QED
  BY <1>1, Invariance, PTL
=============================================================================
