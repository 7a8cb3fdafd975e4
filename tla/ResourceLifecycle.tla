------------------------- MODULE ResourceLifecycle -------------------------
(***************************************************************************)
(* Provisioning and release of an Application's SQL credential: the        *)
(* Application controller records an obligation in the ResourceInventory   *)
(* of the Application's UID before it creates the credential, and the      *)
(* inventory controller releases what is no longer wanted, whether or not  *)
(* the Application still exists.  Applications of one name follow each     *)
(* other with new UIDs and share one database role.                        *)
(*                                                                         *)
(* Every step makes at most one change through the API, together with the  *)
(* reads that decide it where nothing can change between them; an update   *)
(* carries the object it was read from and fails if that changed.  The     *)
(* Application controller reads the Application from its cache, everything *)
(* else from the API server.  A crash of the operator loses both           *)
(* controllers' position and the store.  An Application is created with    *)
(* its finalizer: the reconcile that adds it does nothing else.  Others    *)
(* may strip it at any time, and the Application vanishes.                 *)
(***************************************************************************)
EXTENDS Integers, FiniteSets

CONSTANTS
  None,         \* no object
  MaxUids,      \* bound on Applications created under the name
  MaxCredentials,       \* bound on credentials created for an Application
  MaxEvents, MaxRepeats \* bounds on events, and on those of one kind

ASSUME LifecycleBounds == {MaxUids, MaxCredentials, MaxEvents, MaxRepeats} \subseteq Nat

Uids == 1..MaxUids

\* What may disturb the lifecycle: spec.sql edited, a finalizer stripped, a crash.
Events == {"edit", "strip", "crash"}

\* An Application, an inventory entry (uid 0: the credential's UID is not yet
\* recorded) and an inventory.
Application == [uid : Uids, deleting : BOOLEAN, sql : BOOLEAN]
ResourceBinding == [uid : Nat, release : BOOLEAN]
Inventory == [releasing : BOOLEAN, deleting : BOOLEAN, entry : {None} \cup ResourceBinding]

ASSUME NoneIsNoObject == None \notin Application \cup ResourceBinding \cup Inventory

VARIABLES
  app,        \* the Application of the name, or None
  cache,      \* the controller's cached copy of it
  running,    \* whether the operator is up
  uids, made, \* counts: Applications of the name; credentials, by Application UID
  events,     \* how often each kind of event happened
  vanished,   \* history: UIDs that vanished while still taken for alive, or served
  trimmed,    \* history: UIDs whose spec.sql was removed
  inventory,  \* by Application UID
  credential, terminating,      \* by Application UID: credential UID or 0
  secret,     \* by Application UID: UID of the credential that made it, or 0
  serving,    \* UID of the Application whose configuration is in the store
  pc, seen, copy, draft,        \* the Application controller
  ipc, iuid, icopy              \* the inventory controller

history == <<vanished, trimmed>>
cluster == <<app, cache, running, uids, events, history>>
children == <<made, credential, terminating, secret>>
appController == <<pc, seen, copy, draft>>
inventoryController == <<ipc, iuid, icopy>>
vars == <<cluster, children, inventory, serving, appController, inventoryController>>

TypeOK ==
  /\ {app, cache, seen} \subseteq {None} \cup Application
  /\ running \in BOOLEAN /\ uids \in 0..MaxUids /\ events \in [Events -> Nat]
  /\ made \in [Uids -> Nat] /\ vanished \subseteq Uids /\ trimmed \subseteq Uids
  /\ inventory \in [Uids -> {None} \cup Inventory]
  /\ credential \in [Uids -> Nat] /\ secret \in [Uids -> Nat]
  /\ terminating \in [Uids -> BOOLEAN]
  /\ serving \in {0} \cup Uids
  /\ pc \in {"idle", "previous", "ensure", "discover", "settle", "intent",
             "create", "record", "serve"}
  /\ {copy, draft, icopy} \subseteq {None} \cup Inventory
  /\ ipc \in {"idle", "release", "remove", "bind", "drop", "delete"} /\ iuid \in {0} \cup Uids

Init ==
  /\ app = None /\ cache = None /\ running = TRUE /\ uids = 0 /\ events = [e \in Events |-> 0]
  /\ made = [u \in Uids |-> 0]
  /\ inventory = [u \in Uids |-> None]
  /\ credential = [u \in Uids |-> 0] /\ terminating = [u \in Uids |-> FALSE]
  /\ secret = [u \in Uids |-> 0] /\ serving = 0 /\ vanished = {} /\ trimmed = {}
  /\ pc = "idle" /\ seen = None /\ copy = None /\ draft = None
  /\ ipc = "idle" /\ iuid = 0 /\ icopy = None

-----------------------------------------------------------------------------
(* The user, the cache, the crash, and the database operator (external).   *)

Controllers == UNCHANGED <<appController, inventoryController>>

CreateApplication(sql) ==
  /\ app = None /\ uids < MaxUids /\ uids' = uids + 1
  /\ app' = [uid |-> uids + 1, deleting |-> FALSE, sql |-> sql]
  /\ UNCHANGED <<cache, running, events, history, children, inventory, serving>> /\ Controllers

Event(e) ==
  /\ events[e] < MaxRepeats /\ events["edit"] + events["strip"] + events["crash"] < MaxEvents
  /\ events' = [events EXCEPT ![e] = @ + 1]

EditSql ==
  /\ app # None /\ ~app.deleting /\ Event("edit")
  /\ app' = [app EXCEPT !.sql = ~@]
  /\ trimmed' = IF app.sql THEN trimmed \cup {app.uid} ELSE trimmed
  /\ UNCHANGED <<cache, running, uids, vanished, children, inventory, serving>>
  /\ Controllers

DeleteApplication ==
  /\ app # None /\ ~app.deleting /\ app' = [app EXCEPT !.deleting = TRUE]
  /\ UNCHANGED <<cache, running, uids, events, history, children, inventory, serving>>
  /\ Controllers

\* Application x is of UID u and not being deleted.
Alive(x, u) == x # None /\ x.uid = u /\ ~x.deleting

\* The finalizer is removed by hand and the Application deleted, in either order.
\* The controller that still has it as alive, or serves it, will find it missing.
StripFinalizer ==
  /\ app # None /\ app' = None /\ Event("strip")
  /\ vanished' = IF Alive(cache, app.uid) \/ Alive(seen, app.uid) \/ serving = app.uid
                 THEN vanished \cup {app.uid} ELSE vanished
  /\ UNCHANGED <<cache, running, uids, trimmed, children, inventory, serving>>
  /\ Controllers

CacheSync ==
  /\ running /\ cache # app /\ cache' = app
  /\ UNCHANGED <<app, running, uids, events, history, children, inventory, serving>>
  /\ Controllers

AppIdle == pc' = "idle" /\ seen' = None /\ copy' = None /\ draft' = None
InventoryIdle == ipc' = "idle" /\ iuid' = 0 /\ icopy' = None

Crash ==
  /\ running /\ Event("crash") /\ running' = FALSE
  /\ serving' = 0 /\ cache' = None /\ AppIdle /\ InventoryIdle
  /\ UNCHANGED <<app, uids, history, children, inventory>>

Restart ==
  /\ ~running /\ running' = TRUE /\ cache' = app
  /\ UNCHANGED <<app, uids, events, history, children, inventory, serving>> /\ Controllers

\* The database operator makes the Secret of a credential, and finishes its
\* deletion; the Secret goes when garbage collection gets to it.
SecretMade(u) ==
  /\ credential[u] # 0 /\ ~terminating[u] /\ secret[u] = 0
  /\ secret' = [secret EXCEPT ![u] = credential[u]]
  /\ UNCHANGED <<cluster, made, credential, terminating, inventory, serving>> /\ Controllers

CredentialGone(u) ==
  /\ terminating[u]
  /\ credential' = [credential EXCEPT ![u] = 0] /\ terminating' = [terminating EXCEPT ![u] = FALSE]
  /\ UNCHANGED <<cluster, made, secret, inventory, serving>> /\ Controllers

\* A credential whose owner, its inventory, is gone is deleted with it.
CredentialCollected(u) ==
  /\ inventory[u] = None /\ credential[u] # 0 /\ ~terminating[u]
  /\ terminating' = [terminating EXCEPT ![u] = TRUE]
  /\ UNCHANGED <<cluster, made, credential, secret, inventory, serving>> /\ Controllers

SecretCollected(u) ==
  /\ secret[u] \notin {0, credential[u]} /\ secret' = [secret EXCEPT ![u] = 0]
  /\ UNCHANGED <<cluster, made, credential, terminating, inventory, serving>> /\ Controllers

-----------------------------------------------------------------------------
(* Inventories.                                                            *)

HasObligations(i) == i # None /\ i.entry # None

\* releaseInventory.
Released(i) ==
  [i EXCEPT !.releasing = TRUE,
            !.entry = IF @ = None THEN None ELSE [@ EXCEPT !.release = TRUE]]

\* persistInventoryEntry of a credential UID (0 for an intent): refused if
\* another UID is recorded; a release is sticky.
Persistable(i, uid) == i.entry = None \/ i.entry.uid \in {0, uid}
Persisted(i, uid) ==
  [i EXCEPT !.entry = IF @ = None THEN [uid |-> uid, release |-> i.releasing]
                      ELSE [@ EXCEPT !.uid = uid]]

-----------------------------------------------------------------------------
(* The Application controller: one reconcile of the name at a time.  An    *)
(* error or a requeue ends it; the work queue starts the next one.         *)

uid == seen.uid
Keep(at) == pc = at /\ UNCHANGED <<cluster, inventoryController>>
Goto(at) == pc' = at /\ UNCHANGED seen
Requeue == AppIdle
Elsewhere == UNCHANGED <<children, inventory, serving>>

\* Deletion withdraws the configuration first.
ReconcileWithoutWithdrawing ==
  /\ Keep("idle") /\ running /\ cache # None /\ seen' = cache
  /\ pc' = (IF cache.sql /\ ~cache.deleting THEN "previous" ELSE "ensure")
  /\ UNCHANGED <<serving, copy, draft, children, inventory>>
Reconcile ==
  /\ Keep("idle") /\ running /\ cache # None /\ seen' = cache
  /\ pc' = (IF cache.sql /\ ~cache.deleting THEN "previous" ELSE "ensure")
  /\ serving' = (IF cache.deleting THEN 0 ELSE serving)
  /\ UNCHANGED <<copy, draft, children, inventory>>

\* Mutant: earlier Applications of the name are not looked at.
PreviousIgnored ==
  /\ Keep("previous") /\ Goto("ensure") /\ UNCHANGED <<copy, draft>> /\ Elsewhere

\* Mutant: the Application's own inventory is not left out.
PreviousIncludesOwn ==
  /\ Keep("previous") /\ Elsewhere
  /\ IF \E v \in Uids : HasObligations(inventory[v])
     THEN Requeue
     ELSE Goto("ensure") /\ UNCHANGED <<copy, draft>>

\* Inventories of earlier Applications of the name must have no obligations.
Previous ==
  /\ Keep("previous") /\ Elsewhere
  /\ IF \E v \in Uids \ {uid} : HasObligations(inventory[v])
     THEN Requeue
     ELSE Goto("ensure") /\ UNCHANGED <<copy, draft>>

\* ensureInventory: nothing else creates this UID's inventory or credential, so
\* the reads and the create are one step.  A credential of an inventory that is
\* gone is not taken over.
EnsureInventory ==
  LET empty == [releasing |-> FALSE, deleting |-> FALSE, entry |-> None]
  IN  /\ Keep("ensure") /\ UNCHANGED <<children, serving>>
      /\ \/ inventory[uid] # None /\ copy' = inventory[uid] /\ Goto("discover")
            /\ UNCHANGED <<inventory, draft>>
         \/ inventory[uid] = None /\ credential[uid] # 0 /\ Requeue /\ UNCHANGED inventory
         \/ inventory[uid] = None /\ credential[uid] = 0 /\ (seen.deleting \/ ~seen.sql)
            /\ copy' = None /\ Goto("settle") /\ UNCHANGED <<inventory, draft>>
         \/ inventory[uid] = None /\ credential[uid] = 0 /\ ~seen.deleting /\ seen.sql
            /\ inventory' = [inventory EXCEPT ![uid] = empty]
            /\ copy' = empty /\ Goto("discover") /\ UNCHANGED draft

\* DiscoverApplicationResources recovers the UID of a credential whose creation
\* was not recorded; then what is not wanted is marked for release.  What it
\* finds can only change together with the inventory, which fails the update.
Marked(i) ==
  LET kept == IF i.entry = None \/ (seen.sql /\ ~seen.deleting) THEN i
              ELSE [i EXCEPT !.entry.release = TRUE]
  IN  IF seen.deleting THEN Released(kept) ELSE kept

RecordObligations ==
  LET found == credential[uid]
      new == Marked(IF found = 0 THEN copy ELSE Persisted(copy, found))
  IN  /\ Keep("discover") /\ UNCHANGED <<children, serving>>
      /\ IF \/ copy.deleting /\ ~seen.deleting
            \/ found # 0 /\ ~Persistable(copy, found)
            \/ new # copy /\ inventory[uid] # copy
         THEN Requeue /\ UNCHANGED inventory
         ELSE /\ inventory' = IF new = copy THEN inventory ELSE [inventory EXCEPT ![uid] = new]
              /\ copy' = new /\ Goto("settle") /\ UNCHANGED draft

\* What follows the inventory: the finalizer is removed, unless releases are
\* pending and the policy is to wait for them; or serving goes on.
Settle ==
  LET pending == copy # None /\ copy.entry # None /\ copy.entry.release
  IN  /\ pc = "settle" /\ UNCHANGED <<cache, running, uids, events, history, inventoryController>>
      /\ UNCHANGED <<children, inventory>>
      /\ \/ /\ seen.deleting /\ Requeue /\ UNCHANGED serving
            /\ \/ app' = IF app = seen /\ ~pending THEN None ELSE app
               \/ app = seen /\ pending /\ app' = None
         \/ ~seen.deleting /\ pending /\ Requeue /\ UNCHANGED <<serving, app>>
         \/ ~seen.deleting /\ ~pending /\ ~seen.sql
            /\ serving' = uid /\ Requeue /\ UNCHANGED app
         \/ ~seen.deleting /\ ~pending /\ seen.sql
            /\ copy' = None /\ Goto("intent") /\ UNCHANGED <<serving, app, draft>>

Open(i) == i # None /\ ~i.releasing /\ ~i.deleting

\* applicationResource: the obligation is recorded before the credential exists.
IntentNotRecorded ==
  /\ Keep("intent") /\ Elsewhere
  /\ IF Open(inventory[uid])
     THEN draft' = Persisted(inventory[uid], 0) /\ Goto("create") /\ UNCHANGED copy
     ELSE Requeue
ApplicationResource ==
  /\ Keep("intent") /\ UNCHANGED <<children, serving>>
  /\ IF Open(inventory[uid])
     THEN /\ inventory' = [inventory EXCEPT ![uid] = IF @.entry = None THEN Persisted(@, 0) ELSE @]
          /\ draft' = inventory'[uid] /\ Goto("create") /\ UNCHANGED copy
     ELSE Requeue /\ UNCHANGED inventory

\* EnsureCredential, for the entry just read and the inventory read before it.
EnsureCredential ==
  LET e == draft.entry
      create == credential[uid] = 0 /\ e.uid = 0 /\ secret[uid] = 0 /\ made[uid] < MaxCredentials
      found == credential[uid] # 0 /\ e.uid \in {0, credential[uid]} /\ ~terminating[uid]
  IN  /\ Keep("create") /\ UNCHANGED <<inventory, serving, secret, terminating>>
      /\ made' = [made EXCEPT ![uid] = IF create /\ ~e.release THEN @ + 1 ELSE @]
      /\ credential' = [credential EXCEPT ![uid] = IF create /\ ~e.release THEN made'[uid] ELSE @]
      /\ IF (create \/ found) /\ ~e.release THEN draft' = None /\ Goto("record") /\ UNCHANGED copy
         ELSE Requeue

\* recordResourceUID, from an inventory read anew.
RecordResourceUID ==
  /\ Keep("record") /\ UNCHANGED <<children, serving>>
  /\ IF Open(inventory[uid]) /\ Persistable(inventory[uid], credential[uid])
     THEN /\ inventory' = [inventory EXCEPT ![uid] = Persisted(@, credential[uid])]
          /\ Goto("serve") /\ UNCHANGED <<copy, draft>>
     ELSE Requeue /\ UNCHANGED inventory

\* The configuration is published once the Secret is there.
Serve ==
  /\ Keep("serve") /\ UNCHANGED <<children, inventory>> /\ Requeue
  /\ serving' = IF secret[uid] # 0 THEN uid ELSE serving

-----------------------------------------------------------------------------
(* The inventory controller.  It reads the inventory and whether its       *)
(* Application is there, and acts on that reading.                         *)

Absent(u) == IF app = None THEN TRUE ELSE app.uid # u
IKeep(at) == ipc = at /\ UNCHANGED <<cluster, serving, appController>>
IGoto(at) == ipc' = at /\ UNCHANGED <<iuid, icopy>>
IElsewhere == UNCHANGED <<children, inventory>>

ReconcileInventory(u) ==
  /\ IKeep("idle") /\ running /\ inventory[u] # None /\ IElsewhere
  /\ iuid' = u /\ icopy' = inventory[u]
  /\ \/ Absent(u) /\ ~inventory[u].releasing /\ ipc' = "release"
     \/ ~(Absent(u) /\ ~inventory[u].releasing)
        /\ inventory[u].entry # None /\ inventory[u].entry.release /\ ipc' = "remove"
     \/ Absent(u) /\ inventory[u].releasing /\ inventory[u].entry = None /\ ipc' = "delete"

UpdateInventory(new) ==
  /\ UNCHANGED children /\ InventoryIdle
  /\ inventory' = [inventory EXCEPT ![iuid] = IF @ = icopy THEN new ELSE @]

Release == IKeep("release") /\ UpdateInventory(Released(icopy))

\* RemoveApplicationResource.  A credential whose UID is not recorded is not
\* deleted before it is; the Secret outlives the credential.
RemoveUnbound ==
  LET e == icopy.entry IN
  /\ IKeep("remove") /\ UNCHANGED <<made, credential, secret, inventory>>
  /\ terminating' = [terminating EXCEPT ![iuid] = @ \/ (credential[iuid] # 0 /\ e.uid = credential[iuid])]
  /\ IF credential[iuid] = 0 /\ secret[iuid] = 0 THEN IGoto("drop") ELSE InventoryIdle
RemoveApplicationResource ==
  LET e == icopy.entry IN
  /\ IKeep("remove") /\ UNCHANGED <<made, credential, secret, inventory>>
  /\ \/ credential[iuid] = 0 /\ secret[iuid] = 0 /\ IGoto("drop") /\ UNCHANGED terminating
     \/ credential[iuid] = 0 /\ secret[iuid] # 0 /\ InventoryIdle /\ UNCHANGED terminating
     \/ credential[iuid] # 0 /\ e.uid = 0 /\ IGoto("bind") /\ UNCHANGED terminating
     \/ /\ credential[iuid] # 0 /\ e.uid # 0 /\ InventoryIdle
        /\ terminating' = [terminating EXCEPT ![iuid] = @ \/ e.uid = credential[iuid]]

Bind == IKeep("bind") /\ UpdateInventory(Persisted(icopy, credential[iuid]))
Drop == IKeep("drop") /\ UpdateInventory([icopy EXCEPT !.entry = None])

\* Delete, then removal of the finalizer by a later reconcile.
DeleteInventory ==
  IKeep("delete") /\ UpdateInventory(IF icopy.deleting THEN None ELSE [icopy EXCEPT !.deleting = TRUE])

-----------------------------------------------------------------------------
AppStep ==
  \/ Reconcile \/ Previous \/ EnsureInventory \/ RecordObligations \/ Settle
  \/ ApplicationResource \/ EnsureCredential
  \/ RecordResourceUID \/ Serve

InventoryStep ==
  \/ \E u \in Uids : ReconcileInventory(u)
  \/ Release \/ RemoveApplicationResource \/ Bind \/ Drop \/ DeleteInventory

DatabaseStep ==
  \E u \in Uids : SecretMade(u) \/ CredentialGone(u) \/ CredentialCollected(u) \/ SecretCollected(u)

Next ==
  \/ \E sql \in BOOLEAN : CreateApplication(sql)
  \/ EditSql \/ DeleteApplication \/ StripFinalizer \/ CacheSync \/ Crash \/ Restart
  \/ AppStep \/ InventoryStep \/ DatabaseStep

Spec == Init /\ [][Next]_vars

\* The work queues: an error or a requeue starts another reconcile, and the
\* watches start one when what it read changes.  The cache catches up, a
\* crashed operator is restarted, and the database operator does its part.
FairSpec ==
  /\ Spec
  /\ WF_vars(AppStep) /\ WF_vars(InventoryStep) /\ WF_vars(DatabaseStep)
  /\ WF_vars(CacheSync) /\ WF_vars(Restart)

-----------------------------------------------------------------------------
\* Every credential in the cluster is an obligation of its Application's
\* inventory, at whatever step the operator crashed or the finalizer was
\* stripped: it is found again, and its UID is never mistaken for another's.
\* Exempt is an Application that vanished while the controller took it for
\* alive: its reconcile may still create a credential outside the inventory.
CredentialAccounted ==
  /\ TypeOK
  /\ \A u \in Uids \ vanished : credential[u] # 0 =>
       /\ HasObligations(inventory[u])
       /\ inventory[u].entry.uid \in {0, credential[u]}

\* Applications of one name share a database role, which the deletion of a
\* credential drops: the credentials of two of them never exist together,
\* Secrets not yet collected included.  Exempt is only a credential outside
\* any inventory, of an Application that vanished as above.
OneCredentialPerRole ==
  Cardinality({u \in Uids : /\ credential[u] # 0 \/ secret[u] # 0
                            /\ u \notin vanished \/ HasObligations(inventory[u])}) <= 1

\* Serving is withdrawn before an inventory's obligations are handed over for
\* cleanup (the rule stated in ResourceInventoryReconciler.Reconcile).  It holds
\* for the inventory as a whole, unless the Application vanished while it was
\* served or taken for alive; and for a single obligation, unless the user
\* removed spec.sql: the configuration with it is served while it is released.
HandedOver(u) ==
  HasObligations(inventory[u]) /\ (inventory[u].releasing \/ inventory[u].entry.release)
WithdrawnBeforeRelease ==
  \A u \in Uids \ vanished :
    HandedOver(u) /\ serving = u => u \in trimmed /\ ~inventory[u].releasing

\* What a removed Application leaves behind goes away for good, whoever removed
\* its finalizer, whatever the controllers were doing and wherever they crashed.
EverythingReleased ==
  \A u \in Uids :
    <>[](u <= uids /\ Absent(u) => inventory[u] = None /\ credential[u] = 0 /\ secret[u] = 0)

\* An Application that stays is served in the end: it is not fenced for ever by
\* its predecessor's inventory, nor by its own after a crash.
EventuallyServed ==
  \A u \in Uids : <>[](app # None /\ app.uid = u /\ ~app.deleting) => <>[](serving = u)
=============================================================================
