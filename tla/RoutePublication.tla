-------------------------- MODULE RoutePublication --------------------------
(***************************************************************************)
(* Publication of HTTP routes: the reconciler and the route store at one   *)
(* end, the route table of each gateway at the other, joined by sessions   *)
(* of UpdateStream (RegisterGateway, DeregisterGateway, PushRouteUpdate    *)
(* and run_route_sync have the control of their configuration twins).      *)
(*                                                                         *)
(* A route is a path and the application that answers on it; methods and   *)
(* subjects follow from these.  Unlike topics, paths are not checked for   *)
(* uniqueness by the webhook.  Unlike a configuration, a set of routes is  *)
(* not replaced as a whole: an update only adds the paths it names or only *)
(* removes them, whoever they belong to.                                   *)
(***************************************************************************)
EXTENDS UpdateStream

CONSTANTS
    Apps,      \* applications
    None,      \* no application: nothing routed, nothing there
    Paths,     \* HTTP paths
    MaxEdits   \* bound: changes made to Application objects

ASSUME RouteEditsBounded == MaxEdits \in Nat

ASSUME NoneIsNoApp == None \notin Apps

VARIABLES
    spec,      \* paths each Application object claims, None when there is no object
    deleting,  \* objects held by their finalizer
    edits,     \* changes made so far
    routes,    \* Store.routes
    outbox,    \* the batch the worker has still to broadcast, at most one
    reply,     \* the snapshot on its way to a gateway
    table,     \* the gateway's RouteTable
    overlap    \* history: since the session's snapshot was read, two applications
               \* have had the same path in the store, or one has had a path that
               \* a batch not yet broadcast deletes for another

objects == <<spec, deleting, edits>>
operator == <<spec, deleting, edits, routes, outbox>>
gateway == <<reply, table, overlap>>
vars == <<streamVars, operator, gateway>>

Batches == [app : Apps, paths : SUBSET Paths, delete : BOOLEAN]

Tables == [Paths -> Apps \cup {None}]

Claimants(c, p) == {a \in Apps : p \in c[a]}

\* Two applications have the same path.
Contested(c) == \E a, b \in Apps : a # b /\ c[a] \cap c[b] # {}

\* The worker is about to broadcast the deletion of a path somebody has again.
DeletesTaken(c) == \E i \in DOMAIN outbox :
    outbox[i].delete /\ \E p \in outbox[i].paths : Claimants(c, p) # {}

NoRoutes == [a \in Apps |-> {}]

-----------------------------------------------------------------------------
\* The gateway's table.

\* replace_all: routes are inserted in the order of a Go map, the last one wins.
FullRouteTables(c) ==
    {t \in Tables : \A p \in Paths :
        t[p] \in (IF Claimants(c, p) = {} THEN {None} ELSE Claimants(c, p))}

\* upsert or remove for each route of the batch.
ApplyBatch(t, b) ==
    [p \in Paths |-> IF p \notin b.paths THEN t[p] ELSE IF b.delete THEN None ELSE b.app]

-----------------------------------------------------------------------------
Init ==
    /\ StreamInit
    /\ spec = [a \in Apps |-> None]
    /\ deleting = {} /\ edits = 0
    /\ routes = NoRoutes
    /\ outbox = <<>>
    /\ reply = [r \in Recipients |-> NoRoutes]
    /\ table = [r \in Recipients |-> [p \in Paths |-> None]]
    /\ overlap = [r \in Recipients |-> FALSE]

EditSpec(a, paths) ==
    /\ edits < MaxEdits
    /\ a \notin deleting /\ spec[a] # paths
    /\ spec' = [spec EXCEPT ![a] = paths]
    /\ edits' = edits + 1
    /\ UNCHANGED <<streamVars, deleting, routes, outbox, gateway>>

DeleteSpec(a) ==
    /\ edits < MaxEdits
    /\ spec[a] # None /\ a \notin deleting
    /\ deleting' = deleting \cup {a}
    /\ edits' = edits + 1
    /\ UNCHANGED <<streamVars, spec, routes, outbox, gateway>>

\* Mutant: the routes the application had.
UpsertsOfOld(a) == routes[a]

\* buildRouteUpsertUpdate: the routes the application has now.
UpsertsOf(a) == spec[a]

\* reconcileUpsert: Store.Set reports a change, and the routes of the new set are
\* to be broadcast as upserts.
ReconcileUpsert(a) ==
    /\ outbox = <<>>
    /\ spec[a] # None /\ a \notin deleting
    /\ routes[a] # spec[a]
    /\ routes' = [routes EXCEPT ![a] = spec[a]]
    /\ outbox' = <<[app |-> a, paths |-> UpsertsOf(a), delete |-> FALSE]>>
    /\ overlap' = [r \in Recipients |-> overlap[r] \/ (InSession(r) /\ Contested(routes'))]
    /\ UNCHANGED <<streamVars, objects, reply, table>>

\* reconcileDelete: if the application had routes they are deleted from the store
\* and to be broadcast as deletions.
ReconcileDelete(a) ==
    /\ outbox = <<>>
    /\ a \in deleting /\ routes[a] # {}
    /\ routes' = [routes EXCEPT ![a] = {}]
    /\ outbox' = <<[app |-> a, paths |-> routes[a], delete |-> TRUE]>>
    /\ UNCHANGED <<streamVars, objects, gateway>>

Broadcast ==
    /\ outbox # <<>>
    /\ BroadcastUpdate(outbox[1])
    /\ outbox' = <<>>
    /\ UNCHANGED <<objects, routes, gateway>>

\* Cleanup is complete and the finalizer goes.
RemoveFinalizer(a) ==
    /\ outbox = <<>>
    /\ a \in deleting /\ routes[a] = {}
    /\ spec' = [spec EXCEPT ![a] = None]
    /\ deleting' = deleting \ {a}
    /\ UNCHANGED <<streamVars, edits, routes, outbox, gateway>>

-----------------------------------------------------------------------------
\* Sessions.

RequestFullRoutes(r) ==
    /\ ServeSnapshot(r)
    /\ reply' = [reply EXCEPT ![r] = routes]
    /\ overlap' = [overlap EXCEPT ![r] = Contested(routes) \/ DeletesTaken(routes)]
    /\ UNCHANGED <<operator, table>>

\* Mutant: the snapshot is added to what the table holds.
FetchWithoutClear(r) ==
    /\ LoadSnapshot(r)
    /\ \E t \in FullRouteTables(reply[r]) :
         table' = [table EXCEPT ![r] = [p \in Paths |-> IF t[p] = None THEN @[p] ELSE t[p]]]
    /\ reply' = [reply EXCEPT ![r] = NoRoutes]
    /\ UNCHANGED <<operator, overlap>>

FetchFullRoutes(r) ==
    /\ LoadSnapshot(r)
    /\ \E t \in FullRouteTables(reply[r]) : table' = [table EXCEPT ![r] = t]
    /\ reply' = [reply EXCEPT ![r] = NoRoutes]
    /\ UNCHANGED <<operator, overlap>>

ApplyUpdate(r) ==
    /\ Receive(r)
    /\ table' = [table EXCEPT ![r] = ApplyBatch(@, wire[Stream(r)][1])]
    /\ UNCHANGED <<operator, reply, overlap>>

SessionStep(r) ==
    /\ OpenStream(r) \/ InitialAck(r) \/ Ack(r)
    /\ UNCHANGED <<operator, gateway>>

\* The session ends; the table keeps what it had.
EndSession(r) ==
    /\ reply' = [reply EXCEPT ![r] = NoRoutes]
    /\ overlap' = [overlap EXCEPT ![r] = FALSE]
    /\ UNCHANGED <<operator, table>>

StreamClosed(r) == StreamEnded(r) /\ EndSession(r)

SessionExpired(r) == SessionFails(r) /\ EndSession(r)

GoroutineStep(s) == Goroutine(s) /\ UNCHANGED <<operator, gateway>>

GoroutineInterrupted(s) == Interrupted(s) /\ UNCHANGED <<operator, gateway>>

Worker == Broadcast \/ \E a \in Apps : ReconcileUpsert(a) \/ ReconcileDelete(a) \/ RemoveFinalizer(a)

Editor == \E a \in Apps : DeleteSpec(a) \/ \E paths \in SUBSET Paths : EditSpec(a, paths)

Gateway(r) == RequestFullRoutes(r) \/ FetchFullRoutes(r) \/ ApplyUpdate(r) \/ SessionStep(r) \/ StreamClosed(r)

Next ==
    \/ Worker \/ Editor
    \/ \E r \in Recipients : Gateway(r) \/ SessionExpired(r)
    \/ \E s \in Streams : GoroutineStep(s) \/ GoroutineInterrupted(s)

Spec == Init /\ [][Next]_vars

\* The gateway's task and the operator's goroutines are scheduled, the worker serves
\* its queue, the session timer fires, and a snapshot call tried again and again
\* gets through.
Fairness ==
    /\ WF_vars(Worker)
    /\ \A s \in Streams : WF_vars(GoroutineStep(s))
    /\ \A r \in Recipients :
         /\ WF_vars(Gateway(r))
         /\ WF_vars(SessionExpired(r))
         /\ SF_vars(FetchFullRoutes(r))

FairSpec == Spec /\ Fairness

-----------------------------------------------------------------------------
\* Properties.

\* Type invariant.
TypeOK ==
    /\ StreamTypeOK(Batches)
    /\ spec \in [Apps -> (SUBSET Paths) \cup {None}]
    /\ deleting \subseteq Apps /\ edits \in 0..MaxEdits
    /\ routes \in [Apps -> SUBSET Paths]
    /\ outbox \in Seq(Batches) /\ Len(outbox) <= 1
    /\ reply \in [Recipients -> [Apps -> SUBSET Paths]]
    /\ table \in [Recipients -> Tables]
    /\ overlap \in [Recipients -> BOOLEAN]

\* What is still to reach gateway r over its stream, oldest first, the batch the
\* worker is about to broadcast included.
Undelivered(r) == wire[Stream(r)] \o chan[Stream(r)] \o outbox

\* Batch b routes path p to application a.
Gives(b, p, a) == b.app = a /\ ~b.delete /\ p \in b.paths

\* Path p leads to application a once the batches bs have been applied: the last of
\* them that names p routes it to a or, if none does, it led there before.
RoutedTo(owned, bs, p, a) ==
    \/ owned /\ \A j \in DOMAIN bs : p \notin bs[j].paths
    \/ \E i \in DOMAIN bs : Gives(bs[i], p, a) /\ \A j \in DOMAIN bs : j > i => p \notin bs[j].paths

\* r's session saw every broadcast and no path with two owners.
Undisturbed(r) == Attached(r) /\ ~missed[r] /\ ~overlap[r]

\* Every stored route reaches a gateway whose stream is registered: deletions by
\* path and upserts without deletions lose no route another application needs.  (A
\* path its application gave up may stay until the next snapshot.)
StoredRoutesServed ==
    /\ TypeOK
    /\ \A r \in Recipients : Undisturbed(r) =>
        \A a \in Apps : \A p \in routes[a] : RoutedTo(table[r][p] = a, Undelivered(r), p, a)

\* When changes stop, every gateway ends up with the routes of the store; paths
\* given up meanwhile disappear with the next snapshot at the latest.
EventuallyRouted == \A r \in Recipients : <>[](table[r] \in FullRouteTables(routes))
=============================================================================
