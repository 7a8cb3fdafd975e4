--------------------------- MODULE GatewayRequests ---------------------------
(***************************************************************************)
(* The gateway's request supervisor and NATS broker: a request is admitted *)
(* against a semaphore, reads its body, reserves a reply record in the     *)
(* current reply session, publishes, waits for the reply and streams the   *)
(* response; a change of route-sync authority cancels it at every point.   *)
(*                                                                         *)
(* Actors: one future per request (in its connection's task), the task of  *)
(* run_reply_sessions, and the outside world: route sync, NATS, hosts,     *)
(* clients that hang up, deadlines.                                        *)
(*                                                                         *)
(* A biased select polls the authority first and the work second, in one   *)
(* poll but not in one instant.  So each await of the work ("intake",      *)
(* "awaiting", "streaming") is followed by the state in which the poll has *)
(* found the authority unchanged ("reading", "receiving", "writing").      *)
(***************************************************************************)
EXTENDS Integers, FiniteSets

CONSTANTS
    Requests,     \* HTTP requests
    InFlight,     \* GATEWAY_MAX_IN_FLIGHT_REQUESTS: permits, and records per session
    MaxSessions,  \* bound: reply sessions opened
    MaxChanges    \* bound: sends on the authority watch channel

ASSUME RequestsFinite == IsFiniteSet(Requests)
ASSUME BoundsNatural == InFlight \in Nat \ {0} /\ MaxSessions \in Nat /\ MaxChanges \in Nat

VARIABLES
    authority,  \* value of the route-sync watch channel
    version,    \* sends on it
    seen,       \* version each request's receiver has marked as seen
    at,         \* position of each request
    expired,    \* requests whose deadline has passed
    free,       \* permits left in the semaphore
    sessions,   \* reply sessions opened so far; the last one is the newest
    manager,    \* run_reply_sessions: "down", "up", "lost" (retired, still offered)
    nextId,     \* PendingState.next_id of each session
    pending,    \* PendingState.replies of all sessions
    using,      \* session each request cloned from the watch channel, 0 for none
    id,         \* id each request reserved in it
    box,        \* its oneshot channel: "empty", "closed", "failed" or "reply"
    origin,     \* history: the request whose publication the reply answers
    sent        \* publications on NATS, with their reply subjects

watch == <<authority, version>>
broker == <<sessions, manager, nextId>>
ticket == <<using, id, box, origin>>
requestVars == <<watch, seen, at, expired, free, broker, pending, ticket, sent>>

Working == {"intake", "reading", "sending", "publishing", "awaiting", "receiving"}
Responding == {"streaming", "writing"}
Admitted == Working \cup Responding \cup {"dropping"}
Positions == {"idle", "entered", "done"} \cup Admitted
Sessions == 1..MaxSessions
Records == [session : Sessions, id : Nat, req : Requests]

RequestInit ==
    /\ authority = FALSE /\ version = 0
    /\ seen = [r \in Requests |-> 0]
    /\ at = [r \in Requests |-> "idle"]
    /\ expired = {}
    /\ free = InFlight
    /\ sessions = 0 /\ manager = "down"
    /\ nextId = [s \in Sessions |-> 0]
    /\ pending = {} /\ sent = {}
    /\ using = [r \in Requests |-> 0]
    /\ id = [r \in Requests |-> 0]
    /\ box = [r \in Requests |-> "empty"]
    /\ origin = [r \in Requests |-> {}]

-----------------------------------------------------------------------------
\* Pieces.

\* Mutant: the receiver compares values, not versions.
ChangedValue(r) == ~authority
Changed(r) == version # seen[r]

\* Drop of PendingReply: whatever record the request still has is removed.
\* Mutant: it has no Drop.
Kept(r) == pending
Forget(r) == {p \in pending : p.req # r}

Move(r, to) == at' = [at EXCEPT ![r] = to]

\* The future of dispatch ends or is dropped, and with it its record and locals.
EndDispatch(r) ==
    /\ pending' = Forget(r)
    /\ using' = [using EXCEPT ![r] = 0]
    /\ id' = [id EXCEPT ![r] = 0]
    /\ box' = [box EXCEPT ![r] = "empty"]
    /\ origin' = [origin EXCEPT ![r] = {}]
    /\ expired' = expired \ {r}

\* dispatch returns a response, and lease.reply wraps its body.
Respond(r) == Move(r, "streaming") /\ EndDispatch(r)

Retired(s) == s < sessions \/ manager # "up"

-----------------------------------------------------------------------------
\* RequestSupervisor::handle, up to the select.

Enter(r) ==
    /\ at[r] = "idle"
    /\ seen' = [seen EXCEPT ![r] = version]
    /\ Move(r, IF authority THEN "entered" ELSE "done")
    /\ UNCHANGED <<watch, expired, free, broker, pending, ticket, sent>>

\* No route, or not this method.
Unrouted(r) ==
    /\ at[r] = "entered"
    /\ Move(r, "done")
    /\ UNCHANGED <<watch, seen, expired, free, broker, pending, ticket, sent>>

\* try_acquire_owned: there is no waiting queue.
Acquire(r) ==
    /\ at[r] = "entered"
    /\ IF free > 0 THEN Move(r, "intake") /\ free' = free - 1
                   ELSE Move(r, "done") /\ UNCHANGED free
    /\ UNCHANGED <<watch, seen, expired, broker, pending, ticket, sent>>

\* The authority branch of the select: the dispatch future is dropped with its
\* record, then the lease.
AuthorityLost(r) ==
    /\ at[r] \in {"intake", "publishing", "awaiting"} /\ Changed(r)
    /\ Move(r, "dropping") /\ EndDispatch(r)
    /\ UNCHANGED <<watch, seen, free, broker, sent>>

\* The authority is unchanged; the work is polled next.
Poll(r) ==
    /\ ~Changed(r)
    /\ \/ at[r] = "intake" /\ Move(r, "reading")
       \/ at[r] = "awaiting" /\ Move(r, "receiving")
       \/ at[r] = "streaming" /\ Move(r, "writing")
    /\ UNCHANGED <<watch, seen, expired, free, broker, pending, ticket, sent>>

\* The work is not ready and its deadline has not passed.
Pending(r) ==
    /\ r \notin expired
    /\ \/ at[r] = "reading" /\ Move(r, "intake")
       \/ at[r] = "receiving" /\ box[r] = "empty" /\ Move(r, "awaiting")
    /\ UNCHANGED <<watch, seen, expired, free, broker, pending, ticket, sent>>

\* dispatch: metadata or body over a limit, broken framing, body deadline, broker
\* not available, payload too large, deadline passed.
Rejected(r) ==
    /\ at[r] = "reading"
    /\ Respond(r)
    /\ UNCHANGED <<watch, seen, free, broker, sent>>

\* The body is complete: the authority's value is checked and the session cloned.
BodyRead(r) ==
    /\ at[r] = "reading" /\ r \notin expired
    /\ IF authority
       THEN /\ Move(r, "sending")
            /\ using' = [using EXCEPT ![r] = IF manager = "down" THEN 0 ELSE sessions]
            /\ UNCHANGED <<expired, pending, id, box, origin>>
       ELSE Respond(r)
    /\ UNCHANGED <<watch, seen, free, broker, sent>>

-----------------------------------------------------------------------------
\* NatsBroker::request and PendingReplies.

\* Nothing to reserve in: no session, not connected, payload over the server's
\* limit, deadline passed.
NoBroker(r) ==
    /\ at[r] = "sending"
    /\ Respond(r)
    /\ UNCHANGED <<watch, seen, free, broker, sent>>

InSession(s) == {p \in pending : p.session = s}
HasCapacity(s) == Cardinality(InSession(s)) < InFlight

\* Mutant: a retired session still takes reservations.
ReservableEvenRetired(r) == using[r] # 0 /\ HasCapacity(using[r])
Reservable(r) == using[r] # 0 /\ ~Retired(using[r]) /\ HasCapacity(using[r])

\* Mutant: ids are taken from the number of records.
IdFromSize(s) == Cardinality(InSession(s))
FreshId(s) == nextId[s]

Reserve(r) ==
    /\ at[r] = "sending" /\ r \notin expired
    /\ IF Reservable(r)
       THEN LET s == using[r] IN
            /\ Move(r, "publishing")
            /\ id' = [id EXCEPT ![r] = FreshId(s)]
            /\ nextId' = [nextId EXCEPT ![s] = @ + 1]
            /\ pending' = pending \cup {[session |-> s, id |-> FreshId(s), req |-> r]}
            /\ UNCHANGED <<expired, using, box, origin>>
       ELSE Respond(r) /\ UNCHANGED nextId
    /\ UNCHANGED <<watch, seen, free, sessions, manager, sent>>

\* publish_with_reply succeeds, and the same poll goes on to the receiver; or it
\* fails and the request is answered 502.
Publish(r) ==
    /\ at[r] = "publishing"
    /\ \/ /\ Move(r, "receiving")
          /\ sent' = sent \cup {[session |-> using[r], id |-> id[r], req |-> r]}
          /\ UNCHANGED <<expired, pending, ticket>>
       \/ Respond(r) /\ UNCHANGED sent
    /\ UNCHANGED <<watch, seen, free, broker>>

\* Mutant: the wait for the reply has no deadline.
ReceiveUntimed(r) ==
    /\ at[r] = "receiving" /\ box[r] # "empty"
    /\ Respond(r)
    /\ UNCHANGED <<watch, seen, free, broker, sent>>

\* The oneshot channel has a reply, a failure, or lost its sender; or the
\* deadline has passed.
Receive(r) ==
    /\ at[r] = "receiving"
    /\ box[r] # "empty" \/ r \in expired
    /\ Respond(r)
    /\ UNCHANGED <<watch, seen, free, broker, sent>>

\* deliver: a reply (or a status, such as no responders) on the subject of
\* publication m.  Hosts may answer late or twice.  The record is removed and its
\* sender used; without a record the reply is discarded.
Deliver(m) ==
    /\ manager = "up" /\ m.session = sessions
    /\ \E p \in pending :
         /\ p.session = m.session /\ p.id = m.id
         /\ pending' = pending \ {p}
         /\ \E b \in {"reply", "failed"} : box' = [box EXCEPT ![p.req] = b]
         /\ origin' = [origin EXCEPT ![p.req] = {m.req}]
    /\ UNCHANGED <<watch, seen, at, expired, free, broker, using, id, sent>>

-----------------------------------------------------------------------------
\* The response and the lease.

\* The buffered body is written, or the authority changed and an error ends it.
\* Either drops the lease.
Written(r) ==
    /\ at[r] = "writing" \/ (at[r] = "streaming" /\ Changed(r))
    /\ Move(r, "dropping")
    /\ UNCHANGED <<watch, seen, expired, free, broker, pending, ticket, sent>>

\* The client hangs up: the future, or the response body, is dropped.
Disconnect(r) ==
    /\ at[r] \in {"intake", "publishing", "awaiting", "streaming"}
    /\ Move(r, "dropping") /\ EndDispatch(r)
    /\ UNCHANGED <<watch, seen, free, broker, sent>>

\* RequestLease is dropped with its permit.
Release(r) ==
    /\ at[r] = "dropping"
    /\ Move(r, "done") /\ free' = free + 1
    /\ seen' = [seen EXCEPT ![r] = 0]
    /\ UNCHANGED <<watch, expired, broker, pending, ticket, sent>>

-----------------------------------------------------------------------------
\* run_reply_sessions.

\* A client is there and subscribed; a new session is offered.
OpenSession ==
    /\ manager = "down" /\ sessions < MaxSessions
    /\ manager' = "up" /\ sessions' = sessions + 1
    /\ UNCHANGED <<watch, seen, at, expired, free, nextId, pending, ticket, sent>>

\* The client changed or the subscription ended: retire drops every sender.
Retire ==
    /\ manager = "up" /\ manager' = "lost"
    /\ box' = [r \in Requests |-> IF \E p \in InSession(sessions) : p.req = r
                                  THEN "closed" ELSE box[r]]
    /\ pending' = pending \ InSession(sessions)
    /\ UNCHANGED <<watch, seen, at, expired, free, sessions, nextId, using, id, origin, sent>>

\* The loop starts over and withdraws the session.
Withdraw ==
    /\ manager = "lost" /\ manager' = "down"
    /\ UNCHANGED <<watch, seen, at, expired, free, sessions, nextId, pending, ticket, sent>>

-----------------------------------------------------------------------------
\* run_route_sync_loop sends on the watch channel (also an equal value).
SyncSend(v) ==
    /\ version < MaxChanges
    /\ authority' = v /\ version' = version + 1
    /\ UNCHANGED <<seen, at, expired, free, broker, pending, ticket, sent>>

Expire(r) ==
    /\ at[r] \in Working /\ r \notin expired
    /\ expired' = expired \cup {r}
    /\ UNCHANGED <<watch, seen, at, free, broker, pending, ticket, sent>>

\* What the connection's task does for r without the client's help.
Work(r) ==
    \/ Unrouted(r) \/ Acquire(r) \/ AuthorityLost(r)
    \/ at[r] # "streaming" /\ Poll(r)
    \/ Pending(r) \/ Rejected(r) \/ BodyRead(r)
    \/ NoBroker(r) \/ Reserve(r) \/ Publish(r) \/ Receive(r) \/ Release(r)

\* Writing the response goes at the client's pace.
Client(r) == Enter(r) \/ (at[r] = "streaming" /\ Poll(r)) \/ Written(r) \/ Disconnect(r)

Broker == OpenSession \/ Retire \/ Withdraw \/ \E m \in sent : Deliver(m)

RequestNext ==
    \/ \E r \in Requests : Work(r) \/ Client(r) \/ Expire(r)
    \/ Broker
    \/ \E v \in BOOLEAN : SyncSend(v)

RequestSpec == RequestInit /\ [][RequestNext]_requestVars

\* Connection tasks are scheduled and the request's timer fires.
FairRequest ==
    RequestSpec /\ \A r \in Requests : WF_requestVars(Work(r)) /\ WF_requestVars(Expire(r))

\* Clients read their response or hang up.
ClientsFinish == \A r \in Requests : WF_requestVars(at[r] \in Responding /\ Client(r))

-----------------------------------------------------------------------------
\* Properties.

\* Type invariant.
RequestTypeOK ==
    /\ authority \in BOOLEAN /\ version \in 0..MaxChanges
    /\ seen \in [Requests -> 0..MaxChanges]
    /\ at \in [Requests -> Positions]
    /\ expired \subseteq Requests
    /\ free \in 0..InFlight
    /\ sessions \in 0..MaxSessions /\ manager \in {"down", "up", "lost"}
    /\ nextId \in [Sessions -> Nat]
    /\ pending \subseteq Records
    /\ sent \subseteq Records
    /\ using \in [Requests -> 0..MaxSessions]
    /\ id \in [Requests -> Nat]
    /\ box \in [Requests -> {"empty", "closed", "failed", "reply"}]
    /\ origin \in [Requests -> SUBSET Requests]

\* A reply reaches only the request whose publication it answers: late and
\* duplicate replies find no record, because PendingReplies never reuses an id
\* within a session and each session has its own inbox.
RepliesReachTheirRequest == \A r \in Requests : origin[r] \subseteq {r}

\* A session that is not retired always has room for a request that has got as
\* far as reserving: records are dropped before permits, so PendingReplies'
\* capacity, equal to the number of permits, never turns an admitted request away.
AdmittedCanReserve ==
    /\ RequestTypeOK
    /\ \A r \in Requests : at[r] = "sending" /\ using[r] # 0 => HasCapacity(using[r])

\* Nobody waits for a record that is gone: a request waiting for its reply has a
\* record in the live session, or its channel holds a reply or has been closed by
\* retire.  (Only the deadline would end such a wait.)
NoStrandedWaiter ==
    \A r \in Requests :
        at[r] \in {"publishing", "awaiting", "receiving"} /\ box[r] = "empty" =>
            /\ ~Retired(using[r])
            /\ [session |-> using[r], id |-> id[r], req |-> r] \in pending

\* "Cached routes provide no serving grace period": once route sync has changed, a
\* request waiting for its body is never published and one waiting for its reply
\* never answers from it, even if sync is back before the request is polled.
NothingContinuesAfterLoss ==
    \A r \in Requests :
        /\ [](at[r] = "intake" /\ Changed(r) => [](at[r] \notin {"sending", "streaming"}))
        /\ [](at[r] = "awaiting" /\ Changed(r) => [](at[r] # "streaming"))

\* Every admitted request gives its permit back, whatever hosts, NATS and route
\* sync do, provided clients read or hang up.
PermitsReturn ==
    ClientsFinish => \A r \in Requests : at[r] \in Admitted ~> at[r] = "done"
=============================================================================
