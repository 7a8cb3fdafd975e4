------------------------- MODULE NatsSubscriptions -------------------------
(***************************************************************************)
(* The execution host's NATS connection and its subscriptions: the manager *)
(* that connects, backs off and replaces the client; the task that keeps   *)
(* queue subscriptions in step with the client and the topics it learns of *)
(* through watch channels; and the watcher that keeps the Redis client.    *)
(* A watch channel is its value and whether the receiver has seen it: two  *)
(* sends before the receiver looks are one change.                         *)
(***************************************************************************)
EXTENDS Integers, FiniteSets

CONSTANTS
  Topics,        \* topics of the registered functions
  QueueCapacity, \* QUEUE_CAPACITY of the dispatch channel
  MaxClients,    \* bound on connections made
  MaxUpdates,    \* bound on topic and on Redis changes
  MaxRotations   \* bound on changes of the credentials the broker accepts

ASSUME SubscriptionBounds ==
  {QueueCapacity, MaxClients, MaxUpdates, MaxRotations} \subseteq Nat /\ MaxClients > 0

VARIABLES
  connector,      \* the connection manager: connect, backoff or connected
  accepted,       \* rotations of the broker's credentials; the host holds 0
  made,           \* clients made so far
  client, clientNew,  \* watch of the client (0 for None), unseen by the task
  nats_ready,     \* watch of readiness
  topics, topicsNew,  \* watch of the topics, unseen by the task
  changes,        \* topic changes so far
  sub,            \* the subscription task: reconcile, subscribing, select, stopped
  subscriptions,  \* for each topic, the client it is subscribed with, or 0
  untried,        \* topics this reconciliation still has to try
  failed,         \* topics it tried in vain
  queue,          \* messages in the dispatch channel
  shutdown,       \* SIGTERM was broadcast
  url, urlNew, redis  \* watch of the Redis URL, and the client made from it

connection == <<connector, accepted, made, client, nats_ready>>
desires == <<topics, changes>>
watcher == <<url, urlNew, redis>>
subscriber == <<sub, subscriptions, untried, failed>>
subscriptionVars ==
  <<connection, clientNew, desires, topicsNew, subscriber, queue, shutdown, watcher>>

SubscriptionTypeOK ==
  /\ connector \in {"connect", "backoff", "connected"} /\ accepted \in 0..MaxRotations
  /\ made \in 0..MaxClients /\ client \in 0..made
  /\ {clientNew, nats_ready, topicsNew, shutdown, urlNew} \subseteq BOOLEAN
  /\ topics \subseteq Topics /\ changes \in 0..MaxUpdates
  /\ sub \in {"reconcile", "subscribing", "select", "stopped"}
  /\ subscriptions \in [Topics -> 0..made]
  /\ untried \subseteq Topics /\ failed \subseteq Topics
  /\ queue \in 0..QueueCapacity
  /\ url \in 0..MaxUpdates /\ redis \in 0..MaxUpdates

NoSubscriptions == [t \in Topics |-> 0]

SubscriptionInit ==
  /\ connector = "connect" /\ accepted = 0 /\ made = 0
  /\ client = 0 /\ clientNew = FALSE /\ nats_ready = FALSE
  /\ topics = {} /\ topicsNew = FALSE /\ changes = 0
  /\ sub = "reconcile" /\ subscriptions = NoSubscriptions /\ untried = {} /\ failed = {}
  /\ queue = 0 /\ shutdown = FALSE
  /\ url = 0 /\ urlNew = FALSE /\ redis = 0

-----------------------------------------------------------------------------
(* run_nats_manager.  main reads the credentials once, so the watch of the *)
(* connection info never changes and the branches on it are not taken.     *)

SubscriberSide == UNCHANGED <<desires, topicsNew, subscriber, queue, shutdown, watcher>>

Connected ==
  /\ connector = "connect" /\ accepted = 0
  /\ connector' = "connected" /\ made' = made + 1
  /\ nats_ready' = TRUE /\ client' = made + 1 /\ clientNew' = TRUE
  /\ UNCHANGED accepted /\ SubscriberSide

\* The broker refuses the credentials or cannot be reached.
ConnectFails ==
  /\ connector = "connect" /\ connector' = "backoff"
  /\ UNCHANGED <<accepted, made, client, clientNew, nats_ready>> /\ SubscriberSide

BackedOff ==
  /\ connector = "backoff" /\ connector' = "connect"
  /\ UNCHANGED <<accepted, made, client, clientNew, nats_ready>> /\ SubscriberSide

\* The broker reports an authorization violation.
AuthViolation ==
  /\ connector = "connected" /\ made < MaxClients /\ connector' = "connect"
  /\ nats_ready' = FALSE /\ client' = 0 /\ clientNew' = TRUE
  /\ UNCHANGED <<accepted, made>> /\ SubscriberSide

\* The broker's credentials are rotated (external).
RotateCredentials ==
  /\ accepted < MaxRotations /\ accepted' = accepted + 1
  /\ UNCHANGED <<connector, made, client, clientNew, nats_ready>> /\ SubscriberSide

-----------------------------------------------------------------------------
(* What configuration sync sends, and the Redis watcher.                   *)

TopicsChange(set) ==
  /\ changes < MaxUpdates /\ set # topics
  /\ topics' = set /\ topicsNew' = TRUE /\ changes' = changes + 1
  /\ UNCHANGED <<connection, clientNew, subscriber, queue, shutdown, watcher>>

UrlChanges ==
  /\ url < MaxUpdates /\ url' = url + 1 /\ urlNew' = TRUE
  /\ UNCHANGED <<connection, clientNew, desires, topicsNew, subscriber, queue, shutdown, redis>>

\* The watcher replaces the shared client; an invalid URL leaves none.
RedisWatcher ==
  /\ urlNew /\ urlNew' = FALSE /\ redis' = url
  /\ UNCHANGED <<connection, clientNew, desires, topicsNew, subscriber, queue, shutdown, url>>

-----------------------------------------------------------------------------
(* manage_nats_subscriptions.                                              *)

ManagerSide == UNCHANGED <<connection, desires, shutdown, watcher>>

\* Both values are marked seen; what the old client had goes, what is no
\* longer wanted goes, and the rest is tried topic by topic.
Reconcile ==
  /\ sub = "reconcile" /\ sub' = "subscribing"
  /\ clientNew' = FALSE /\ topicsNew' = FALSE /\ failed' = {}
  /\ LET kept == [t \in Topics |-> IF clientNew \/ client = 0 \/ t \notin topics THEN 0
                                   ELSE subscriptions[t]]
     IN /\ subscriptions' = kept
        /\ untried' = IF client = 0 THEN {} ELSE {t \in topics : kept[t] = 0}
  /\ UNCHANGED queue /\ ManagerSide

\* Mutant: the clearing is left to the reconciliation.
ClientChangedKeeping ==
  /\ sub \in {"subscribing", "select"} /\ clientNew /\ clientNew' = FALSE
  /\ sub' = "reconcile" /\ untried' = {}
  /\ UNCHANGED <<topicsNew, subscriptions, failed, queue>> /\ ManagerSide

\* The receiver's changed() marks the change as seen, so the subscriptions
\* have to go here and not only in the reconciliation that follows.
ClientChanged ==
  /\ sub \in {"subscribing", "select"} /\ clientNew /\ clientNew' = FALSE
  /\ sub' = "reconcile" /\ subscriptions' = NoSubscriptions /\ untried' = {}
  /\ UNCHANGED <<topicsNew, failed, queue>> /\ ManagerSide

\* Mutant: a change that arrives while subscribing does not start over.
TopicsChangedInSelect ==
  /\ sub \in {"subscribing", "select"} /\ ~clientNew /\ topicsNew /\ topicsNew' = FALSE
  /\ sub' = IF sub = "select" THEN "reconcile" ELSE sub
  /\ UNCHANGED <<clientNew, subscriptions, untried, failed, queue>> /\ ManagerSide

TopicsChanged ==
  /\ sub \in {"subscribing", "select"} /\ ~clientNew /\ topicsNew /\ topicsNew' = FALSE
  /\ sub' = "reconcile" /\ untried' = {}
  /\ UNCHANGED <<clientNew, subscriptions, failed, queue>> /\ ManagerSide

\* queue_subscribe answers, fails or takes longer than two seconds.  A topic
\* that failed waits for the next change.
Subscribe(t, ok) ==
  /\ sub = "subscribing" /\ t \in untried /\ ~clientNew /\ ~topicsNew
  /\ untried' = untried \ {t}
  /\ subscriptions' = [subscriptions EXCEPT ![t] = IF ok THEN client ELSE 0]
  /\ failed' = IF ok THEN failed ELSE failed \cup {t}
  /\ UNCHANGED <<sub, clientNew, topicsNew, queue>> /\ ManagerSide

Reconciled ==
  /\ sub = "subscribing" /\ untried = {} /\ sub' = "select"
  /\ UNCHANGED <<clientNew, topicsNew, subscriptions, untried, failed, queue>> /\ ManagerSide

\* Space in the dispatch channel is reserved, then a message is taken.
Forward ==
  /\ sub = "select" /\ ~clientNew /\ ~topicsNew /\ subscriptions # NoSubscriptions
  /\ queue < QueueCapacity /\ queue' = queue + 1
  /\ UNCHANGED <<clientNew, topicsNew, subscriber>> /\ ManagerSide

\* Dispatch takes one (module InvocationSupervisor).
Take ==
  /\ queue > 0 /\ queue' = queue - 1
  /\ UNCHANGED <<clientNew, topicsNew, subscriber>> /\ ManagerSide

ShutdownSignal ==
  /\ ~shutdown /\ shutdown' = TRUE
  /\ UNCHANGED <<connection, clientNew, desires, topicsNew, subscriber, queue, watcher>>

Stop ==
  /\ shutdown /\ sub \in {"subscribing", "select"} /\ sub' = "stopped"
  /\ subscriptions' = NoSubscriptions /\ untried' = {} /\ failed' = {}
  /\ UNCHANGED <<clientNew, topicsNew, queue>> /\ ManagerSide

-----------------------------------------------------------------------------
SubscriberStep ==
  \/ Reconcile \/ ClientChanged \/ TopicsChanged \/ Reconciled \/ Stop
  \/ \E t \in Topics, ok \in BOOLEAN : Subscribe(t, ok)

SubscriptionNext ==
  \/ Connected \/ ConnectFails \/ BackedOff \/ AuthViolation \/ RotateCredentials
  \/ \E set \in SUBSET Topics : TopicsChange(set)
  \/ UrlChanges \/ RedisWatcher
  \/ SubscriberStep \/ Forward \/ Take \/ ShutdownSignal

SubscriptionSpec == SubscriptionInit /\ [][SubscriptionNext]_subscriptionVars

\* The host's tasks run; connecting is retried and works again and again as
\* long as the broker accepts the credentials.
FairSubscription ==
  /\ SubscriptionSpec
  /\ WF_subscriptionVars(SubscriberStep) /\ WF_subscriptionVars(RedisWatcher)
  /\ WF_subscriptionVars(BackedOff) /\ SF_subscriptionVars(Connected)

-----------------------------------------------------------------------------
\* When the subscription task has nothing left to react to, every wanted topic
\* whose subscription did not fail is subscribed with the client now published,
\* and no other topic and no earlier client is, whatever order the changes came in.
SubscriptionsMatch ==
  /\ SubscriptionTypeOK
  /\ sub = "select" /\ ~clientNew /\ ~topicsNew =>
       \A t \in Topics : subscriptions[t] = IF t \in topics \ failed THEN client ELSE 0

\* Subscriptions, the shared Redis client and the readiness flag settle on the
\* last client, topics and URL; a rotation the host cannot follow, or shutdown,
\* is the only way out.
EventuallySubscribed ==
  <>[](\/ accepted > 0 \/ shutdown
       \/ nats_ready /\ sub = "select" /\ redis = url /\ client = made
          /\ \A t \in topics \ failed : subscriptions[t] = client)
=============================================================================
