---------------------------- MODULE HostEffects ----------------------------
(***************************************************************************)
(* The effects a guest call has on PostgreSQL, Redis and NATS, against the *)
(* cancellation and the deadline of its invocation; and the SQL pools the  *)
(* configuration task rotates while jobs hold their connections.           *)
(*                                                                         *)
(* Actors: the guest (one host call), its SQL job, the PostgreSQL backend, *)
(* the Redis server, the configuration task, the pools' connect tasks, the *)
(* clock and whoever cancels the invocation.  The host's and the server's  *)
(* clocks advance together, skew apart.                                    *)
(***************************************************************************)
EXTENDS Integers

CONSTANTS
  Deadline,     \* of the invocation, on the host's clock
  MaxTime,      \* bound on the clock
  Skews,        \* possible values of server time minus host time
  MaxLuaInteger,\* largest deadline a Lua number holds exactly
  MaxVersion    \* bound on credential rotations

ASSUME EffectBounds ==
  /\ {Deadline, MaxTime, MaxLuaInteger, MaxVersion} \cup Skews \subseteq Nat
  /\ MaxVersion > 0

VARIABLES
  now, cancelled,   \* the invocation's clock and its watch flag
  early,            \* history: it was over before the job's last check
  call, answer,     \* what the guest does, and what its call returned
  job, result,      \* sql_job's position and result
  backend_pid,      \* the job knows the backend's pid
  wire, reply,      \* command sent to the backend, answer not yet read
  tx, backend,      \* the transaction, and whether its backend lives
  lost,             \* history: the connection broke
  kv, server_time, deadline, applied,  \* the Redis mutation
  skew,             \* server time minus host time, once it matters
  want, pool, closed, ensure, config, used, stale  \* the pools

guest == <<call, answer>>
sql == <<job, result, backend_pid, wire, reply, tx, backend, lost>>
mutation == <<kv, skew, server_time, deadline, applied>>
pools == <<want, pool, closed, ensure, config, stale>>
time == <<now, cancelled, early>>
vars == <<time, guest, sql, mutation, pools, used>>

Versions == 1..MaxVersion
Unset == 0 - 1
Statements == {"begin", "setup", "statement", "rollback"}

TypeOK ==
  /\ now \in 0..MaxTime /\ cancelled \in BOOLEAN /\ early \in BOOLEAN
  /\ call \in {"none", "started", "sql", "kv", "over", "finished"}
  /\ answer \in {"none", "ok", "err"}
  /\ job \in Statements \cup {"none", "acquire", "commit", "committing", "sent", "after",
                              "terminate", "close", "done"}
  /\ result \in {"ok", "err", "unconfirmed"} /\ backend_pid \in BOOLEAN
  /\ wire \in {"none", "commit"} \cup Statements /\ reply \in {"none", "ok", "err"}
  /\ tx \in {"none", "open", "written", "committed", "aborted"}
  /\ backend \in {"up", "gone"} /\ lost \in BOOLEAN
  /\ kv \in {"none", "time", "timed", "eval", "accepted", "rejected"}
  /\ skew \in Skews \cup {Unset} /\ server_time \in Nat \cup {Unset} /\ deadline \in Nat \cup {Unset}
  /\ applied \in 0..MaxTime \cup {Unset}
  /\ want \in Versions /\ pool \in 0..MaxVersion /\ used \in 0..MaxVersion
  /\ closed \subseteq Versions /\ config \in 0..MaxVersion /\ stale \in BOOLEAN
  /\ ensure \in [Versions -> {"none", "spawned", "connecting"}]

Init ==
  /\ now = 0 /\ cancelled = FALSE /\ early = FALSE
  /\ call = "none" /\ answer = "none"
  /\ job = "none" /\ result = "err" /\ backend_pid = FALSE
  /\ wire = "none" /\ reply = "none" /\ tx = "none" /\ backend = "up" /\ lost = FALSE
  /\ kv = "none" /\ skew = Unset /\ server_time = Unset /\ deadline = Unset /\ applied = Unset
  /\ want = 1 /\ pool = 0 /\ closed = {} /\ config = 0 /\ used = 0 /\ stale = FALSE
  /\ ensure = [v \in Versions |-> IF v = 1 THEN "spawned" ELSE "none"]

-----------------------------------------------------------------------------
(* The invocation: Invocation::check, cancel and the deadline.             *)

Check == ~cancelled /\ now < Deadline

BeforeLastCheck == job \in {"none", "acquire", "begin", "setup", "statement", "commit"}

Tick ==
  /\ now < MaxTime /\ now' = now + 1
  /\ early' = (early \/ (now' >= Deadline /\ BeforeLastCheck))
  /\ UNCHANGED <<cancelled, guest, sql, mutation, pools, used>>

Cancel ==
  /\ ~cancelled /\ cancelled' = TRUE
  /\ early' = (early \/ BeforeLastCheck)
  /\ UNCHANGED <<now, guest, sql, mutation, pools, used>>

\* invocation_store takes the pool the registry has at that moment.
Start ==
  /\ call = "none" /\ Check /\ call' = "started" /\ used' = pool
  /\ UNCHANGED <<time, answer, sql, mutation, pools>>

Returns(value) == call' = "over" /\ answer' = value

\* A call that fails its first check, has no backend configured or is not a
\* supported statement.
Refuse ==
  /\ call = "started" /\ Returns("err")
  /\ UNCHANGED <<time, sql, mutation, pools, used>>

\* send fills the NATS client's buffer, get reads: nothing here changes.
Send ==
  /\ call = "started" /\ Check /\ Returns("ok")
  /\ UNCHANGED <<time, sql, mutation, pools, used>>

\* Invocation::run around what the guest awaits: cancellation wins, and what
\* was already sent stays sent.
Abandon ==
  /\ call \in {"sql", "kv"} /\ ~Check /\ Returns("err")
  /\ UNCHANGED <<time, sql, mutation, pools, used>>

\* Invocation::finish waits for the cleanup tasks.
Finish ==
  /\ call = "over" /\ job \in {"none", "done"} /\ call' = "finished"
  /\ UNCHANGED <<time, answer, sql, mutation, pools, used>>

-----------------------------------------------------------------------------
(* SQL: run_sql and sql_job.                                               *)

Elsewhere == UNCHANGED <<time, guest, mutation, pools, used>>

CallSql ==
  /\ call = "started" /\ Check /\ used # 0
  /\ call' = "sql" /\ job' = "acquire"
  /\ UNCHANGED <<time, answer, result, backend_pid, wire, reply, tx, backend, lost,
                 mutation, pools, used>>

\* The job's connection, or an error: a pool that is being closed gives none,
\* and an open one may fail to connect.
AcquireConnection ==
  /\ job = "acquire"
  /\ \/ Check /\ used \notin closed /\ job' = "begin"
     \/ job' = "done"
  /\ Elsewhere /\ UNCHANGED <<result, backend_pid, wire, reply, tx, backend, lost>>

\* A command reaches the backend, or a broken connection answers at once.
Sends(command) ==
  IF lost THEN reply' = "err" /\ UNCHANGED wire
  ELSE wire' = command /\ UNCHANGED reply

\* Every statement but COMMIT is sent if the check passes.
Submit ==
  /\ job \in Statements /\ Check /\ (wire = "none" \/ lost) /\ reply = "none"
  /\ Sends(job)
  /\ Elsewhere /\ UNCHANGED <<job, result, backend_pid, tx, backend, lost>>

\* Mutant: the statement's success is taken as permission to commit.
LastCheckSkipped ==
  /\ job = "commit" /\ job' = "committing"
  /\ Elsewhere /\ UNCHANGED <<result, backend_pid, wire, reply, tx, backend, lost>>

\* The check before COMMIT; the command is then sent whatever happens.
LastCheck ==
  /\ job = "commit" /\ Check /\ job' = "committing"
  /\ Elsewhere /\ UNCHANGED <<result, backend_pid, wire, reply, tx, backend, lost>>

SubmitCommit ==
  /\ job = "committing" /\ job' = "sent" /\ Sends("commit")
  /\ Elsewhere /\ UNCHANGED <<result, backend_pid, tx, backend, lost>>

\* Invocation::run returns a reply that is there, unless its biased select finds
\* the invocation cancelled or the timer fired; the timer may lag the clock.
Proceed ==
  /\ job \in {"begin", "setup", "statement", "sent"} /\ reply = "ok" /\ ~cancelled
  /\ job' = CASE job = "begin" -> "setup" [] job = "setup" -> "statement"
              [] job = "statement" -> "commit" [] job = "sent" -> "after"
  /\ backend_pid' = (backend_pid \/ job = "setup")
  /\ result' = IF job = "sent" THEN "ok" ELSE result
  /\ reply' = "none"
  /\ Elsewhere /\ UNCHANGED <<wire, tx, backend, lost>>

\* Mutant: the statement is awaited without watching the invocation.
FailsOnReply ==
  /\ job \in {"begin", "setup", "statement", "commit", "sent"}
  /\ reply = "err"
  /\ job' = "after" /\ reply' = "none"
  /\ Elsewhere /\ UNCHANGED <<result, backend_pid, wire, tx, backend, lost>>

\* A failed reply, or cancellation: the transaction block is left, and a
\* command that was sent is left with the backend.
Fails ==
  /\ job \in {"begin", "setup", "statement", "commit", "sent"}
  /\ reply = "err" \/ ~Check
  /\ job' = "after" /\ reply' = "none"
  /\ Elsewhere /\ UNCHANGED <<result, backend_pid, wire, tx, backend, lost>>

\* Mutant: a cancelled job closes its connection without ending the backend.
AfterWithoutTermination ==
  /\ job = "after"
  /\ job' = IF result = "err" THEN "rollback" ELSE "close"
  /\ Elsewhere /\ UNCHANGED <<result, backend_pid, wire, reply, tx, backend, lost>>

After ==
  /\ job = "after"
  /\ job' = IF backend_pid /\ ~Check THEN "terminate"
            ELSE IF result = "err" THEN "rollback" ELSE "close"
  /\ Elsewhere /\ UNCHANGED <<result, backend_pid, wire, reply, tx, backend, lost>>

RolledBack ==
  /\ job = "rollback" /\ (reply # "none" \/ ~Check)
  /\ job' = "close" /\ reply' = "none"
  /\ Elsewhere /\ UNCHANGED <<result, backend_pid, wire, tx, backend, lost>>

Gone ==
  /\ backend' = "gone" /\ wire' = "none"
  /\ tx' = IF tx \in {"open", "written"} THEN "aborted" ELSE tx

\* terminate_backend: PostgreSQL confirms that a living backend has exited, or
\* the job learns nothing and says so.
TerminateBackend(confirmed) ==
  /\ job = "terminate" /\ job' = "close"
  /\ IF confirmed THEN backend = "up" /\ Gone /\ UNCHANGED result
     ELSE result' = "unconfirmed" /\ UNCHANGED <<wire, tx, backend>>
  /\ Elsewhere /\ UNCHANGED <<backend_pid, reply, lost>>

\* The connection is closed or dropped within SQL_CLEANUP_TIMEOUT.
Close ==
  /\ job = "close" /\ job' = "done"
  /\ Elsewhere /\ UNCHANGED <<result, backend_pid, wire, reply, tx, backend, lost>>

SqlAnswers ==
  /\ call = "sql" /\ job = "done" /\ ~cancelled
  /\ Returns(IF result = "ok" THEN "ok" ELSE "err")
  /\ UNCHANGED <<time, sql, mutation, pools, used>>

\* The backend executes what it received; nobody may be waiting any more.
BackendExecutes(ok) ==
  /\ wire # "none" /\ backend = "up"
  /\ tx' = CASE ~ok \/ wire = "rollback" -> "aborted"
             [] wire = "begin" -> "open" [] wire = "setup" -> tx
             [] wire = "statement" -> "written" [] wire = "commit" -> "committed"
  /\ wire' = "none"
  /\ reply' = IF lost \/ job # (IF wire = "commit" THEN "sent" ELSE wire) THEN reply
              ELSE IF ok THEN "ok" ELSE "err"
  /\ Elsewhere /\ UNCHANGED <<job, result, backend_pid, backend, lost>>

\* The connection breaks under the job; the backend notices later.
ConnectionBreaks ==
  /\ job \in Statements \cup {"commit", "sent"} /\ ~lost /\ lost' = TRUE
  /\ reply' = IF wire # "none" THEN "err" ELSE reply
  /\ Elsewhere /\ UNCHANGED <<job, result, backend_pid, wire, tx, backend>>

BackendNotices ==
  /\ backend = "up" /\ (lost \/ job = "done") /\ Gone
  /\ Elsewhere /\ UNCHANGED <<job, result, backend_pid, reply, lost>>

-----------------------------------------------------------------------------
(* Redis: mutate and backend_deadline; the server's clock is now + skew.   *)

KvElsewhere == UNCHANGED <<time, sql, pools, used>>

CallKv ==
  /\ call = "started" /\ Check
  /\ call' = "kv" /\ kv' = "time"
  /\ KvElsewhere /\ UNCHANGED <<answer, skew, server_time, deadline, applied>>

\* The server answers TIME; the reply travels.
ServerTime ==
  /\ kv = "time" /\ kv' = "timed" /\ skew' \in Skews /\ server_time' = now + skew'
  /\ KvElsewhere /\ UNCHANGED <<guest, deadline, applied>>

\* Mutant: the budget is the whole one, not what is left when TIME returns.
SendMutationEarlyBudget ==
  /\ call = "kv" /\ kv = "timed" /\ Check
  /\ server_time + Deadline <= MaxLuaInteger
  /\ kv' = "eval" /\ deadline' = server_time + Deadline
  /\ KvElsewhere /\ UNCHANGED <<guest, skew, server_time, applied>>

\* The deadline on the server's clock, from the budget left when TIME returns.
SendMutation ==
  /\ call = "kv" /\ kv = "timed" /\ Check
  /\ server_time + (Deadline - now) <= MaxLuaInteger
  /\ kv' = "eval" /\ deadline' = server_time + (Deadline - now)
  /\ KvElsewhere /\ UNCHANGED <<guest, skew, server_time, applied>>

OutOfRange ==
  /\ call = "kv" /\ kv = "timed" /\ Check
  /\ server_time + (Deadline - now) > MaxLuaInteger /\ Returns("err")
  /\ KvElsewhere /\ UNCHANGED mutation

\* The script runs when the server gets to it, which may be after the host
\* gave up.
Evaluate ==
  /\ kv = "eval"
  /\ IF now + skew >= deadline THEN kv' = "rejected" /\ UNCHANGED applied
     ELSE kv' = "accepted" /\ applied' = now
  /\ KvElsewhere /\ UNCHANGED <<guest, skew, server_time, deadline>>

\* The script's answer arrives, or the connection, TIME or EVAL fails: then the
\* guest knows nothing of what the server still does.
KvAnswers ==
  /\ call = "kv" /\ ~cancelled
  /\ \/ kv \in {"accepted", "rejected"} /\ Returns(IF kv = "accepted" THEN "ok" ELSE "err")
     \/ Returns("err")
  /\ KvElsewhere /\ UNCHANGED mutation

-----------------------------------------------------------------------------
(* SQL pools: apply_pool_changes, evict_app and ensure.                    *)

PoolsElsewhere == UNCHANGED <<time, guest, sql, mutation, used>>

HoldsConnection(v) == used = v /\ job \notin {"none", "acquire", "done"}

Spawned(v) == ensure' = [ensure EXCEPT ![v] = "spawned"]

\* Mutant: new credentials do not evict.
RotateKeepingPool(evict) ==
  /\ config = 0 /\ want < MaxVersion /\ want' = want + 1
  /\ stale' = ((\E v \in Versions : ensure[v] # "none") \/ (~evict /\ pool # 0))
  /\ Spawned(want + 1) /\ UNCHANGED <<config, pool, closed>>
  /\ PoolsElsewhere

\* New credentials.  An incremental update takes the pool out of the map and
\* waits until it is closed; a full snapshot only asks for the new one.
Rotate(evict) ==
  /\ config = 0 /\ want < MaxVersion /\ want' = want + 1
  /\ stale' = ((\E v \in Versions : ensure[v] # "none") \/ (~evict /\ pool # 0))
  /\ IF evict /\ pool # 0
     THEN /\ config' = pool /\ pool' = 0 /\ closed' = closed \cup {pool} /\ UNCHANGED ensure
     ELSE Spawned(want + 1) /\ UNCHANGED <<config, pool, closed>>
  /\ PoolsElsewhere

\* close returns once every connection is back; the new pool is then requested.
Evicted ==
  /\ config # 0 /\ ~HoldsConnection(config)
  /\ config' = 0 /\ Spawned(want)
  /\ PoolsElsewhere /\ UNCHANGED <<want, pool, closed, stale>>

EnsureStarts(v) ==
  /\ ensure[v] = "spawned"
  /\ ensure' = [ensure EXCEPT ![v] = IF pool # 0 THEN "none" ELSE "connecting"]
  /\ PoolsElsewhere /\ UNCHANGED <<want, pool, closed, config, stale>>

EnsureConnects(v, ok) ==
  /\ ensure[v] = "connecting"
  /\ ensure' = [ensure EXCEPT ![v] = "none"]
  /\ pool' = IF ok THEN v ELSE pool
  /\ PoolsElsewhere /\ UNCHANGED <<want, closed, config, stale>>

-----------------------------------------------------------------------------
JobStep ==
  \/ AcquireConnection \/ Submit \/ LastCheck \/ SubmitCommit \/ Proceed \/ Fails \/ After
  \/ RolledBack \/ Close \/ \E confirmed \in BOOLEAN : TerminateBackend(confirmed)

Next ==
  \/ Tick \/ Cancel \/ Start \/ Abandon \/ Finish
  \/ Refuse \/ Send
  \/ CallSql \/ JobStep \/ SqlAnswers \/ ConnectionBreaks \/ BackendNotices
  \/ \E ok \in BOOLEAN : BackendExecutes(ok)
  \/ CallKv \/ ServerTime \/ SendMutation \/ OutOfRange \/ Evaluate \/ KvAnswers
  \/ \E evict \in BOOLEAN : Rotate(evict)
  \/ Evicted
  \/ \E v \in Versions : EnsureStarts(v) \/ \E ok \in BOOLEAN : EnsureConnects(v, ok)

Spec == Init /\ [][Next]_vars

\* Time passes, the host's own tasks run; backends and servers may hang.
FairSpec == Spec /\ WF_vars(Tick) /\ WF_vars(JobStep) /\ WF_vars(Evicted)

-----------------------------------------------------------------------------
\* An invocation that was over before the job's last check never commits,
\* wherever in sql_job and however often the backend is slow; and a guest that
\* is told its statement succeeded has committed it.
SqlCommitsOnlyInTime ==
  /\ TypeOK
  /\ early => tx # "committed"
  /\ answer = "ok" /\ job # "none" => tx = "committed"

\* When the invocation has finished, its transaction can no longer commit
\* behind the host's back, unless the job reported that it could not confirm
\* the end of the backend or its connection broke.
NoCommitBehindTheHost ==
  [][call = "finished" /\ tx' = "committed" /\ tx # "committed"
       => result = "unconfirmed" \/ lost]_vars

\* "A command delayed until that deadline is rejected": whatever the delays of
\* TIME's reply and of the script, no mutation is applied once the invocation's
\* deadline has passed, and a guest told of success has its mutation applied.
KvBeforeDeadline ==
  /\ applied # Unset => applied < Deadline
  /\ answer = "ok" /\ kv # "none" => applied # Unset

\* The pool in the map has the current credentials, unless a rotation met an
\* older connect still in flight or came in a full snapshot.
PoolIsCurrent == stale \/ pool \in {0, want}

\* Configuration sync does not wait for ever on a pool a guest's job holds.
EvictionCompletes == config # 0 ~> config = 0
=============================================================================
