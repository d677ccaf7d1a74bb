# Verification of runlimit

TLA+ models of the runlimit rate-limiting crates, TLC configurations that check
them on small instances, and TLAPS proofs. Paths below are relative to the
repository; `PROJECT.json` maps every definition to the lines it models.

## 1. The system

runlimit decides whether a request may proceed. A *check* names a counter (a
policy fingerprint and a subject), a cost and a quota mode; a *batch* of checks
is charged entirely or not at all. Three kinds of limiter exist, each with an
in-memory and a PostgreSQL backend.

| Component | State | Operations | Interacts with |
|---|---|---|---|
| Batch validation (`runlimit-core/src/batch.rs`, `check.rs`) | none | `validate_batch`, cost bounds | first step of every backend |
| Shards (`runlimit-memory/src/shards.rs`) | per shard: latest time, entries, expiry index, mutex with poison flag | lock in ascending order, prune, replace, clear, rebuild | both memory stores |
| Fixed-window memory store (`runlimit-memory/src/store.rs`) | the shards | `check`, `check_all`, `stats`, `clear`, `recover_poisoned` | any number of caller threads; application clock called under the locks |
| GCRA arithmetic (`runlimit-core/src/gcra.rs`) | none | `evaluate` on scaled integers | both GCRA backends |
| GCRA memory store (`runlimit-memory/src/gcra.rs`) | the shards, one arrival time per key | `check`, `check_all`, `clear`, `recover_poisoned` | as above |
| Attempt policy (`runlimit-core/src/attempts.rs`) | none | exponential delay, policy constraints | both attempt limiters |
| Attempt memory limiter (`runlimit-memory/src/attempts.rs`) | entries with failures and lease, sequence, cursor, latest time, one mutex | `admit`, `complete` | receipts kept by the application |
| Fixed-window PostgreSQL backend (`runlimit-postgres/src/admission.rs`, `protocol.rs`, `maintenance.rs`, SQL) | counter rows, capacity ledger, lock table, one transaction per connection | admission, cleanup | any number of replicas |
| PostgreSQL attempt limiter (`attempts.rs`, SQL) | subject rows with lease token, capacity slots | `admit`, `complete`, `claim_in`, `finish_in`, cleanup | the application's own transaction |
| PostgreSQL GCRA (`gcra.rs`, SQL) | arrival rows, ledger, clock watermark | admission, cleanup | replicas |
| Connection handling (`runlimit-postgres/src/lib.rs`, `config.rs`, `errors.rs`) | a pooled connection, the cancellation guard, two budgets | acquire, the phases of a transaction, return or close, `migrate` | every PostgreSQL call; the pool and the server |
| Observers (`runlimit-core/src/observation.rs`) | none | classify a finished call and report it | every backend; called after the connection is given up |
| Axum layer (`runlimit-axum/src/lib.rs`) | a tower service, the admissions of a request | `poll_ready`, `call`, `Admissions::get` | a limiter, the application's extractor and the inner service |
| Decisions, HTTP fields (`decision.rs`, `draft_11.rs`) | none | constructors, wire form, rounding, `RateLimit` fields | the Axum layer's responses |
| Policies, keys, identifiers (`policy.rs`, `key.rs`, `identifier.rs`, `counter.rs`) | none | validation, fingerprints, counter keys | every check |

### What is hard

* Concurrency: several mutexes held at once by batches, `stats`, `clear` and
  recovery; row, ledger and advisory locks taken by several statements of
  several sessions.
* Failure: an application clock that panics with the locks held; connections
  lost, calls cancelled or timed out before, during and after `COMMIT`.
* Time: clocks that run backwards in one process, and decision times sampled
  while other sessions wait; leases that end without anybody looking.
* Connections: a future dropped or timed out while the server is still busy, with
  a transaction or a session lock open on a connection the pool would hand on.
* Services: readiness reserved on one clone and used by another; policies redeployed
  while requests they admitted are running.
* Bounds: pruning and cleanup examine a fixed number of entries; several new
  keys in one batch compete for the last slots; scaled integers overflow.

`PROJECT.json` lists each hazard at its line, with the properties that would
catch it.

### What makes each component correct

* Shards: both indexes describe the same entries; no shard exceeds its share.
* Fixed window: a batch is one atomic charge; a window is anchored at its first
  charge, never exceeds its limit and never reopens; poison fails closed and
  recovery is all or nothing; every call returns.
* GCRA: never more than burst plus rate over any interval, expiry forgives no
  debt, and neither an overflow nor a clock that falls back locks a counter out.
* Attempts: one live receipt per subject, backoff never forgotten early, a
  stale receipt changes nothing, garbage is eventually reclaimed.
* PostgreSQL: the same promises across replicas, with honest replies about
  effects ("not consumed" is never followed by a charge), an exact ledger and
  no deadlock.
* Connections: the pool never receives a busy or locked connection, what the
  observer is told stays true, every call with a budget is answered.
* Axum layer: the instance that was polled ready is the one that is called, a handler
  runs only when every layer let the request through and finds the admission of each,
  no two policies or subjects share a counter, and what a client is told about quota and delay holds until somebody else charges the counter.

## 2. Modules

```
Batch            validate_batch, checks
Shards           one shard as a value, pure operators
MemoryStore      EXTENDS Batch, Shards     implements AnchoredWindow
Gcra             evaluate, exact scaled integers
GcraStore        EXTENDS Batch, Shards, Gcra   implements TokenBucket
AttemptPolicy    delays and policy constraints
AttemptSubject   EXTENDS AttemptPolicy     states of a subject, for the abstract specs
MemoryAttempts   EXTENDS AttemptPolicy     implements AttemptThrottle
PgFixedWindow    EXTENDS Batch             implements SharedWindow
PgAttempts       EXTENDS AttemptPolicy     implements SharedThrottle
PgGcra           EXTENDS Batch, Gcra       implements SharedBucket
Observations     EXTENDS Batch             certainty of errors, reports to observers
PgConnection     EXTENDS Observations      a call, its connection and its deadline
Policies         documents, digests, counter keys
Decisions        EXTENDS Policies          decisions, wire form, RateLimit fields
AxumLayer        EXTENDS Decisions, Gcra   stacks of layers in a server
*Proofs          TLAPS proofs about MemoryStore, GcraStore, MemoryAttempts, PgFixedWindow,
                 PgGcra, PgAttempts, PgConnection, AxumLayer
MC*              instances for TLC
```

**MemoryStore.** `shards`, `poisoned` and `owner` are the mutexes and their
contents; `pc`, `op`, `wanted`, `todo` and `now` are a caller's stack frame. A
call is `Begin` (validation and topology), `Acquire` once per shard in ascending
order (or `FailPoisoned`), `Evaluate` (clock clamped over all the locked shards,
pruning, decision), `ConsumeNext` once per check, `Release`. `clear` and
recovery sweep shard by shard. `ClockPanic` and `Unwind` poison every guard the
caller holds, one at a time as the guards drop. Poison recorded on a mutex is
what another caller meets when it acquires it. Absent entries are the record
`Absent`; window expiry is at least one, so zero is free.

**GcraStore.** The locking is `MemoryStore`'s, so a call is one step; the model
concentrates on the arithmetic, the order of evaluation, pruning and the room
test, and what an overflow leaves. `WideMax` and `DelayMax` stand for the 128-bit
and 64-bit maxima. The keys of a valid batch differ, so writing its entries one after
the other under the locks is one replacement of all of them. `granted` is a history
variable used by `RateBound` only: each admission with its time and the total cost the
counter had admitted before and after it.

**MemoryAttempts.** One mutex, so a call is one step. `receipts` is what the
application holds; `Foreign` are receipts of another limiter.

**PgFixedWindow.** One session per connection. Each locking statement takes its
locks one by one and may wait between any two: advisory ids, existing rows,
ledger rows of the missing keys. `Preflight` samples the database clock after
all of them; `Upsert` writes into the session's workspace, ledger trigger
included. `SendCommit`, `ServerCommit` and `Confirm` are separate, so a
confirmation can be lost on either side of the server's commit. `Abandon` is a
deadline, a cancellation or a database error before `COMMIT`: the client has
answered while the transaction still holds its locks and may finish its
statement, until `Rollback`. `touched` is a history variable, used only by the
refinement.

**PgAttempts.** Library sessions run `admit` (`LockShard`, `CleanupShard`,
`LockRow`, `Decide`) and `complete`; host sessions are the application's own
transactions around `claim_in`, `finish_in` and `complete_in`, with
`RollbackToSavepoint`. A token is a fresh number, `claims` records the
transaction a claim belongs to until that transaction ends. A session whose
client gave up finishes the statement it is in and then lingers as an orphan. The
occupancy count, the slot search and the insert are one step with the decision,
because the shard's advisory lock keeps every other insert and delete of the
shard out. A busy or backoff denial rolls the cleanup back, a capacity denial
commits it. An application transaction uses one receipt; the order in which it
would claim several is its own affair and can deadlock. `InheritedSpec` starts from
a shard that earlier processes filled, perhaps under a higher bound, whose receipts
are gone.

**PgGcra.** The ledger rows of the affected shards are locked in ascending order
before a counter is read, and released at the end of the transaction, so all that
follows the locks in an admission is one step, `Decide`; `Probe` (which skips
locked shards) and `DeleteExpired` are a cleanup. The transaction's end and the
client's doubts are those of `PgFixedWindow`. `ledger` holds the trigger-kept row
count and the watermark `observed`; the database clock may be set either way here,
since the watermark is there for that. `BigintMax` is the range of the expiry
column. `peak` is a history variable. Both failures of the arithmetic are one
error in the code; the model gives a contradiction between a row's expiry and its
arrival time its own outcome, which `SharedBucket` does not have.

**PgConnection.** The three PostgreSQL limiters share one way of using a
connection, and this is it; what their statements compute is in the three modules
above, so here a statement only gets an answer from a set. `pc` is the answer a
future awaits, `decided` the decision built before the transaction ends. A call is
`Start` (validation), `Acquire` or `AcquireFails`, `Advance` once per answered
phase (`begin`, `prepare` for the server timeouts, `statement`, `prepare_commit`,
`commit` or `rollback`), then `Observe`. `Fail` is an error from the database or
the socket, `Deadline` the operation budget, `Drop` a future dropped at an await;
`Finish` says which of them close the connection and which return it. Migrations
hold a session lock and have no deadline. `session` joins the client's end of a
connection to the server process behind it, which may still work off what it was
sent when the client is gone. After a `ROLLBACK` that failed the state of the session
is unknown, and the pool cannot tell: that is why the code closes such a connection
("A rollback failure must close", `attempts.rs`). External, from the way the code uses them: the sqlx
pool, the network and the server (`Serve`, `Break`, `PoolSettles`, `SessionEnds`).
`sent` and `charged` are history variables.

**Observations.** Pure operators: what each error says about consumption, and the
observation built from a call's result.

**Policies, Decisions.** Pure operators, exercised by `AxumLayer`. A policy is built
from a document that the constructors accept or refuse. A digest stands for its
input, so two counters are the same exactly when the code hashes the same bytes for
them; identifiers are therefore sequences of characters here. Time is in ticks finer
than a millisecond, so that every rounding (milliseconds of a period, whole seconds
of a delay) is a real one.

**AxumLayer.** A connection drives a clone of a stack of layers; a clone that is
ready holds a permit of the inner service. `PollReady`, `Call` (`mem::replace`),
then for each layer `Extract` and `Check`, then `Handle`. Every layer below the
outermost is called by `Descend` and takes the ready instance out of itself by the same
`mem::replace` (`Taken`). `BackendFails` and
`Disconnect` may leave a charge behind. `Deploy` replaces a connection by one with
other policies, `Tick` is time. A counter is charged by the fixed-window rule or by
`Gcra`, with a bounded number of counters for each limiter. `ledger`, a history
variable, keeps the same counters under the configuration and subject they should
belong to; `outcomes` keeps what each layer really decided.

PostgreSQL itself is external; assumed of it, from the way the statements use
it: READ COMMITTED snapshots per statement, `FOR UPDATE` re-reading the latest
row version, `SKIP LOCKED`, locks held to the end of the transaction, and, for
fixed windows and attempts, a database clock that does not run backwards. The cleanup scan is one step because
it never waits for a row. Writers of an older release that take no advisory lock
are not modelled.

### Abstract specifications

* `AnchoredWindow`: windows and a set of time floors; a call is one atomic step.
* `TokenBucket`: debt per key that drains at the policy's rate.
* `AttemptThrottle`: a subject is clear, waiting, or leased to one receipt; no
  rows, no lazy expiry, no cleanup, no capacity table.
* `SharedThrottle`: the subjects of `AttemptThrottle` shared by replicas; a
  completion claims the live lease, then applies an outcome or comes to nothing;
  replies about effects are honest.
* `SharedBucket`: draining buckets with a time of their own that never goes back,
  shared by clients; no arrival times, watermarks, rows or cleanup.
* `SharedWindow`: windows shared by clients whose call is open, charged or over.

Each is refined by its implementation through `INSTANCE ... WITH` and checked as
a `PROPERTY`.

## 3. Runs

| Run | Instance | Shows |
|---|---|---|
| `memory_store` | 2 callers (symmetric), 2 shards of capacity 2 and 1, 4 keys, 3 clock values in any order, 4 calls | `TypeOK` (types and the order of lock waits), `IndexesAgree`, `HardBound`, `CapacityDenialHonest`, `RecoveryAllOrNothing`, `PoisonFailsClosed`, refinement of `AnchoredWindow` |
| `memory_store_progress` | 3 callers whose batches overlap in both orders, one instant, 3 calls, fair | `EveryCallReturns` |
| `memory_attempts` | 3 subjects, capacity 2, cleanup batch 1, 3 receipts, 2 clock values in any order, a foreign receipt, fair admission | `HardBound`, `SingleFlight`, refinement of `AttemptThrottle`, `GarbageReclaimed` |
| `gcra_store` | 2 shards, 4 keys, rates 2/3, 3/2 and 1/1, a clock value past the arithmetic's bound | `ShardsConsistent`, `ExpiryLosesNothing`, `RateBound`, `NoLockout`, refinement of `TokenBucket` |
| `pg_fixed_window` | 2 replicas with bounds 1 and 2, 4 keys, three of them in one ledger shard and three behind one advisory id, opposite key and lock orders, windows of 1 and 2, 3 clock values | `TypeOK`, `LedgerExact`, `RowsBounded`, `NoWaitCycle`, `ProtocolHolds`, refinement of `SharedWindow` |
| `pg_attempts` | 2 replicas with bounds 1 and 2, 2 subjects of one shard, cleanup batch 1, 3 clock values, 2 tokens | `SlotsHold`, `NoWaitCycle`, refinement of `SharedThrottle` |
| `pg_attempts_host` | 1 replica, 2 application transactions (symmetric), 1 subject, 5 clock values, 4 tokens | refinement of `SharedThrottle` |
| `pg_attempts_drain` | 2 replicas with bound 1, 2 subjects whose rows a predecessor left, 3 tokens, 3 clock values, fair admission | `ExpiredShardShrinks` |
| `pg_gcra` | 2 replicas (symmetric), 3 counters, two of them in one shard of one row, rates 2/3 and 1/3, 3 clock values in any order, the last out of range | `LedgerExact`, `NoWaitCycle`, refinement of `SharedBucket` |
| `pg_gcra_cleanup` | the same with 1 replica, fair cleanup | `GarbageReclaimed` |
| `pg_connection` | 2 calls of any of 9 operations, a pool of 1 connection, 2 server sessions, 6 configurations of which only the default is accepted | `PoolStaysClean`, `ObservationsHonest`, `CallsAnswered` |
| `axum_layer` | 1 connection, 2 requests (symmetric), 2 subjects, 2 permits, 7 stacks of two layers of which 3 can be deployed, 4 instants, 1 counter for each limiter | `ReadinessCarried`, `AdmissionsFaithful`, `CountersSeparate`, `AnswersHonest` |

Why these bounds. A shard with room for two and three keys hashed to it gives
every capacity case: room for one of two, room after pruning, none. Two callers
suffice for safety because every property relates one holder of a lock to one
other caller; three are used for progress, where a cycle could be longer.
Windows of one and two instants against three clock values contain live, just
expired and long expired, each before and after a backward clock. For memory
attempts, every lease, delay and quiet period ends between the two clock values or
at the second; three receipts
are enough for one completed late after two newer ones and for the sequence to
run out, and three subjects of which two fit make the cleanup cursor rotate. Two PostgreSQL sessions with a two-key batch in each order form every
lock cycle two transactions can form; a third session adds waiting but no new
pair of locks. The replicas disagree about the bound of a shard with three counters, of
which one shares no advisory lock with the others: there the ledger row alone keeps
concurrent insertions apart. For attempts, two subjects compete for one or two slots, a lease,
its backoff and its quiet period all end within the clock's range, and four
tokens allow an admission and a claim, a lapse, and both once more. With one pooled
connection and a second server session, each call meets what the other left: a
connection handed back, one closed whose server process still works, or a lock that
process still holds. In `axum_layer` two requests of the same or of different
subjects contend for the one place of a limiter and two permits; the identifiers of two fixed windows spell the same word when they are run
together, one stack evaluates a policy twice, and the instants lie on both sides of
the ends of every window, bucket and whole second. A limiter whose one place is taken
tells the subjects apart: a counter shared with the other subject would be charged where
a storage denial is due. `MaxCalls`, `MaxGeneration`,
`MaxToken`, `MaxTime`, `Session` of `PgConnection`, `MaxCounters`, `WideMax`,
`DelayMax` and `BigintMax` are bounds of the model and named as such in the modules.

Fairness. `memory_store_progress` assumes weak fairness of each caller's own
steps once its call has started: an operating system that runs runnable threads
and mutexes that are eventually acquired when free. With at most `MaxCalls` calls no
caller can be overtaken for ever, so strong fairness of the mutex is not
assumed. `memory_attempts` assumes that the application keeps calling `admit`;
cleanup has no other trigger in the code. Nothing is assumed of completions.
`pg_gcra_cleanup` assumes what the documentation asks of the host, a scheduled
`cleanup_expired`: it is called again and again, and a step of it that is possible
again and again is not abandoned every time. Nothing is assumed of the clock.
`pg_attempts_drain` assumes that every replica keeps admitting, that its calls go
on, and that faults (lost connections, dropped calls) eventually stop; without the
last, every cleanup could be rolled back. Nothing is assumed of the clock. `pg_connection` assumes only what the client's own
runtime does: timers fire, and a future that was woken is polled. Nothing is assumed
of the pool, the network or the database. A migration has no deadline and may wait
for ever; `CallsAnswered` leaves it out.

Every property has a mutant in `PROJECT.json`: a plausible error in a mapped
definition that makes TLC report a violation.

## 4. Proofs

Each `*Proofs` module extends the module of its component and proves its theorems
for every value of the constants the `ASSUME`s allow. Every one of them rests on an
inductive invariant `Inv`, proved in a theorem `Invariance` with one lemma per
action, and which TLC has checked on the instances of section 3. Facts about finite
sets, minima and quotients are lemmas at the head of the modules that use them.

**MemoryStoreProofs**: `TypeCorrectness`, `IndexConsistency`, `Boundedness`,
`RecoveryIsAtomic` (the invariants of run `memory_store`) and `PoisonedShardsFrozen`
(the action property `PoisonFailsClosed`). `Inv` is the conjunction of

* `Typed`, `IndexesAgree`, `HardBound`, the goals;
* `LockInv`: a caller owns exactly what its step says it does (nothing when idle,
  a prefix of its shards while locking, all of them while it works);
* `RoomInv`: while a batch is being consumed, each shard has room for every new
  key still to be written. `HardBound` is not inductive without it: the capacity
  test happens in `Evaluate`, the insertions in later steps;
* `PoisonInv` and `RebuildInv`: only recovery works on a poisoned shard, and it
  holds every shard from its first rebuild to its last reopening.

`TypeCorrectness` (`TypeOK`) adds to `Typed` that a caller waits only for shards above
all those it holds. That is inductive with `WaitInv`, which also says that only a caller
that is locking waits for anything: each acquisition takes the least shard still wanted.

`DenialsAreHonest` (`CapacityDenialHonest`) rests on `DenialInv`, which adds `CallInv`:
an operation inside the store has passed validation. Were an expired counter left in
the shard of a denial, the pruning pass would have used its whole allowance; that is
at least one place per check of the operation in the shard, so there would have been
room. Otherwise every counter left is live and the least expiry of the index is the
stated one.

`Refinement` (`ImplementsAnchoredWindow`) adds `ReplyInv`: a caller is told something
exactly when its operation is decided, and an admitted operation writes at the time
its shards record. A counter is mapped to what it will hold once the operation that is
being written is done, so a batch is charged at its decision although its keys are
written one by one. At most one charge of a counter is outstanding, since its shard is
locked and a valid batch has no key twice. Pruning removes only counters that can no
longer be seen at the time of their shard, so it is a stutter.

**GcraStoreProofs**: `TypeCorrectness`, `ShardConsistency` (`ShardsConsistent`),
`ExpiryIsSafe` (`ExpiryLosesNothing`), `RateLimit` (`RateBound`), `ClampingLocksNothingOut`
(`NoLockout`) and `Refinement` (`ImplementsTokenBucket`). `Inv` says of every
shard (`ShardOK`) that it is well typed, that its indexes agree, that it is within its
share and that no arrival time lies beyond the expiry of its entry. A batch that inserts
several keys stays within the share because the room test of each check counts the
insertions of the checks before it; the expiry is the arrival time divided by the quota
and rounded up. For the refinement a counter's debt is its arrival time less what has
drained by the time of its shard: an entry that has expired or was pruned has none, and
evaluating a missing entry or one without debt is the same. The advertised delay is the
least sufficient one because rounding up is (`CeilingDivision`). `RateBound` is not
inductive. `RateInv`, proved in `RateInvariance` from `Inv`, adds `Owed`: whatever was
admitted from any one admission on has drained since or is owed still; an admission
leaves no more owed than the burst. The history carries running totals, so no sum over it is needed.
`NoLockout` says that the time recorded by a shard, to which every later reading is
clamped, is one at which some counter of the shard can still be evaluated, and that no
counter owes more than its burst there. `ReachInv` says the same of missing entries too:
a time is recorded only by a call whose evaluation succeeded at it
(`EvaluatedInRange`), an admission leaves at most the ceiling owed, and ceilings grow with
the time (`BurstFacts`).

**MemoryAttemptsProofs**: `TypeCorrectness`, `Boundedness`, `OneAttemptInFlight`
(`SingleFlight`) and `Refinement`, which says that the limiter implements
`AttemptThrottle`. `Inv` adds to types and bound that a stored entry's retry instant
is its last failure plus the delay of its failures (`EntriesInv`), and that
generations of receipts and leases never exceed the last one issued, so that a
receipt can match one lease only (`ReceiptsInv`). The refinement maps an entry to
what a caller would see of it at a given instant (`View`); viewing later what was
viewed earlier is the abstract passage of time, reconciling an entry does not change
its view, and evicting an entry is allowed exactly when its view is clear.

**PgFixedWindowProofs**: `TypeCorrectness`, `ExactLedger`, `RowsStayBounded`,
`ProtocolNeverBroken`, `DeadlockFreedom` (`NoWaitCycle`) and `Refinement`
(`ImplementsSharedWindow`). The goals are far from inductive; `Inv` adds, for each
session, `SessionOK`:

* `LocksOK`: locks are held and wanted by phase, every lock held is below every lock
  still wanted in the order advisory id, row by key, ledger row by shard, and row
  locks are only on the call's own keys;
* `CheckOK`: past the advisory phase an admission owns the advisory lock of all its
  keys; past the row phase it owns the row lock of every key that exists; from the
  decision on it owns the ledger row of every missing key, the decision holds for
  the rows as they are stored, and the uncommitted counts are the ledger's plus its
  insertions and within its bound;
* `CleanupOK`: the rows a cleanup deletes exist, are locked by it, and its counts are
  the ledger's minus its deletions.

The step that needs all of it is `ServerCommit`: no other transaction has read a row
or a count that it changes (`CommitSeparate`), except an admission still taking row
locks, which tolerates that a row disappears and would not tolerate that one appears.
The deadlock theorem takes from each session of a cycle the lock it waits for; those
locks would ascend for ever in a finite set, and the upsert, which takes locks out of
order, is shown never to wait. The refinement adds `CallsInv`: an answer fits its
phase, and the instant a decision uses is not before any write it builds on.

**PgGcraProofs**: `ExactLedger`, `DeadlockFreedom` (`NoWaitCycle`) and `Refinement`
(`ImplementsSharedBucket`). `Inv` adds to the types, the ledger and the lock order:

* `RowsSound`: a stored row carries the expiry of its arrival time, the division
  rounded up, so a row that has expired by an instant has no debt there
  (`ExpiredIsDrained`). Without it neither treating an expired row as absent nor
  deleting it could be shown to forgive nothing, and it makes the code's consistency
  error unreachable;
* `WorkOK`: a transaction that has written holds the shard of everything it wrote,
  its counts are the number of rows its commit will leave (`CapacityLemma`: the last
  check of a batch that inserts into a shard has counted all the others) and its
  watermarks are between the stored ones and the greatest reading of the clock.

For the refinement `CallsInv` says that the arrival times an admission is about to
commit are those of one instant and within the burst, and that what a cleanup deletes
has no debt at the instant it books, both for the rows as they are stored: no other
session can touch them in between. The commit is then the abstract charge, or the
abstract passage of time. Draining up to the watermark and from there to the decision
is draining once (`DrainTwice`); that the advertised delay is the least sufficient one
is the characterisation of division rounding up (`CeilingDivision`).

**PgAttemptsProofs**: `TypeCorrectness`, `SlotsStayApart` (`SlotsHold`),
`DeadlockFreedom` (`NoWaitCycle`) and `Refinement` (`ImplementsSharedThrottle`). `Inv` says of each session that it has locked every
row it has written (`WorkOK`), that an admission past `LockShard` owns the lock of its
shard and touches rows of that shard only, and that everything else that writes,
`complete` and the application's transactions, works on stored rows and keeps their
slots (`LocksOK`). `TablesInv` states the slots and the bound for the committed table
and for the table each open transaction would commit; `SlotsHold` alone is not
inductive, because a slot is chosen in `Decide` and published in `ServerCommit`.
`ServerCommit` is where it is needed: an admission in the same shard would need the
same lock, and nobody else changes which rows exist. In a circle of waits every
session holds a lock somebody waits for and waits itself. A session waiting for a shard
holds nothing, so all of them are admissions waiting for a row under their own shard
lock; the row one waits for is locked by the next, and an admission locks rows of its own
shard only, so two sessions would hold the same shard lock.

For the refinement `CallsInv` adds what the rows and the uncommitted work mean. A row's
`retryAt` is the backoff of its failures and its last failure is in the past
(`HistoryOK`); what an admission has cleaned up had expired, and the lease it has
written was due at some instant before now on the row as it is stored (`GrantOK`, `Due`):
nobody else can touch that row before the commit, so the grant may be dated back to the
decision. A completion or an application transaction has written at most one row, whose
stored lease it found live, and has written either a new token or an outcome as of an
instant within the lease (`ClaimOK`); its lock is the abstract claim. A token that is not
committed yet is in no other row, receipt or call (`TokensOK`), which is why a "stale"
answer stays true and a stranded claim cannot be presented again. A commit is then the
abstract `Grant`, `Complete`, `Stale`, `EndClaim` or `Forget`; denials are decided on the
state of the moment (`SettledSeen`: what admission reckons with is the abstract subject
at that instant); every other step is one of `Invoke`, `Claim`, `GiveUp`, `Drop`, `Pass`
or invisible.

**AxumLayerProofs**: `ReadinessIsCarried`, `AdmissionsAreFaithful`,
`CountersAreSeparate` and `AnswersAreHonest` (`AnswersHonest`). `Inv` says that a future holds an instance exactly while it runs,
that permits held and free add up, and that the records of a request are, in order,
those of the layers it has passed, each of which let it through (`RecordsOK`). That a lookup by fingerprint finds the
layer with the same configuration, and that counters never mix, rest on what the bytes
of a digest tell apart: an identifier of letters ends at the NUL that follows it
(`SplitAtTerminator`), so the two identifiers and the rest can be recovered
(`TwoParts`), for fingerprints as for hashed subjects. `MirrorInv` is the second
invariant: the limiter's table by digest and the table by configuration and subject are
the same up to that correspondence, and a limiter decides the same by either
(`SameVerdict`), storage denials included.

`AnswersAreHonest` rests on a third invariant, `HonestInv`: every counter fits its policy
(`Fits`: a window within its period of the clock and its count within the limit, an
arrival time within the bucket's ceiling), and everything a client was told (`Truthful`)
still says of the counter it left what it said when it was sent (`Says`). Time alone
preserves both, for both algorithms: a window or a bucket only frees capacity. That a
counter fits a policy of any mode is needed because a deployment may change the mode and
keeps the counter (`FitsInAnyMode`). From a truthful answer whose counter is as it was
left, or gone, the three promises follow: the remaining allowance can be spent
(`PromiseFresh`, `PromiseKept`), the stated delay suffices, and the period restores the
quota (`PeriodRestores`); whole seconds are rounded up, so a client waits at least the
delay, and the wire form decodes to the decision it was made from. `Truthful` quantifies
over all decisions an answer could have been made from; TLC has checked `HonestInv` with
the decision that the wire form decodes to in their place.

**PgConnectionProofs**: `PoolClean` (`PoolStaysClean`) and `ReportsStayTrue`
(`ObservationsHonest`). `Inv` says what each place of a connection implies for its
server process, that no two calls use one connection, and what each step of a call
implies for its connection, for what was sent and what may still be charged. A session
in an unknown transaction state is one whose call is still awaiting the rollback and has
an error to read (`Held`), and that answer never returns it. That a report names the
denied check is `DenialNamed`, since a denial a call returns is one of its `Outcomes`.

Assumptions the proofs added to the constants: sets of sessions and storage keys are
finite (a storage key is a digest of fixed length, a connection a socket), there is at
least one session or replica, the checks of a call form a sequence of checks with valid
costs, a stack has at least one layer, and a digest the application already keeps is
never a hash of this library (both are 256 bits; digests are taken to be collision-free).
Bounds of the model such as `MaxTime`, `WideMax` and `BigintMax` are arbitrary naturals in
the proofs, with one exception: `ClockAssumption` of `AxumLayer` says that the limits and
windows policies may have can be reported, and that a bucket at most two windows ahead of
the clock does not overflow the integers of `gcra.rs`. In the code these are 128 bits wide
against limits below 2^63 and windows below 2^44 milliseconds, so a clock would have to
pass about 2^64 milliseconds first. An evaluation that does overflow is an error and not
a decision; `GcraStoreProofs` and `PgGcraProofs` cover it without any such assumption, and
`AxumLayer` covers it with every other failure of a limiter (`BackendFails`).

Only model-checked: liveness (`EveryCallReturns`, `GarbageReclaimed` of both limiters,
`ExpiredShardShrinks`, `CallsAnswered`), since fairness is out of the proof system's
reach. Every other property of the runs, invariants, action properties and refinements,
is stated by a theorem.

## 5. Not modelled

* SHA-256, HMAC and the 64-bit key hash themselves: digests are taken to be
  collision-free, and a store's key is an opaque number with a shard. The separate
  hash domain of attempt subjects is left out.
* The wire form of a batch decision, and the escaping of a policy name in a header.
* The capacity, pruning and cleanup reports of the memory stores: called after the
  locks are released, isolated by `catch_unwind`, no modelled state depends on them.
* Timeouts as numbers: a budget is an event that may happen at any await under it.
* An application transaction that claims several receipts. It may deadlock with
  another one that claims them in the other order; PostgreSQL aborts one of them.
* Schema creation and validation of existing tables at start-up.
* Examples, benchmarks and build tooling.

## 6. What could be added

Every safety property the runs check is proved. Three extensions would widen the model:

1. the wire form of a batch decision, beside the single decisions of `Decisions`;
2. application transactions that claim several receipts, with PostgreSQL's deadlock
   detection, to state which of them survive;
3. clock sampling and shard locks in `GcraStore` as separate steps. The locking code is
   shared with `MemoryStore`, where it is modelled and proved.
