--------------------------- MODULE PgFixedWindow ---------------------------
(***************************************************************************)
(* The PostgreSQL fixed-window backend: admission transactions             *)
(* (runlimit-postgres/src/admission.rs with the statements of              *)
(* protocol.rs), the cleanup transaction (maintenance.rs,                  *)
(* cleanup_expired.sql) and the capacity ledger with its triggers          *)
(* (migrations/20260726000000).                                            *)
(*                                                                         *)
(* A session is a replica's connection running one call at a time.  A      *)
(* transaction is a series of statements.  A statement that locks takes    *)
(* its locks one by one, in the order its SQL imposes, and may wait        *)
(* between any two.  Uncommitted writes stay in the session's workspace    *)
(* and become visible when the server commits.                             *)
(*                                                                         *)
(* The client may stop waiting (deadline, cancellation, lost connection)   *)
(* at any moment.  The server learns of it later: until then the           *)
(* abandoned transaction keeps its locks, finishes the statement it is in  *)
(* and, when COMMIT was already sent, may still commit.                    *)
(*                                                                         *)
(* External, from PostgreSQL's documented READ COMMITTED behaviour: a      *)
(* statement sees what was committed when it starts, a row lock returns    *)
(* the latest version (nothing if the row was deleted meanwhile), SKIP     *)
(* LOCKED ignores locked rows, and locks last until the transaction ends.  *)
(***************************************************************************)
EXTENDS Batch, Integers

CONSTANTS Session,      \* connections running admission or cleanup calls
          None,         \* not a session: the holder of a free lock
          Key,          \* counter keys, as numbers in storage-key order
          LockId,       \* advisory_lock_id of each key
          Shard,        \* capacity_shard of each key
          Limit,        \* policy limit of each key
          Window,       \* policy window of each key
          MaxRows,      \* session -> its replica's maximum_rows_per_shard
          HardMax,      \* HARD_MAX_ROWS_PER_SHARD
          MaxBatchSize, \* max_batch_size
          Operation,    \* the calls a session may run
          CleanupLimit, \* maximum_rows of a cleanup call
          MaxTime       \* bound: the last value of the database clock

Shards == {Shard[k] : k \in Key}

CheckOp(o) == o.kind = "check"

ASSUME PgFixedWindowAssumption ==
    /\ None \notin Session
    /\ IsFiniteSet(Session) /\ Session # {}
    /\ IsFiniteSet(Key) /\ Key \subseteq Nat
    /\ LockId \in [Key -> Nat]
    /\ Shard \in [Key -> Nat]
    /\ Limit \in [Key -> Nat \ {0}]
    /\ Window \in [Key -> Nat \ {0}]
    /\ HardMax \in Nat \ {0}
    /\ MaxRows \in [Session -> 1..HardMax]
    /\ MaxBatchSize \in Nat \ {0}
    /\ CleanupLimit \in Nat \ {0}
    /\ MaxTime \in Nat
    /\ \A o \in Operation :
        /\ o.kind \in {"check", "cleanup"}
        /\ o.checks \in Seq([key : Key, cost : Nat, mode : QuotaMode])
        /\ \A j \in DOMAIN o.checks : ValidCost(o.checks[j].cost, Limit[o.checks[j].key])

VARIABLES rows,    \* key -> committed counter row, NoRow when there is none
          ledger,  \* shard -> committed row_count
          clock,   \* the database clock
          holder,  \* lock -> the session holding it
          pc,      \* session -> the statement its transaction is in
          op,      \* session -> its current or last call
          wanted,  \* session -> locks the current statement still has to take
          at,      \* session -> the database time its decision uses
          writes,  \* session -> uncommitted rows, a function on the keys written
          counts,  \* session -> uncommitted row_counts, on the shards written
          reply,   \* session -> what its client was told
          touched  \* history: key -> database time of its last committed write

vars == <<rows, ledger, clock, holder, pc, op, wanted, at, writes, counts, reply, touched>>

----------------------------------------------------------------------------

NoRow == [used |-> 0, expires |-> 0]

Nothing == <<>>

Locks ==
    ({"advisory"} \X {LockId[k] : k \in Key}) \cup ({"row"} \X Key) \cup ({"ledger"} \X Shards)

Reply(outcome, index, retry) == [outcome |-> outcome, index |-> index, retry |-> retry]

Pending == Reply("pending", 0, 0)

Waiting(t) == reply[t] = Pending

Init ==
    /\ rows = [k \in Key |-> NoRow]
    /\ ledger = [s \in Shards |-> 0]
    /\ clock = 0
    /\ holder = [l \in Locks |-> None]
    /\ pc = [t \in Session |-> "idle"]
    /\ op = [t \in Session |-> [kind |-> "cleanup", checks |-> <<>>]]
    /\ wanted = [t \in Session |-> {}]
    /\ at = [t \in Session |-> 0]
    /\ writes = [t \in Session |-> Nothing]
    /\ counts = [t \in Session |-> Nothing]
    /\ reply = [t \in Session |-> Reply("none", 0, 0)]
    /\ touched = [k \in Key |-> 0]

KeysOf(checks) == {checks[j].key : j \in DOMAIN checks}

Exists(k) == rows[k] # NoRow

RowsIn(s) == {k \in Key : Exists(k) /\ Shard[k] = s}

\* The check of a batch that names key k; validate_batch leaves only one.
CheckOf(checks, k) == checks[CHOOSE j \in DOMAIN checks : checks[j].key = k]

\* What t alone may lock: free, or its own already.
Free(t, l) == holder[l] \in {t, None}

TakeAll(t, ls) == holder' = [l \in Locks |-> IF l \in ls THEN t ELSE holder[l]]

----------------------------------------------------------------------------
(* Starting a call.                                                        *)

\* A transaction that relies on row locks alone.
AdvisoryLocksNone(checks) == {}

\* advisory_lock_ids: sorted by the statement, distinct keys may share one.
AdvisoryLocks(checks) == {<<"advisory", LockId[k]>> : k \in KeysOf(checks)}

\* check and check_all (run_checks, begin): an invalid batch fails before a
\* connection is acquired.
BeginCheck(t) ==
    /\ pc[t] = "idle"
    /\ \E o \in Operation :
        /\ CheckOp(o)
        /\ op' = [op EXCEPT ![t] = o]
        /\ IF ValidateBatch(o.checks, MaxBatchSize) = "Valid"
           THEN /\ pc' = [pc EXCEPT ![t] = "advisory"]
                /\ wanted' = [wanted EXCEPT ![t] = AdvisoryLocks(o.checks)]
                /\ reply' = [reply EXCEPT ![t] = Pending]
           ELSE /\ reply' = [reply EXCEPT ![t] = Reply("invalid", 0, 0)]
                /\ UNCHANGED <<pc, wanted>>
    /\ UNCHANGED <<rows, ledger, clock, holder, at, writes, counts, touched>>

BeginCleanup(t) ==
    /\ pc[t] = "idle"
    /\ \E o \in Operation : ~CheckOp(o) /\ op' = [op EXCEPT ![t] = o]
    /\ pc' = [pc EXCEPT ![t] = "scan"]
    /\ reply' = [reply EXCEPT ![t] = Pending]
    /\ UNCHANGED <<rows, ledger, clock, holder, wanted, at, writes, counts, touched>>

----------------------------------------------------------------------------
(* Lock acquisition, shared by the locking statements.                     *)

\* A statement that takes its locks in whatever order its input has.
NextLockAnyOrder(t, l) == l \in wanted[t]

\* Every locking statement takes its locks in ascending order: advisory ids
\* are sorted, rows follow the sorted storage keys, ledger rows ORDER BY
\* capacity_shard.
NextLock(t, l) == l \in wanted[t] /\ \A m \in wanted[t] : l[2] <= m[2]

\* Take one lock.  FOR UPDATE skips a row that was deleted during the wait.
Acquire(t) ==
    /\ \E l \in Locks :
        /\ NextLock(t, l)
        /\ Free(t, l)
        /\ wanted' = [wanted EXCEPT ![t] = @ \ {l}]
        /\ holder' = IF l[1] = "row" /\ ~Exists(l[2]) THEN holder
                     ELSE [holder EXCEPT ![l] = t]
    /\ UNCHANGED <<rows, ledger, clock, pc, op, at, writes, counts, reply, touched>>

\* acquire_existing_row_locks starts: its snapshot shows which rows exist.
StartRowLocks(t) ==
    /\ pc[t] = "advisory" /\ wanted[t] = {} /\ Waiting(t)
    /\ pc' = [pc EXCEPT ![t] = "rows"]
    /\ wanted' = [wanted EXCEPT
         ![t] = {<<"row", k>> : k \in {h \in KeysOf(op[t].checks) : Exists(h)}}]
    /\ UNCHANGED <<rows, ledger, clock, holder, op, at, writes, counts, reply, touched>>

\* missing_keys of BATCH_CAPACITY_LOCK_SQL.
MissingKeys(t) == {k \in KeysOf(op[t].checks) : ~Exists(k)}

\* A capacity decision on an unlocked reading of the ledger.
LedgerLocksNone(t) == {}

\* The FOR UPDATE of BATCH_CAPACITY_LOCK_SQL: the shards of the missing keys.
LedgerLocks(t) == {<<"ledger", Shard[k]>> : k \in MissingKeys(t)}

\* first_capacity_denial starts.
StartLedgerLocks(t) ==
    /\ pc[t] = "rows" /\ wanted[t] = {} /\ Waiting(t)
    /\ pc' = [pc EXCEPT ![t] = "ledger"]
    /\ wanted' = [wanted EXCEPT ![t] = LedgerLocks(t)]
    /\ UNCHANGED <<rows, ledger, clock, holder, op, at, writes, counts, reply, touched>>

----------------------------------------------------------------------------
(* The decision.                                                           *)

\* first_capacity_denial: projected rows of check j's shard exceed the bound.
CapacityDenied(t, j) ==
    LET checks == op[t].checks
        new(h) == ~Exists(checks[h].key) /\ Shard[checks[h].key] = Shard[checks[j].key]
    IN  /\ ~Exists(checks[j].key)
        /\ ledger[Shard[checks[j].key]] + Cardinality({h \in 1..(j - 1) : new(h)}) + 1
             > MaxRows[t]

\* BATCH_PREFLIGHT_SQL: the row is active and the cost does not fit.
QuotaDenied(c, now) ==
    /\ Exists(c.key)
    /\ rows[c.key].expires > now
    /\ rows[c.key].used > Limit[c.key] - c.cost

\* execute_batch: the earlier of the first capacity and the first quota denial.
FirstDenied(t, now) ==
    LET checks == op[t].checks
        denied == {j \in DOMAIN checks : CapacityDenied(t, j) \/ QuotaDenied(checks[j], now)}
    IN  IF denied = {} THEN 0 ELSE Min(denied)

\* The denial of check j; only a quota denial can be shadowed, and only a quota
\* denial has a retry delay.
Denial(t, j, now) ==
    LET c == op[t].checks[j]
    IN  IF QuotaDenied(c, now)
        THEN Reply(IF c.mode = "Shadow" THEN "shadow_denied" ELSE "quota_denied",
                   j, rows[c.key].expires - now)
        ELSE Reply("capacity_denied", j, 0)

\* preflight_batch samples the clock after every lock is held.  A denial is
\* final: the rollback that follows cannot change it.
Preflight(t) ==
    /\ pc[t] = "ledger" /\ wanted[t] = {} /\ CheckOp(op[t]) /\ Waiting(t)
    /\ LET j == FirstDenied(t, clock)
       IN  IF j # 0
           THEN reply' = [reply EXCEPT ![t] = Denial(t, j, clock)] /\ UNCHANGED pc
           ELSE pc' = [pc EXCEPT ![t] = "upsert"] /\ UNCHANGED reply
    /\ at' = [at EXCEPT ![t] = clock]
    /\ UNCHANGED <<rows, ledger, clock, holder, op, wanted, writes, counts, touched>>

----------------------------------------------------------------------------
(* The writes.                                                             *)

\* An upsert that adds to the old usage although the window has ended.
UpsertedNeverRestarting(c, now) ==
    IF Exists(c.key) THEN [rows[c.key] EXCEPT !.used = @ + c.cost]
    ELSE [used |-> c.cost, expires |-> now + Window[c.key]]

\* The row BATCH_UPSERT_SQL leaves for a check.
Upserted(c, now) ==
    IF Exists(c.key) /\ rows[c.key].expires > now
    THEN [rows[c.key] EXCEPT !.used = @ + c.cost]
    ELSE [used |-> c.cost, expires |-> now + Window[c.key]]

\* The WHERE of its DO UPDATE: rows it returns no decision for.
Unreturned(checks, now) == {j \in DOMAIN checks : QuotaDenied(checks[j], now)}

\* The ledger rows an insert or delete of `keys` touches, and what the
\* statement triggers make of them.
ShardsOf(keys) == {Shard[k] : k \in keys}

InShard(keys, s) == Cardinality({k \in keys : Shard[k] = s})

\* A triggerless write: the ledger keeps its old count.
CountsAfterNone(keys, sign) == [s \in ShardsOf(keys) |-> ledger[s]]

CountsAfter(keys, sign) == [s \in ShardsOf(keys) |-> ledger[s] + sign * InShard(keys, s)]

\* upsert_batch with the insert trigger.  It locks what it writes, so it waits
\* for whoever still holds one of those locks.  An incomplete decision set or a
\* count above the hard maximum fails the call.
UpsertLocks(t) ==
    {<<"row", k>> : k \in KeysOf(op[t].checks)} \cup {<<"ledger", s>> : s \in ShardsOf(MissingKeys(t))}

Upsert(t) ==
    LET checks == op[t].checks
        after == CountsAfter(MissingKeys(t), 1)
    IN  /\ pc[t] = "upsert" /\ Waiting(t)
        /\ \A l \in UpsertLocks(t) : Free(t, l)
        /\ TakeAll(t, UpsertLocks(t))
        /\ IF (\E s \in DOMAIN after : after[s] > HardMax) \/ Unreturned(checks, at[t]) # {}
           THEN /\ reply' = [reply EXCEPT ![t] = Reply(
                     IF Unreturned(checks, at[t]) # {} THEN "storage_invariant" ELSE "check_violation",
                     0, 0)]
                /\ UNCHANGED <<pc, writes, counts>>
           ELSE /\ writes' = [writes EXCEPT
                     ![t] = [k \in KeysOf(checks) |-> Upserted(CheckOf(checks, k), at[t])]]
                /\ counts' = [counts EXCEPT ![t] = after]
                /\ pc' = [pc EXCEPT ![t] = "ready"]
                /\ UNCHANGED reply
        /\ UNCHANGED <<rows, ledger, clock, op, wanted, at, touched>>

----------------------------------------------------------------------------
(* Cleanup: one statement that samples the clock, takes expired rows       *)
(* nobody has locked, then their ledger rows, then deletes.                *)

Reapable(k) == Exists(k) /\ rows[k].expires <= clock /\ holder[<<"row", k>>] = None

Scan(t) ==
    /\ pc[t] = "scan"
    /\ \E S \in SUBSET {k \in Key : Reapable(k)} :
        /\ Cardinality(S) = Min({CleanupLimit, Cardinality({k \in Key : Reapable(k)})})
        /\ \A k \in S, h \in {k \in Key : Reapable(k)} \ S : rows[k].expires <= rows[h].expires
        /\ TakeAll(t, {<<"row", k>> : k \in S})
        /\ wanted' = [wanted EXCEPT ![t] = {<<"ledger", Shard[k]>> : k \in S}]
        /\ writes' = [writes EXCEPT ![t] = [k \in S |-> NoRow]]
    /\ at' = [at EXCEPT ![t] = clock]
    /\ pc' = [pc EXCEPT ![t] = "ledger"]
    /\ UNCHANGED <<rows, ledger, clock, op, counts, reply, touched>>

\* The DELETE and its trigger; more rows than the ledger counts is an error.
DeleteExpired(t) ==
    LET after == CountsAfter(DOMAIN writes[t], -1)
        locks == {<<"ledger", s>> : s \in DOMAIN after}
    IN  /\ pc[t] = "ledger" /\ wanted[t] = {} /\ ~CheckOp(op[t])
        /\ \A l \in locks : Free(t, l)
        /\ TakeAll(t, locks)
        /\ pc' = [pc EXCEPT ![t] = "ready"]
        /\ IF \E s \in DOMAIN after : after[s] < 0
           THEN /\ reply' = [reply EXCEPT ![t] = Reply("check_violation", 0, 0)]
                /\ UNCHANGED counts
           ELSE /\ counts' = [counts EXCEPT ![t] = after]
                /\ UNCHANGED reply
        /\ UNCHANGED <<rows, ledger, clock, op, wanted, at, writes, touched>>

----------------------------------------------------------------------------
(* Ending a transaction.                                                   *)

\* commit_check and commit_maintenance: the deadline has not passed, COMMIT is sent.
SendCommit(t) ==
    /\ pc[t] = "ready" /\ Waiting(t)
    /\ pc' = [pc EXCEPT ![t] = "committing"]
    /\ UNCHANGED <<rows, ledger, clock, holder, op, wanted, at, writes, counts, reply, touched>>

\* Every lock of t goes, and its workspace with it.
EndTransaction(t) ==
    /\ holder' = [l \in Locks |-> IF holder[l] = t THEN None ELSE holder[l]]
    /\ wanted' = [wanted EXCEPT ![t] = {}]
    /\ writes' = [writes EXCEPT ![t] = Nothing]
    /\ counts' = [counts EXCEPT ![t] = Nothing]
    /\ at' = [at EXCEPT ![t] = 0]

\* The server commits; a client that already gave up will not hear of it.
ServerCommit(t) ==
    /\ pc[t] = "committing"
    /\ rows' = [k \in Key |-> IF k \in DOMAIN writes[t] THEN writes[t][k] ELSE rows[k]]
    /\ ledger' = [s \in Shards |-> IF s \in DOMAIN counts[t] THEN counts[t][s] ELSE ledger[s]]
    /\ touched' = [k \in Key |-> IF k \in DOMAIN writes[t] THEN at[t] ELSE touched[k]]
    /\ EndTransaction(t)
    /\ pc' = [pc EXCEPT ![t] = IF Waiting(t) THEN "committed" ELSE "idle"]
    /\ UNCHANGED <<clock, op, reply>>

\* The client receives the confirmation.
Confirm(t) ==
    /\ pc[t] = "committed"
    /\ pc' = [pc EXCEPT ![t] = "idle"]
    /\ reply' = [reply EXCEPT ![t] = Reply(IF CheckOp(op[t]) THEN "allowed" ELSE "cleaned", 0, 0)]
    /\ UNCHANGED <<rows, ledger, clock, holder, op, wanted, at, writes, counts, touched>>

\* CommitTimedOut or CommitOutcomeUnknown: confirmation did not come.  If the
\* server has not acted on COMMIT it still may.
LoseConfirmation(t) ==
    /\ pc[t] \in {"committing", "committed"} /\ Waiting(t)
    /\ reply' = [reply EXCEPT ![t] = Reply("unknown", 0, 0)]
    /\ pc' = [pc EXCEPT ![t] = IF @ = "committed" THEN "idle" ELSE @]
    /\ UNCHANGED <<rows, ledger, clock, holder, op, wanted, at, writes, counts, touched>>

\* COMMIT fails on the server; any commit error is reported as unknown.
FailCommit(t) ==
    /\ pc[t] = "committing"
    /\ reply' = [reply EXCEPT ![t] = Reply("unknown", 0, 0)]
    /\ EndTransaction(t)
    /\ pc' = [pc EXCEPT ![t] = "idle"]
    /\ UNCHANGED <<rows, ledger, clock, op, touched>>

BeforeCommit == {"advisory", "rows", "ledger", "upsert", "scan", "ready"}

\* A classification that reports a timeout as free of effect after COMMIT too.
AbandonablePhasesTooMany == BeforeCommit \cup {"committing"}

\* The phases whose timeout means nothing was consumed (CheckPhase).
AbandonablePhases == BeforeCommit

\* The deadline passes, the call is cancelled or the database fails before
\* COMMIT was sent: the client reports that nothing was consumed.
Abandon(t) ==
    /\ pc[t] \in AbandonablePhases /\ Waiting(t)
    /\ reply' = [reply EXCEPT ![t] = Reply("not_consumed", 0, 0)]
    /\ UNCHANGED <<rows, ledger, clock, holder, pc, op, wanted, at, writes, counts, touched>>

\* The server rolls back a transaction its client has answered for: an
\* explicit ROLLBACK after a denial, or the end of an abandoned session.
Rollback(t) ==
    /\ pc[t] \in BeforeCommit /\ ~Waiting(t)
    /\ EndTransaction(t)
    /\ pc' = [pc EXCEPT ![t] = "idle"]
    /\ UNCHANGED <<rows, ledger, clock, op, reply, touched>>

Tick ==
    /\ clock < MaxTime
    /\ clock' = clock + 1
    /\ UNCHANGED <<rows, ledger, holder, pc, op, wanted, at, writes, counts, reply, touched>>

Next ==
    \/ Tick
    \/ \E t \in Session :
        \/ BeginCheck(t) \/ BeginCleanup(t)
        \/ Acquire(t) \/ StartRowLocks(t) \/ StartLedgerLocks(t)
        \/ Preflight(t) \/ Upsert(t)
        \/ Scan(t) \/ DeleteExpired(t)
        \/ SendCommit(t) \/ ServerCommit(t) \/ Confirm(t)
        \/ LoseConfirmation(t) \/ FailCommit(t)
        \/ Abandon(t) \/ Rollback(t)

Spec == Init /\ [][Next]_vars

----------------------------------------------------------------------------
(* Properties.                                                             *)

Phase == BeforeCommit \cup {"idle", "committing", "committed"}

RowType(k) == {NoRow} \cup [used : 1..Limit[k], expires : 1..(MaxTime + Window[k])]

Outcome == {"none", "pending", "invalid", "allowed", "cleaned", "quota_denied", "shadow_denied",
            "capacity_denied", "not_consumed", "unknown", "storage_invariant", "check_violation"}

\* Types, with the bound every row carries: usage never exceeds the limit of
\* the policy its key stands for (PendingAllowance::new rejects such a row).
TypeOK ==
    /\ rows \in [Key -> UNION {RowType(k) : k \in Key}]
    /\ \A k \in Key : rows[k] \in RowType(k)
    /\ ledger \in [Shards -> Nat]
    /\ clock \in 0..MaxTime
    /\ holder \in [Locks -> Session \cup {None}]
    /\ pc \in [Session -> Phase]
    /\ \A t \in Session : op[t] \in Operation \cup {[kind |-> "cleanup", checks |-> <<>>]}
    /\ wanted \in [Session -> SUBSET Locks]
    /\ at \in [Session -> 0..MaxTime]
    /\ \A t \in Session : \A k \in DOMAIN writes[t] : k \in Key /\ writes[t][k] \in RowType(k)
    /\ \A t \in Session : \A s \in DOMAIN counts[t] : s \in Shards /\ counts[t][s] \in Nat
    /\ \A t \in Session : reply[t].outcome \in Outcome
    /\ touched \in [Key -> 0..MaxTime]

\* The ledger is exact: each shard's row_count is the number of counter rows
\* stored in it, whatever admissions, cleanups, failed commits and abandoned
\* transactions overlap.
LedgerExact == \A s \in Shards : ledger[s] = Cardinality(RowsIn(s))

\* No shard holds more rows than the largest bound a replica is configured
\* with, although each replica decides on its own reading of the ledger.
RowsBounded ==
    \A s \in Shards : \E t \in Session : Cardinality(RowsIn(s)) <= MaxRows[t]

\* The locks t's current statement cannot proceed without.
Needs(t) ==
    {l \in Locks : NextLock(t, l)} \cup (IF pc[t] = "upsert" THEN UpsertLocks(t) ELSE {})

WaitsFor(t, u) == t # u /\ \E l \in Needs(t) : holder[l] = u

\* The lock protocol cannot deadlock: in every group of sessions at least one
\* waits for none of the others (advisory ids, then rows in key order, then
\* ledger rows in shard order; cleanup never waits for a row).
NoWaitCycle ==
    \A S \in (SUBSET Session) \ {{}} : \E t \in S : \A u \in S : ~WaitsFor(t, u)

\* What the code treats as a broken storage protocol never happens: the upsert
\* returns a decision for every check the preflight admitted, no trigger finds
\* the hard maximum exceeded or the ledger short.
ProtocolHolds ==
    \A t \in Session : reply[t].outcome \notin {"storage_invariant", "check_violation"}

\* A call may still charge while its transaction can reach COMMIT.
CallStatus(t) ==
    IF ~CheckOp(op[t]) \/ pc[t] = "idle" THEN "idle"
    ELSE IF pc[t] = "committed" THEN "charged"
    ELSE IF Waiting(t) \/ reply[t].outcome = "unknown" THEN "open"
    ELSE "idle"

Shared == INSTANCE SharedWindow WITH
    Client <- Session,
    window <- rows,
    time <- touched,
    call <- [t \in Session |-> op[t].checks],
    status <- [t \in Session |-> CallStatus(t)],
    reply <- [t \in Session |-> IF CheckOp(op[t]) THEN reply[t] ELSE Reply("none", 0, 0)]

\* The transactions implement the shared window: charges are atomic, made at
\* most once, within the limit and in time order, a denial or a failure
\* reported as not consumed is never followed by a charge, and cleanup removes
\* only windows that have ended.
ImplementsSharedWindow == Shared!Spec

=============================================================================
