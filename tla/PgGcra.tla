------------------------------- MODULE PgGcra -------------------------------
(***************************************************************************)
(* The PostgreSQL GCRA backend (runlimit-postgres/src/gcra.rs and its      *)
(* migration): admission and cleanup transactions around the evaluator of  *)
(* module Gcra.                                                            *)
(*                                                                         *)
(* Every transaction locks the ledger rows of the shards it needs, in      *)
(* ascending order, before it reads or writes a counter, so what follows   *)
(* the locks is one step up to the point where COMMIT may be sent.  The    *)
(* database clock may run backwards: each shard keeps a watermark of the   *)
(* latest instant that was acted on.  Clients give up at any moment, as in *)
(* PgFixedWindow.                                                          *)
(***************************************************************************)
EXTENDS Batch, Gcra

CONSTANTS Session,      \* connections running admission or cleanup calls
          None,         \* not a session: the holder of a free lock
          Key,          \* counter keys
          Shard,        \* capacity_shard of each key
          Policy,       \* key -> its GCRA policy
          MaxRows,      \* session -> its replica's maximum_rows_per_shard
          MaxBatchSize, \* max_batch_size
          Operation,    \* the calls a session may run
          CleanupLimit, \* maximum_rows of a cleanup call
          BigintMax,    \* largest expiry a row can hold (i64::MAX in the code)
          Time          \* bound: the readings the database clock may give

Shards == {Shard[k] : k \in Key}

IsCheck(o) == o.kind = "check"

ASSUME PgGcraAssumption ==
    /\ None \notin Session
    /\ IsFiniteSet(Session) /\ Session # {}
    /\ IsFiniteSet(Key)
    /\ Shard \in [Key -> Nat]
    /\ Policy \in [Key -> GcraPolicy]
    /\ MaxRows \in [Session -> Nat \ {0}]
    /\ MaxBatchSize \in Nat \ {0}
    /\ CleanupLimit \in Nat \ {0}
    /\ BigintMax \in Nat
    /\ Time \subseteq Nat /\ 0 \in Time
    /\ \A o \in Operation :
        /\ o.kind \in {"check", "cleanup"}
        /\ o.checks \in Seq([key : Key, cost : Nat, mode : QuotaMode])
        /\ \A j \in DOMAIN o.checks : ValidCost(o.checks[j].cost, Policy[o.checks[j].key].burst)

VARIABLES rows,   \* key -> committed [tat, expires], NoRow when there is none
          ledger, \* shard -> committed [count, observed]
          clock,  \* the database clock
          peak,   \* history: the greatest reading of the clock
          holder, \* shard -> the session holding its ledger row
          pc,     \* session -> where its transaction is
          op,     \* session -> its current or last call
          wanted, \* session -> shards it has still to lock
          work,   \* session -> uncommitted rows, a function on the keys written
          books,  \* session -> uncommitted ledger rows, on the shards written
          reply   \* session -> what its client was told

vars == <<rows, ledger, clock, peak, holder, pc, op, wanted, work, books, reply>>

----------------------------------------------------------------------------

NoRow == [tat |-> 0, expires |-> 0]

Nothing == <<>>

Reply(outcome, index, retry) == [outcome |-> outcome, index |-> index, retry |-> retry]

Pending == Reply("pending", 0, 0)

Waiting(t) == reply[t] = Pending

Init ==
    /\ rows = [k \in Key |-> NoRow]
    /\ ledger = [s \in Shards |-> [count |-> 0, observed |-> 0]]
    /\ clock = 0
    /\ peak = 0
    /\ holder = [s \in Shards |-> None]
    /\ pc = [t \in Session |-> "idle"]
    /\ op = [t \in Session |-> [kind |-> "cleanup", checks |-> <<>>]]
    /\ wanted = [t \in Session |-> {}]
    /\ work = [t \in Session |-> Nothing]
    /\ books = [t \in Session |-> Nothing]
    /\ reply = [t \in Session |-> Reply("none", 0, 0)]

Exists(k) == rows[k] # NoRow

Held(t) == {s \in Shards : holder[s] = t}

ShardsOf(checks) == {Shard[checks[j].key] : j \in DOMAIN checks}

InShard(keys, s) == Cardinality({k \in keys : Shard[k] = s})

----------------------------------------------------------------------------
(* Starting a call and locking its shards.                                 *)

Begin(t) ==
    /\ pc[t] = "idle"
    /\ \E o \in Operation :
        LET valid == IsCheck(o) => ValidateBatch(o.checks, MaxBatchSize) = "Valid"
        IN  /\ op' = [op EXCEPT ![t] = o]
            /\ pc' = [pc EXCEPT ![t] = IF ~valid THEN "idle"
                                       ELSE IF IsCheck(o) THEN "locking" ELSE "probe"]
            /\ wanted' = [wanted EXCEPT ![t] = IF valid THEN ShardsOf(o.checks) ELSE {}]
            /\ reply' = [reply EXCEPT ![t] = IF valid THEN Pending ELSE Reply("invalid", 0, 0)]
    /\ UNCHANGED <<rows, ledger, clock, peak, holder, work, books>>

\* Ledger rows locked in the order the batch names them.
NextShardAnyOrder(t, s) == s \in wanted[t]

\* LOCK_SHARDS: ORDER BY capacity_shard FOR UPDATE.
NextShard(t, s) == s \in wanted[t] /\ \A r \in wanted[t] : s <= r

LockShard(t) ==
    /\ pc[t] = "locking"
    /\ \E s \in Shards :
        /\ NextShard(t, s)
        /\ holder[s] = None
        /\ holder' = [holder EXCEPT ![s] = t]
        /\ wanted' = [wanted EXCEPT ![t] = @ \ {s}]
    /\ UNCHANGED <<rows, ledger, clock, peak, pc, op, work, books, reply>>

----------------------------------------------------------------------------
(* Admission.                                                              *)

\* The sampled time, clamped to the watermarks of every locked shard.
Clamped(t) == Max({clock} \cup {ledger[s].observed : s \in Held(t)})

\* evaluate: a row whose expiry has come counts as no debt, stored or not.
Evaluated(c, now) ==
    GcraEvaluate(Policy[c.key], c.cost, now,
                 IF rows[c.key].expires > now THEN rows[c.key].tat ELSE 0)

\* A capacity test that ignores the batch's earlier insertions.
NoRoomAlone(t, j) ==
    LET k == op[t].checks[j].key
    IN  ~Exists(k) /\ ledger[Shard[k]].count >= MaxRows[t]

\* No row yet, and none left after those the checks before j will insert.
NoRoom(t, j) ==
    LET checks == op[t].checks
        k == checks[j].key
        before == {checks[h].key : h \in 1..(j - 1)}
    IN  /\ ~Exists(k)
        /\ ledger[Shard[k]].count + InShard({h \in before : ~Exists(h)}, Shard[k]) >= MaxRows[t]

\* The expiry stored with a row must be that of its arrival time.
Corrupt(k) == Exists(k) /\ DivCeil(rows[k].tat, Policy[k].quota) # rows[k].expires

\* The rest of run_transaction: an error leaves nothing behind, a denial rolls
\* back, an admission writes its rows, the triggers its counts, and the clamped
\* time becomes the watermark of every locked shard.
Decide(t) ==
    LET checks == op[t].checks
        keys == {checks[j].key : j \in DOMAIN checks}
        now == Clamped(t)
        result == [j \in DOMAIN checks |-> Evaluated(checks[j], now)]
        denied == {j \in DOMAIN checks : result[j].kind = "denied" \/ NoRoom(t, j)}
        first == Min(denied)
        denial == IF result[first].kind # "denied" THEN Reply("capacity_denied", first, 0)
                  ELSE Reply(IF checks[first].mode = "Shadow" THEN "shadow_denied"
                             ELSE "quota_denied", first, result[first].retry)
        indexOf(k) == CHOOSE j \in DOMAIN checks : checks[j].key = k
        corrupt == \E k \in keys : Corrupt(k)
        overflow == \E j \in DOMAIN checks : result[j].kind = "overflow"
        unstorable == \E j \in DOMAIN checks : result[j].allowance.expires > BigintMax
        failed == corrupt \/ overflow \/ (denied = {} /\ unstorable)
        failure == Reply(IF corrupt THEN "storage_invariant" ELSE "out_of_range", 0, 0)
    IN  /\ pc[t] = "locking" /\ wanted[t] = {} /\ Waiting(t)
        /\ \/ /\ failed \/ denied # {}
              /\ reply' = [reply EXCEPT ![t] = IF failed THEN failure ELSE denial]
              /\ UNCHANGED <<pc, work, books>>
           \/ /\ ~failed /\ denied = {}
              /\ work' = [work EXCEPT ![t] =
                   [k \in keys |-> [tat |-> result[indexOf(k)].allowance.tat,
                                    expires |-> result[indexOf(k)].allowance.expires]]]
              /\ books' = [books EXCEPT ![t] =
                   [s \in Held(t) |->
                       [count |-> ledger[s].count + InShard({k \in keys : ~Exists(k)}, s),
                        observed |-> now]]]
              /\ pc' = [pc EXCEPT ![t] = "ready"]
              /\ UNCHANGED reply
        /\ UNCHANGED <<rows, ledger, clock, peak, holder, op, wanted>>

----------------------------------------------------------------------------
(* Cleanup.                                                                *)

\* Shards with a row that has expired by the database clock.
CandidateByWallClock(s) == \E k \in Key : Exists(k) /\ Shard[k] = s /\ rows[k].expires <= clock

\* CLEANUP_LOCKS: shards with a row that has expired by their own time, except
\* the ones somebody has locked.
Candidate(s) ==
    \E k \in Key : Exists(k) /\ Shard[k] = s /\ rows[k].expires <= Max({clock, ledger[s].observed})

Probe(t) ==
    /\ pc[t] = "probe"
    /\ holder' = [s \in Shards |-> IF Candidate(s) /\ holder[s] = None THEN t ELSE holder[s]]
    /\ pc' = [pc EXCEPT ![t] = "delete"]
    /\ UNCHANGED <<rows, ledger, clock, peak, op, wanted, work, books, reply>>

\* A cleanup that deletes by the sampled time and leaves the watermarks alone.
AdvancedNone(t, s) == ledger[s].observed

\* CLEANUP_ADVANCE_TIME: one clamped time for all locked shards.
Advanced(t, s) == Clamped(t)

\* CLEANUP_ADVANCE_TIME and CLEANUP_DELETE, earliest expiries first.
DeleteExpired(t) ==
    LET due == {k \in Key : Exists(k) /\ Shard[k] \in Held(t) /\ rows[k].expires <= Clamped(t)}
    IN  /\ pc[t] = "delete" /\ Waiting(t)
        /\ \E S \in SUBSET due :
            /\ Cardinality(S) = Min({CleanupLimit, Cardinality(due)})
            /\ \A k \in S, h \in due \ S : rows[k].expires <= rows[h].expires
            /\ work' = [work EXCEPT ![t] = [k \in S |-> NoRow]]
            /\ books' = [books EXCEPT ![t] =
                 [s \in Held(t) |-> [count |-> ledger[s].count - InShard(S, s),
                                     observed |-> Advanced(t, s)]]]
        /\ pc' = [pc EXCEPT ![t] = "ready"]
        /\ UNCHANGED <<rows, ledger, clock, peak, holder, op, wanted, reply>>

----------------------------------------------------------------------------
(* Ending a transaction.                                                   *)

SendCommit(t) ==
    /\ pc[t] = "ready" /\ Waiting(t)
    /\ pc' = [pc EXCEPT ![t] = "committing"]
    /\ UNCHANGED <<rows, ledger, clock, peak, holder, op, wanted, work, books, reply>>

EndTransaction(t) ==
    /\ holder' = [s \in Shards |-> IF holder[s] = t THEN None ELSE holder[s]]
    /\ wanted' = [wanted EXCEPT ![t] = {}]
    /\ work' = [work EXCEPT ![t] = Nothing]
    /\ books' = [books EXCEPT ![t] = Nothing]

ServerCommit(t) ==
    /\ pc[t] = "committing"
    /\ rows' = [k \in Key |-> IF k \in DOMAIN work[t] THEN work[t][k] ELSE rows[k]]
    /\ ledger' = [s \in Shards |-> IF s \in DOMAIN books[t] THEN books[t][s] ELSE ledger[s]]
    /\ EndTransaction(t)
    /\ pc' = [pc EXCEPT ![t] = IF Waiting(t) THEN "committed" ELSE "idle"]
    /\ UNCHANGED <<clock, peak, op, reply>>

Confirm(t) ==
    /\ pc[t] = "committed"
    /\ pc' = [pc EXCEPT ![t] = "idle"]
    /\ reply' = [reply EXCEPT ![t] = Reply(IF IsCheck(op[t]) THEN "allowed" ELSE "cleaned", 0, 0)]
    /\ UNCHANGED <<rows, ledger, clock, peak, holder, op, wanted, work, books>>

\* The confirmation does not come; the server may or may not have committed.
LoseConfirmation(t) ==
    /\ pc[t] \in {"committing", "committed"} /\ Waiting(t)
    /\ reply' = [reply EXCEPT ![t] = Reply("unknown", 0, 0)]
    /\ pc' = [pc EXCEPT ![t] = IF @ = "committed" THEN "idle" ELSE @]
    /\ UNCHANGED <<rows, ledger, clock, peak, holder, op, wanted, work, books>>

FailCommit(t) ==
    /\ pc[t] = "committing"
    /\ reply' = [reply EXCEPT ![t] = Reply("unknown", 0, 0)]
    /\ EndTransaction(t)
    /\ pc' = [pc EXCEPT ![t] = "idle"]
    /\ UNCHANGED <<rows, ledger, clock, peak, op>>

BeforeCommit == {"locking", "probe", "delete", "ready"}

\* Deadline, cancellation or database error before COMMIT was sent.
Abandon(t) ==
    /\ pc[t] \in BeforeCommit /\ Waiting(t)
    /\ reply' = [reply EXCEPT ![t] = Reply("not_consumed", 0, 0)]
    /\ UNCHANGED <<rows, ledger, clock, peak, holder, pc, op, wanted, work, books>>

\* ROLLBACK after a denial or an error, or the end of an abandoned session.
Rollback(t) ==
    /\ pc[t] \in BeforeCommit /\ ~Waiting(t)
    /\ EndTransaction(t)
    /\ pc' = [pc EXCEPT ![t] = "idle"]
    /\ UNCHANGED <<rows, ledger, clock, peak, op, reply>>

\* The clock is set, forwards or backwards.
SetClock ==
    /\ clock' \in Time \ {clock}
    /\ peak' = Max({peak, clock'})
    /\ UNCHANGED <<rows, ledger, holder, pc, op, wanted, work, books, reply>>

Next ==
    \/ SetClock
    \/ \E t \in Session :
        \/ Begin(t) \/ LockShard(t) \/ Decide(t) \/ Probe(t) \/ DeleteExpired(t)
        \/ SendCommit(t) \/ ServerCommit(t) \/ Confirm(t)
        \/ LoseConfirmation(t) \/ FailCommit(t) \/ Abandon(t) \/ Rollback(t)

Spec == Init /\ [][Next]_vars

\* The maintenance schedule: cleanup is called for ever, meets the shards
\* unlocked and is not abandoned every time it gets that far.
Scheduled(t) ==
    /\ WF_vars(LockShard(t) \/ Decide(t) \/ Confirm(t) \/ Rollback(t))
    /\ SF_vars(Begin(t) /\ ~IsCheck(op'[t]))
    /\ SF_vars(Probe(t) /\ Waiting(t) /\ \A s \in Shards : holder[s] = None)
    /\ SF_vars(DeleteExpired(t))
    /\ SF_vars(~IsCheck(op[t]) /\ SendCommit(t))
    /\ SF_vars(~IsCheck(op[t]) /\ ServerCommit(t))

ScheduledSpec == Spec /\ \A t \in Session : Scheduled(t)

----------------------------------------------------------------------------
(* Properties.                                                             *)

\* Types and the widths of the stored integers.  Watermarks never pass the
\* greatest reading of the clock: no shard lives in a future nobody saw.
TypeOK ==
    /\ rows \in [Key -> [tat : 0..WideMax, expires : 0..BigintMax]]
    /\ ledger \in [Shards -> [count : Nat, observed : 0..peak]]
    /\ clock \in Time /\ peak \in Time /\ clock <= peak
    /\ holder \in [Shards -> Session \cup {None}]
    /\ pc \in [Session -> BeforeCommit \cup {"idle", "committing", "committed"}]
    /\ wanted \in [Session -> SUBSET Shards]
    /\ \A t \in Session : DOMAIN work[t] \subseteq Key /\ DOMAIN books[t] \subseteq Held(t)

\* The trigger-kept row_count of every shard is the number of its counters, and
\* within the largest bound of a replica.
LedgerExact ==
    \A s \in Shards :
        /\ ledger[s].count = InShard({k \in Key : Exists(k)}, s)
        /\ \E t \in Session : ledger[s].count <= MaxRows[t]

WaitsFor(t, u) == t # u /\ pc[t] = "locking" /\ \E s \in Shards : NextShard(t, s) /\ holder[s] = u

\* Ascending shard locks, and a cleanup that skips locked shards, cannot deadlock.
NoWaitCycle ==
    \A S \in (SUBSET Session) \ {{}} : \E t \in S : \A u \in S : ~WaitsFor(t, u)

Garbage(k) == Exists(k) /\ rows[k].expires <= ledger[Shard[k]].observed

\* A counter that admission would treat as expired gives its slot back, even if
\* the database clock stays behind the shard's watermark for ever.
GarbageReclaimed == \A k \in Key : Garbage(k) ~> ~Garbage(k)

CallStatus(t) ==
    IF ~IsCheck(op[t]) \/ pc[t] = "idle" THEN "idle"
    ELSE IF pc[t] = "committed" THEN "charged"
    ELSE IF Waiting(t) \/ reply[t].outcome = "unknown" THEN "open"
    ELSE "idle"

Debt(k) ==
    LET drained == ledger[Shard[k]].observed * Policy[k].quota
    IN  IF rows[k].tat > drained THEN rows[k].tat - drained ELSE 0

Shared == INSTANCE SharedBucket WITH
    Client <- Session,
    debt <- [k \in Key |-> Debt(k)],
    time <- [k \in Key |-> ledger[Shard[k]].observed],
    call <- [t \in Session |-> op[t].checks],
    status <- [t \in Session |-> CallStatus(t)],
    reply <- [t \in Session |-> IF IsCheck(op[t]) THEN reply[t] ELSE Reply("none", 0, 0)]

\* The transactions implement the shared buckets: no debt is forgiven by expiry,
\* cleanup or a clock that was set back, batches charge at one instant or not at
\* all, denials state the least sufficient delay, and replies about effects are
\* true.
ImplementsSharedBucket == Shared!Spec

=============================================================================
