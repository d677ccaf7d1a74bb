----------------------------- MODULE PgAttempts -----------------------------
(***************************************************************************)
(* The PostgreSQL attempt limiter (runlimit-postgres/src/attempts.rs with  *)
(* attempt_cleanup.sql, attempt_complete.sql and its migration).           *)
(*                                                                         *)
(* A library session runs one admit or complete at a time in a transaction *)
(* of its own; a host session is a transaction of the application that     *)
(* uses claim_in, finish_in and complete_in, with savepoints.  Statements  *)
(* wait for the locks they need; what a transaction writes becomes visible *)
(* when the server commits.  A client may give up at any moment; its       *)
(* transaction then finishes the statement it is in and lingers until the  *)
(* server notices.                                                         *)
(*                                                                         *)
(* External, from PostgreSQL's documented behaviour: READ COMMITTED row    *)
(* locks and visibility, SKIP LOCKED, locks released at the end of the     *)
(* transaction or at the rollback of the savepoint they were taken in, a   *)
(* database clock that does not run backwards, and gen_random_uuid never   *)
(* returning a token twice.                                                *)
(***************************************************************************)
EXTENDS AttemptPolicy, FiniteSetsExt

CONSTANTS Library,      \* sessions running admit and complete
          Host,         \* application transactions using the low-level seam
          None,         \* not a session
          Shard,        \* capacity_shard of each key
          MaxRows,      \* library session -> its maximum_rows_per_shard
          CleanupBatch, \* rows one admission may clean up (16 in the code)
          MaxToken,     \* bound: the last token generated
          MaxTime       \* bound: the last value of the database clock

Session == Library \cup Host

ASSUME PgAttemptsAssumption ==
    /\ Library # {}
    /\ Library \cap Host = {}
    /\ None \notin Session
    /\ IsFiniteSet(Key)
    /\ Shard \in [Key -> Nat]
    /\ MaxRows \in [Library -> Nat \ {0}]
    /\ CleanupBatch \in Nat \ {0}
    /\ MaxToken \in Nat
    /\ MaxTime \in Nat

VARIABLES rows,     \* key -> committed row, NoRow when there is none
          clock,    \* the database clock
          holder,   \* lock -> the session holding it
          pc,       \* session -> the statement its transaction is in
          call,     \* session -> its current or last call
          work,     \* session -> uncommitted rows, a function on the keys written
          token,    \* the last token generated
          receipts, \* receipts the application holds
          claims,   \* claims the application holds
          reply     \* session -> what its client was told

vars == <<rows, clock, holder, pc, call, work, token, receipts, claims, reply>>

----------------------------------------------------------------------------
\* lease_until_ms and lease_token are NULL together; zero stands for NULL.
NoRow == [stored |-> FALSE, slot |-> 0, failures |-> 0, lastFailure |-> 0, retryAt |-> 0,
          until |-> 0, token |-> 0]

Nothing == <<>>

Locks == ({"shard"} \X {Shard[k] : k \in Key}) \cup ({"row"} \X Key)

NoCall == [kind |-> "none", key |-> 0, token |-> 0, success |-> FALSE]

Reply(outcome, retry) == [outcome |-> outcome, retry |-> retry]

Pending == Reply("pending", 0)

Waiting(t) == reply[t] = Pending

Init ==
    /\ rows = [k \in Key |-> NoRow]
    /\ clock = 0
    /\ holder = [l \in Locks |-> None]
    /\ pc = [t \in Session |-> "idle"]
    /\ call = [t \in Session |-> NoCall]
    /\ work = [t \in Session |-> Nothing]
    /\ token = 0
    /\ receipts = {}
    /\ claims = {}
    /\ reply = [t \in Session |-> Reply("none", 0)]

Row(k) == <<"row", k>>

Free(t, l) == holder[l] \in {t, None}

Holds(t) == {l \in Locks : holder[l] = t}

TakeAll(t, ls) == holder' = [l \in Locks |-> IF l \in ls THEN t ELSE holder[l]]

\* What t's own statements see.
View(t) == [k \in Key |-> IF k \in DOMAIN work[t] THEN work[t][k] ELSE rows[k]]

StoredIn(view, s) == {k \in Key : view[k].stored /\ Shard[k] = s}

Write(t, k, row) ==
    work' = [work EXCEPT ![t] = [j \in DOMAIN @ \cup {k} |-> IF j = k THEN row ELSE @[j]]]

\* A client that has given up sends no further statement.
Then(t, phase) == pc' = [pc EXCEPT ![t] = IF Waiting(t) THEN phase ELSE "orphan"]

----------------------------------------------------------------------------
(* admit                                                                   *)

BeginAdmit(t, k) ==
    /\ pc[t] = "idle"
    /\ pc' = [pc EXCEPT ![t] = "shard"]
    /\ call' = [call EXCEPT ![t] = [kind |-> "admit", key |-> k, token |-> 0, success |-> FALSE]]
    /\ reply' = [reply EXCEPT ![t] = Pending]
    /\ UNCHANGED <<rows, clock, holder, work, token, receipts, claims>>

\* An admission that takes no lock for the shard.
ShardLocksNone(t) == {}

\* pg_advisory_xact_lock on the shard of the subject.
ShardLocks(t) == {<<"shard", Shard[call[t].key]>>}

LockShard(t) ==
    /\ pc[t] = "shard"
    /\ \A l \in ShardLocks(t) : Free(t, l)
    /\ TakeAll(t, ShardLocks(t))
    /\ Then(t, "cleanup")
    /\ UNCHANGED <<rows, clock, call, work, token, receipts, claims, reply>>

\* The instant a row's history stops counting.
Expiry(k) ==
    (IF rows[k].until # 0 THEN rows[k].until ELSE rows[k].lastFailure) + QuietPeriod[k]

Reapable(t, k) ==
    /\ rows[k].stored /\ Shard[k] = Shard[call[t].key]
    /\ Expiry(k) <= clock
    /\ holder[Row(k)] = None

\* CLEANUP_SQL: at most CleanupBatch rows, the longest expired first, skipping
\* the ones somebody has locked.
CleanupShard(t) ==
    LET reapable == {k \in Key : Reapable(t, k)}
    IN  /\ pc[t] = "cleanup"
        /\ \E S \in SUBSET reapable :
            /\ Cardinality(S) = Min({CleanupBatch, Cardinality(reapable)})
            /\ \A k \in S, j \in reapable \ S : Expiry(k) <= Expiry(j)
            /\ TakeAll(t, {Row(k) : k \in S})
            /\ work' = [work EXCEPT ![t] = [k \in S |-> NoRow]]
        /\ Then(t, "row")
        /\ UNCHANGED <<rows, clock, call, token, receipts, claims, reply>>

\* SELECT ... FOR UPDATE of the subject's row, if it has one.
LockRow(t) ==
    LET k == call[t].key
    IN  /\ pc[t] = "row"
        /\ View(t)[k].stored => Free(t, Row(k))
        /\ TakeAll(t, IF View(t)[k].stored THEN {Row(k)} ELSE {})
        /\ Then(t, "decide")
        /\ UNCHANGED <<rows, clock, call, work, token, receipts, claims, reply>>

\* An expired lease that is forgiven instead of counted.
LapsedForgiving(k, row) == row

\* A lease that ran out is a failure at its own end.
Lapsed(k, row) ==
    IF row.until = 0 THEN row
    ELSE [row EXCEPT !.failures = @ + 1, !.lastFailure = row.until,
                     !.retryAt = row.until + Delay(k, row.failures + 1)]

\* The row as admission reckons with it once no live lease is in the way: then a
\* quiet period forgives all failures.
Settled(k, row) ==
    LET lapsed == Lapsed(k, row)
    IN  IF clock >= lapsed.lastFailure + QuietPeriod[k]
        THEN [lapsed EXCEPT !.failures = 0, !.retryAt = clock]
        ELSE lapsed

FreeSlots(t, s) == 0..(MaxRows[t] - 1) \ {View(t)[k].slot : k \in StoredIn(View(t), s)}

\* A lower runtime bound counts every retained row, whatever its slot.
NoRoom(t, s) == Cardinality(StoredIn(View(t), s)) >= MaxRows[t] \/ FreeSlots(t, s) = {}

\* A capacity denial that rolls back like any other.
AfterNoRoomRollback == "decide"

\* finish_capacity_denial commits the cleanup of the denied call.
AfterNoRoom == "ready"

\* The rest of admit_transaction, on a time sampled after the row lock.  Busy and
\* backoff roll back; a capacity denial is final, whatever becomes of the commit
\* of the cleanup that follows it.
Decide(t) ==
    LET k == call[t].key
        row == View(t)[k]
        settled == Settled(k, row)
        base == IF row.stored THEN settled
                ELSE [NoRow EXCEPT !.stored = TRUE, !.slot = Min(FreeSlots(t, Shard[k])),
                                   !.lastFailure = clock]
        deny(r) == reply' = [reply EXCEPT ![t] = r] /\ UNCHANGED <<holder, work, token>>
    IN  /\ pc[t] = "decide" /\ Waiting(t)
        /\ \/ /\ row.stored /\ clock < row.until
              /\ deny(Reply("busy", row.until - clock))
              /\ UNCHANGED pc
           \/ /\ row.stored /\ clock >= row.until /\ clock < settled.retryAt
              /\ deny(Reply("backoff", settled.retryAt - clock))
              /\ UNCHANGED pc
           \/ /\ ~row.stored /\ NoRoom(t, Shard[k])
              /\ deny(Reply("storage_capacity", 0))
              /\ pc' = [pc EXCEPT ![t] = AfterNoRoom]
           \/ /\ IF row.stored THEN clock >= row.until /\ clock >= settled.retryAt
                 ELSE ~NoRoom(t, Shard[k])
              /\ token < MaxToken
              /\ token' = token + 1
              /\ Write(t, k, [base EXCEPT !.retryAt = clock, !.until = clock + LeasePeriod[k],
                                          !.token = token + 1])
              /\ TakeAll(t, {Row(k)})
              /\ pc' = [pc EXCEPT ![t] = "ready"]
              /\ UNCHANGED reply
        /\ UNCHANGED <<rows, clock, call, receipts, claims>>

----------------------------------------------------------------------------
(* Completion: COMPLETE_SQL locks the row, then samples the time.          *)

\* The receipt belongs to the row's lease and the lease has not run out.
Live(row, r) == row.token = r.token /\ row.until > clock

\* A completion that returns the token but leaves the end of the lease behind.
CompletedKeepingLease(k, row, success) ==
    [row EXCEPT !.failures = IF success THEN 0 ELSE @ + 1, !.lastFailure = clock, !.token = 0]

CompletedRow(k, row, success) ==
    LET failures == IF success THEN 0 ELSE row.failures + 1
    IN  [row EXCEPT !.failures = failures, !.lastFailure = clock,
                    !.retryAt = clock + Delay(k, failures), !.until = 0, !.token = 0]

\* The statement, in t's transaction, with `fits` its condition on the row.
CompletionStatement(t, k, success, fits) ==
    LET row == View(t)[k]
    IN  /\ row.stored => Free(t, Row(k))
        /\ TakeAll(t, IF row.stored THEN {Row(k)} ELSE {})
        /\ IF row.stored /\ fits THEN Write(t, k, CompletedRow(k, row, success)) ELSE UNCHANGED work

BeginComplete(t, r, success) ==
    /\ pc[t] = "idle"
    /\ pc' = [pc EXCEPT ![t] = "complete"]
    /\ call' = [call EXCEPT
         ![t] = [kind |-> "complete", key |-> r.key, token |-> r.token, success |-> success]]
    /\ receipts' = receipts \ {r}
    /\ reply' = [reply EXCEPT ![t] = Pending]
    /\ UNCHANGED <<rows, clock, holder, work, token, claims>>

\* complete: the transaction commits whether or not the receipt was stale.
Complete(t) ==
    LET k == call[t].key
    IN  /\ pc[t] = "complete"
        /\ CompletionStatement(t, k, call[t].success, Live(View(t)[k], call[t]))
        /\ Then(t, "ready")
        /\ UNCHANGED <<rows, clock, call, token, receipts, claims, reply>>

----------------------------------------------------------------------------
(* The application's transactions, one receipt in each.                    *)

BeginHost(h) ==
    /\ pc[h] = "idle"
    /\ pc' = [pc EXCEPT ![h] = "host"]
    /\ UNCHANGED <<rows, clock, holder, call, work, token, receipts, claims, reply>>

\* claim_in: a live lease gets a new token, which is the claim's.
ClaimIn(h, r) ==
    LET row == rows[r.key]
        live == row.stored /\ Live(row, r)
    IN  /\ pc[h] = "host" /\ Holds(h) = {}
        /\ row.stored => Free(h, Row(r.key))
        /\ TakeAll(h, IF row.stored THEN {Row(r.key)} ELSE {})
        /\ receipts' = receipts \ {r}
        /\ \/ /\ live /\ token < MaxToken
              /\ token' = token + 1
              /\ Write(h, r.key, [row EXCEPT !.token = token + 1])
              /\ claims' = claims \cup {[key |-> r.key, token |-> token + 1, tx |-> h]}
           \/ ~live /\ UNCHANGED <<token, work, claims>>
        /\ UNCHANGED <<rows, clock, pc, call, reply>>

\* A claim accepted from any transaction.
SameTransactionAny(h, c) == TRUE

\* transaction_id: only the transaction that made the claim may finish it.
SameTransaction(h, c) == c.tx = h

FinishIn(h, c, success) ==
    LET row == View(h)[c.key]
    IN  /\ pc[h] = "host" /\ Holds(h) \subseteq {Row(c.key)}
        /\ CompletionStatement(h, c.key, success, row.token = c.token /\ SameTransaction(h, c))
        /\ claims' = claims \ {c}
        /\ UNCHANGED <<rows, clock, pc, call, token, receipts, reply>>

CompleteIn(h, r, success) ==
    /\ pc[h] = "host" /\ Holds(h) = {}
    /\ CompletionStatement(h, r.key, success, Live(View(h)[r.key], r))
    /\ receipts' = receipts \ {r}
    /\ UNCHANGED <<rows, clock, pc, call, token, claims, reply>>

\* The savepoint that contains the claim is rolled back; the transaction and its
\* id go on.
RollbackToSavepoint(h) ==
    /\ pc[h] = "host" /\ Holds(h) # {}
    /\ holder' = [l \in Locks |-> IF holder[l] = h THEN None ELSE holder[l]]
    /\ work' = [work EXCEPT ![h] = Nothing]
    /\ UNCHANGED <<rows, clock, pc, call, token, receipts, claims, reply>>

----------------------------------------------------------------------------
(* Ending a transaction.                                                   *)

\* Transaction ids are never used again: claims of t's transaction are orphans.
EndTransaction(t) ==
    /\ pc' = [pc EXCEPT ![t] = "idle"]
    /\ holder' = [l \in Locks |-> IF holder[l] = t THEN None ELSE holder[l]]
    /\ work' = [work EXCEPT ![t] = Nothing]
    /\ claims' = {[c EXCEPT !.tx = IF @ = t THEN None ELSE @] : c \in claims}

SendCommit(t) ==
    /\ \/ pc[t] = "host"
       \/ pc[t] = "ready" /\ (Waiting(t) \/ reply[t].outcome = "storage_capacity")
    /\ pc' = [pc EXCEPT ![t] = "committing"]
    /\ UNCHANGED <<rows, clock, holder, call, work, token, receipts, claims, reply>>

\* What a confirmed commit means to the call of t.
Confirmed(t) ==
    CASE call[t].kind = "admit" -> Reply("admitted", 0)
      [] call[t].kind = "complete" /\ work[t] = Nothing -> Reply("stale", 0)
      [] OTHER -> Reply(IF call[t].success THEN "succeeded" ELSE "failed", 0)

\* The server commits, and the client that still waits hears of it or not.
ServerCommit(t) ==
    /\ pc[t] = "committing"
    /\ rows' = View(t)
    /\ EndTransaction(t)
    /\ \/ /\ ~Waiting(t)
          /\ UNCHANGED <<reply, receipts>>
       \/ /\ Waiting(t)
          /\ reply' = [reply EXCEPT ![t] = Confirmed(t)]
          /\ receipts' = IF call[t].kind # "admit" THEN receipts
                         ELSE receipts \cup {[key |-> call[t].key,
                                              token |-> work[t][call[t].key].token]}
       \/ /\ Waiting(t)
          /\ reply' = [reply EXCEPT ![t] = Reply("unknown", 0)]
          /\ UNCHANGED receipts
    /\ UNCHANGED <<clock, call, token>>

\* CommitTimedOut, while the server may still commit.
LoseConfirmation(t) ==
    /\ pc[t] = "committing" /\ Waiting(t)
    /\ reply' = [reply EXCEPT ![t] = Reply("unknown", 0)]
    /\ UNCHANGED <<rows, clock, holder, pc, call, work, token, receipts, claims>>

FailCommit(t) ==
    /\ pc[t] = "committing"
    /\ reply' = [reply EXCEPT ![t] = IF Waiting(t) THEN Reply("unknown", 0) ELSE @]
    /\ EndTransaction(t)
    /\ UNCHANGED <<rows, clock, call, token, receipts>>

\* A timeout, cancellation or database error before COMMIT.
Abandon(t) ==
    /\ pc[t] \in {"shard", "cleanup", "row", "decide", "complete", "ready"} /\ Waiting(t)
    /\ reply' = [reply EXCEPT ![t] = Reply("not_consumed", 0)]
    /\ UNCHANGED <<rows, clock, holder, pc, call, work, token, receipts, claims>>

\* ROLLBACK after a denial or by the application, or the end of an abandoned
\* session.
Rollback(t) ==
    /\ pc[t] \notin {"idle", "committing"} /\ ~Waiting(t)
    /\ EndTransaction(t)
    /\ UNCHANGED <<rows, clock, call, token, receipts, reply>>

Tick ==
    /\ clock < MaxTime
    /\ clock' = clock + 1
    /\ UNCHANGED <<rows, holder, pc, call, work, token, receipts, claims, reply>>

Next ==
    \/ Tick
    \/ \E t \in Library :
        \/ \E k \in Key : BeginAdmit(t, k)
        \/ LockShard(t) \/ CleanupShard(t) \/ LockRow(t) \/ Decide(t)
        \/ \E r \in receipts, success \in BOOLEAN : BeginComplete(t, r, success)
        \/ Complete(t)
        \/ Abandon(t) \/ LoseConfirmation(t)
    \/ \E h \in Host :
        \/ BeginHost(h) \/ RollbackToSavepoint(h)
        \/ \E r \in receipts : ClaimIn(h, r)
        \/ \E r \in receipts, success \in BOOLEAN : CompleteIn(h, r, success)
        \/ \E c \in claims, success \in BOOLEAN : FinishIn(h, c, success)
    \/ \E t \in Session : SendCommit(t) \/ ServerCommit(t) \/ FailCommit(t) \/ Rollback(t)

Spec == Init /\ [][Next]_vars

\* What a session does when nothing goes wrong.
Advance(t) ==
    \/ \E k \in Key : BeginAdmit(t, k)
    \/ LockShard(t) \/ CleanupShard(t) \/ LockRow(t) \/ Decide(t) \/ Complete(t)
    \/ SendCommit(t) \/ ServerCommit(t) \/ Rollback(t)

\* Errors, timeouts, and a client that leaves before its cleanup is committed.
Fault(t) ==
    \/ Abandon(t) \/ LoseConfirmation(t) \/ FailCommit(t)
    \/ (pc[t] = "ready" /\ reply[t].outcome = "storage_capacity" /\ Rollback(t))

\* The application keeps asking, the server gets round to every statement and
\* notices sessions that were given up, and the database does not fail for ever.
Fairness ==
    /\ \A t \in Library : WF_vars(Advance(t))
    /\ <>[][\A t \in Library : ~Fault(t)]_vars

\* Replicas with higher bounds have filled the shards, leased every row and gone.
InheritedInit ==
    \E S \in SUBSET Key, place \in [Key -> 1..Cardinality(Key)] :
        /\ \A j, k \in Key : place[j] = place[k] => j = k
        /\ rows = [k \in Key |->
             IF k \notin S THEN NoRow
             ELSE [NoRow EXCEPT !.stored = TRUE, !.slot = place[k] - 1, !.until = LeasePeriod[k],
                                !.token = place[k]]]
        /\ clock = 0
        /\ holder = [l \in Locks |-> None]
        /\ pc = [t \in Session |-> "idle"]
        /\ call = [t \in Session |-> NoCall]
        /\ work = [t \in Session |-> Nothing]
        /\ token = Cardinality(Key)
        /\ receipts = {}
        /\ claims = {}
        /\ reply = [t \in Session |-> Reply("none", 0)]

InheritedSpec == InheritedInit /\ [][Next]_vars /\ Fairness

----------------------------------------------------------------------------
(* Properties.                                                             *)

RowType ==
    [stored : BOOLEAN, slot : Nat, failures : Nat, lastFailure : Nat, retryAt : Nat,
     until : Nat, token : 0..MaxToken]

Outcome == {"none", "pending", "admitted", "busy", "backoff", "storage_capacity", "succeeded",
            "failed", "stale", "not_consumed", "unknown"}

\* Types, with the table's CHECK: a lease has a token and an end or neither.
TypeOK ==
    /\ rows \in [Key -> RowType]
    /\ \A k \in Key : (rows[k].until = 0) <=> (rows[k].token = 0)
    /\ clock \in 0..MaxTime
    /\ holder \in [Locks -> Session \cup {None}]
    /\ \A t \in Session : DOMAIN work[t] \subseteq Key /\ \A k \in DOMAIN work[t] : work[t][k] \in RowType
    /\ token \in 0..MaxToken
    /\ receipts \subseteq [key : Key, token : 1..MaxToken]
    /\ claims \subseteq [key : Key, token : 1..MaxToken, tx : Host \cup {None}]
    /\ \A t \in Session : reply[t].outcome \in Outcome /\ reply[t].retry \in Nat

\* "Slot uniqueness plus the fixed slot range enforce a hard capacity": no two
\* subjects of a shard are given one slot, not even by transactions that have yet
\* to commit, so the table's unique constraint is never hit; and no shard ever
\* holds more rows than the largest bound among the replicas.
SlotsHold ==
    LET apart(j, v, k, w) ==
            j # k /\ Shard[j] = Shard[k] /\ v[j].stored /\ w[k].stored => v[j].slot # w[k].slot
    IN  /\ \A t \in Session, j, k \in Key : apart(j, View(t), k, View(t))
        /\ \A t, u \in Library, j, k \in Key :
            t # u /\ j \in DOMAIN work[t] /\ k \in DOMAIN work[u] => apart(j, work[t], k, work[u])
        /\ \A k \in Key : \E t \in Library : Cardinality(StoredIn(rows, Shard[k])) <= MaxRows[t]

\* The locks t's current statement cannot proceed without.
Needs(t) ==
    CASE pc[t] = "shard" -> ShardLocks(t)
      [] pc[t] \in {"row", "complete"} /\ View(t)[call[t].key].stored -> {Row(call[t].key)}
      [] OTHER -> {}

WaitsFor(t, u) == t # u /\ \E l \in Needs(t) : holder[l] = u

\* Admissions hold the shard lock and the rows they clean up while they wait for
\* the subject's row, completions wait for a row: none of it forms a cycle.
NoWaitCycle ==
    \A S \in (SUBSET Session) \ {{}} : \E t \in S : \A u \in S : ~WaitsFor(t, u)

\* The instance has no token left for an admission that is due one.
OutOfTokens ==
    /\ token = MaxToken
    /\ \E t \in Library :
        /\ pc[t] = "decide" /\ Waiting(t)
        /\ View(t)[call[t].key].stored \/ ~NoRoom(t, Shard[call[t].key])

Expired(s) == {k \in StoredIn(rows, s) : Expiry(k) <= clock}

\* A shard none of whose rows count any longer loses one of them or leases one
\* again, also when it holds more rows than the replicas that still call allow: a
\* capacity denial keeps the cleanup it did (finish_capacity_denial), so a lowered
\* bound is reached.  Ends where the tokens of the instance run out.
ExpiredShardShrinks ==
    \A S \in SUBSET Key \ {{}}, s \in {Shard[k] : k \in Key} :
        (StoredIn(rows, s) = S /\ Expired(s) = S) ~> (Expired(s) # S \/ OutOfTokens)

SubjectOf(row) ==
    LET s == [failures |-> row.failures, failedAt |-> 0, until |-> row.until, holder |-> row.token]
    IN  IF row.until = 0 /\ row.failures > 0 THEN [s EXCEPT !.failedAt = row.lastFailure] ELSE s

\* The transaction that has found k's lease live and holds its row.
Claimant(k) ==
    LET by == {t \in Session : k \in DOMAIN work[t] /\ (t \in Host \/ call[t].kind = "complete")}
    IN  IF by = {} THEN None ELSE CHOOSE t \in by : TRUE

CallStatus(t) ==
    IF pc[t] # "idle" /\ (Waiting(t) \/ reply[t].outcome = "unknown") THEN "open" ELSE "idle"

Shared == INSTANCE SharedThrottle WITH
    Client <- Library,
    Receipt <- 1..MaxToken,
    subject <- [k \in Key |-> SubjectOf(rows[k])],
    claimed <- [k \in Key |-> Claimant(k)],
    status <- [t \in Library |-> CallStatus(t)],
    call <- [t \in Library |-> call[t]],
    reply <- [t \in Library |-> reply[t]]

\* The transactions implement the shared throttle: one lease at a time, granted
\* only when the previous one is over and its backoff served, completed only by
\* its own receipt while it lives or by the transaction that claimed it then;
\* denials exact, "stale" and "not consumed" final, cleanup invisible.
ImplementsSharedThrottle == Shared!Spec

=============================================================================
