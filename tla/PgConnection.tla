---------------------------- MODULE PgConnection ----------------------------
(***************************************************************************)
(* How every PostgreSQL limiter uses its connection: acquisition, the      *)
(* cancellation guard, the phases of a transaction under one deadline,     *)
(* what each failure makes of the connection and of the result, and the    *)
(* report to the observer (runlimit-postgres/src/lib.rs, admission.rs,     *)
(* maintenance.rs, and the same calls in gcra.rs and attempts.rs).         *)
(*                                                                         *)
(* A call is one future: it awaits one answer at a time and may be dropped *)
(* at any await.  What the statements compute is PgFixedWindow, PgGcra and *)
(* PgAttempts; here the database only answers, fails, times out, stays     *)
(* silent or loses the connection.                                         *)
(*                                                                         *)
(* External, from how the code uses them: a sqlx pool opens connections up *)
(* to its maximum, a connection handed back first finishes the statement   *)
(* it is in, rolls back a transaction left open and is discarded when it   *)
(* is broken; a session whose ROLLBACK failed is in an unknown transaction *)
(* state ("A rollback failure must close", attempts.rs) and the pool has   *)
(* no way to tell; a closed session ends some time later, with its         *)
(* transaction and its session locks, after it may have worked off what it *)
(* was sent.                                                               *)
(***************************************************************************)
EXTENDS Observations, Integers

CONSTANTS Call,           \* the futures
          Session,        \* bound: database sessions that exist at once
          None,           \* no call
          MaxConnections, \* size of the pool
          RawConfig,      \* settings the application may ask for
          HardMaxRows,    \* HARD_MAX_ROWS_PER_SHARD
          MaxTimeout,     \* the longest timeout accepted
          Defaults,       \* PostgresConfig::new
          Operation       \* what a call may be

\* Where a connection is when no call holds it.
Place == {"free", "idle", "returning", "orphan"}

ASSUME PgConnectionAssumption ==
    /\ None \notin Call
    /\ Call \cap Place = {}
    /\ MaxConnections \in Nat \ {0}
    /\ \A o \in Operation :
        /\ o.kind \in Kind
        /\ o.checks \in Seq([key : Nat, cost : Nat, mode : QuotaMode])
        /\ o.kind = "check" => Len(o.checks) = 1
        /\ o.rows \in Nat

VARIABLES config,   \* the limiter's PostgresConfig
          pc,       \* call -> the answer it awaits
          op,       \* call -> its operation
          decided,  \* call -> the decision built before the transaction ends
          result,   \* call -> what it returns
          observed, \* call -> what the observer was told
          session,  \* session -> its connection and its server process
          sent,     \* history: calls that sent COMMIT
          charged   \* history: calls whose effect the database committed

vars == <<config, pc, op, decided, result, observed, session, sent, charged>>

----------------------------------------------------------------------------
(* Settings: the builder and deserialization apply the same validation.    *)

Absent == -1

Setting(raw, name) == IF raw[name] = Absent THEN Defaults[name] ELSE raw[name]

Configured(raw) == [name \in DOMAIN Defaults |-> Setting(raw, name)]

\* with_maximum_rows_per_shard, with_max_batch_size, with_pool_acquire_timeout
\* and with_operation_timeout, in that order.
Accepted(raw) ==
    LET c == Configured(raw)
    IN  /\ c.rows \in 1..HardMaxRows
        /\ c.batch >= 1
        /\ c.acquire \in 1..MaxTimeout
        /\ c.operation \in 1..MaxTimeout

----------------------------------------------------------------------------
NoAnswer == Result("none", 0)

\* at: where the connection is; asked: what the server still has to do; answer:
\* what the client has not read yet; tx, locked: the server's state.
Unopened == [at |-> "free", user |-> None, asked |-> "none", answer |-> NoAnswer,
             tx |-> "none", locked |-> FALSE, broken |-> FALSE]

Init ==
    /\ config \in {Configured(raw) : raw \in {r \in RawConfig : Accepted(r)}}
    /\ pc = [c \in Call |-> "new"]
    /\ op \in [Call -> Operation]
    /\ decided = [c \in Call |-> NoAnswer]
    /\ result = [c \in Call |-> NoAnswer]
    /\ observed = [c \in Call |-> Silent]
    /\ session = [s \in Session |-> Unopened]
    /\ sent = {}
    /\ charged = {}

Ended(c) == pc[c] \in {"returned", "dropped"}

Acquiring(c) == pc[c] = "acquiring"

\* The call awaits an answer on session s.
Awaits(c, s) == session[s].at = c

Busy(s) == session[s].asked # "none" \/ session[s].answer # NoAnswer

InPool == {s \in Session : session[s].at \notin {"free", "orphan"}}

----------------------------------------------------------------------------
(* Leaving a call.                                                         *)

\* The socket is closed.  Of the session behind it only a COMMIT or a lock request
\* it was sent and the lock it holds can still matter.
Close(s) ==
    [session EXCEPT ![s] =
        IF @.asked \in {"commit", "lock"} \/ @.locked
        THEN [@ EXCEPT !.at = "orphan", !.answer = NoAnswer, !.broken = FALSE]
        ELSE Unopened]

\* ConnectionCancellationGuard: only an outcome known to be reusable disarms it;
\* an armed guard closes the connection.
Released(s, outcome) ==
    IF outcome = "Reusable"
    THEN [session EXCEPT ![s].at = "returning", ![s].answer = NoAnswer]
    ELSE Close(s)

\* finish: the connection goes first, the observer is called after it.
Finish(c, s, outcome, r) ==
    /\ session' = Released(s, outcome)
    /\ result' = [result EXCEPT ![c] = r]
    /\ decided' = [decided EXCEPT ![c] = NoAnswer]
    /\ pc' = [pc EXCEPT ![c] = "observe"]

\* A call that ends without a connection.
FinishEarly(c, r) ==
    /\ result' = [result EXCEPT ![c] = r]
    /\ pc' = [pc EXCEPT ![c] = "observe"]

\* What a failure returns once d is decided: an attempt denied for lack of a slot
\* stays denied, whatever becomes of the commit of its cleanup.
Failure(d, error) == IF d.is = "no_slot" THEN d ELSE Result(error, 0)

\* observe_admission, observe_cleanup, observe_attempt_safely: a panic of the
\* observer is caught, so the call returns in any case.
Observe(c) ==
    /\ pc[c] = "observe"
    /\ observed' = [observed EXCEPT ![c] = ObservationOf(op[c], result[c])]
    /\ pc' = [pc EXCEPT ![c] = "returned"]
    /\ UNCHANGED <<config, op, decided, result, session, sent, charged>>

----------------------------------------------------------------------------
(* Starting a call and getting a connection.                               *)

\* An invalid batch and a cleanup of no rows need no connection.
Start(c) ==
    /\ pc[c] = "new"
    /\ \/ /\ op[c].kind = "batch" /\ ValidateBatch(op[c].checks, config.batch) # "Valid"
          /\ FinishEarly(c, Result("invalid_batch", 0))
       \/ /\ op[c].kind = "cleanup" /\ op[c].rows = 0
          /\ FinishEarly(c, Result("removed", 0))
       \/ /\ op[c].kind = "batch" => ValidateBatch(op[c].checks, config.batch) = "Valid"
          /\ op[c].kind = "cleanup" => op[c].rows > 0
          /\ pc' = [pc EXCEPT ![c] = "acquiring"]
          /\ UNCHANGED result
    /\ UNCHANGED <<config, op, decided, observed, session, sent, charged>>

FirstPhase(o) == IF IsMigration(o) THEN "lock" ELSE "begin"

\* pool.acquire: an idle connection, or a new one while the pool has room.
Acquire(c, s) ==
    /\ Acquiring(c)
    /\ \/ session[s].at = "idle" /\ ~session[s].broken
       \/ session[s].at = "free" /\ Cardinality(InPool) < MaxConnections
    /\ session' = [session EXCEPT ![s].at = c, ![s].user = c, ![s].asked = FirstPhase(op[c])]
    /\ pc' = [pc EXCEPT ![c] = FirstPhase(op[c])]
    /\ UNCHANGED <<config, op, decided, result, observed, sent, charged>>

\* acquire_check_connection, acquire_maintenance_connection: the acquisition
\* budget runs out or the pool fails; a migration has only the pool's own limit.
AcquireFails(c) ==
    /\ Acquiring(c)
    /\ \E error \in {"timed_out_before_commit", "definitely_not_consumed"} :
        FinishEarly(c, Result(error, 0))
    /\ UNCHANGED <<config, op, decided, observed, session, sent, charged>>

----------------------------------------------------------------------------
(* Phases of a transaction.                                                *)

Send(c, s, phase) ==
    /\ pc' = [pc EXCEPT ![c] = phase]
    /\ session' = [session EXCEPT ![s].asked = phase, ![s].answer = NoAnswer]
    /\ sent' = IF phase = "commit" THEN sent \cup {c} ELSE sent

\* Phases that look at the clock before they send anything: the server timeouts
\* need a remaining budget, and commit must not start after the deadline.  In a
\* cleanup that last test comes before the timeouts are refreshed.
TestsDeadline(o, phase) ==
    phase \in {"prepare", "prepare_commit"} \/ (phase = "commit" /\ o.kind # "cleanup")

\* The next phase is sent, or the deadline has passed and nothing is in flight.
Proceed(c, s, phase, d) ==
    \/ /\ Send(c, s, phase)
       /\ decided' = [decided EXCEPT ![c] = d]
       /\ UNCHANGED result
    \/ /\ TestsDeadline(op[c], phase)
       /\ Finish(c, s, "Reusable", Failure(d, "timed_out_before_commit"))
       /\ UNCHANGED sent

\* The tag of the decision the last statement's rows stand for, or a violation of
\* the storage invariants (single_decision, batch_decision, completion_result).
Decision(o, rows) ==
    LET invalid == Result("storage_invariant", 0)
        denied(tag) == IF rows.n \in 1..Len(o.checks) THEN Result(tag, rows.n) ELSE invalid
    IN  CASE IsAdmission(o) /\ rows.is = "quota" ->
                denied(IF o.checks[1].mode = "Shadow" THEN "shadow_denied" ELSE "quota_denied")
          [] IsAdmission(o) /\ rows.is = "capacity" -> denied("capacity_denied")
          [] IsAdmission(o) /\ rows.is = "allowed" ->
                IF rows.n = Len(o.checks) THEN rows ELSE invalid
          [] OTHER -> IF rows.is = "malformed" THEN invalid ELSE rows

RollsBack(d) == d.is \in {"quota_denied", "shadow_denied", "capacity_denied", "busy"}

\* The statement that decides has been answered: the decision is built first and
\* the transaction ended after it.
Decide(c, s, d) ==
    \/ /\ d.is = "storage_invariant"
       /\ Finish(c, s, "Reusable", d)
       /\ UNCHANGED sent
    \/ /\ RollsBack(d)
       /\ Send(c, s, "rollback")
       /\ decided' = [decided EXCEPT ![c] = d]
       /\ UNCHANGED result
    \/ /\ ~RollsBack(d) /\ d.is # "storage_invariant"
       /\ Proceed(c, s, "prepare_commit", d)

\* An answer that lets the call go on.
Advance(c, s) ==
    LET a == session[s].answer
        good(phase) == pc[c] = phase /\ a.is = "ok"
    IN  /\ Awaits(c, s)
        /\ \/ /\ good("begin") \/ (pc[c] = "statement" /\ a.is = "more")
              /\ Proceed(c, s, "prepare", NoAnswer)
           \/ /\ good("prepare") /\ Proceed(c, s, "statement", NoAnswer)
           \/ /\ pc[c] = "statement" /\ a.is \notin {"none", "more", "error", "timeout"}
              /\ Decide(c, s, Decision(op[c], a))
           \/ /\ good("prepare_commit") /\ Proceed(c, s, "commit", decided[c])
           \/ /\ good("rollback") \/ good("commit")
              /\ Finish(c, s, "Reusable", decided[c])
              /\ UNCHANGED sent
        /\ UNCHANGED <<config, op, observed, charged>>

PreCommit == {"begin", "prepare", "statement", "prepare_commit"}

\* check_before_commit, finish_denied_transaction, commit_check and their
\* maintenance counterparts, for an error from the database or the socket.
Fail(c, s) ==
    LET error == session[s].answer.is
    IN  /\ Awaits(c, s) /\ error \in {"error", "timeout"}
        /\ \/ /\ pc[c] \in PreCommit
              /\ Finish(c, s, "Reusable",
                        Failure(decided[c], IF error = "timeout" THEN "timed_out_before_commit"
                                   ELSE "definitely_not_consumed"))
           \/ /\ pc[c] = "rollback"
              /\ Finish(c, s, "MustClose", decided[c])
           \/ /\ pc[c] = "commit"
              /\ Finish(c, s, "Reusable", Failure(decided[c], "commit_outcome_unknown"))
        /\ UNCHANGED <<config, op, observed, sent, charged>>

\* A denial whose rollback is awaited without a deadline.
TimedPhasesNotRollback == PreCommit \cup {"commit"}

\* Every database await of a check or a cleanup is under timeout_at(deadline).
TimedPhases == PreCommit \cup {"rollback", "commit"}

\* The deadline passes while an answer is awaited.
Deadline(c, s) ==
    /\ Awaits(c, s) /\ pc[c] \in TimedPhases
    /\ Finish(c, s, "MustClose",
              CASE pc[c] \in PreCommit -> Failure(decided[c], "timed_out_before_commit")
                [] pc[c] = "rollback"  -> decided[c]
                [] pc[c] = "commit"    -> Failure(decided[c], "commit_timed_out"))
    /\ UNCHANGED <<config, op, observed, sent, charged>>

----------------------------------------------------------------------------
(* migrate: session lock, migrations, unlock, with no deadline.            *)

AfterMigrationPhase == [lock |-> "run", run |-> "unlock"]

\* The guard is disarmed only by success; the attempt limiter always closes the
\* connection it migrated with.
MigrationOutcome(o, ok) == IF ok /\ o.kind = "migrate" THEN "Reusable" ELSE "MustClose"

Migrate(c, s) ==
    LET a == session[s].answer
    IN  /\ Awaits(c, s) /\ IsMigration(op[c])
        /\ \/ /\ pc[c] \in DOMAIN AfterMigrationPhase /\ a.is = "ok"
              /\ Send(c, s, AfterMigrationPhase[pc[c]])
              /\ UNCHANGED <<decided, result>>
           \/ /\ pc[c] = "unlock" /\ a.is = "ok"
              /\ Finish(c, s, MigrationOutcome(op[c], TRUE), Result("migrated", 0))
              /\ UNCHANGED sent
           \/ /\ a.is \in {"error", "timeout"}
              /\ Finish(c, s, MigrationOutcome(op[c], FALSE), Result("migration_failed", 0))
              /\ UNCHANGED sent
        /\ UNCHANGED <<config, op, observed, charged>>

\* A future dropped with the guard already disarmed.
OnDropReuse == "Reusable"

\* Drop of the armed guard.
OnDrop == "MustClose"

\* The application drops the future at an await; nobody is told anything.
Drop(c) ==
    /\ pc[c] \notin {"new", "observe", "returned", "dropped"}
    /\ pc' = [pc EXCEPT ![c] = "dropped"]
    /\ \/ Acquiring(c) /\ UNCHANGED session
       \/ \E s \in Session : Awaits(c, s) /\ session' = Released(s, OnDrop)
    /\ decided' = [decided EXCEPT ![c] = NoAnswer]
    /\ UNCHANGED <<config, op, result, observed, sent, charged>>

----------------------------------------------------------------------------
(* The pool, the network and the server (external).                        *)

\* The answers a request can get.
Answers(request, o) ==
    {Result(tag, 0) : tag \in {"error"}
                              \cup (IF request \in PreCommit THEN {"timeout"} ELSE {})
                              \cup (IF request = "statement" THEN {"more"} ELSE {"ok"})}
    \cup (IF request # "statement" THEN {}
          ELSE CASE IsAdmission(o) -> {Result(tag, n) : tag \in {"allowed", "quota", "capacity"}, n \in 1..2}
                 [] o.kind = "cleanup"  -> {Result("removed", 1)}
                 [] o.kind = "admit"    -> {Result(tag, 0) : tag \in {"admitted", "busy", "no_slot", "malformed"}}
                 [] o.kind = "complete" -> {Result(tag, 0) : tag \in {"applied", "stale", "malformed"}})

\* Statements that wrote what the call is about.
Writes(d) == d.is \in {"allowed", "admitted", "applied", "removed"}

\* The server works off the request of session s.  A session lock waits for the
\* session that holds it.
Serve(s) ==
    LET here == session[s]
        c == here.user
    IN  /\ here.asked # "none"
        /\ here.asked = "lock" => \A other \in Session : ~session[other].locked
        /\ \E a \in Answers(here.asked, op[c]) :
            /\ session' = [session EXCEPT
                 ![s].asked = "none",
                 ![s].answer = IF here.broken \/ here.at = "orphan" THEN @ ELSE a,
                 ![s].tx = CASE here.asked = "begin" /\ a.is = "ok" -> "open"
                             [] here.asked = "statement" /\ Writes(a) -> "writing"
                             [] here.asked = "rollback" -> IF a.is = "ok" THEN "none" ELSE "unknown"
                             [] here.asked = "commit" -> "none"
                             [] OTHER -> @,
                 ![s].locked = (@ \/ (here.asked = "lock" /\ a.is = "ok"))
                               /\ ~(here.asked = "unlock" /\ a.is = "ok")]
            /\ charged' = IF here.asked = "commit" /\ a.is = "ok" /\ here.tx = "writing"
                          THEN charged \cup {c} ELSE charged
        /\ UNCHANGED <<config, pc, op, decided, result, observed, sent>>

\* The connection breaks: whoever awaits an answer gets an error, and the server
\* may still work off what it was sent.
Break(s) ==
    /\ session[s].at \notin {"free", "orphan"} /\ ~session[s].broken
    /\ session' = [session EXCEPT
         ![s].broken = TRUE,
         ![s].answer = IF session[s].at \in Call THEN Result("error", 0) ELSE NoAnswer]
    /\ UNCHANGED <<config, pc, op, decided, result, observed, sent, charged>>

\* A connection handed back becomes idle once it is quiet and rolled back; a
\* broken one, idle or on its way back, is discarded.
PoolSettles(s) ==
    /\ \/ /\ session[s].at = "returning" /\ ~session[s].broken /\ session[s].asked = "none"
          /\ session' = [session EXCEPT ![s].at = "idle", ![s].user = None, ![s].answer = NoAnswer,
                                        ![s].tx = IF @ = "unknown" THEN @ ELSE "none"]
       \/ /\ session[s].at \in {"returning", "idle"} /\ session[s].broken
          /\ session' = Close(s)
    /\ UNCHANGED <<config, pc, op, decided, result, observed, sent, charged>>

\* The server notices the disconnect.
SessionEnds(s) ==
    /\ session[s].at = "orphan"
    /\ session' = [session EXCEPT ![s] = Unopened]
    /\ UNCHANGED <<config, pc, op, decided, result, observed, sent, charged>>

Next ==
    \/ \E c \in Call : Start(c) \/ AcquireFails(c) \/ Drop(c) \/ Observe(c)
    \/ \E c \in Call, s \in Session :
        Acquire(c, s) \/ Advance(c, s) \/ Fail(c, s) \/ Deadline(c, s) \/ Migrate(c, s)
    \/ \E s \in Session : Serve(s) \/ Break(s) \/ PoolSettles(s) \/ SessionEnds(s)

\* Timers fire and a woken future is polled; nothing is assumed of the pool, the
\* network or the database.
Fairness ==
    \A c \in Call :
        /\ WF_vars(Start(c)) /\ WF_vars(AcquireFails(c)) /\ WF_vars(Observe(c))
        /\ WF_vars(\E s \in Session : Deadline(c, s))

Spec == Init /\ [][Next]_vars /\ Fairness

----------------------------------------------------------------------------
(* Properties.                                                             *)

\* "Close the socket instead of returning a potentially busy connection to the
\* pool", and "an acquired connection is returned to the pool only after a
\* successful run and unlock": a working connection on its way back has no answer
\* outstanding and no migration lock, and one the pool hands out again has no
\* transaction either and is not in an unknown state, whatever timed out, failed or
\* was dropped before.
PoolStaysClean ==
    \A s \in Session :
        /\ session[s].at \in {"returning", "idle"} /\ ~session[s].broken =>
            ~session[s].locked /\ session[s].asked = "none"
        /\ session[s].at = "idle" => session[s].tx = "none" /\ session[s].answer = NoAnswer

Denials == {"quota_denied", "shadow_denied", "capacity_denied"}

\* What the observer and the caller are told is true for good: consumption is
\* reported only when the database committed it, its absence only when the
\* database never will, and uncertainty only when COMMIT was really sent.  The
\* report of a denial is about the check that was denied and says why, every other
\* report about one of the call's own checks or none, and it comes after the
\* connection has been given up.
ObservationsHonest ==
    \A c \in Call : pc[c] = "returned" =>
        LET o == observed[c]
        IN  /\ o.consumption = "Consumed" => c \in charged
            /\ o.consumption = "NotConsumed" => c \notin charged
            /\ o.consumption = "PossiblyConsumed" => c \in sent
            /\ o.policy # 0 => o.policy \in DOMAIN op[c].checks
            /\ result[c].is \in Denials => o.policy = result[c].n /\ o.outcome = result[c].is
            /\ \A s \in Session : ~Awaits(c, s)

\* Acquisition and operation budgets bound every check and every cleanup: it
\* returns or is dropped even if the pool stays empty and the database never
\* answers.  Migrations have no deadline.
CallsAnswered == \A c \in Call : ~IsMigration(op[c]) => <>Ended(c)

=============================================================================
