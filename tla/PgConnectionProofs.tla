------------------------- MODULE PgConnectionProofs -------------------------
(***************************************************************************)
(* Proofs about PgConnection, for every number of calls, connections and   *)
(* server sessions and every mix of operations: no connection returns to   *)
(* the pool busy, locked or inside a transaction, and no report of a call  *)
(* is ever contradicted by what the database does later.                   *)
(***************************************************************************)
EXTENDS PgConnection, TLAPS

----------------------------------------------------------------------------
(* The inductive invariant                                                 *)

MigrationPhases == {"lock", "run", "unlock"}

\* Phases in which a call awaits an answer on its connection.
Awaiting == TimedPhases \cup MigrationPhases

Gone == {"observe", "returned", "dropped"}

Tag == Decisions \cup CheckErrors
       \cup {"none", "ok", "more", "error", "timeout", "quota", "capacity", "removed", "admitted", "busy",
             "no_slot", "applied", "stale", "malformed", "migrated", "migration_failed"}

Results == [is : Tag, n : Nat]

SessionType ==
    [at : Call \cup Place, user : Call \cup {None}, asked : Awaiting \cup {"none"}, answer : Results,
     tx : {"none", "open", "writing", "unknown"}, locked : BOOLEAN, broken : BOOLEAN]

TypeInv ==
    /\ pc \in [Call -> Awaiting \cup Gone \cup {"new", "acquiring"}]
    /\ op \in [Call -> Operation]
    /\ decided \in [Call -> Results]
    /\ result \in [Call -> Results]
    /\ DOMAIN observed = Call /\ observed = [c \in Call |-> observed[c]]
    /\ session \in [Session -> SessionType]
    /\ sent \subseteq Call
    /\ charged \subseteq sent

\* The decisions a call can come to.
Outcomes(o) ==
    CASE IsAdmission(o) ->
            {Result(tag, n) : tag \in {"quota_denied", "shadow_denied", "capacity_denied"},
                              n \in 1..Len(o.checks)}
            \cup {Result("allowed", Len(o.checks))}
      [] o.kind = "cleanup"  -> {Result("removed", 1)}
      [] o.kind = "admit"    -> {Result(tag, 0) : tag \in {"admitted", "busy", "no_slot"}}
      [] o.kind = "complete" -> {Result(tag, 0) : tag \in {"applied", "stale"}}
      [] OTHER               -> {}

\* A connection no call holds is quiet, or broken and about to be discarded, or
\* closed with a server process behind it.
Unheld(x) ==
    /\ x.at = "free" => x = Unopened
    /\ x.at = "idle" => /\ x.user = None /\ x.asked = "none" /\ x.answer = NoAnswer
                        /\ x.tx = "none" /\ ~x.locked
    /\ x.at = "returning" /\ ~x.broken => x.asked = "none" /\ ~x.locked /\ x.tx # "unknown"
    /\ x.at \in {"returning", "orphan"} => x.user \in Call /\ pc[x.user] \in Gone

\* A connection a call holds answers what the call awaits, once.
Held(x) ==
    LET c == x.at
    IN  /\ x.user = c
        /\ pc[c] \in Awaiting
        /\ x.asked \in {"none", pc[c]}
        /\ x.answer \in {NoAnswer, Result("error", 0)} \cup Answers(pc[c], op[c])
        /\ x.broken => x.answer.is = "error"
        /\ ~x.broken /\ x.answer # NoAnswer => x.asked = "none"
        /\ x.locked => IsMigration(op[c])
        /\ pc[c] = "unlock" /\ x.answer.is = "ok" => ~x.locked
        /\ x.tx = "unknown" => pc[c] = "rollback" /\ x.answer.is = "error"

\* What the transaction of a held connection has written is what its call decided.
Written(x) ==
    LET c == x.at
    IN  /\ pc[c] \in {"begin", "prepare", "rollback"} => x.tx # "writing"
        /\ pc[c] = "statement" /\ ~x.broken => (x.tx = "writing" <=> Writes(x.answer))
        /\ pc[c] = "prepare_commit" => (x.tx = "writing" <=> Writes(decided[c]))
        /\ pc[c] = "commit" /\ x.asked = "commit" => (x.tx = "writing" <=> Writes(decided[c]))
        /\ pc[c] = "commit" /\ x.answer.is = "ok" /\ Writes(decided[c]) => c \in charged

SessionOK(s) ==
    /\ Unheld(session[s])
    /\ session[s].at \in Call => Held(session[s]) /\ Written(session[s])
    /\ session[s].asked = "commit" => session[s].user \in sent

SessionInv == \A s \in Session : SessionOK(s)

\* A session works for one call, and a call has one session.
UserUnique ==
    \A r, s \in Session : session[r].user = session[s].user /\ session[s].user # None => r = s

\* The database may still commit what call c wrote.
Pending(c) ==
    \E s \in Session : session[s].user = c /\ session[s].asked = "commit" /\ session[s].tx = "writing"

\* Report o about call c is true and stays true.
Truthful(c, o) ==
    /\ o.consumption = "Consumed" => c \in charged
    /\ o.consumption = "NotConsumed" => c \notin charged /\ ~Pending(c)
    /\ o.consumption = "PossiblyConsumed" => c \in sent
    /\ o.policy # 0 => o.policy \in DOMAIN op[c].checks

CallOK(c) ==
    /\ pc[c] \in TimedPhases => ~IsMigration(op[c])
    /\ pc[c] \in MigrationPhases => IsMigration(op[c])
    /\ pc[c] \in {"new", "acquiring", "rollback"} \cup PreCommit \cup MigrationPhases => c \notin sent
    /\ pc[c] = "commit" => c \in sent
    /\ pc[c] = "commit" /\ ~Writes(decided[c]) => c \notin charged
    /\ decided[c] \in Outcomes(op[c]) \cup {NoAnswer}
    /\ pc[c] \in {"rollback", "prepare_commit", "commit"} => decided[c] \in Outcomes(op[c])
    /\ pc[c] = "rollback" => RollsBack(decided[c])
    /\ pc[c] = "observe" => Truthful(c, ObservationOf(op[c], result[c]))
    /\ pc[c] = "returned" => Truthful(c, observed[c]) /\ observed[c] = ObservationOf(op[c], result[c])
    /\ pc[c] \in {"observe", "returned"} /\ result[c].is \in Denials => result[c] \in Outcomes(op[c])

CallInv == \A c \in Call : CallOK(c)

Inv == TypeInv /\ SessionInv /\ UserUnique /\ CallInv

----------------------------------------------------------------------------
(* Facts about single operators                                            *)

USE DEF Result

\* The places of unheld connections are no calls, and a call is not "none".
LEMMA Distinct ==
  /\ "free" \notin Call /\ "idle" \notin Call /\ "returning" \notin Call /\ "orphan" \notin Call
  /\ None \notin Call
BY PgConnectionAssumption DEF Place

\* Every answer is a pair of a tag and a number.
LEMMA AnswersTyped ==
  ASSUME NEW o \in Operation, NEW request, NEW a \in Answers(request, o),
         IsMigration(o) => request # "statement"
  PROVE  a \in Results
<1>1. o.kind \in Kind
  BY PgConnectionAssumption
<1>2. CASE request # "statement"
  BY <1>2 DEF Answers, Results, Tag
<1>3. CASE request = "statement" /\ IsAdmission(o)
  BY <1>3 DEF Answers, Results, Tag, IsAdmission, Decisions
<1>4. CASE request = "statement" /\ ~IsAdmission(o)
  BY <1>1, <1>4 DEF Answers, Results, Tag, IsAdmission, IsMigration, Kind
<1> QED BY <1>2, <1>3, <1>4

\* A decision is one of the outcomes of its operation or a broken storage invariant,
\* and it writes exactly when the rows it was built from do.
LEMMA DecisionOutcome ==
  ASSUME NEW o \in Operation, ~IsMigration(o), NEW a \in Answers("statement", o),
         a.is \notin {"more", "error", "timeout"}
  PROVE  LET d == Decision(o, a)
         IN  /\ d \in Outcomes(o) \/ d = Result("storage_invariant", 0)
             /\ d.is # "storage_invariant" => d \in Outcomes(o) /\ (Writes(d) <=> Writes(a))
<1>1. o.kind \in Kind /\ Len(o.checks) \in Nat
  BY PgConnectionAssumption
<1>2. CASE IsAdmission(o)
  BY <1>1, <1>2 DEF Answers, Decision, Outcomes, IsAdmission, Kind, Writes, PreCommit
<1>3. CASE ~IsAdmission(o)
  BY <1>1, <1>3 DEF Answers, Decision, Outcomes, IsAdmission, IsMigration, Kind, Writes, PreCommit
<1> QED BY <1>2, <1>3

\* Outcomes are results, and none of them is a broken storage invariant.
LEMMA OutcomesTyped ==
  ASSUME NEW o \in Operation, ~IsMigration(o), NEW d \in Outcomes(o)
  PROVE  d \in Results /\ d.is # "storage_invariant"
<1>1. o.kind \in Kind /\ Len(o.checks) \in Nat
  BY PgConnectionAssumption
<1>2. CASE IsAdmission(o)
  BY <1>1, <1>2 DEF Outcomes, IsAdmission, Results, Tag, Decisions
<1>3. CASE ~IsAdmission(o)
  BY <1>1, <1>3 DEF Outcomes, IsAdmission, IsMigration, Kind, Results, Tag
<1> QED BY <1>2, <1>3

\* What the operations of a call look like.
LEMMA OperationShape ==
  ASSUME NEW o \in Operation
  PROVE  /\ o.kind \in Kind
         /\ Len(o.checks) \in Nat
         /\ DOMAIN o.checks = 1..Len(o.checks)
         /\ o.kind = "check" => Len(o.checks) = 1
BY PgConnectionAssumption

\* The reports of errors: never "consumed", "possibly consumed" only for an unknown
\* commit, and about a check of the call or none.
LEMMA ErrorReported ==
  ASSUME NEW o \in Operation, ~IsMigration(o), NEW error \in CheckErrors
  PROVE  LET r == ObservationOf(o, Result(error, 0))
         IN  /\ r.consumption = Consumption(error)
             /\ r.policy # 0 => r.policy \in DOMAIN o.checks
<1>1. Consumption(error) \in {"NotConsumed", "PossiblyConsumed"}
  BY DEF Consumption
<1> DEFINE e == Result(error, 0)
<1>2. CASE IsAdmission(o)
  <2>1. ObservationOf(o, e) = AdmissionObservation(o, e)
    BY <1>2 DEF ObservationOf, IsAdmission, IsAttempt
  <2>2. e.is \in CheckErrors
    OBVIOUS
  <2>3. RelevantCheck(o.checks, e) = IF Len(o.checks) = 1 THEN 1 ELSE 0
    BY <2>2 DEF RelevantCheck, CheckErrors
  <2>4. AdmissionObservation(o, e) =
           Observation("Failed", Consumption(error), IF o.kind = "check" THEN 1 ELSE RelevantCheck(o.checks, e))
    BY <2>2 DEF AdmissionObservation
  <2> QED BY <2>1, <2>3, <2>4, OperationShape DEF Observation
<1>3. CASE o.kind = "cleanup"
  <2>1. ObservationOf(o, e) = CleanupObservation(e)
    BY <1>3 DEF ObservationOf, IsAdmission, IsAttempt
  <2>2. e.is # "removed"
    BY DEF CheckErrors
  <2>3. CleanupObservation(e).consumption = Consumption(error) /\ CleanupObservation(e).policy = 0
    BY <2>2, <1>1 DEF CleanupObservation, Observation
  <2> QED BY <2>1, <2>3
<1>4. CASE IsAttempt(o)
  <2>1. ObservationOf(o, e) = AttemptObservation(e)
    BY <1>4 DEF ObservationOf, IsAdmission, IsAttempt
  <2>2. e.is \notin {"admitted", "applied", "busy", "no_slot", "stale"} /\ e.is \in CheckErrors
    BY DEF CheckErrors
  <2>3. AttemptObservation(e).consumption = Consumption(error) /\ AttemptObservation(e).policy = 0
    BY <2>2, <1>1 DEF AttemptObservation, Observation, Silent
  <2> QED BY <2>1, <2>3
<1> QED BY <1>2, <1>3, <1>4, OperationShape DEF IsAdmission, IsAttempt, IsMigration, Kind

\* A decision is reported as consumed exactly when it writes.
LEMMA OutcomeReported ==
  ASSUME NEW o \in Operation, ~IsMigration(o), NEW d \in Outcomes(o)
  PROVE  LET r == ObservationOf(o, d)
         IN  /\ r.consumption = IF Writes(d) THEN "Consumed" ELSE "NotConsumed"
             /\ r.policy # 0 => r.policy \in DOMAIN o.checks
<1>2. CASE IsAdmission(o)
  <2>1. ObservationOf(o, d) = AdmissionObservation(o, d)
    BY <1>2 DEF ObservationOf, IsAdmission, IsAttempt
  <2>2. \/ d = Result("allowed", Len(o.checks))
        \/ d.is \in {"quota_denied", "shadow_denied", "capacity_denied"} /\ d.n \in 1..Len(o.checks)
    BY <1>2 DEF Outcomes, IsAdmission
  <2>3. d.is \notin CheckErrors
    BY <2>2 DEF CheckErrors
  <2>4. RelevantCheck(o.checks, d) = IF d.is = "allowed" THEN IF d.n = 1 THEN 1 ELSE 0 ELSE d.n
    BY <2>3 DEF RelevantCheck
  <2>5. AdmissionObservation(o, d) =
           Observation(d.is, Classified(d.is), IF o.kind = "check" THEN 1 ELSE RelevantCheck(o.checks, d))
    BY <2>3 DEF AdmissionObservation
  <2>6. Classified(d.is) = IF Writes(d) THEN "Consumed" ELSE "NotConsumed"
    BY <2>2 DEF Classified, Writes
  <2> QED BY <2>1, <2>2, <2>4, <2>5, <2>6, OperationShape DEF Observation
<1>3. CASE o.kind = "cleanup"
  <2>1. ObservationOf(o, d) = CleanupObservation(d)
    BY <1>3 DEF ObservationOf, IsAdmission, IsAttempt
  <2>2. d = Result("removed", 1)
    BY <1>3 DEF Outcomes, IsAdmission
  <2> QED BY <2>1, <2>2 DEF CleanupObservation, Observation, Writes
<1>4. CASE IsAttempt(o)
  <2>1. ObservationOf(o, d) = AttemptObservation(d)
    BY <1>4 DEF ObservationOf, IsAdmission, IsAttempt
  <2>2. d.is \in {"admitted", "busy", "no_slot", "applied", "stale"}
    BY <1>4 DEF Outcomes, IsAdmission, IsAttempt
  <2>3. AttemptObservation(d) =
           Observation(d.is, IF d.is \in {"admitted", "applied"} THEN "Consumed" ELSE "NotConsumed", 0)
    BY <2>2 DEF AttemptObservation, CheckErrors
  <2> QED BY <2>1, <2>2, <2>3 DEF Observation, Writes
<1> QED BY <1>2, <1>3, <1>4, OperationShape DEF IsAdmission, IsAttempt, IsMigration, Kind

\* A denial is reported with the check it denied and its own outcome.
LEMMA DenialNamed ==
  ASSUME NEW o \in Operation, NEW d \in Outcomes(o), d.is \in Denials
  PROVE  LET r == ObservationOf(o, d) IN r.policy = d.n /\ r.outcome = d.is
<1>1. IsAdmission(o)
  BY OperationShape DEF Outcomes, Denials, IsAdmission, Kind
<1>2. d.n \in 1..Len(o.checks)
  BY <1>1 DEF Outcomes, Denials, IsAdmission
<1>3. ObservationOf(o, d) = AdmissionObservation(o, d)
  BY <1>1 DEF ObservationOf, IsAdmission, IsAttempt
<1>4. RelevantCheck(o.checks, d) = d.n /\ d.is \notin CheckErrors
  BY DEF RelevantCheck, CheckErrors, Denials
<1>5. AdmissionObservation(o, d) =
         Observation(d.is, Classified(d.is), IF o.kind = "check" THEN 1 ELSE d.n)
  BY <1>4 DEF AdmissionObservation
<1>6. ASSUME o.kind = "check" PROVE d.n = 1
  <2>1. Len(o.checks) = 1
    BY <1>6, OperationShape
  <2>2. d.n \in 1..1
    BY <1>2, <2>1
  <2> QED BY <2>2
<1> QED BY <1>3, <1>5, <1>6 DEF Observation

\* What a call returns after a failure: the denial it had decided on for lack of a
\* slot, or the error.
LEMMA FailureReported ==
  ASSUME NEW o \in Operation, ~IsMigration(o), NEW d \in Outcomes(o) \cup {NoAnswer},
         NEW error \in CheckErrors
  PROVE  LET r == ObservationOf(o, Failure(d, error))
         IN  /\ r.consumption = IF d.is = "no_slot" THEN "NotConsumed" ELSE Consumption(error)
             /\ d.is = "no_slot" => ~Writes(d)
             /\ r.policy # 0 => r.policy \in DOMAIN o.checks
<1>1. CASE d.is = "no_slot"
  <2>1. d \in Outcomes(o)
    BY <1>1 DEF NoAnswer
  <2> QED BY <1>1, <2>1, OutcomeReported DEF Failure, Writes
<1>2. CASE d.is # "no_slot"
  BY <1>2, ErrorReported DEF Failure
<1> QED BY <1>1, <1>2

----------------------------------------------------------------------------
(* What a step leaves alone                                                *)

\* A session whose call is left alone stays as it is described.
LEMMA SessionFrame ==
  ASSUME TypeInv, NEW s \in Session, SessionOK(s), session'[s] = session[s], op' = op,
         \A u \in Call : u = session[s].user =>
            /\ pc'[u] = pc[u] \/ (pc[u] \in Gone /\ pc'[u] \in Gone)
            /\ decided'[u] = decided[u]
            /\ u \in charged => u \in charged'
            /\ u \in sent => u \in sent'
  PROVE  SessionOK(s)'
<1> DEFINE x == session[s]
<1>1. x \in SessionType
  BY DEF TypeInv
<1>2. Unheld(x)'
  BY <1>1 DEF SessionOK, Unheld, SessionType
<1>3. ASSUME x.at \in Call PROVE Held(x)' /\ Written(x)'
  <2>1. x.user = x.at /\ pc[x.at] \in Awaiting
    BY <1>3 DEF SessionOK, Held
  <2>2. pc'[x.at] = pc[x.at]
    BY <2>1, <1>3 DEF Awaiting, TimedPhases, PreCommit, MigrationPhases, Gone
  <2> QED BY <1>3, <2>1, <2>2 DEF SessionOK, Held, Written
<1>4. x.asked = "commit" => x.user \in sent'
  BY DEF SessionOK, TypeInv
<1> QED BY <1>2, <1>3, <1>4 DEF SessionOK

\* A call that is left alone keeps its promises.
LEMMA CallFrame ==
  ASSUME NEW c \in Call, CallOK(c), pc'[c] = pc[c], op' = op, decided'[c] = decided[c],
         result'[c] = result[c], observed'[c] = observed[c],
         c \in charged <=> c \in charged', c \in sent <=> c \in sent', Pending(c)' => Pending(c)
  PROVE  CallOK(c)'
<1>1. ASSUME NEW o, Truthful(c, o) PROVE Truthful(c, o)'
  BY <1>1 DEF Truthful
<1> QED BY <1>1 DEF CallOK

\* A connection is used by the call that holds it, and nobody works for a call that
\* has none.
LEMMA UserFacts ==
  ASSUME Inv, NEW s \in Session
  PROVE  /\ session[s] \in SessionType
         /\ session[s].at \in Call => session[s].user = session[s].at
         /\ session[s].user \in Call => pc[session[s].user] \in Awaiting \cup Gone
         /\ session[s].at \in {"free", "idle"} => session[s].user = None
<1>1. session[s] \in SessionType /\ SessionOK(s)
  BY DEF Inv, TypeInv, SessionInv
<1>2. session[s].at \in Call \cup Place
  BY <1>1 DEF SessionType
<1> QED BY <1>1, <1>2, Distinct DEF SessionOK, Unheld, Held, Unopened, Place

\* What a call that never sent COMMIT reports is true if it claims no consumption.
LEMMA UnsentTruthful ==
  ASSUME TypeInv', SessionInv', NEW c \in Call, c \notin sent', NEW o,
         o.consumption = "NotConsumed", o.policy # 0 => o.policy \in DOMAIN op'[c].checks
  PROVE  Truthful(c, o)'
<1>1. c \notin charged'
  BY DEF TypeInv
<1>2. ~Pending(c)'
  BY DEF SessionInv, SessionOK, Pending
<1> QED BY <1>1, <1>2 DEF Truthful

\* A call that has only its report to make.
LEMMA FinishedCall ==
  ASSUME NEW c \in Call, pc'[c] = "observe", decided'[c] \in Outcomes(op'[c]) \cup {NoAnswer},
         Truthful(c, ObservationOf(op[c], result[c]))',
         result'[c].is \in Denials => result'[c] \in Outcomes(op'[c])
  PROVE  CallOK(c)'
BY DEF CallOK, TimedPhases, PreCommit, MigrationPhases

\* The reports of calls that fail before COMMIT is sent.
LEMMA UnsentFailure ==
  ASSUME TypeInv', SessionInv', NEW c \in Call, c \notin sent', pc'[c] = "observe",
         decided'[c] \in Outcomes(op'[c]) \cup {NoAnswer},
         NEW d \in Outcomes(op'[c]) \cup {NoAnswer}, NEW error \in CheckErrors, Consumption(error) = "NotConsumed",
         result'[c] = Failure(d, error)
  PROVE  CallOK(c)'
<1> DEFINE o == op'[c]
<1> DEFINE r == ObservationOf(o, result'[c])
<1>1. o \in Operation
  BY DEF TypeInv
<1>2. r.consumption = "NotConsumed" /\ (r.policy # 0 => r.policy \in DOMAIN o.checks)
  <2>1. CASE IsMigration(o)
    <3>1. r = Silent
      BY <2>1 DEF ObservationOf, IsMigration, IsAdmission, IsAttempt
    <3> QED BY <3>1 DEF Silent, Observation
  <2>2. CASE ~IsMigration(o)
    BY <1>1, <2>2, FailureReported
  <2> QED BY <2>1, <2>2
<1>3. Truthful(c, ObservationOf(op[c], result[c]))'
  <2>1. c \notin charged' /\ ~Pending(c)'
    BY DEF TypeInv, SessionInv, SessionOK, Pending
  <2> QED BY <1>2, <2>1 DEF Truthful
<1>4. result'[c].is \notin Denials
  BY DEF Failure, CheckErrors, Denials
<1> QED BY <1>3, <1>4, FinishedCall

----------------------------------------------------------------------------
(* Steps of a call that holds no connection                                *)

\* Start preserves the invariant.
LEMMA StartInv ==
  ASSUME Inv, NEW c \in Call, Start(c)
  PROVE  Inv'
<1>1. /\ pc[c] = "new" /\ pc' = [pc EXCEPT ![c] = pc'[c]] /\ pc'[c] \in {"observe", "acquiring"}
      /\ UNCHANGED <<config, op, decided, observed, session, sent, charged>>
  BY DEF Start, FinishEarly, Inv, TypeInv
<1>2. \A d \in Call : d # c => result'[d] = result[d]
  BY DEF Start, FinishEarly, Inv, TypeInv
<1>3. \A s \in Session : session[s].user # c
  BY <1>1, UserFacts DEF Awaiting, Gone, TimedPhases, PreCommit, MigrationPhases
<1>4. TypeInv'
  <2>1. result' \in [Call -> Results]
    <3>1. Result("invalid_batch", 0) \in Results /\ Result("removed", 0) \in Results
      BY DEF Results, Tag, CheckErrors
    <3> QED BY <3>1 DEF Start, FinishEarly, Inv, TypeInv
  <2>2. pc' \in [Call -> Awaiting \cup Gone \cup {"new", "acquiring"}]
    BY <1>1 DEF Inv, TypeInv, Gone
  <2> QED BY <1>1, <2>1, <2>2 DEF Inv, TypeInv
<1>5. SessionInv'
  <2> SUFFICES ASSUME NEW s \in Session PROVE SessionOK(s)'
    BY DEF SessionInv
  <2>1. SessionOK(s) /\ TypeInv
    BY DEF Inv, SessionInv
  <2>2. \A u \in Call : u = session[s].user => pc'[u] = pc[u]
    BY <1>1, <1>3 DEF Inv, TypeInv
  <2> QED BY <1>1, <2>1, <2>2, SessionFrame
<1>6. CallInv'
  <2> SUFFICES ASSUME NEW d \in Call PROVE CallOK(d)'
    BY DEF CallInv
  <2>0. CallOK(d) /\ (Pending(d)' => Pending(d))
    BY <1>1 DEF Inv, CallInv, Pending
  <2>1. CASE d # c
    BY <1>1, <1>2, <2>0, <2>1, CallFrame DEF Inv, TypeInv
  <2>2. CASE d = c /\ pc'[c] = "acquiring"
    BY <1>1, <2>0, <2>2 DEF CallOK, TimedPhases, PreCommit, MigrationPhases
  <2>3. CASE d = c /\ pc'[c] = "observe"
    <3>1. c \notin sent' /\ op'[c] \in Operation /\ decided'[c] \in Outcomes(op'[c]) \cup {NoAnswer}
      BY <1>1, <2>0, <2>3 DEF CallOK, Inv, TypeInv
    <3>2. CASE op[c].kind = "batch" /\ result'[c] = Result("invalid_batch", 0)
      <4>1. /\ result'[c] = Failure(NoAnswer, "invalid_batch")
            /\ "invalid_batch" \in CheckErrors /\ Consumption("invalid_batch") = "NotConsumed"
        BY <3>2 DEF CheckErrors, Consumption, Failure, NoAnswer
      <4> QED BY <1>4, <1>5, <2>3, <3>1, <4>1, UnsentFailure
    <3>3. CASE op[c].kind = "cleanup" /\ result'[c] = Result("removed", 0)
      <4>1. ObservationOf(op'[c], result'[c]) = Observation("Confirmed", "NotConsumed", 0)
        BY <1>1, <3>3 DEF ObservationOf, IsAdmission, IsAttempt, CleanupObservation
      <4>2. Truthful(c, ObservationOf(op[c], result[c]))'
        BY <1>4, <1>5, <3>1, <4>1, UnsentTruthful DEF Observation
      <4> QED BY <2>3, <3>1, <3>3, <4>2, FinishedCall DEF Denials
    <3> QED BY <2>3, <3>2, <3>3 DEF Start, FinishEarly, Inv, TypeInv
  <2> QED BY <1>1, <2>1, <2>2, <2>3
<1> QED BY <1>1, <1>4, <1>5, <1>6 DEF Inv, UserUnique

\* AcquireFails preserves the invariant.
LEMMA AcquireFailsInv ==
  ASSUME Inv, NEW c \in Call, AcquireFails(c)
  PROVE  Inv'
<1>1. PICK error \in {"timed_out_before_commit", "definitely_not_consumed"} : FinishEarly(c, Result(error, 0))
  BY DEF AcquireFails
<1>2. pc[c] = "acquiring" /\ UNCHANGED <<config, op, decided, observed, session, sent, charged>>
  BY DEF AcquireFails, Acquiring
<1>3. \A s \in Session : session[s].user # c
  BY <1>2, UserFacts DEF Awaiting, Gone, TimedPhases, PreCommit, MigrationPhases
<1>4. TypeInv'
  BY <1>1, <1>2 DEF FinishEarly, Inv, TypeInv, Results, Tag, CheckErrors, Gone
<1>5. SessionInv'
  <2> SUFFICES ASSUME NEW s \in Session PROVE SessionOK(s)'
    BY DEF SessionInv
  <2>1. SessionOK(s) /\ TypeInv
    BY DEF Inv, SessionInv
  <2>2. \A u \in Call : u = session[s].user => pc'[u] = pc[u]
    BY <1>1, <1>2, <1>3 DEF FinishEarly, Inv, TypeInv
  <2> QED BY <1>2, <2>1, <2>2, SessionFrame
<1>6. CallInv'
  <2> SUFFICES ASSUME NEW d \in Call PROVE CallOK(d)'
    BY DEF CallInv
  <2>0. CallOK(d) /\ (Pending(d)' => Pending(d))
    BY <1>2 DEF Inv, CallInv, Pending
  <2>1. CASE d # c
    BY <1>1, <1>2, <2>0, <2>1, CallFrame DEF FinishEarly, Inv, TypeInv
  <2>2. CASE d = c
    <3>1. c \notin sent' /\ decided'[c] \in Outcomes(op'[c]) \cup {NoAnswer}
      BY <1>2, <2>0, <2>2 DEF CallOK
    <3>2. pc'[c] = "observe" /\ result'[c] = Failure(NoAnswer, error)
      BY <1>1 DEF FinishEarly, Inv, TypeInv, Failure, NoAnswer
    <3>3. error \in CheckErrors /\ Consumption(error) = "NotConsumed"
      BY DEF CheckErrors, Consumption
    <3> QED BY <1>4, <1>5, <2>2, <3>1, <3>2, <3>3, UnsentFailure
  <2> QED BY <2>1, <2>2
<1> QED BY <1>2, <1>4, <1>5, <1>6 DEF Inv, UserUnique

\* Observe preserves the invariant.
LEMMA ObserveInv ==
  ASSUME Inv, NEW c \in Call, Observe(c)
  PROVE  Inv'
<1>1. /\ pc[c] = "observe" /\ pc' = [pc EXCEPT ![c] = "returned"]
      /\ observed' = [observed EXCEPT ![c] = ObservationOf(op[c], result[c])]
      /\ UNCHANGED <<config, op, decided, result, session, sent, charged>>
  BY DEF Observe
<1>4. TypeInv'
  BY <1>1 DEF Inv, TypeInv, Gone
<1>5. SessionInv'
  <2> SUFFICES ASSUME NEW s \in Session PROVE SessionOK(s)'
    BY DEF SessionInv
  <2>1. SessionOK(s) /\ TypeInv
    BY DEF Inv, SessionInv
  <2>2. \A u \in Call : pc'[u] = pc[u] \/ (pc[u] \in Gone /\ pc'[u] \in Gone)
    BY <1>1 DEF Inv, TypeInv, Gone
  <2> QED BY <1>1, <2>1, <2>2, SessionFrame
<1>6. CallInv'
  <2> SUFFICES ASSUME NEW d \in Call PROVE CallOK(d)'
    BY DEF CallInv
  <2>0. CallOK(d) /\ (Pending(d)' <=> Pending(d))
    BY <1>1 DEF Inv, CallInv, Pending
  <2>1. CASE d # c
    BY <1>1, <2>0, <2>1, CallFrame DEF Inv, TypeInv
  <2>2. CASE d = c
    <3>1. pc'[c] = "returned" /\ observed'[c] = ObservationOf(op[c], result[c])
      BY <1>1 DEF Inv, TypeInv
    <3>2. Truthful(c, observed'[c])
      BY <1>1, <2>0, <2>2, <3>1 DEF CallOK
    <3>3. Truthful(c, observed[c])'
      BY <1>1, <2>0, <2>2, <3>2 DEF Truthful
    <3>4. decided'[c] \in Outcomes(op'[c]) \cup {NoAnswer}
      BY <1>1, <2>0, <2>2 DEF CallOK
    <3>5. result'[c].is \in Denials => result'[c] \in Outcomes(op'[c])
      BY <1>1, <2>0, <2>2 DEF CallOK
    <3>6. observed'[c] = ObservationOf(op'[c], result'[c])
      BY <1>1, <3>1
    <3> QED BY <2>2, <3>1, <3>3, <3>4, <3>5, <3>6 DEF CallOK, TimedPhases, PreCommit, MigrationPhases
  <2> QED BY <2>1, <2>2
<1> QED BY <1>1, <1>4, <1>5, <1>6 DEF Inv, UserUnique

----------------------------------------------------------------------------
(* Steps of a call on its connection                                       *)

\* A session gets a call of its own: an idle connection or a new one is quiet.
LEMMA AcquireInv ==
  ASSUME Inv, NEW c \in Call, NEW s \in Session, Acquire(c, s)
  PROVE  Inv'
<1> DEFINE x == session[s]
<1> DEFINE phase == FirstPhase(op[c])
<1>1. /\ pc[c] = "acquiring" /\ pc' = [pc EXCEPT ![c] = phase]
      /\ session' = [session EXCEPT ![s].at = c, ![s].user = c, ![s].asked = phase]
      /\ UNCHANGED <<config, op, decided, result, observed, sent, charged>>
  BY DEF Acquire, Acquiring
<1>2. /\ x \in SessionType /\ x.user = None /\ x.answer = NoAnswer /\ x.tx = "none"
      /\ ~x.locked /\ ~x.broken
  <2>1. x \in SessionType /\ Unheld(x)
    BY DEF Inv, TypeInv, SessionInv, SessionOK
  <2>2. x.at = "free" \/ (x.at = "idle" /\ ~x.broken)
    BY DEF Acquire
  <2> QED BY <2>1, <2>2 DEF Unheld, Unopened
<1>3. /\ phase = IF IsMigration(op[c]) THEN "lock" ELSE "begin"
      /\ phase \in Awaiting /\ phase # "none" /\ phase # "commit"
  BY DEF FirstPhase, Awaiting, TimedPhases, PreCommit, MigrationPhases
<1> HIDE DEF phase
<1>4. session'[s] = [x EXCEPT !.at = c, !.user = c, !.asked = phase]
      /\ \A r \in Session : r # s => session'[r] = session[r]
  BY <1>1, <1>2 DEF Inv, TypeInv
<1>5. /\ session'[s] \in SessionType
      /\ session'[s].at = c /\ session'[s].user = c /\ session'[s].asked = phase
      /\ session'[s].answer = NoAnswer /\ session'[s].tx = "none"
      /\ ~session'[s].locked /\ ~session'[s].broken
  BY <1>2, <1>3, <1>4 DEF SessionType
<1>6. \A r \in Session : session[r].user # c
  BY <1>1, UserFacts DEF Awaiting, Gone, TimedPhases, PreCommit, MigrationPhases
<1>7. TypeInv'
  BY <1>1, <1>3, <1>4, <1>5 DEF Inv, TypeInv
<1>8. SessionInv'
  <2> SUFFICES ASSUME NEW r \in Session PROVE SessionOK(r)'
    BY DEF SessionInv
  <2>1. SessionOK(r) /\ TypeInv
    BY DEF Inv, SessionInv
  <2>2. CASE r # s
    <3>1. \A u \in Call : u = session[r].user => pc'[u] = pc[u]
      BY <1>1, <1>6 DEF Inv, TypeInv
    <3> QED BY <1>1, <1>4, <2>1, <2>2, <3>1, SessionFrame
  <2>3. CASE r = s
    <3>1. pc'[c] = phase /\ op'[c] = op[c]
      BY <1>1 DEF Inv, TypeInv
    <3>2. Held(session[s])'
      BY <1>3, <1>5, <3>1 DEF Held, NoAnswer
    <3>3. Written(session[s])'
      BY <1>3, <1>5, <3>1 DEF Written, NoAnswer, Writes
    <3>4. Unheld(session[s])'
      BY <1>5, Distinct DEF Unheld
    <3> QED BY <2>3, <1>3, <1>5, <3>2, <3>3, <3>4 DEF SessionOK
  <2> QED BY <2>2, <2>3
<1>9. UserUnique'
  <2>1. \A p, q \in Session : session[p].user = session[q].user /\ session[q].user # None => p = q
    BY DEF Inv, UserUnique
  <2>2. \A p \in Session : p # s => session'[p].user = session[p].user /\ session'[p].user # c
    BY <1>4, <1>6
  <2> QED BY <1>5, <2>1, <2>2 DEF UserUnique
<1>10. CallInv'
  <2> SUFFICES ASSUME NEW d \in Call PROVE CallOK(d)'
    BY DEF CallInv
  <2>0. CallOK(d) /\ (Pending(d)' => Pending(d))
    BY <1>3, <1>4, <1>5 DEF Inv, CallInv, Pending
  <2>1. CASE d # c
    BY <1>1, <2>0, <2>1, CallFrame DEF Inv, TypeInv
  <2>2. CASE d = c
    <3>1. pc'[c] = phase
      BY <1>1 DEF Inv, TypeInv
    <3> QED BY <1>1, <1>3, <2>0, <2>2, <3>1 DEF CallOK, TimedPhases, PreCommit, MigrationPhases
  <2> QED BY <2>1, <2>2
<1> QED BY <1>7, <1>8, <1>9, <1>10 DEF Inv

\* The session and the transaction of a call that awaits s.
LEMMA HeldFacts ==
  ASSUME Inv, NEW c \in Call, NEW s \in Session, Awaits(c, s)
  PROVE  /\ session[s] \in SessionType /\ session[s].at = c /\ session[s].user = c
         /\ Held(session[s]) /\ Written(session[s])
         /\ \A r \in Session : r # s => session[r].user # c /\ session[r].at # c
         /\ c # None
<1>1. session[s] \in SessionType /\ session[s].at = c /\ SessionOK(s)
  BY DEF Inv, TypeInv, SessionInv, Awaits
<1>2. session[s].user = c /\ Held(session[s]) /\ Written(session[s]) /\ c # None
  BY <1>1, Distinct DEF SessionOK, Held
<1>3. ASSUME NEW r \in Session, r # s PROVE session[r].user # c
  BY <1>2, <1>3 DEF Inv, UserUnique
<1> QED BY <1>1, <1>2, <1>3, UserFacts

\* A call gives its connection up: what happens to the session, and that the
\* invariants about the other calls and sessions survive it.  The caller shows
\* that a connection handed back is quiet.
LEMMA FinishInv ==
  ASSUME Inv, NEW c \in Call, NEW s \in Session, Awaits(c, s), NEW outcome, NEW r \in Results,
         Finish(c, s, outcome, r),
         UNCHANGED <<config, op, observed, sent, charged>>,
         outcome = "Reusable" => \/ session[s].broken
                                 \/ /\ session[s].asked = "none" /\ ~session[s].locked
                                    /\ session[s].tx # "unknown",
         r.is \in Denials => r \in Outcomes(op[c]),
         LET o == ObservationOf(op[c], r)
         IN  /\ o.consumption = "Consumed" => c \in charged
             /\ o.consumption = "NotConsumed" =>
                    c \notin charged /\ ~(session[s].asked = "commit" /\ session[s].tx = "writing")
             /\ o.consumption = "PossiblyConsumed" => c \in sent
             /\ o.policy # 0 => o.policy \in DOMAIN op[c].checks
  PROVE  Inv'
<1> DEFINE x == session[s]
<1>1. /\ session' = Released(s, outcome) /\ result' = [result EXCEPT ![c] = r]
      /\ decided' = [decided EXCEPT ![c] = NoAnswer] /\ pc' = [pc EXCEPT ![c] = "observe"]
  BY DEF Finish
<1>2. /\ x \in SessionType /\ x.at = c /\ x.user = c /\ Held(x) /\ Written(x)
      /\ \A q \in Session : q # s => session[q].user # c /\ session[q].at # c
      /\ c # None
  BY HeldFacts
<1>3. \A q \in Session : q # s => session'[q] = session[q]
  BY <1>1 DEF Released, Close, Inv, TypeInv
<1>4. \/ session'[s] = Unopened
      \/ /\ session'[s] \in SessionType /\ session'[s].user = c
         /\ session'[s].asked = x.asked /\ session'[s].tx = x.tx /\ session'[s].locked = x.locked
         /\ \/ session'[s].at = "orphan"
            \/ session'[s].at = "returning" /\ session'[s].broken = x.broken /\ outcome = "Reusable"
  <2>0. NoAnswer \in Results
    BY DEF NoAnswer, Results, Tag
  <2>1. CASE outcome = "Reusable"
    <3>1. session'[s] = [x EXCEPT !.at = "returning", !.answer = NoAnswer]
      BY <1>1, <2>1 DEF Released, Inv, TypeInv
    <3> QED BY <1>2, <2>0, <2>1, <3>1 DEF SessionType, Place
  <2>2. CASE outcome # "Reusable"
    <3>1. session'[s] = Unopened \/ session'[s] = [x EXCEPT !.at = "orphan", !.answer = NoAnswer, !.broken = FALSE]
      BY <1>1, <2>2 DEF Released, Close, Inv, TypeInv
    <3> QED BY <1>2, <2>0, <3>1 DEF SessionType, Place
  <2> QED BY <2>1, <2>2
<1>5. Unopened \in SessionType /\ Unopened.at = "free" /\ Unopened.user = None /\ Unopened.asked = "none"
  BY DEF Unopened, SessionType, Place, Results, NoAnswer, Tag
<1>6. pc'[c] = "observe" /\ decided'[c] = NoAnswer /\ result'[c] = r
  BY <1>1 DEF Inv, TypeInv
<1>7. TypeInv'
  <2>1. session' \in [Session -> SessionType]
    <3>1. session' = [q \in Session |-> session'[q]]
      BY <1>1 DEF Released, Close, Inv, TypeInv
    <3>2. \A q \in Session : session'[q] \in SessionType
      BY <1>3, <1>4, <1>5 DEF Inv, TypeInv
    <3> QED BY <3>1, <3>2
  <2>2. NoAnswer \in Results
    BY DEF NoAnswer, Results, Tag
  <2> QED BY <1>1, <2>1, <2>2 DEF Inv, TypeInv, Gone
<1>8. SessionInv'
  <2> SUFFICES ASSUME NEW q \in Session PROVE SessionOK(q)'
    BY DEF SessionInv
  <2>1. SessionOK(q) /\ TypeInv
    BY DEF Inv, SessionInv
  <2>2. CASE q # s
    <3>1. \A u \in Call : u = session[q].user => pc'[u] = pc[u] /\ decided'[u] = decided[u]
      BY <1>1, <1>2, <2>2 DEF Inv, TypeInv
    <3> QED BY <1>3, <2>1, <2>2, <3>1, SessionFrame
  <2>3. CASE q = s
    <3>1. session'[s].at \notin Call
      BY <1>4, <1>5, Distinct
    <3>2. Unheld(session[s])'
      BY <1>4, <1>5, <1>6 DEF Unheld, Gone
    <3>3. session'[s].asked = "commit" => session'[s].user \in sent
      BY <1>2, <1>4, <1>5, <2>1, <2>3 DEF SessionOK
    <3> QED BY <2>3, <3>1, <3>2, <3>3 DEF SessionOK
  <2> QED BY <2>2, <2>3
<1>9. UserUnique'
  BY <1>2, <1>3, <1>4, <1>5 DEF Inv, UserUnique
<1>10. CallInv'
  <2> SUFFICES ASSUME NEW d \in Call PROVE CallOK(d)'
    BY DEF CallInv
  <2>1. CASE d # c
    <3>1. CallOK(d) /\ (Pending(d)' => Pending(d))
      BY <1>3, <1>4, <1>5, <2>1, Distinct DEF Inv, CallInv, Pending
    <3> QED BY <1>1, <2>1, <3>1, CallFrame DEF Inv, TypeInv
  <2>2. CASE d = c
    <3>1. Pending(c)' => session[s].asked = "commit" /\ session[s].tx = "writing"
      BY <1>2, <1>3, <1>4, <1>5 DEF Pending
    <3>2. Truthful(c, ObservationOf(op[c], result[c]))'
      BY <1>6, <3>1 DEF Truthful
    <3>3. op'[c] = op[c]
      OBVIOUS
    <3> QED BY <1>6, <2>2, <3>2, <3>3, FinishedCall
  <2> QED BY <2>1, <2>2
<1> QED BY <1>7, <1>8, <1>9, <1>10 DEF Inv

\* A call sends its next request on a connection that works.  The caller shows that
\* the transaction holds what has been decided.
LEMMA SendInv ==
  ASSUME Inv, NEW c \in Call, NEW s \in Session, Awaits(c, s), NEW phase \in Awaiting, NEW d,
         Send(c, s, phase), decided' = [decided EXCEPT ![c] = d],
         UNCHANGED <<config, op, result, observed, charged>>,
         ~session[s].broken, session[s].tx # "unknown", c \notin sent,
         d \in Outcomes(op[c]) \cup {NoAnswer}, d \in Results,
         phase \in TimedPhases => ~IsMigration(op[c]),
         phase \in MigrationPhases => IsMigration(op[c]),
         phase \in {"begin", "prepare", "statement", "rollback"} => session[s].tx # "writing",
         phase \in {"prepare_commit", "commit"} => (session[s].tx = "writing" <=> Writes(d)),
         phase \in {"rollback", "prepare_commit", "commit"} => d \in Outcomes(op[c]),
         phase = "rollback" => RollsBack(d)
  PROVE  Inv'
<1> DEFINE x == session[s]
<1>1. /\ pc' = [pc EXCEPT ![c] = phase]
      /\ session' = [session EXCEPT ![s].asked = phase, ![s].answer = NoAnswer]
      /\ sent' = IF phase = "commit" THEN sent \cup {c} ELSE sent
  BY DEF Send
<1>2. /\ x \in SessionType /\ x.at = c /\ x.user = c /\ Held(x)
      /\ \A q \in Session : q # s => session[q].user # c /\ session[q].at # c
      /\ c # None
  BY HeldFacts
<1>3. session'[s] = [x EXCEPT !.asked = phase, !.answer = NoAnswer]
      /\ \A q \in Session : q # s => session'[q] = session[q]
  BY <1>1 DEF Inv, TypeInv
<1>4. NoAnswer \in Results
  BY DEF NoAnswer, Results, Tag
<1>5. /\ session'[s] \in SessionType
      /\ session'[s].at = c /\ session'[s].user = c /\ session'[s].asked = phase
      /\ session'[s].answer = NoAnswer /\ session'[s].tx = x.tx
      /\ session'[s].locked = x.locked /\ ~session'[s].broken
  BY <1>2, <1>3, <1>4 DEF SessionType
<1>6. pc'[c] = phase /\ decided'[c] = d /\ op'[c] = op[c]
  BY <1>1 DEF Inv, TypeInv
<1>7. TypeInv'
  <2>1. session' \in [Session -> SessionType]
    BY <1>1, <1>3, <1>5 DEF Inv, TypeInv
  <2> QED BY <1>1, <2>1 DEF Inv, TypeInv
<1>8. SessionInv'
  <2> SUFFICES ASSUME NEW q \in Session PROVE SessionOK(q)'
    BY DEF SessionInv
  <2>1. SessionOK(q) /\ TypeInv
    BY DEF Inv, SessionInv
  <2>2. CASE q # s
    <3>1. \A u \in Call : u = session[q].user => pc'[u] = pc[u] /\ decided'[u] = decided[u]
      BY <1>1, <1>2, <2>2 DEF Inv, TypeInv
    <3> QED BY <1>1, <1>3, <2>1, <2>2, <3>1, SessionFrame
  <2>3. CASE q = s
    <3>1. x.locked => IsMigration(op[c])
      BY <1>2 DEF Held
    <3>2. Held(session[s])'
      BY <1>5, <1>6, <3>1 DEF Held, NoAnswer
    <3>3. Written(session[s])'
      BY <1>5, <1>6 DEF Written, NoAnswer, Writes
    <3>4. Unheld(session[s])'
      BY <1>5, Distinct DEF Unheld
    <3> QED BY <2>3, <1>1, <1>5, <3>2, <3>3, <3>4 DEF SessionOK
  <2> QED BY <2>2, <2>3
<1>9. UserUnique'
  <2>1. \A p \in Session : session'[p].user = session[p].user
    BY <1>2, <1>3, <1>5
  <2> QED BY <2>1 DEF Inv, UserUnique
<1>10. CallInv'
  <2> SUFFICES ASSUME NEW e \in Call PROVE CallOK(e)'
    BY DEF CallInv
  <2>1. CASE e # c
    <3>1. CallOK(e) /\ (Pending(e)' => Pending(e))
      BY <1>3, <1>5, <2>1 DEF Inv, CallInv, Pending
    <3> QED BY <1>1, <2>1, <3>1, CallFrame DEF Inv, TypeInv
  <2>2. CASE e = c
    <3>1. c \notin charged'
      BY DEF Inv, TypeInv
    <3>2. phase = "commit" <=> c \in sent'
      BY <1>1
    <3>3. phase \notin Gone
      BY DEF Awaiting, TimedPhases, PreCommit, MigrationPhases, Gone
    <3> QED BY <1>6, <2>2, <3>1, <3>2, <3>3 DEF CallOK, Gone, TimedPhases, PreCommit, MigrationPhases
  <2> QED BY <2>1, <2>2
<1> QED BY <1>7, <1>8, <1>9, <1>10 DEF Inv

\* The deadline has passed before the next request, or the request is sent.
LEMMA ProceedInv ==
  ASSUME Inv, NEW c \in Call, NEW s \in Session, Awaits(c, s),
         NEW phase \in PreCommit \cup {"commit"}, NEW d,
         Proceed(c, s, phase, d),
         UNCHANGED <<config, op, observed, charged>>,
         ~session[s].broken, session[s].asked = "none", session[s].tx # "unknown", c \notin sent, ~IsMigration(op[c]),
         d \in Outcomes(op[c]) \cup {NoAnswer}, d \in Results,
         phase \in {"begin", "prepare", "statement"} => session[s].tx # "writing",
         phase \in {"prepare_commit", "commit"} =>
            d \in Outcomes(op[c]) /\ (session[s].tx = "writing" <=> Writes(d))
  PROVE  Inv'
<1>1. CASE /\ Send(c, s, phase)
           /\ decided' = [decided EXCEPT ![c] = d]
           /\ UNCHANGED result
  <2>1. phase \in Awaiting /\ phase \notin MigrationPhases /\ phase # "rollback"
    BY DEF Awaiting, TimedPhases, PreCommit, MigrationPhases
  <2> QED BY <1>1, <2>1, SendInv
<1>2. CASE /\ Finish(c, s, "Reusable", Failure(d, "timed_out_before_commit"))
           /\ UNCHANGED sent
  <2> DEFINE r == Failure(d, "timed_out_before_commit")
  <2> DEFINE o == ObservationOf(op[c], r)
  <2>1. r \in Results
    BY DEF Failure, Results, Tag, CheckErrors
  <2>2. "timed_out_before_commit" \in CheckErrors /\ Consumption("timed_out_before_commit") = "NotConsumed"
    BY DEF CheckErrors, Consumption
  <2>3. o.consumption = "NotConsumed" /\ (o.policy # 0 => o.policy \in DOMAIN op[c].checks)
    BY <2>2, FailureReported DEF Inv, TypeInv
  <2>4. c \notin charged /\ ~session[s].locked
    BY HeldFacts DEF Held, Inv, TypeInv
  <2>5. Finish(c, s, "Reusable", r) /\ UNCHANGED sent
    BY <1>2
  <2>6. r.is \notin Denials
    BY DEF Failure, Denials
  <2> HIDE DEF r
  <2> QED BY <2>1, <2>3, <2>4, <2>5, <2>6, FinishInv
<1> QED BY <1>1, <1>2 DEF Proceed

\* The decision is reported as it stands once nothing can change it any more.
LEMMA FinishDecided ==
  ASSUME Inv, NEW c \in Call, NEW s \in Session, Awaits(c, s), NEW outcome, NEW d \in Results,
         Finish(c, s, outcome, d), UNCHANGED <<config, op, observed, sent, charged>>,
         outcome = "Reusable" => session[s].broken \/ (session[s].asked = "none" /\ session[s].tx # "unknown"),
         ~IsMigration(op[c]), d \in Outcomes(op[c]),
         Writes(d) => c \in charged,
         ~Writes(d) => c \notin charged /\ ~(session[s].asked = "commit" /\ session[s].tx = "writing")
  PROVE  Inv'
<1> DEFINE o == ObservationOf(op[c], d)
<1>1. /\ o.consumption = IF Writes(d) THEN "Consumed" ELSE "NotConsumed"
      /\ o.policy # 0 => o.policy \in DOMAIN op[c].checks
  BY OutcomeReported DEF Inv, TypeInv
<1>2. ~session[s].locked
  BY HeldFacts DEF Held
<1> QED BY <1>1, <1>2, FinishInv

\* A failure is reported with the certainty its phase allows.
LEMMA FinishFailed ==
  ASSUME Inv, NEW c \in Call, NEW s \in Session, Awaits(c, s), NEW outcome,
         NEW error \in CheckErrors, NEW d \in Outcomes(op[c]) \cup {NoAnswer}, d \in Results,
         Finish(c, s, outcome, Failure(d, error)), UNCHANGED <<config, op, observed, sent, charged>>,
         outcome = "Reusable" => session[s].broken \/ (session[s].asked = "none" /\ session[s].tx # "unknown"),
         ~IsMigration(op[c]),
         \/ c \notin sent /\ Consumption(error) = "NotConsumed"
         \/ /\ c \in sent /\ Consumption(error) = "PossiblyConsumed"
            /\ ~Writes(d) => c \notin charged /\ ~(session[s].asked = "commit" /\ session[s].tx = "writing")
  PROVE  Inv'
<1> DEFINE r == Failure(d, error)
<1> DEFINE o == ObservationOf(op[c], r)
<1>1. /\ o.consumption = IF d.is = "no_slot" THEN "NotConsumed" ELSE Consumption(error)
      /\ d.is = "no_slot" => ~Writes(d)
      /\ o.policy # 0 => o.policy \in DOMAIN op[c].checks
  BY FailureReported DEF Inv, TypeInv
<1>2. ~session[s].locked
  BY HeldFacts DEF Held
<1>3. c \notin sent => c \notin charged /\ session[s].asked # "commit"
  BY HeldFacts DEF Inv, TypeInv, SessionInv, SessionOK
<1>4. r \in Results
  BY DEF Failure, Results, Tag
<1>5. Finish(c, s, outcome, r)
  OBVIOUS
<1>6. r.is \notin Denials
  BY DEF Failure, CheckErrors, Denials
<1> HIDE DEF r
<1> QED BY <1>1, <1>2, <1>3, <1>4, <1>5, <1>6, FinishInv

\* An answer that carries data was read from a working connection that is quiet now.
LEMMA AnsweredFacts ==
  ASSUME Inv, NEW c \in Call, NEW s \in Session, Awaits(c, s),
         session[s].answer.is \notin {"none", "error"}
  PROVE  /\ ~session[s].broken /\ session[s].asked = "none" /\ session[s].tx # "unknown"
         /\ session[s].answer \in Answers(pc[c], op[c])
         /\ op[c] \in Operation /\ CallOK(c) /\ pc[c] \in Awaiting
         /\ Held(session[s]) /\ Written(session[s])
<1>1. Held(session[s]) /\ Written(session[s]) /\ session[s].at = c
  BY HeldFacts
<1>2. op[c] \in Operation /\ CallOK(c)
  BY DEF Inv, TypeInv, CallInv
<1> QED BY <1>1, <1>2 DEF Held, NoAnswer

\* Advance preserves the invariant.
LEMMA AdvanceInv ==
  ASSUME Inv, NEW c \in Call, NEW s \in Session, Advance(c, s)
  PROVE  Inv'
<1> DEFINE a == session[s].answer
<1>1. Awaits(c, s) /\ UNCHANGED <<config, op, observed, charged>>
  BY DEF Advance
<1>2. NoAnswer \in Results /\ decided[c] \in Results
  BY DEF NoAnswer, Results, Tag, Inv, TypeInv
<1>3. CASE /\ (pc[c] = "begin" /\ a.is = "ok") \/ (pc[c] = "statement" /\ a.is = "more")
           /\ Proceed(c, s, "prepare", NoAnswer)
  <2>1. /\ ~session[s].broken /\ session[s].asked = "none" /\ session[s].tx # "unknown"
        /\ CallOK(c) /\ session[s].at = c
        /\ Held(session[s]) /\ Written(session[s])
    BY <1>1, <1>3, AnsweredFacts DEF Awaits
  <2>2. c \notin sent /\ ~IsMigration(op[c])
    BY <1>3, <2>1 DEF CallOK, PreCommit, TimedPhases
  <2>3. session[s].tx # "writing"
    BY <1>3, <2>1 DEF Written, Writes
  <2> QED BY <1>1, <1>2, <1>3, <2>1, <2>2, <2>3, ProceedInv DEF PreCommit
<1>4. CASE pc[c] = "prepare" /\ a.is = "ok" /\ Proceed(c, s, "statement", NoAnswer)
  <2>1. /\ ~session[s].broken /\ session[s].asked = "none" /\ session[s].tx # "unknown"
        /\ CallOK(c) /\ session[s].at = c
        /\ Held(session[s]) /\ Written(session[s])
    BY <1>1, <1>4, AnsweredFacts DEF Awaits
  <2>2. c \notin sent /\ ~IsMigration(op[c])
    BY <1>4, <2>1 DEF CallOK, PreCommit, TimedPhases
  <2>3. session[s].tx # "writing"
    BY <1>4, <2>1 DEF Written
  <2> QED BY <1>1, <1>2, <1>4, <2>1, <2>2, <2>3, ProceedInv DEF PreCommit
<1>5. CASE /\ pc[c] = "statement" /\ a.is \notin {"none", "more", "error", "timeout"}
           /\ Decide(c, s, Decision(op[c], a))
  <2> DEFINE d == Decision(op[c], a)
  <2>1. /\ ~session[s].broken /\ session[s].asked = "none" /\ session[s].tx # "unknown"
        /\ CallOK(c) /\ session[s].at = c
        /\ a \in Answers("statement", op[c]) /\ op[c] \in Operation
        /\ Held(session[s]) /\ Written(session[s])
    BY <1>1, <1>5, AnsweredFacts DEF Awaits
  <2>2. c \notin sent /\ ~IsMigration(op[c])
    BY <1>5, <2>1 DEF CallOK, PreCommit, TimedPhases
  <2>3. /\ d \in Outcomes(op[c]) \/ d = Result("storage_invariant", 0)
        /\ d.is # "storage_invariant" => d \in Outcomes(op[c]) /\ (Writes(d) <=> Writes(a))
    BY <1>5, <2>1, <2>2, DecisionOutcome
  <2>4. session[s].tx = "writing" <=> Writes(a)
    BY <1>5, <2>1 DEF Written
  <2>5. Decide(c, s, d)
    BY <1>5
  <2> HIDE DEF d
  <2>6. d \in Results
    BY <2>1, <2>2, <2>3, OutcomesTyped DEF Results, Tag, CheckErrors
  <2>7. CASE d.is = "storage_invariant" /\ Finish(c, s, "Reusable", d) /\ UNCHANGED sent
    <3>1. d = Failure(NoAnswer, "storage_invariant")
      BY <2>1, <2>2, <2>3, <2>7, OutcomesTyped DEF Failure, NoAnswer
    <3>2. "storage_invariant" \in CheckErrors /\ Consumption("storage_invariant") = "NotConsumed"
      BY DEF CheckErrors, Consumption
    <3> QED BY <1>1, <1>2, <2>1, <2>2, <2>7, <3>1, <3>2, FinishFailed
  <2>8. CASE /\ RollsBack(d) /\ Send(c, s, "rollback")
             /\ decided' = [decided EXCEPT ![c] = d] /\ UNCHANGED result
    <3>1. d \in Outcomes(op[c]) /\ ~Writes(d) /\ d.is # "storage_invariant"
      BY <2>3, <2>8 DEF RollsBack, Writes
    <3>2. session[s].tx # "writing"
      BY <2>3, <2>4, <3>1
    <3> QED BY <1>1, <2>1, <2>2, <2>6, <2>8, <3>1, <3>2, SendInv
        DEF Awaiting, TimedPhases, PreCommit, MigrationPhases
  <2>9. CASE /\ ~RollsBack(d) /\ d.is # "storage_invariant" /\ Proceed(c, s, "prepare_commit", d)
    BY <1>1, <2>1, <2>2, <2>3, <2>4, <2>6, <2>9, ProceedInv DEF PreCommit
  <2> QED BY <2>5, <2>7, <2>8, <2>9 DEF Decide
<1>6. CASE pc[c] = "prepare_commit" /\ a.is = "ok" /\ Proceed(c, s, "commit", decided[c])
  <2>1. /\ ~session[s].broken /\ session[s].asked = "none" /\ session[s].tx # "unknown"
        /\ CallOK(c) /\ session[s].at = c
        /\ Held(session[s]) /\ Written(session[s])
    BY <1>1, <1>6, AnsweredFacts DEF Awaits
  <2>2. c \notin sent /\ ~IsMigration(op[c]) /\ decided[c] \in Outcomes(op[c])
    BY <1>6, <2>1 DEF CallOK, PreCommit, TimedPhases
  <2>3. session[s].tx = "writing" <=> Writes(decided[c])
    BY <1>6, <2>1 DEF Written
  <2> QED BY <1>1, <1>2, <1>6, <2>1, <2>2, <2>3, ProceedInv
<1>7. CASE /\ (pc[c] = "rollback" /\ a.is = "ok") \/ (pc[c] = "commit" /\ a.is = "ok")
           /\ Finish(c, s, "Reusable", decided[c])
           /\ UNCHANGED sent
  <2>1. /\ ~session[s].broken /\ session[s].asked = "none" /\ session[s].tx # "unknown"
        /\ CallOK(c) /\ session[s].at = c
        /\ Held(session[s]) /\ Written(session[s])
    BY <1>1, <1>7, AnsweredFacts DEF Awaits
  <2>2. ~IsMigration(op[c]) /\ decided[c] \in Outcomes(op[c])
    BY <1>7, <2>1 DEF CallOK, TimedPhases
  <2>3. Writes(decided[c]) => c \in charged
    BY <1>7, <2>1 DEF CallOK, Written, RollsBack, Writes
  <2>4. ~Writes(decided[c]) => c \notin charged
    BY <1>7, <2>1 DEF CallOK, Inv, TypeInv
  <2> QED BY <1>1, <1>2, <1>7, <2>1, <2>2, <2>3, <2>4, FinishDecided
<1> QED BY <1>3, <1>4, <1>5, <1>6, <1>7 DEF Advance

\* Fail preserves the invariant.
LEMMA FailInv ==
  ASSUME Inv, NEW c \in Call, NEW s \in Session, Fail(c, s)
  PROVE  Inv'
<1>1. /\ Awaits(c, s) /\ session[s].answer.is \in {"error", "timeout"}
      /\ UNCHANGED <<config, op, observed, sent, charged>>
  BY DEF Fail
<1>2. /\ session[s].at = c /\ Held(session[s]) /\ Written(session[s]) /\ CallOK(c)
      /\ decided[c] \in Results
  BY <1>1, HeldFacts DEF Inv, TypeInv, CallInv
<1>3. /\ session[s].broken \/ session[s].asked = "none"
      /\ pc[c] # "rollback" => session[s].tx # "unknown"
  BY <1>1, <1>2 DEF Held, NoAnswer
<1>4. decided[c] \in Outcomes(op[c]) \cup {NoAnswer}
  BY <1>2 DEF CallOK
<1>5. /\ "timed_out_before_commit" \in CheckErrors /\ Consumption("timed_out_before_commit") = "NotConsumed"
      /\ "definitely_not_consumed" \in CheckErrors /\ Consumption("definitely_not_consumed") = "NotConsumed"
      /\ "commit_outcome_unknown" \in CheckErrors /\ Consumption("commit_outcome_unknown") = "PossiblyConsumed"
  BY DEF CheckErrors, Consumption
<1>6. CASE pc[c] \in PreCommit
  <2>1. c \notin sent /\ ~IsMigration(op[c]) /\ pc[c] # "rollback"
    BY <1>2, <1>6 DEF CallOK, PreCommit, TimedPhases
  <2>2. PICK error \in CheckErrors : Consumption(error) = "NotConsumed"
                                     /\ Finish(c, s, "Reusable", Failure(decided[c], error))
    BY <1>1, <1>5, <1>6 DEF Fail, PreCommit
  <2> QED BY <1>1, <1>2, <1>3, <1>4, <2>1, <2>2, FinishFailed
<1>7. CASE pc[c] = "rollback"
  <2>1. /\ c \notin sent /\ ~IsMigration(op[c]) /\ decided[c] \in Outcomes(op[c])
        /\ ~Writes(decided[c])
    BY <1>2, <1>7 DEF CallOK, TimedPhases, RollsBack, Writes
  <2>2. c \notin charged /\ session[s].tx # "writing"
    BY <1>2, <1>7, <2>1 DEF Inv, TypeInv, Written
  <2>3. Finish(c, s, "MustClose", decided[c])
    BY <1>7 DEF Fail, PreCommit
  <2> QED BY <1>1, <1>2, <2>1, <2>2, <2>3, FinishDecided
<1>8. CASE pc[c] = "commit"
  <2>1. /\ c \in sent /\ ~IsMigration(op[c])
        /\ ~Writes(decided[c]) => c \notin charged
    BY <1>2, <1>8 DEF CallOK, TimedPhases
  <2>2. ~Writes(decided[c]) => ~(session[s].asked = "commit" /\ session[s].tx = "writing")
    BY <1>2, <1>8 DEF Written
  <2>3. Finish(c, s, "Reusable", Failure(decided[c], "commit_outcome_unknown"))
    BY <1>8 DEF Fail, PreCommit
  <2>4. pc[c] # "rollback"
    BY <1>8
  <2> QED BY <1>1, <1>2, <1>3, <1>4, <1>5, <2>1, <2>2, <2>3, <2>4, FinishFailed
<1> QED BY <1>6, <1>7, <1>8 DEF Fail

\* Deadline preserves the invariant.
LEMMA DeadlineInv ==
  ASSUME Inv, NEW c \in Call, NEW s \in Session, Deadline(c, s)
  PROVE  Inv'
<1>1. /\ Awaits(c, s) /\ pc[c] \in TimedPhases
      /\ UNCHANGED <<config, op, observed, sent, charged>>
  BY DEF Deadline
<1>2. /\ session[s].at = c /\ Held(session[s]) /\ Written(session[s]) /\ CallOK(c)
      /\ decided[c] \in Results
  BY <1>1, HeldFacts DEF Inv, TypeInv, CallInv
<1>3. ~IsMigration(op[c]) /\ decided[c] \in Outcomes(op[c]) \cup {NoAnswer}
  BY <1>1, <1>2 DEF CallOK
<1>4. /\ "timed_out_before_commit" \in CheckErrors /\ Consumption("timed_out_before_commit") = "NotConsumed"
      /\ "commit_timed_out" \in CheckErrors /\ Consumption("commit_timed_out") = "PossiblyConsumed"
  BY DEF CheckErrors, Consumption
<1>5. CASE pc[c] \in PreCommit
  <2>1. c \notin sent
    BY <1>2, <1>5 DEF CallOK
  <2>2. Finish(c, s, "MustClose", Failure(decided[c], "timed_out_before_commit"))
    BY <1>5 DEF Deadline, PreCommit
  <2> QED BY <1>1, <1>2, <1>3, <1>4, <2>1, <2>2, FinishFailed
<1>6. CASE pc[c] = "rollback"
  <2>1. /\ c \notin sent /\ decided[c] \in Outcomes(op[c]) /\ ~Writes(decided[c])
    BY <1>2, <1>6 DEF CallOK, RollsBack, Writes
  <2>2. c \notin charged /\ session[s].tx # "writing"
    BY <1>2, <1>6, <2>1 DEF Inv, TypeInv, Written
  <2>3. Finish(c, s, "MustClose", decided[c])
    BY <1>6 DEF Deadline, PreCommit
  <2> QED BY <1>1, <1>2, <1>3, <2>1, <2>2, <2>3, FinishDecided
<1>7. CASE pc[c] = "commit"
  <2>1. c \in sent /\ (~Writes(decided[c]) => c \notin charged)
    BY <1>2, <1>7 DEF CallOK
  <2>2. ~Writes(decided[c]) => ~(session[s].asked = "commit" /\ session[s].tx = "writing")
    BY <1>2, <1>7 DEF Written
  <2>3. Finish(c, s, "MustClose", Failure(decided[c], "commit_timed_out"))
    BY <1>7 DEF Deadline, PreCommit
  <2> QED BY <1>1, <1>2, <1>3, <1>4, <2>1, <2>2, <2>3, FinishFailed
<1> QED BY <1>1, <1>5, <1>6, <1>7 DEF TimedPhases

\* A migration reports nothing; its connection goes back to the pool only unlocked.
LEMMA FinishMigration ==
  ASSUME Inv, NEW c \in Call, NEW s \in Session, Awaits(c, s), NEW outcome, NEW r \in Results,
         Finish(c, s, outcome, r), UNCHANGED <<config, op, observed, sent, charged>>,
         IsMigration(op[c]), pc[c] \in MigrationPhases,
         outcome = "Reusable" => session[s].asked = "none" /\ ~session[s].locked,
         r.is \notin Denials
  PROVE  Inv'
<1>1. ObservationOf(op[c], r) = Silent
  BY DEF ObservationOf, IsMigration, IsAdmission, IsAttempt
<1>2. c \notin sent /\ c \notin charged
  BY DEF Inv, TypeInv, CallInv, CallOK
<1>3. session[s].asked # "commit"
  BY <1>2, HeldFacts DEF Inv, SessionInv, SessionOK
<1> DEFINE o == ObservationOf(op[c], r)
<1>4. o.consumption = "NotConsumed" /\ o.policy = 0
  BY <1>1 DEF Silent, Observation
<1>6. session[s].tx # "unknown"
  BY HeldFacts DEF Held, MigrationPhases
<1> HIDE DEF o
<1>5. o = ObservationOf(op[c], r)
  BY DEF o
<1> QED BY <1>2, <1>3, <1>4, <1>5, <1>6, FinishInv

\* Migrate preserves the invariant.
LEMMA MigrateInv ==
  ASSUME Inv, NEW c \in Call, NEW s \in Session, Migrate(c, s)
  PROVE  Inv'
<1> DEFINE a == session[s].answer
<1>1. Awaits(c, s) /\ IsMigration(op[c]) /\ UNCHANGED <<config, op, observed, charged>>
  BY DEF Migrate
<1>2. /\ session[s].at = c /\ Held(session[s]) /\ Written(session[s]) /\ CallOK(c)
      /\ decided[c] \in Results /\ pc[c] \in MigrationPhases
  <2>1. session[s].at = c /\ Held(session[s]) /\ Written(session[s]) /\ CallOK(c) /\ decided[c] \in Results
    BY <1>1, HeldFacts DEF Inv, TypeInv, CallInv
  <2> QED BY <1>1, <2>1 DEF Held, CallOK, Awaiting
<1>3. CASE /\ pc[c] \in DOMAIN AfterMigrationPhase /\ a.is = "ok"
           /\ Send(c, s, AfterMigrationPhase[pc[c]])
           /\ UNCHANGED <<decided, result>>
  <2> DEFINE phase == AfterMigrationPhase[pc[c]]
  <2>1. phase \in {"run", "unlock"} /\ phase \in MigrationPhases /\ phase \in Awaiting /\ phase \notin TimedPhases
    BY <1>3 DEF AfterMigrationPhase, MigrationPhases, Awaiting, TimedPhases, PreCommit
  <2>2. ~session[s].broken /\ session[s].tx # "unknown" /\ c \notin sent /\ decided[c] \in Outcomes(op[c]) \cup {NoAnswer}
    BY <1>2, <1>3 DEF Held, CallOK
  <2>3. decided' = [decided EXCEPT ![c] = decided[c]]
    BY <1>3 DEF Inv, TypeInv
  <2>4. Send(c, s, phase)
    BY <1>3
  <2> HIDE DEF phase
  <2> QED BY <1>1, <1>2, <1>3, <2>1, <2>2, <2>3, <2>4, SendInv
<1>4. CASE /\ pc[c] = "unlock" /\ a.is = "ok"
           /\ Finish(c, s, MigrationOutcome(op[c], TRUE), Result("migrated", 0))
           /\ UNCHANGED sent
  <2>1. session[s].asked = "none" /\ ~session[s].locked
    BY <1>2, <1>4 DEF Held, NoAnswer
  <2>2. Result("migrated", 0) \in Results /\ Result("migrated", 0).is \notin Denials
    BY DEF Results, Tag, Denials
  <2> QED BY <1>1, <1>2, <1>4, <2>1, <2>2, FinishMigration
<1>5. CASE /\ a.is \in {"error", "timeout"}
           /\ Finish(c, s, MigrationOutcome(op[c], FALSE), Result("migration_failed", 0))
           /\ UNCHANGED sent
  <2>1. MigrationOutcome(op[c], FALSE) # "Reusable"
    BY DEF MigrationOutcome
  <2>2. Result("migration_failed", 0) \in Results /\ Result("migration_failed", 0).is \notin Denials
    BY DEF Results, Tag, Denials
  <2> QED BY <1>1, <1>2, <1>5, <2>1, <2>2, FinishMigration
<1> QED BY <1>3, <1>4, <1>5 DEF Migrate

\* The future is dropped: with the guard armed the connection is closed.
LEMMA DropInv ==
  ASSUME Inv, NEW c \in Call, Drop(c)
  PROVE  Inv'
<1>1. /\ pc[c] \notin {"new", "observe", "returned", "dropped"} /\ pc' = [pc EXCEPT ![c] = "dropped"]
      /\ decided' = [decided EXCEPT ![c] = NoAnswer]
      /\ UNCHANGED <<config, op, result, observed, sent, charged>>
  BY DEF Drop
<1>2. pc'[c] = "dropped" /\ decided'[c] = NoAnswer
      /\ \A d \in Call : d # c => pc'[d] = pc[d] /\ decided'[d] = decided[d]
  BY <1>1 DEF Inv, TypeInv
<1>3. NoAnswer \in Results
  BY DEF NoAnswer, Results, Tag
<1>4. CallOK(c)'
  BY <1>2 DEF CallOK, TimedPhases, PreCommit, MigrationPhases
<1>5. CASE Acquiring(c) /\ UNCHANGED session
  <2>1. TypeInv'
    BY <1>1, <1>3, <1>5 DEF Inv, TypeInv, Gone
  <2>2. \A s \in Session : session[s].user # c
    BY <1>5, UserFacts DEF Acquiring, Awaiting, Gone, TimedPhases, PreCommit, MigrationPhases
  <2>3. SessionInv'
    <3> SUFFICES ASSUME NEW s \in Session PROVE SessionOK(s)'
      BY DEF SessionInv
    <3>1. SessionOK(s) /\ TypeInv
      BY DEF Inv, SessionInv
    <3> QED BY <1>1, <1>2, <1>5, <2>2, <3>1, SessionFrame
  <2>4. CallInv'
    <3> SUFFICES ASSUME NEW d \in Call, d # c PROVE CallOK(d)'
      BY <1>4 DEF CallInv
    <3>1. CallOK(d) /\ (Pending(d)' => Pending(d))
      BY <1>5 DEF Inv, CallInv, Pending
    <3> QED BY <1>1, <1>2, <3>1, CallFrame
  <2> QED BY <1>5, <2>1, <2>3, <2>4 DEF Inv, UserUnique
<1>6. CASE \E s \in Session : Awaits(c, s) /\ session' = Released(s, OnDrop)
  <2>1. PICK s \in Session : Awaits(c, s) /\ session' = Released(s, OnDrop)
    BY <1>6
  <2> DEFINE x == session[s]
  <2>2. /\ x \in SessionType /\ x.at = c /\ x.user = c
        /\ \A q \in Session : q # s => session[q].user # c /\ session[q].at # c
        /\ c # None
    BY <2>1, HeldFacts
  <2>3. \A q \in Session : q # s => session'[q] = session[q]
    BY <2>1 DEF Released, Close, Inv, TypeInv
  <2>4. session'[s] = Unopened \/ session'[s] = [x EXCEPT !.at = "orphan", !.answer = NoAnswer, !.broken = FALSE]
    BY <2>1 DEF Released, Close, OnDrop, Inv, TypeInv
  <2>5. /\ Unopened \in SessionType /\ Unopened.at = "free" /\ Unopened.user = None
        /\ Unopened.asked = "none"
    BY <1>3 DEF Unopened, SessionType, Place
  <2>6. \/ session'[s] = Unopened
        \/ /\ session'[s] \in SessionType /\ session'[s].user = c /\ session'[s].at = "orphan"
           /\ session'[s].asked = x.asked /\ session'[s].tx = x.tx
    BY <1>3, <2>2, <2>4 DEF SessionType, Place
  <2>7. TypeInv'
    <3>1. session' = [q \in Session |-> session'[q]]
      BY <2>1 DEF Released, Close, Inv, TypeInv
    <3>2. \A q \in Session : session'[q] \in SessionType
      BY <2>3, <2>5, <2>6 DEF Inv, TypeInv
    <3>3. session' \in [Session -> SessionType]
      BY <3>1, <3>2
    <3> QED BY <1>1, <1>3, <3>3 DEF Inv, TypeInv, Gone
  <2>8. SessionInv'
    <3> SUFFICES ASSUME NEW q \in Session PROVE SessionOK(q)'
      BY DEF SessionInv
    <3>1. SessionOK(q) /\ TypeInv
      BY DEF Inv, SessionInv
    <3>2. CASE q # s
      BY <1>1, <1>2, <2>2, <2>3, <3>1, <3>2, SessionFrame
    <3>3. CASE q = s
      <4>1. session'[s].at \notin Call /\ Unheld(session[s])'
        BY <1>2, <2>5, <2>6, Distinct DEF Unheld, Gone
      <4>2. session'[s].asked = "commit" => session'[s].user \in sent
        BY <2>2, <2>5, <2>6, <3>1, <3>3 DEF SessionOK
      <4> QED BY <1>1, <3>3, <4>1, <4>2 DEF SessionOK
    <3> QED BY <3>2, <3>3
  <2>9. UserUnique'
    BY <2>2, <2>3, <2>5, <2>6 DEF Inv, UserUnique
  <2>10. CallInv'
    <3> SUFFICES ASSUME NEW d \in Call, d # c PROVE CallOK(d)'
      BY <1>4 DEF CallInv
    <3>1. CallOK(d) /\ (Pending(d)' => Pending(d))
      BY <2>3, <2>5, <2>6, Distinct DEF Inv, CallInv, Pending
    <3> QED BY <1>1, <1>2, <3>1, CallFrame
  <2> QED BY <2>7, <2>8, <2>9, <2>10 DEF Inv
<1> QED BY <1>5, <1>6 DEF Drop

----------------------------------------------------------------------------
(* Steps of the server, the network and the pool                           *)

\* Calls do not move: the invariant follows from what becomes of one session.
LEMMA ExternalInv ==
  ASSUME Inv, NEW s \in Session, UNCHANGED <<config, pc, op, decided, result, observed, sent>>,
         session' = [session EXCEPT ![s] = session'[s]],
         session'[s] \in SessionType, SessionOK(s)',
         session'[s].user \in {session[s].user, None},
         \A c \in Call : c = session'[s].user /\ session'[s].asked = "commit" /\ session'[s].tx = "writing"
            => session[s].asked = "commit" /\ session[s].tx = "writing",
         charged' = charged \/ /\ session[s].asked = "commit" /\ session[s].tx = "writing"
                               /\ session[s].user \in Call
                               /\ charged' = charged \cup {session[s].user}
                               /\ Writes(decided[session[s].user]) \/ pc[session[s].user] # "commit"
  PROVE  Inv'
<1>1. \A q \in Session : q # s => session'[q] = session[q]
  BY DEF Inv, TypeInv
<1>2. session[s] \in SessionType /\ SessionOK(s)
  BY DEF Inv, TypeInv, SessionInv
<1>3. charged \subseteq charged' /\ charged' \subseteq sent
  BY <1>2 DEF Inv, TypeInv, SessionOK
<1>4. TypeInv'
  BY <1>3 DEF Inv, TypeInv
<1>5. SessionInv'
  <2> SUFFICES ASSUME NEW q \in Session, q # s PROVE SessionOK(q)'
    BY DEF SessionInv
  <2>1. SessionOK(q) /\ TypeInv
    BY DEF Inv, SessionInv
  <2> QED BY <1>1, <1>3, <2>1, SessionFrame
<1>6. UserUnique'
  BY <1>1 DEF Inv, UserUnique
<1>7. CallInv'
  <2> SUFFICES ASSUME NEW c \in Call PROVE CallOK(c)'
    BY DEF CallInv
  <2>1. CallOK(c)
    BY DEF Inv, CallInv
  <2>2. Pending(c)' => Pending(c)
    BY <1>1, Distinct DEF Pending
  <2>3. CASE c \in charged <=> c \in charged'
    BY <2>1, <2>2, <2>3, CallFrame
  <2>4. CASE c \in charged' /\ c \notin charged
    <3>1. Pending(c) /\ c \in sent /\ (Writes(decided[c]) \/ pc[c] # "commit")
      BY <1>3, <2>4 DEF Pending
    <3>2. ASSUME NEW o, Truthful(c, o) PROVE Truthful(c, o)'
      BY <2>4, <3>1, <3>2 DEF Truthful
    <3> QED BY <2>1, <3>1, <3>2 DEF CallOK
  <2> QED BY <1>3, <2>3, <2>4
<1> QED BY <1>4, <1>5, <1>6, <1>7 DEF Inv

\* Only a connection in use, one that broke on its way back and a closed one have
\* work for the server, and it is done for a call.
LEMMA AskedFacts ==
  ASSUME Inv, NEW s \in Session, session[s].asked # "none"
  PROVE  /\ session[s] \in SessionType /\ session[s].user \in Call
         /\ \/ /\ session[s].at \in Call /\ session[s].at = session[s].user
               /\ Held(session[s]) /\ Written(session[s])
               /\ session[s].asked = pc[session[s].user]
               /\ session[s].broken \/ session[s].answer = NoAnswer
            \/ session[s].at = "orphan" /\ pc[session[s].user] \in Gone
            \/ session[s].at = "returning" /\ session[s].broken /\ pc[session[s].user] \in Gone
<1>1. session[s] \in SessionType /\ SessionOK(s)
  BY DEF Inv, TypeInv, SessionInv
<1>2. session[s].at \in Call \cup Place
  BY <1>1 DEF SessionType
<1>3. CASE session[s].at \in Call
  BY <1>1, <1>3 DEF SessionOK, Held
<1>4. CASE session[s].at \in Place
  BY <1>1, <1>4 DEF SessionOK, Unheld, Unopened, Place
<1> QED BY <1>1, <1>2, <1>3, <1>4

\* Serve preserves the invariant.
LEMMA ServeInv ==
  ASSUME Inv, NEW s \in Session, Serve(s)
  PROVE  Inv'
<1> DEFINE x == session[s]
<1> DEFINE c == x.user
<1> DEFINE y == session'[s]
<1>1. x.asked # "none" /\ UNCHANGED <<config, pc, op, decided, result, observed, sent>>
  BY DEF Serve
<1>2. /\ x \in SessionType /\ c \in Call
      /\ \/ /\ x.at \in Call /\ x.at = c /\ Held(x) /\ Written(x) /\ x.asked = pc[c]
            /\ x.broken \/ x.answer = NoAnswer
         \/ x.at = "orphan" /\ pc[c] \in Gone
         \/ x.at = "returning" /\ x.broken /\ pc[c] \in Gone
  BY <1>1, AskedFacts
<1>3. PICK a \in Answers(x.asked, op[c]) :
        /\ session' = [session EXCEPT
             ![s].asked = "none",
             ![s].answer = IF x.broken \/ x.at = "orphan" THEN @ ELSE a,
             ![s].tx = CASE x.asked = "begin" /\ a.is = "ok" -> "open"
                         [] x.asked = "statement" /\ Writes(a) -> "writing"
                         [] x.asked = "rollback" -> IF a.is = "ok" THEN "none" ELSE "unknown"
                         [] x.asked = "commit" -> "none"
                         [] OTHER -> @,
             ![s].locked = (@ \/ (x.asked = "lock" /\ a.is = "ok"))
                           /\ ~(x.asked = "unlock" /\ a.is = "ok")]
        /\ charged' = IF x.asked = "commit" /\ a.is = "ok" /\ x.tx = "writing"
                      THEN charged \cup {c} ELSE charged
  BY DEF Serve
<1>4. /\ y.at = x.at /\ y.user = c /\ y.asked = "none" /\ y.broken = x.broken
      /\ y.answer = IF x.broken \/ x.at = "orphan" THEN x.answer ELSE a
      /\ y.tx = CASE x.asked = "begin" /\ a.is = "ok" -> "open"
                  [] x.asked = "statement" /\ Writes(a) -> "writing"
                  [] x.asked = "rollback" -> IF a.is = "ok" THEN "none" ELSE "unknown"
                  [] x.asked = "commit" -> "none"
                  [] OTHER -> x.tx
      /\ y.locked = ((x.locked \/ (x.asked = "lock" /\ a.is = "ok"))
                     /\ ~(x.asked = "unlock" /\ a.is = "ok"))
  BY <1>2, <1>3 DEF Inv, TypeInv, SessionType
<1>5. y.tx \in {"none", "open", "writing", "unknown"}
  BY <1>2, <1>4 DEF SessionType
<1>6. op[c] \in Operation /\ CallOK(c)
  BY <1>2 DEF Inv, TypeInv, CallInv
<1>7. y \in SessionType
  <2>1. ~x.broken /\ x.at # "orphan" => a \in Results
    <3>1. ASSUME ~x.broken, x.at # "orphan" PROVE IsMigration(op[c]) => x.asked # "statement"
      BY <1>2, <1>6, <3>1 DEF CallOK, TimedPhases, PreCommit
    <3> QED BY <1>6, <3>1, AnswersTyped
  <2>2. y = [x EXCEPT !.asked = y.asked, !.answer = y.answer, !.tx = y.tx, !.locked = y.locked]
    BY <1>2, <1>3 DEF Inv, TypeInv, SessionType
  <2>3. y.answer \in Results
    BY <1>2, <1>4, <2>1 DEF SessionType
  <2>4. y.locked \in BOOLEAN
    BY <1>4
  <2> HIDE DEF y
  <2> QED BY <1>2, <1>4, <1>5, <2>2, <2>3, <2>4 DEF SessionType, y
<1>8. session' = [session EXCEPT ![s] = y]
  BY <1>3 DEF Inv, TypeInv
<1>9. SessionOK(s)'
  <2>1. Unheld(session[s])'
    BY <1>1, <1>2, <1>4, Distinct DEF Unheld
  <2>2. ASSUME x.at \in Call PROVE Held(session[s])'
    <3>1. x.at = c /\ Held(x) /\ x.asked = pc[c] /\ (x.broken \/ x.answer = NoAnswer) /\ x.at # "orphan"
      BY <1>2, <2>2, Distinct
    <3>2. pc[c] \in MigrationPhases => IsMigration(op[c])
      BY <1>6 DEF CallOK
    <3>3. y.locked => IsMigration(op[c])
      BY <1>4, <3>1, <3>2 DEF Held, MigrationPhases
    <3>4. y.answer \in {NoAnswer, Result("error", 0)} \cup Answers(pc[c], op[c])
      BY <1>4, <3>1 DEF Held
    <3>5. pc[c] = "unlock" /\ y.answer.is = "ok" => ~y.locked
      <4>1. CASE x.broken
        BY <1>4, <3>1, <4>1 DEF Held
      <4>2. CASE ~x.broken
        BY <1>4, <3>1, <4>2
      <4> QED BY <4>1, <4>2
    <3>6. y.tx = "unknown" => pc[c] = "rollback" /\ y.answer.is = "error"
      <4>1. CASE x.asked = "rollback"
        <5>1. \A b \in Answers("rollback", op[c]) : b.is \in {"ok", "error"}
          BY DEF Answers, PreCommit
        <5> QED BY <1>4, <3>1, <4>1, <5>1 DEF Held
      <4>2. CASE x.asked # "rollback"
        <5>1. x.tx # "unknown"
          BY <3>1, <4>2 DEF Held
        <5> QED BY <1>4, <4>2, <5>1
      <4> QED BY <4>1, <4>2
    <3> QED BY <1>1, <1>4, <3>1, <3>3, <3>4, <3>5, <3>6 DEF Held
  <2>3. ASSUME x.at \in Call PROVE Written(session[s])'
    <3>1. /\ x.at = c /\ Held(x) /\ Written(x) /\ x.asked = pc[c] /\ (x.broken \/ x.answer = NoAnswer)
          /\ x.at # "orphan"
      BY <1>2, <2>3, Distinct
    <3>2. pc[c] \in {"begin", "prepare", "rollback"} => y.tx # "writing"
      BY <1>4, <3>1 DEF Written
    <3>3. pc[c] = "statement" /\ ~x.broken => (y.tx = "writing" <=> Writes(y.answer))
      BY <1>4, <3>1 DEF Written, NoAnswer, Writes
    <3>4. pc[c] = "prepare_commit" => (y.tx = "writing" <=> Writes(decided[c]))
      BY <1>4, <3>1 DEF Written
    <3>5. pc[c] = "commit" /\ y.answer.is = "ok" /\ Writes(decided[c]) => c \in charged'
      BY <1>3, <1>4, <3>1 DEF Written, Held
    <3> QED BY <1>1, <1>4, <3>1, <3>2, <3>3, <3>4, <3>5 DEF Written
  <2> QED BY <1>4, <2>1, <2>2, <2>3 DEF SessionOK
<1>10. \/ charged' = charged
       \/ /\ x.asked = "commit" /\ x.tx = "writing" /\ c \in Call /\ charged' = charged \cup {c}
          /\ Writes(decided[c]) \/ pc[c] # "commit"
  BY <1>2, <1>3 DEF Written, Gone
<1> HIDE DEF c
<1>11. c = session[s].user
  BY DEF c
<1> QED BY <1>1, <1>4, <1>7, <1>8, <1>9, <1>10, <1>11, ExternalInv

\* Break preserves the invariant.
LEMMA BreakInv ==
  ASSUME Inv, NEW s \in Session, Break(s)
  PROVE  Inv'
<1> DEFINE x == session[s]
<1> DEFINE y == session'[s]
<1> DEFINE left == IF x.at \in Call THEN Result("error", 0) ELSE NoAnswer
<1>1. /\ x.at \notin {"free", "orphan"} /\ ~x.broken
      /\ session' = [session EXCEPT ![s].broken = TRUE, ![s].answer = left]
      /\ UNCHANGED <<config, pc, op, decided, result, observed, sent, charged>>
  BY DEF Break
<1>2. x \in SessionType /\ SessionOK(s)
  BY DEF Inv, TypeInv, SessionInv
<1>3. y = [x EXCEPT !.broken = TRUE, !.answer = left]
  BY <1>1 DEF Inv, TypeInv
<1>4. left \in Results
  BY DEF Results, Tag, NoAnswer
<1>5. /\ y \in SessionType /\ y.at = x.at /\ y.user = x.user /\ y.asked = x.asked /\ y.tx = x.tx
      /\ y.locked = x.locked /\ y.broken /\ y.answer = left
  BY <1>2, <1>3, <1>4 DEF SessionType
<1>6. SessionOK(s)'
  <2>1. Unheld(session[s])'
    BY <1>1, <1>2, <1>5, Distinct DEF SessionOK, Unheld
  <2>2. x.at \in Call => Held(session[s])' /\ Written(session[s])'
    BY <1>1, <1>2, <1>5 DEF SessionOK, Held, Written
  <2> QED BY <1>1, <1>2, <1>5, <2>1, <2>2 DEF SessionOK
<1>7. session' = [session EXCEPT ![s] = y]
  BY <1>1 DEF Inv, TypeInv
<1> QED BY <1>1, <1>5, <1>6, <1>7, ExternalInv

\* PoolSettles preserves the invariant.
LEMMA PoolSettlesInv ==
  ASSUME Inv, NEW s \in Session, PoolSettles(s)
  PROVE  Inv'
<1> DEFINE x == session[s]
<1> DEFINE y == session'[s]
<1>1. UNCHANGED <<config, pc, op, decided, result, observed, sent, charged>>
  BY DEF PoolSettles
<1>2. x \in SessionType /\ SessionOK(s) /\ NoAnswer \in Results
  BY DEF Inv, TypeInv, SessionInv, NoAnswer, Results, Tag
<1>3. CASE /\ x.at = "returning" /\ ~x.broken /\ x.asked = "none"
           /\ session' = [session EXCEPT ![s].at = "idle", ![s].user = None, ![s].answer = NoAnswer,
                                         ![s].tx = IF @ = "unknown" THEN @ ELSE "none"]
  <2>0. x.tx # "unknown"
    BY <1>2, <1>3 DEF SessionOK, Unheld
  <2>1. y = [x EXCEPT !.at = "idle", !.user = None, !.answer = NoAnswer, !.tx = "none"]
    BY <1>3, <2>0 DEF Inv, TypeInv
  <2>2. x.asked = "none"
    BY <1>3
  <2>3. session' = [session EXCEPT ![s] = y]
    BY <1>3 DEF Inv, TypeInv
  <2>4. /\ y.at = "idle" /\ y.user = None /\ y.asked = "none" /\ y.tx = "none"
        /\ y.answer = NoAnswer /\ y.locked = x.locked /\ y.broken = x.broken
    BY <1>2, <2>1, <2>2 DEF SessionType
  <2>5. y \in SessionType
    BY <1>2, <2>1 DEF SessionType, Place
  <2>6. ~x.locked
    BY <1>2, <1>3 DEF SessionOK, Unheld
  <2>7. SessionOK(s)'
    BY <2>4, <2>6, Distinct DEF SessionOK, Unheld
  <2> QED BY <1>1, <2>4, <2>5, <2>7, <2>3, ExternalInv
<1>4. CASE x.at \in {"returning", "idle"} /\ x.broken /\ session' = Close(s)
  <2>1. /\ y = Unopened \/ (x.at = "returning" /\
             y = [x EXCEPT !.at = "orphan", !.answer = NoAnswer, !.broken = FALSE])
        /\ session' = [session EXCEPT ![s] = y]
    BY <1>2, <1>4 DEF Inv, TypeInv, Close, SessionOK, Unheld
  <2>2. CASE y = Unopened
    <3>1. y \in SessionType /\ y.at = "free" /\ y.user = None /\ y.asked = "none"
      BY <1>2, <2>2 DEF Unopened, SessionType, Place
    <3>2. SessionOK(s)'
      BY <2>2, <3>1, Distinct DEF SessionOK, Unheld
    <3> QED BY <1>1, <2>1, <3>1, <3>2, ExternalInv
  <2>3. CASE x.at = "returning" /\ y = [x EXCEPT !.at = "orphan", !.answer = NoAnswer, !.broken = FALSE]
    <3>1. /\ y \in SessionType /\ y.at = "orphan" /\ y.user = x.user /\ y.asked = x.asked
          /\ y.tx = x.tx
      BY <1>2, <2>3 DEF SessionType, Place
    <3>2. SessionOK(s)'
      BY <1>1, <1>2, <2>3, <3>1, Distinct DEF SessionOK, Unheld
    <3> QED BY <1>1, <2>1, <3>1, <3>2, ExternalInv
  <2> QED BY <2>1, <2>2, <2>3
<1> QED BY <1>3, <1>4 DEF PoolSettles

\* SessionEnds preserves the invariant.
LEMMA SessionEndsInv ==
  ASSUME Inv, NEW s \in Session, SessionEnds(s)
  PROVE  Inv'
<1>1. session' = [session EXCEPT ![s] = Unopened]
      /\ UNCHANGED <<config, pc, op, decided, result, observed, sent, charged>>
  BY DEF SessionEnds
<1>2. session'[s] = Unopened /\ session' = [session EXCEPT ![s] = session'[s]]
  BY <1>1 DEF Inv, TypeInv
<1>3. /\ Unopened \in SessionType /\ Unopened.at = "free" /\ Unopened.user = None
      /\ Unopened.asked = "none"
  BY DEF Unopened, SessionType, Place, Results, NoAnswer, Tag
<1>4. SessionOK(s)'
  BY <1>2, <1>3, Distinct DEF SessionOK, Unheld
<1> QED BY <1>1, <1>2, <1>3, <1>4, ExternalInv

----------------------------------------------------------------------------
(* The theorems                                                            *)

\* The invariant holds initially.
LEMMA InitInv == Init => Inv
<1> SUFFICES ASSUME Init PROVE Inv
  OBVIOUS
<1>1. NoAnswer \in Results
  BY DEF NoAnswer, Results, Tag
<1>2. /\ Unopened \in SessionType /\ Unopened.at = "free" /\ Unopened.user = None
      /\ Unopened.asked = "none"
  BY <1>1 DEF Unopened, SessionType, Place
<1>3. TypeInv
  BY <1>1, <1>2 DEF Init, TypeInv
<1>4. SessionInv /\ UserUnique
  BY <1>2, Distinct DEF Init, SessionInv, SessionOK, Unheld, UserUnique
<1>5. CallInv
  BY DEF Init, CallInv, CallOK, TimedPhases, PreCommit, MigrationPhases
<1> QED BY <1>3, <1>4, <1>5 DEF Inv

\* Every step preserves the invariant.
LEMMA NextInv == Inv /\ [Next]_vars => Inv'
<1> SUFFICES ASSUME Inv, [Next]_vars PROVE Inv'
  OBVIOUS
<1>1. CASE UNCHANGED vars
  BY <1>1 DEF vars, Inv, TypeInv, SessionInv, SessionOK, Unheld, Held, Written, UserUnique, CallInv, CallOK,
              Truthful, Pending
<1>2. CASE \E c \in Call : Start(c) \/ AcquireFails(c) \/ Drop(c) \/ Observe(c)
  BY <1>2, StartInv, AcquireFailsInv, DropInv, ObserveInv
<1>3. CASE \E c \in Call, s \in Session :
             Acquire(c, s) \/ Advance(c, s) \/ Fail(c, s) \/ Deadline(c, s) \/ Migrate(c, s)
  BY <1>3, AcquireInv, AdvanceInv, FailInv, DeadlineInv, MigrateInv
<1>4. CASE \E s \in Session : Serve(s) \/ Break(s) \/ PoolSettles(s) \/ SessionEnds(s)
  BY <1>4, ServeInv, BreakInv, PoolSettlesInv, SessionEndsInv
<1> QED BY <1>1, <1>2, <1>3, <1>4 DEF Next

\* The inductive invariant: connections, transactions, calls and reports fit together
\* in every reachable state (lib.rs, admission.rs, maintenance.rs).
THEOREM Invariance == Spec => []Inv
<1>1. Init => Inv
  BY InitInv
<1>2. Inv /\ [Next]_vars => Inv'
  BY NextInv
<1> QED BY <1>1, <1>2, PTL DEF Spec

\* PoolStaysClean: whatever timed out, failed, broke or was dropped, a connection on
\* its way back to the pool owes no answer and holds no migration lock, and one the
\* pool hands out again is in no transaction (ConnectionCancellationGuard).
THEOREM PoolClean == Spec => []PoolStaysClean
<1>1. Inv => PoolStaysClean
  BY DEF Inv, SessionInv, SessionOK, Unheld, PoolStaysClean
<1> QED BY <1>1, Invariance, PTL

\* ObservationsHonest: what a call reports about consumption is never contradicted by
\* what the database does, then or later (CheckError::consumption, observe_*).
THEOREM ReportsStayTrue == Spec => []ObservationsHonest
<1>1. Inv => ObservationsHonest
  <2> SUFFICES ASSUME Inv, NEW c \in Call, pc[c] = "returned"
               PROVE  /\ observed[c].consumption = "Consumed" => c \in charged
                      /\ observed[c].consumption = "NotConsumed" => c \notin charged
                      /\ observed[c].consumption = "PossiblyConsumed" => c \in sent
                      /\ observed[c].policy # 0 => observed[c].policy \in DOMAIN op[c].checks
                      /\ result[c].is \in Denials =>
                            observed[c].policy = result[c].n /\ observed[c].outcome = result[c].is
                      /\ \A s \in Session : ~Awaits(c, s)
    BY DEF ObservationsHonest
  <2>1. Truthful(c, observed[c])
    BY DEF Inv, CallInv, CallOK
  <2>2. \A s \in Session : ~Awaits(c, s)
    BY HeldFacts DEF Held, Awaiting, TimedPhases, PreCommit, MigrationPhases
  <2>3. /\ observed[c] = ObservationOf(op[c], result[c]) /\ op[c] \in Operation
        /\ result[c].is \in Denials => result[c] \in Outcomes(op[c])
    BY DEF Inv, TypeInv, CallInv, CallOK
  <2> QED BY <2>1, <2>2, <2>3, DenialNamed DEF Truthful
<1> QED BY <1>1, Invariance, PTL

=============================================================================
