---------------------------- MODULE Observations ----------------------------
(***************************************************************************)
(* What a backend reports about a finished call: the certainty carried by  *)
(* its errors (runlimit-postgres/src/errors.rs), the admission and cleanup *)
(* observations built from results (runlimit-core/src/observation.rs) and  *)
(* the attempt observations (attempts.rs of both crates).                  *)
(*                                                                         *)
(* A result is a pair of a tag and a number.  The number of an allowed     *)
(* batch counts its allowances, that of a denial is the position of the    *)
(* denied check, from one.  Latencies and identifiers are left out; a      *)
(* policy is named by the position of its check, zero for none.            *)
(***************************************************************************)
EXTENDS Batch

Result(is, n) == [is |-> is, n |-> n]

\* Attempt completions are not admissions but share the connection protocol.
Kind == {"check", "batch", "cleanup", "admit", "complete", "migrate", "migrate_attempts"}

IsAdmission(o) == o.kind \in {"check", "batch"}

IsAttempt(o) == o.kind \in {"admit", "complete"}

IsMigration(o) == o.kind \in {"migrate", "migrate_attempts"}

Decisions == {"allowed", "quota_denied", "shadow_denied", "capacity_denied"}

CheckErrors == {"definitely_not_consumed", "commit_outcome_unknown", "timed_out_before_commit",
                "commit_timed_out", "storage_invariant", "invalid_batch"}

\* A commit timeout taken for one that happened before the commit was sent.
ConsumptionOptimistic(error) ==
    IF error = "commit_outcome_unknown" THEN "PossiblyConsumed" ELSE "NotConsumed"

\* CheckError::consumption, and may_have_removed_rows for cleanup.
Consumption(error) ==
    IF error \in {"commit_outcome_unknown", "commit_timed_out"}
    THEN "PossiblyConsumed" ELSE "NotConsumed"

Observation(outcome, consumption, policy) ==
    [outcome |-> outcome, consumption |-> consumption, policy |-> policy]

Silent == Observation("none", "NotConsumed", 0)

\* classify_decision, classify_batch, classify_denial
Classified(decision) == IF decision = "allowed" THEN "Consumed" ELSE "NotConsumed"

\* batch_relevant_check for a decision, and the policy of a failed batch.
RelevantCheck(checks, r) ==
    CASE r.is \in CheckErrors -> IF Len(checks) = 1 THEN 1 ELSE 0
      [] r.is = "allowed"     -> IF r.n = 1 THEN 1 ELSE 0
      [] OTHER                -> r.n

\* from_check, from_batch, failed_check, failed_batch
AdmissionObservation(o, r) ==
    LET policy == IF o.kind = "check" THEN 1 ELSE RelevantCheck(o.checks, r)
    IN  IF r.is \in CheckErrors THEN Observation("Failed", Consumption(r.is), policy)
        ELSE Observation(r.is, Classified(r.is), policy)

\* observe_cleanup: Confirmed, Unknown or NoEffect.
CleanupObservation(r) ==
    CASE r.is = "removed" -> Observation("Confirmed", IF r.n = 0 THEN "NotConsumed" ELSE "Consumed", 0)
      [] r.is # "removed" /\ Consumption(r.is) = "PossiblyConsumed" ->
            Observation("Unknown", "PossiblyConsumed", 0)
      [] OTHER -> Observation("NoEffect", "NotConsumed", 0)

\* The attempt limiter says nothing about a failure that changed nothing.
AttemptObservation(r) ==
    CASE r.is \in {"admitted", "applied"} -> Observation(r.is, "Consumed", 0)
      [] r.is \in {"busy", "no_slot", "stale"} -> Observation(r.is, "NotConsumed", 0)
      [] r.is \in CheckErrors /\ Consumption(r.is) = "PossiblyConsumed" ->
            Observation("CommitUncertain", "PossiblyConsumed", 0)
      [] OTHER -> Silent

\* The observation of a finished call; migrations have no observer.
ObservationOf(o, r) ==
    CASE IsAdmission(o)       -> AdmissionObservation(o, r)
      [] o.kind = "cleanup"   -> CleanupObservation(r)
      [] IsAttempt(o)         -> AttemptObservation(r)
      [] OTHER                -> Silent

=============================================================================
