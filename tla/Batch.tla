------------------------------- MODULE Batch -------------------------------
(***************************************************************************)
(* The structural validation every backend runs on an atomic batch before  *)
(* it looks at any counter (runlimit-core/src/batch.rs), and the shape of  *)
(* the checks it is given (check.rs).                                      *)
(*                                                                         *)
(* A check names the counter it charges, its cost and the quota mode of    *)
(* its policy.  The counter key is the pair (policy fingerprint, subject); *)
(* limit and window are part of the fingerprint, so they are functions of  *)
(* the key, while the quota mode is not and travels with the check.        *)
(***************************************************************************)
EXTENDS Naturals, Sequences, FiniteSetsExt

QuotaMode == {"Enforce", "Shadow"}

\* The costs a check may carry: with_cost rejects zero and anything above the
\* policy's capacity.
ValidCost(cost, capacity) == cost \in 1..capacity

MixedModeAt(checks, i) == checks[i].mode # checks[1].mode

DuplicateAt(checks, i) == \E j \in 1..(i - 1) : checks[j].key = checks[i].key

\* validate_batch: emptiness, then size, then one pass in input order that
\* reports whichever defect it meets first.
ValidateBatch(checks, maximum) ==
    LET bad == {i \in 1..Len(checks) : MixedModeAt(checks, i) \/ DuplicateAt(checks, i)}
    IN  CASE Len(checks) = 0       -> "EmptyBatch"
          [] Len(checks) > maximum -> "BatchTooLarge"
          [] OTHER -> IF bad = {} THEN "Valid"
                      ELSE IF MixedModeAt(checks, Min(bad)) THEN "MixedQuotaModes"
                      ELSE "DuplicateKey"

=============================================================================
