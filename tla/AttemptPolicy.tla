--------------------------- MODULE AttemptPolicy ---------------------------
(***************************************************************************)
(* The timing policy of outcome-aware attempts                             *)
(* (runlimit-core/src/attempts.rs).  A key stands for the pair (policy     *)
(* fingerprint, subject); every timing parameter is part of the            *)
(* fingerprint, so the parameters are functions of the key.                *)
(***************************************************************************)
EXTENDS Naturals

CONSTANTS Key, InitialDelay, MaximumDelay, QuietPeriod, LeasePeriod

\* AttemptPolicy::new: a quiet period shorter than the largest delay could let
\* quiet expiry bypass an active backoff.
ASSUME AttemptPolicyAssumption ==
    /\ Key \subseteq Nat
    /\ InitialDelay \in [Key -> Nat \ {0}]
    /\ MaximumDelay \in [Key -> Nat \ {0}]
    /\ QuietPeriod \in [Key -> Nat \ {0}]
    /\ LeasePeriod \in [Key -> Nat \ {0}]
    /\ \A k \in Key : InitialDelay[k] <= MaximumDelay[k] /\ MaximumDelay[k] <= QuietPeriod[k]

\* AttemptPolicy::delay: doubles with every failure up to the cap.
Delay(k, failures) ==
    IF failures = 0 THEN 0
    ELSE LET doubled == InitialDelay[k] * 2 ^ (failures - 1)
         IN  IF doubled < MaximumDelay[k] THEN doubled ELSE MaximumDelay[k]

=============================================================================
