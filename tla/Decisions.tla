----------------------------- MODULE Decisions -----------------------------
(***************************************************************************)
(* Decisions, their wire form (runlimit-core/src/decision.rs) and the      *)
(* RateLimit fields built from them (runlimit-http/src/draft_11.rs), as    *)
(* pure operators.                                                         *)
(*                                                                         *)
(* A decision is a record [outcome, capacity, available, delay]: the delay *)
(* is an allowance's replenishes_after or a denial's retry_after, in       *)
(* ticks, and NoDelay for a storage denial that knows no expiry.  Second   *)
(* ticks make a second.                                                    *)
(***************************************************************************)
EXTENDS Policies

CONSTANTS Second,        \* ticks in a second
          MaxPolicyName, \* MAX_POLICY_NAME_LENGTH
          MaxInteger,    \* MAX_STRUCTURED_FIELD_INTEGER
          NoDelay        \* an absent retry_after

ASSUME DecisionsAssumption ==
    Second \in Nat \ {0} /\ MaxPolicyName \in Nat /\ MaxInteger \in Nat

\* Seconds rounded down: a client would come back too early.
SecondsTruncated(delay) == delay \div Second

\* Delay::seconds
Seconds(delay) == RoundedUp(delay, Second)

Decision(outcome, capacity, available, delay) ==
    [outcome |-> outcome, capacity |-> capacity, available |-> available, delay |-> delay]

Allowed(capacity, available, delay) == Decision("allowed", capacity, available, delay)

\* QuotaDenial, enforced or shadowed by the mode of its policy.
QuotaDenied(mode, capacity, delay) ==
    Decision(IF mode = "Shadow" THEN "shadow_denied" ELSE "quota_denied", capacity, 0, delay)

StorageDenied(delay) == Decision("storage_denied", 0, 0, delay)

\* An admission that lets every decision through.
AdmitsAll(d) == TRUE

\* Decision::admit and permits_request
Admits(d) == d.outcome \in {"allowed", "shadow_denied"}

\* Serialization: an outcome, and for a denial the reason it is tagged with.  A
\* storage denial has no capacity field, a denial no available field.
ToWire(d) ==
    CASE d.outcome = "allowed" ->
           [outcome |-> "allowed", capacity |-> d.capacity, available |-> d.available,
            delay |-> d.delay]
      [] d.outcome = "storage_denied" ->
           [outcome |-> "denied", reason |-> "storage_capacity", delay |-> d.delay]
      [] OTHER ->
           [outcome |-> IF d.outcome = "quota_denied" THEN "denied" ELSE "shadow_denied",
            reason |-> "quota_exceeded", capacity |-> d.capacity, delay |-> d.delay]

\* Deserialization validates capacities and allowances again.  A shadow denial
\* is only ever a quota denial.
WireAccepted(w) ==
    IF w.outcome = "allowed" THEN CapacityError(w.capacity) = "none" /\ w.available <= w.capacity
    ELSE IF w.reason = "quota_exceeded" THEN CapacityError(w.capacity) = "none"
    ELSE w.outcome = "denied"

FromWire(w) ==
    IF w.outcome = "allowed" THEN Allowed(w.capacity, w.available, w.delay)
    ELSE IF w.reason = "storage_capacity" THEN StorageDenied(w.delay)
    ELSE QuotaDenied(IF w.outcome = "shadow_denied" THEN "Shadow" ELSE "Enforce",
                     w.capacity, w.delay)

\* encode_policy_name: a public name is [length, visible].
NameEncodes(name) == name.length \in 1..MaxPolicyName /\ name.visible

NoField == [present |-> FALSE, n |-> 0, seconds |-> 0]

\* Both fields are a number and a whole count of seconds, within the range of
\* structured_integer.
Field(name, n, seconds) ==
    IF NameEncodes(name) /\ n <= MaxInteger /\ seconds <= MaxInteger
    THEN [present |-> TRUE, n |-> n, seconds |-> seconds]
    ELSE NoField

\* quota_policy: q and w, for periods of whole seconds only.
QuotaPolicyField(name, p) ==
    IF (p.period * Milli) % Second # 0 THEN NoField
    ELSE Field(name, p.quota, (p.period * Milli) \div Second)

\* service_limit: r and t of an allowance or a quota denial.  A storage denial
\* is no QuotaState and has no field.
ServiceLimitField(name, d) ==
    IF d.outcome = "storage_denied" THEN NoField ELSE Field(name, d.available, Seconds(d.delay))

=============================================================================
