---------------------------- MODULE TokenBucket ----------------------------
(***************************************************************************)
(* What a GCRA store promises, without theoretical arrival times, expiry,  *)
(* indexes, shards or pruning: each counter is a bucket holding a debt     *)
(* that drains continuously at `quota` units per millisecond, every        *)
(* admitted unit of cost adds `period` to it, and no admission may push it *)
(* over `burst * period`.                                                  *)
(***************************************************************************)
EXTENDS Naturals

CONSTANTS Key, Policy

VARIABLES debt,  \* key -> debt at the bucket's own time
          time,  \* key -> the latest instant the store acted on it
          reply  \* the last call with its answer

vars == <<debt, time, reply>>

Init == debt = [k \in Key |-> 0] /\ time = [k \in Key |-> 0]

Drained(k, at) ==
    LET drained == (at - time[k]) * Policy[k].quota
    IN  IF debt[k] > drained THEN debt[k] - drained ELSE 0

After(c, at) == Drained(c.key, at) + c.cost * Policy[c.key].period

Brim(k) == Policy[k].burst * Policy[k].period

Fits(c, at) == After(c, at) <= Brim(c.key)

Ages(k) == time'[k] >= time[k] /\ debt'[k] = Drained(k, time'[k])

CommonTime(checks, at) ==
    \A j \in DOMAIN checks : time'[checks[j].key] = at /\ at >= time[checks[j].key]

\* All of a batch or none of it, at one instant.
Admit ==
    LET checks == reply'.checks
        at == time'[checks[1].key]
    IN  /\ reply'.outcome = "allowed"
        /\ CommonTime(checks, at)
        /\ \A j \in DOMAIN checks :
             /\ Fits(checks[j], at)
             /\ debt'[checks[j].key] = After(checks[j], at)
             /\ reply'.available[j] =
                  (Brim(checks[j].key) - After(checks[j], at)) \div Policy[checks[j].key].period
        /\ \A k \in Key : (\E j \in DOMAIN checks : checks[j].key = k) \/ Ages(k)

\* The advertised delay is the least one after which the check would fit.
Deny ==
    LET checks == reply'.checks
        at == time'[checks[1].key]
        c == checks[reply'.index]
    IN  /\ reply'.outcome \in {"quota_denied", "shadow_denied"}
        /\ CommonTime(checks, at)
        /\ ~Fits(c, at)
        /\ \A h \in 1..(reply'.index - 1) : Fits(checks[h], at)
        /\ reply'.retry > 0
        /\ After(c, at) <= Brim(c.key) + reply'.retry * Policy[c.key].quota
        /\ After(c, at) > Brim(c.key) + (reply'.retry - 1) * Policy[c.key].quota
        /\ (reply'.outcome = "shadow_denied") <=> (c.mode = "Shadow")
        /\ \A k \in Key : Ages(k)

\* A bounded store may have no room for a bucket without debt, never for one
\* that still carries some.
Refuse ==
    LET c == reply'.checks[reply'.index]
    IN  /\ reply'.outcome = "capacity_denied"
        /\ \A k \in Key : Ages(k)
        /\ debt'[c.key] = 0

Fail ==
    /\ reply'.outcome \in {"invalid", "poisoned", "panicked", "overflow"}
    /\ UNCHANGED <<debt, time>>

\* clear empties buckets; recovery may also forget their time.
Discard ==
    /\ reply'.outcome \in {"cleared", "recovered"}
    /\ \A k \in Key :
         \/ debt'[k] = debt[k] /\ time'[k] = time[k]
         \/ debt'[k] = 0 /\ (time'[k] = time[k] \/ reply'.outcome = "recovered")

Next == Admit \/ Deny \/ Refuse \/ Fail \/ Discard

Spec == Init /\ [][Next]_vars

=============================================================================
