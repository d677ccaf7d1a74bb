-------------------------------- MODULE Gcra --------------------------------
(***************************************************************************)
(* The exact GCRA transition (runlimit-core/src/gcra.rs) that the memory   *)
(* and PostgreSQL stores share, as pure operators.                         *)
(*                                                                         *)
(* A policy is a record [quota, period, burst]: `quota` units every        *)
(* `period` milliseconds with bursts of up to `burst`.  The theoretical    *)
(* arrival time (tat) is kept in units of 1/quota milliseconds, so that    *)
(* nothing is ever rounded except what is reported to the caller.          *)
(***************************************************************************)
EXTENDS Naturals

CONSTANTS WideMax,  \* largest value of the arithmetic's integers (u128::MAX in the code)
          DelayMax  \* largest reportable delay or count (u64::MAX in the code)

ASSUME GcraAssumption == WideMax \in Nat /\ DelayMax \in Nat

GcraPolicy == [quota : Nat \ {0}, period : Nat \ {0}, burst : Nat \ {0}]

\* A rounding-down division where the code rounds up.
DivFloor(a, b) == a \div b

DivCeil(a, b) == (a + b - 1) \div b

AtLeast(a, b) == IF a < b THEN b ELSE a

NoAllowance == [tat |-> 0, expires |-> 0, available |-> 0]

Result(kind, allowance, retry) == [kind |-> kind, allowance |-> allowance, retry |-> retry]

Overflow == Result("overflow", NoAllowance, 0)

\* An evaluation that lets a burst exceed its capacity by one unit.
OverCeiling(p, scaledNow) == scaledNow + (p.burst + 1) * p.period

Ceiling(p, scaledNow) == scaledNow + p.burst * p.period

Excess(candidate, ceiling) == candidate - ceiling

\* evaluate: every intermediate result is checked, and none of them exceeds the
\* larger of the candidate and the ceiling.
GcraEvaluate(p, cost, now, tat) ==
    LET scaledNow == now * p.quota
        candidate == AtLeast(tat, scaledNow) + cost * p.period
        ceiling == Ceiling(p, scaledNow)
        retry == DivCeil(Excess(candidate, ceiling), p.quota)
        replenish == DivCeil(candidate - scaledNow, p.quota)
        available == (ceiling - candidate) \div p.period
    IN  CASE candidate > WideMax \/ ceiling > WideMax -> Overflow
          [] candidate <= WideMax /\ ceiling <= WideMax /\ candidate > ceiling ->
               IF retry > DelayMax THEN Overflow ELSE Result("denied", NoAllowance, retry)
          [] OTHER ->
               IF now + replenish > WideMax \/ replenish > DelayMax \/ available > DelayMax
               THEN Overflow
               ELSE Result("allowed",
                           [tat |-> candidate, expires |-> now + replenish,
                            available |-> available], 0)

=============================================================================
