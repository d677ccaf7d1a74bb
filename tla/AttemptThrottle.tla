-------------------------- MODULE AttemptThrottle --------------------------
(***************************************************************************)
(* What an attempt limiter promises, with no stored rows, cleanup, lazy    *)
(* reconciliation or capacity: a subject is clear, waiting after some      *)
(* consecutive failures, or leased to one receipt.  A lease that runs out  *)
(* is a failure at the very instant it runs out, however much later        *)
(* somebody looks; a quiet period without failures clears the subject.     *)
(***************************************************************************)
EXTENDS AttemptSubject

CONSTANT Receipt

VARIABLES time,    \* the latest instant the limiter acted at; never decreases
          subject, \* key -> its state at `time`
          issued,  \* receipts handed out so far
          reply    \* answer of the last call

vars == <<time, subject, issued, reply>>

Later == time' >= time

Seen(k) == AtTime(k, subject[k], time')

\* Every subject but `k` merely ages.
OnlyChanges(k, s) ==
    /\ Later
    /\ \A j \in Key : subject'[j] = IF j = k THEN s ELSE Seen(j)

Ages == Later /\ \A j \in Key : subject'[j] = Seen(j)

Answered(k, outcome) == reply'.outcome = outcome /\ reply'.key = k

Init ==
    /\ subject = [k \in Key |-> Clear]
    /\ issued = {}

Admit(k) ==
    /\ Answered(k, "admitted")
    /\ LET s == Seen(k)
       IN  \E r \in Receipt \ issued :
             /\ s.until = 0
             /\ time' >= Backoff(k, s)
             /\ OnlyChanges(k, Leased(s.failures, time' + LeasePeriod[k], r))
             /\ issued' = issued \cup {r}

\* Denials change nothing and announce exactly when they end.
Busy(k) ==
    /\ Answered(k, "busy")
    /\ Seen(k).until > time'
    /\ reply'.retry = Seen(k).until - time'
    /\ Ages
    /\ UNCHANGED issued

BackingOff(k) ==
    /\ Answered(k, "backoff")
    /\ LET s == Seen(k)
       IN  s.until = 0 /\ time' < Backoff(k, s) /\ reply'.retry = Backoff(k, s) - time'
    /\ Ages
    /\ UNCHANGED issued

\* A subject with history is never turned away for lack of room.
NoRoom(k) ==
    /\ Answered(k, "storage_capacity")
    /\ Seen(k) = Clear
    /\ Ages
    /\ UNCHANGED issued

Exhausted(k) ==
    /\ Answered(k, "sequence_exhausted")
    /\ issued = Receipt
    /\ Ages
    /\ UNCHANGED issued

\* Only the receipt of the live lease completes an attempt.
Apply(k, success) ==
    /\ Answered(k, IF success THEN "succeeded" ELSE "failed")
    /\ LET s == Seen(k)
       IN  /\ s.until # 0
           /\ s.holder = reply'.receipt
           /\ OnlyChanges(k, IF success THEN Clear ELSE Failed(s.failures + 1, time'))
           /\ reply'.retry = IF success THEN 0 ELSE Delay(k, s.failures + 1)
    /\ UNCHANGED issued

Stale(k) ==
    /\ Answered(k, "stale")
    /\ Ages
    /\ UNCHANGED issued

\* A limiter that lost its state's consistency answers nothing any more.
Unavailable == reply'.outcome \in {"poisoned", "panicked"} /\ UNCHANGED <<time, subject, issued>>

Next ==
    \/ \E k \in Key :
        \/ Admit(k)
        \/ Busy(k)
        \/ BackingOff(k)
        \/ NoRoom(k)
        \/ Exhausted(k)
        \/ \E success \in BOOLEAN : Apply(k, success)
        \/ Stale(k)
    \/ Unavailable

Spec == Init /\ [][Next]_vars

=============================================================================
