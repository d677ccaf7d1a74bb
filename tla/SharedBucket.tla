---------------------------- MODULE SharedBucket ----------------------------
(***************************************************************************)
(* What the database-backed GCRA limiter promises the replicas that share  *)
(* it: one continuously draining bucket per counter, with no arrival       *)
(* times, watermarks, locks, transactions or cleanup.                      *)
(*                                                                         *)
(* A bucket has a time of its own that never goes back, although the       *)
(* clock may, and never gets ahead of what the clock has shown.  A call    *)
(* charges all of its buckets at one instant or none, at most once, and    *)
(* is told the truth about it.                                             *)
(***************************************************************************)
EXTENDS Naturals, Sequences, FiniteSetsExt

CONSTANTS Client, Key, Policy

VARIABLES debt,   \* key -> debt at the bucket's own time
          time,   \* key -> the latest instant recorded for it
          clock,  \* the current reading of the clock
          peak,   \* the greatest reading so far
          call,   \* client -> the checks of its current or last call
          status, \* client -> whether the call may still charge, or has
          reply   \* client -> its answer

vars == <<debt, time, clock, peak, call, status, reply>>

Waiting(c) == reply[c].outcome = "pending"

Init ==
    /\ debt = [k \in Key |-> 0]
    /\ time = [k \in Key |-> 0]
    /\ peak = clock
    /\ status = [c \in Client |-> "idle"]
    /\ \A c \in Client : ~Waiting(c)

Drained(k, at) ==
    LET drained == (at - time[k]) * Policy[k].quota
    IN  IF debt[k] > drained THEN debt[k] - drained ELSE 0

Filled(c, at) == Drained(c.key, at) + c.cost * Policy[c.key].period

Brim(k) == Policy[k].burst * Policy[k].period

Fits(c, at) == Filled(c, at) <= Brim(c.key)

Ages(k) == time'[k] \in time[k]..peak /\ debt'[k] = Drained(k, time'[k])

\* The instant a decision made now is about.
Instant(checks) == Max({clock} \cup {time[checks[j].key] : j \in DOMAIN checks})

Invoke(c) ==
    /\ status[c] = "idle" /\ ~Waiting(c)
    /\ \/ status'[c] = "open" /\ reply'[c].outcome = "pending"
       \/ status'[c] = "idle" /\ reply'[c].outcome \in {"invalid", "none"}
    /\ UNCHANGED <<debt, time, clock, peak>>

Charge(c) ==
    LET keys == {call[c][j].key : j \in DOMAIN call[c]}
    IN  /\ status[c] = "open"
        /\ Waiting(c) \/ reply[c].outcome = "unknown"
        /\ status'[c] = IF Waiting(c) THEN "charged" ELSE "idle"
        /\ reply'[c] = reply[c]
        /\ UNCHANGED <<clock, peak, call>>
        /\ \A k, h \in keys : time'[k] = time'[h]
        /\ \A k \in keys : time'[k] \in time[k]..peak
        /\ \A j \in DOMAIN call[c] :
            LET k == call[c][j].key
            IN  Fits(call[c][j], time'[k]) /\ debt'[k] = Filled(call[c][j], time'[k])
        /\ \A k \in Key \ keys : Ages(k)

Answer(c, outcomes) ==
    /\ Waiting(c)
    /\ reply'[c].outcome \in outcomes
    /\ UNCHANGED <<debt, time, clock, peak, call>>

Allow(c) == status[c] = "charged" /\ Answer(c, {"allowed"}) /\ status'[c] = "idle"

\* The advertised delay is the least one after which the check would fit.
Deny(c) ==
    LET checks == call[c]
        j == reply'[c].index
        at == Instant(checks)
        slack(wait) == Brim(checks[j].key) + wait * Policy[checks[j].key].quota
    IN  /\ status[c] = "open" /\ Answer(c, {"quota_denied", "shadow_denied"})
        /\ j \in DOMAIN checks
        /\ \A h \in 1..(j - 1) : Fits(checks[h], at)
        /\ reply'[c].retry > 0
        /\ Filled(checks[j], at) <= slack(reply'[c].retry)
        /\ Filled(checks[j], at) > slack(reply'[c].retry - 1)
        /\ (reply'[c].outcome = "shadow_denied") <=> (checks[j].mode = "Shadow")
        /\ status'[c] = "idle"

\* Only a bucket without debt is ever refused for lack of room.
Refuse(c) ==
    LET j == reply'[c].index
    IN  /\ status[c] = "open" /\ Answer(c, {"capacity_denied"})
        /\ j \in DOMAIN call[c]
        /\ debt[call[c][j].key] = 0
        /\ \A h \in 1..j : Fits(call[c][h], Instant(call[c]))
        /\ status'[c] = "idle"

Fail(c) ==
    status[c] = "open" /\ Answer(c, {"not_consumed", "out_of_range"}) /\ status'[c] = "idle"

\* The client gives up not knowing; the call may remain open behind its back.
Doubt(c) ==
    /\ status[c] \in {"open", "charged"}
    /\ Answer(c, {"unknown"})
    /\ status'[c] \in {"idle", IF status[c] = "open" THEN "open" ELSE "idle"}

Settle(c) ==
    /\ status[c] = "open" /\ reply[c].outcome = "unknown"
    /\ status'[c] = "idle" /\ reply'[c] = reply[c]
    /\ UNCHANGED <<debt, time, clock, peak, call>>

\* Buckets drain; maintenance may record that they have.
Age == UNCHANGED <<clock, peak, call, status, reply>> /\ \A k \in Key : Ages(k)

\* The clock may go either way.
ReadClock ==
    /\ peak' = Max({peak, clock'})
    /\ UNCHANGED <<debt, time, call, status, reply>>

Next ==
    \/ Age
    \/ ReadClock
    \/ \E c \in Client :
        /\ \A d \in Client \ {c} :
            call'[d] = call[d] /\ status'[d] = status[d] /\ reply'[d] = reply[d]
        /\ Invoke(c) \/ Charge(c) \/ Allow(c) \/ Deny(c) \/ Refuse(c) \/ Fail(c) \/ Doubt(c) \/ Settle(c)

Spec == Init /\ [][Next]_vars

=============================================================================
