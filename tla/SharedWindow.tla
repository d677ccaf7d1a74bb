---------------------------- MODULE SharedWindow ----------------------------
(***************************************************************************)
(* What the database-backed fixed-window limiter promises the replicas     *)
(* that share it, with no transactions, locks, ledger or cleanup.          *)
(*                                                                         *)
(* A call charges all of its counters at one instant or none of them, at   *)
(* most once.  A client that is told "allowed" was charged; one that is    *)
(* told "denied" or "not consumed" was not and never will be; only         *)
(* "unknown" leaves the question open, and then the charge may even come   *)
(* after the answer.  Usage within a window never exceeds the limit, and   *)
(* a counter is never charged for an instant earlier than one it has       *)
(* already been charged or expired at.                                     *)
(***************************************************************************)
EXTENDS Naturals, Sequences

CONSTANTS Client, Key, Limit, Window

VARIABLES window, \* key -> [used, expires], NoWindow when there is none
          time,   \* key -> the latest instant it was charged or expired at
          clock,  \* the current instant
          call,   \* client -> the checks of its current or last call
          status, \* client -> whether the call may still charge, or has
          reply   \* client -> its answer

vars == <<window, time, clock, call, status, reply>>

NoWindow == [used |-> 0, expires |-> 0]

UsedAt(k, now) == IF window[k].expires > now THEN window[k].used ELSE 0

Within(c, now) == UsedAt(c.key, now) + c.cost <= Limit[c.key]

Charged(c, now) ==
    [used |-> UsedAt(c.key, now) + c.cost,
     expires |-> IF window[c.key].expires > now THEN window[c.key].expires ELSE now + Window[c.key]]

Names(checks, k) == \E j \in DOMAIN checks : checks[j].key = k

Waiting(c) == reply[c].outcome = "pending"

Init ==
    /\ window = [k \in Key |-> NoWindow]
    /\ time = [k \in Key |-> 0]
    /\ clock = 0
    /\ status = [c \in Client |-> "idle"]
    /\ \A c \in Client : ~Waiting(c)

\* A client starts a call, or has it rejected, or uses its connection for
\* something that is not a call.
Invoke(c) ==
    /\ status[c] = "idle" /\ ~Waiting(c)
    /\ \/ status'[c] = "open" /\ reply'[c].outcome = "pending"
       \/ status'[c] = "idle" /\ reply'[c].outcome \in {"invalid", "none"}
    /\ UNCHANGED <<window, time, clock>>

Charge(c) ==
    /\ status[c] = "open"
    /\ Waiting(c) \/ reply[c].outcome = "unknown"
    /\ \E now \in 0..clock :
        /\ \A j \in DOMAIN call[c] : now >= time[call[c][j].key] /\ Within(call[c][j], now)
        /\ \A k \in Key :
            IF Names(call[c], k)
            THEN /\ \E j \in DOMAIN call[c] :
                      call[c][j].key = k /\ window'[k] = Charged(call[c][j], now)
                 /\ time'[k] = now
            ELSE window'[k] = window[k] /\ time'[k] = time[k]
    /\ status'[c] = IF Waiting(c) THEN "charged" ELSE "idle"
    /\ reply'[c] = reply[c]
    /\ UNCHANGED <<clock, call>>

Answer(c, outcomes) ==
    /\ Waiting(c)
    /\ reply'[c].outcome \in outcomes
    /\ UNCHANGED <<window, time, clock, call>>

Allow(c) == status[c] = "charged" /\ Answer(c, {"allowed"}) /\ status'[c] = "idle"

\* A quota denial names the first check that does not fit now, and for how long.
Deny(c) ==
    LET j == reply'[c].index
    IN  /\ status[c] = "open" /\ Answer(c, {"quota_denied", "shadow_denied"})
        /\ j \in DOMAIN call[c]
        /\ ~Within(call[c][j], clock)
        /\ \A h \in 1..(j - 1) : Within(call[c][h], clock)
        /\ reply'[c].retry = window[call[c][j].key].expires - clock
        /\ (reply'[c].outcome = "shadow_denied") <=> (call[c][j].mode = "Shadow")
        /\ status'[c] = "idle"

\* A capacity denial names a check whose counter has no stored window, none
\* of the checks before it being over its limit.
Refuse(c) ==
    LET j == reply'[c].index
    IN  /\ status[c] = "open" /\ Answer(c, {"capacity_denied"})
        /\ j \in DOMAIN call[c]
        /\ window[call[c][j].key] = NoWindow
        /\ \A h \in 1..(j - 1) : Within(call[c][h], clock)
        /\ status'[c] = "idle"

Fail(c) == status[c] = "open" /\ Answer(c, {"not_consumed"}) /\ status'[c] = "idle"

\* The client gives up not knowing; the call may remain open behind its back.
Doubt(c) ==
    /\ status[c] \in {"open", "charged"}
    /\ Answer(c, {"unknown"})
    /\ status'[c] \in {"idle", IF status[c] = "open" THEN "open" ELSE "idle"}

\* A call in doubt turns out not to have charged.
Settle(c) ==
    /\ status[c] = "open" /\ reply[c].outcome = "unknown"
    /\ status'[c] = "idle" /\ reply'[c] = reply[c]
    /\ UNCHANGED <<window, time, clock, call>>

\* Windows that have ended may be forgotten, and time passes.
Forget ==
    /\ \A k \in Key :
        \/ window'[k] = window[k] /\ time'[k] = time[k]
        \/ /\ window'[k] = NoWindow
           /\ time'[k] \in time[k]..clock
           /\ window[k].expires <= time'[k]
    /\ UNCHANGED <<clock, call, status, reply>>

Pass == clock' > clock /\ UNCHANGED <<window, time, call, status, reply>>

Next ==
    \/ Forget
    \/ Pass
    \/ \E c \in Client :
        /\ Invoke(c) \/ Charge(c) \/ Allow(c) \/ Deny(c) \/ Refuse(c) \/ Fail(c) \/ Doubt(c) \/ Settle(c)
        /\ \A d \in Client \ {c} :
            call'[d] = call[d] /\ status'[d] = status[d] /\ reply'[d] = reply[d]

Spec == Init /\ [][Next]_vars

=============================================================================
