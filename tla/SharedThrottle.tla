--------------------------- MODULE SharedThrottle ---------------------------
(***************************************************************************)
(* What the database-backed attempt limiter promises the replicas that     *)
(* share it, with no rows, slots, locks, transactions or cleanup.          *)
(*                                                                         *)
(* A lease is granted to a call at one instant, and only to one that is    *)
(* told "admitted" or left in doubt.  A completion first claims the live   *)
(* lease with its receipt and may then take as long as it likes: nobody    *)
(* else touches a claimed subject, and the claim ends in an outcome or in  *)
(* nothing at all.  A lease that is not claimed in time counts as a        *)
(* failure at its end, whatever is presented later.                        *)
(***************************************************************************)
EXTENDS AttemptSubject

CONSTANTS Client, Receipt, None

VARIABLES subject,  \* key -> its state as last changed; it ages by itself
          claimed,  \* key -> the client or host whose completion claimed its lease
          clock,    \* the current instant
          receipts, \* receipts the application holds
          call,     \* client -> its current or last call
          status,   \* client -> whether the call may still take effect
          reply     \* client -> its answer

vars == <<subject, claimed, clock, receipts, call, status, reply>>

Waiting(c) == reply[c].outcome = "pending"

Seen(k, at) == AtTime(k, subject[k], at)

Init ==
    /\ subject = [k \in Key |-> Clear]
    /\ claimed = [k \in Key |-> None]
    /\ receipts = {}
    /\ status = [c \in Client |-> "idle"]
    /\ \A c \in Client : ~Waiting(c)

\* A subject that time has cleared may be forgotten, unless it is claimed.
Forgotten(k) == subject'[k] = Clear /\ claimed[k] = None /\ Seen(k, clock) = Clear

OnlyChanges(k) == \A j \in Key \ {k} : subject'[j] = subject[j] \/ Forgotten(j)

Invoke(c) ==
    /\ status[c] = "idle" /\ ~Waiting(c)
    /\ status'[c] = "open" /\ reply'[c].outcome = "pending"
    /\ receipts' \subseteq receipts
    /\ UNCHANGED <<subject, claimed, clock>>

\* A lease is granted as of an instant at which the subject was neither leased
\* nor backing off; the client learns of it now or is left in doubt.
Grant(c) ==
    LET k == call[c].key
    IN  /\ status[c] = "open" /\ call[c].kind = "admit"
        /\ claimed[k] = None
        /\ \E at \in 0..clock, r \in Receipt :
            /\ Seen(k, at).until = 0
            /\ at >= Backoff(k, Seen(k, at))
            /\ subject'[k] = Leased(Seen(k, at).failures, at + LeasePeriod[k], r)
            /\ \/ /\ Waiting(c)
                  /\ reply'[c].outcome = "admitted"
                  /\ receipts' = receipts \cup {[key |-> k, token |-> r]}
               \/ /\ reply'[c].outcome = "unknown"
                  /\ UNCHANGED receipts
        /\ OnlyChanges(k)
        /\ status'[c] = "idle"
        /\ UNCHANGED <<claimed, clock, call>>

\* A denial is decided on the state of the moment, says for how long it holds and
\* changes nothing.
Deny(c) ==
    LET k == call[c].key
        s == Seen(k, clock)
        retry == reply'[c].retry
    IN  /\ status[c] = "open" /\ Waiting(c) /\ call[c].kind = "admit"
        /\ claimed[k] = None
        /\ CASE reply'[c].outcome = "busy" -> s.until > clock /\ retry = s.until - clock
             [] reply'[c].outcome = "backoff" ->
                  s.until = 0 /\ clock < Backoff(k, s) /\ retry = Backoff(k, s) - clock
             [] reply'[c].outcome = "storage_capacity" -> s = Clear
             [] OTHER -> FALSE
        /\ status'[c] = "idle"
        /\ UNCHANGED <<subject, claimed, clock, receipts, call>>

\* The receipt of k's live lease is presented, by a call of complete or by a
\* transaction of the application.
Claim(k, by) ==
    /\ claimed[k] = None
    /\ subject[k].until > clock
    /\ IF by \in Client
       THEN call[by].kind = "complete" /\ call[by].key = k /\ call[by].token = subject[k].holder
       ELSE [key |-> k, token |-> subject[k].holder] \in receipts
    /\ claimed' = [claimed EXCEPT ![k] = by]
    /\ receipts' \subseteq receipts
    /\ UNCHANGED <<subject, clock, call, status, reply>>

Unclaim(k) ==
    /\ claimed[k] # None
    /\ claimed' = [claimed EXCEPT ![k] = None]
    /\ \A j \in Key \ {k} : subject'[j] = subject[j]

\* The claimed attempt has an outcome, as of an instant since the lease began.
Apply(k, success) ==
    /\ Unclaim(k)
    /\ \/ success /\ subject'[k] = Clear
       \/ ~success /\ \E at \in (subject[k].until - LeasePeriod[k])..clock :
            subject'[k] = Failed(subject[k].failures + 1, at)

\* The claim comes to nothing: the lease stays as it was.
Withdraw(k) == Unclaim(k) /\ subject'[k] = subject[k]

\* The application commits its claim without an outcome: the lease goes on, and
\* nobody holds its receipt any more.
Strand(k) ==
    /\ Unclaim(k)
    /\ \E r \in Receipt : /\ subject'[k] = [subject[k] EXCEPT !.holder = r]
                          /\ [key |-> k, token |-> r] \notin receipts

\* A call of complete takes effect.
Complete(c) ==
    /\ status[c] = "open" /\ call[c].kind = "complete"
    /\ claimed[call[c].key] = c
    /\ Apply(call[c].key, call[c].success)
    /\ \/ /\ Waiting(c)
          /\ reply'[c].outcome = IF call[c].success THEN "succeeded" ELSE "failed"
       \/ reply'[c].outcome = "unknown"
    /\ status'[c] = "idle"
    /\ UNCHANGED <<clock, receipts, call>>

\* Only a receipt that is not, and will never again be, good for the subject's
\* lease is called stale.
Stale(c) ==
    LET k == call[c].key
    IN  /\ status[c] = "open" /\ Waiting(c) /\ call[c].kind = "complete"
        /\ subject[k].holder # call[c].token \/ subject[k].until <= clock
        /\ reply'[c].outcome = "stale"
        /\ status'[c] = "idle"
        /\ UNCHANGED <<subject, claimed, clock, receipts, call>>

\* The call ends without effect; "unknown" may leave it open.
GiveUp(c) ==
    /\ status[c] = "open"
    /\ \/ Waiting(c) /\ reply'[c].outcome = "not_consumed" /\ status'[c] = "idle"
       \/ reply'[c].outcome = "unknown" /\ status'[c] \in {"open", "idle"}
    /\ \/ UNCHANGED <<subject, claimed>>
       \/ claimed[call[c].key] = c /\ Withdraw(call[c].key)
    /\ UNCHANGED <<clock, receipts, call>>

\* A transaction of the application ends, or what is left of an abandoned call.
EndClaim(k) ==
    /\ \/ Withdraw(k)
       \/ /\ claimed[k] \notin Client
          /\ Strand(k) \/ \E success \in BOOLEAN : Apply(k, success)
    /\ UNCHANGED <<clock, receipts, call, status, reply>>

Forget ==
    /\ \A k \in Key : subject'[k] = subject[k] \/ Forgotten(k)
    /\ UNCHANGED <<claimed, clock, receipts, call, status, reply>>

\* Receipts are lost or spent without effect, and time passes.
Drop == receipts' \subseteq receipts /\ UNCHANGED <<subject, claimed, clock, call, status, reply>>

Pass == clock' > clock /\ UNCHANGED <<subject, claimed, receipts, call, status, reply>>

Next ==
    \/ Forget \/ Drop \/ Pass
    \/ \E k \in Key : EndClaim(k) \/ Claim(k, claimed'[k])
    \/ \E c \in Client :
        /\ Invoke(c) \/ Grant(c) \/ Deny(c) \/ Complete(c) \/ Stale(c) \/ GiveUp(c)
        /\ \A d \in Client \ {c} :
            call'[d] = call[d] /\ status'[d] = status[d] /\ reply'[d] = reply[d]

Spec == Init /\ [][Next]_vars

=============================================================================
