--------------------------- MODULE AnchoredWindow ---------------------------
(***************************************************************************)
(* What a fixed-window store promises its callers, with no shards, locks,  *)
(* indexes or pruning: every call takes effect at one instant between its  *)
(* invocation and its reply.                                               *)
(*                                                                         *)
(* A counter's window opens with the first charge admitted after the       *)
(* previous one ended, lasts exactly Window[k], and admits at most         *)
(* Limit[k].  A batch charges all of its counters at one common time or    *)
(* none of them.  Each counter has its own notion of the current time,     *)
(* which only moves forward; only clear and recovery may drop a window     *)
(* that is still open.                                                     *)
(***************************************************************************)
EXTENDS Naturals, Sequences, FiniteSets

CONSTANTS Client, Key, Limit, Window, Operation

VARIABLES window, \* key -> [used, expires], NoWindow when none is open
          time,   \* key -> the latest instant the store acted on it
          call,   \* client -> its current or last operation
          reply   \* client -> its answer

vars == <<window, time, call, reply>>

NoWindow == [used |-> 0, expires |-> 0]

\* A window as seen at a later instant.
WindowAt(k, at) == IF window[k].expires > at THEN window[k] ELSE NoWindow

Charged(k, cost, at) ==
    IF window[k].expires > at
    THEN [window[k] EXCEPT !.used = @ + cost]
    ELSE [used |-> cost, expires |-> at + Window[k]]

Within(c, at) == WindowAt(c.key, at).used + c.cost <= Limit[c.key]

Init ==
    /\ window = [k \in Key |-> NoWindow]
    /\ time = [k \in Key |-> 0]
    /\ \A c \in Client : reply[c].outcome # "pending"

Waiting(c) == reply[c].outcome = "pending"

Invoke(c, o) ==
    /\ ~Waiting(c)
    /\ call' = [call EXCEPT ![c] = o]
    /\ \/ reply'[c].outcome = "pending"
       \/ o.kind = "check_all" /\ reply'[c].outcome = "invalid"
    /\ UNCHANGED <<window, time>>

Answer(c, outcomes) ==
    /\ Waiting(c)
    /\ reply'[c].outcome \in outcomes
    /\ UNCHANGED call

\* The passage of time on a counter the call does not charge.
Elapsed(k) == time'[k] >= time[k] /\ window'[k] = WindowAt(k, time'[k])

\* The one instant the checks of a call are decided at.
CommonTime(checks, at) ==
    \A j \in DOMAIN checks : time'[checks[j].key] = at /\ at >= time[checks[j].key]

Admit(c) ==
    LET checks == call[c].checks
        at == time'[checks[1].key]
    IN  /\ Answer(c, {"allowed"})
        /\ CommonTime(checks, at)
        /\ \A j \in DOMAIN checks : Within(checks[j], at)
        /\ \A k \in Key :
             IF \E j \in DOMAIN checks : checks[j].key = k
             THEN \E j \in DOMAIN checks :
                    checks[j].key = k /\ window'[k] = Charged(k, checks[j].cost, at)
             ELSE Elapsed(k)

\* A denial names the first check over its limit and when its window ends.
Deny(c) ==
    LET checks == call[c].checks
        at == time'[checks[1].key]
        j == reply'[c].index
    IN  /\ Answer(c, {"quota_denied", "shadow_denied"})
        /\ CommonTime(checks, at)
        /\ j \in DOMAIN checks
        /\ ~Within(checks[j], at)
        /\ \A h \in 1..(j - 1) : Within(checks[h], at)
        /\ reply'[c].retry = window[checks[j].key].expires - at
        /\ (reply'[c].outcome = "shadow_denied") <=> (checks[j].mode = "Shadow")
        /\ \A k \in Key : Elapsed(k)

\* A bounded store may have no room for a counter that has no window.
Refuse(c) ==
    LET checks == call[c].checks
        j == reply'[c].index
    IN  /\ Answer(c, {"capacity_denied"})
        /\ j \in DOMAIN checks
        /\ WindowAt(checks[j].key, time'[checks[j].key]) = NoWindow
        /\ \A k \in Key : Elapsed(k)

Fail(c) == Answer(c, {"poisoned", "panicked"}) /\ UNCHANGED <<window, time>>

\* Counted usage covers every open window.
Count(c) ==
    /\ Answer(c, {"stats"})
    /\ reply'[c].index >= Cardinality({k \in Key : window[k] # NoWindow})
    /\ UNCHANGED <<window, time>>

\* clear and recovery drop windows; recovery may also forget the time.
Discard(c) ==
    /\ Waiting(c)
    /\ call[c].kind \in {"clear", "recover"}
    /\ reply'[c].outcome \in {"pending", "done"}
    /\ \A k \in Key :
        \/ window'[k] = window[k] /\ time'[k] = time[k]
        \/ window'[k] = NoWindow /\ (time'[k] = time[k] \/ call[c].kind = "recover")
    /\ UNCHANGED call

Next ==
    \E c \in Client :
        /\ \/ \E o \in Operation : Invoke(c, o)
           \/ Admit(c)
           \/ Deny(c)
           \/ Refuse(c)
           \/ Fail(c)
           \/ Count(c)
           \/ Discard(c)
        /\ \A d \in Client \ {c} : reply'[d] = reply[d]

Spec == Init /\ [][Next]_vars

=============================================================================
