--------------------------- MODULE MemoryAttempts ---------------------------
(***************************************************************************)
(* The process-local attempt limiter (runlimit-memory/src/attempts.rs).    *)
(*                                                                         *)
(* One mutex guards all of the state, so each call is one step; what makes *)
(* the component hard is the order of calls.  Entries are reconciled only  *)
(* when somebody looks at them, cleanup walks the map a few entries at a   *)
(* time, receipts may be completed late, twice removed from the lease they *)
(* belong to, or never, receipts of another limiter may be presented, and  *)
(* the clock may move backwards or panic with the mutex held.              *)
(***************************************************************************)
EXTENDS AttemptPolicy, FiniteSetsExt

CONSTANTS Capacity,      \* hard bound on entries
          CleanupBatch,  \* entries one cleanup pass examines (16 in the code)
          MaxGeneration, \* largest receipt sequence number (u64::MAX in the code)
          Foreign,       \* receipts of another limiter that may be presented
          Time,          \* the values the clock may return
          NoKey          \* the cursor before the first entry

ASSUME MemoryAttemptsAssumption ==
    /\ IsFiniteSet(Key)
    /\ Capacity \in Nat \ {0}
    /\ CleanupBatch \in Nat \ {0}
    /\ MaxGeneration \in Nat
    /\ Time \subseteq Nat
    /\ Foreign \subseteq [key : Key, generation : 1..MaxGeneration, own : {FALSE}, until : Nat]
    /\ NoKey \notin Key

VARIABLES entries,    \* key -> its entry, NoEntry when the map holds none
          generation, \* the last receipt sequence number issued
          now,        \* the greatest clock value seen
          cursor,     \* the last key the previous cleanup examined
          poisoned,   \* a call panicked while it held the mutex
          receipts,   \* receipts the application has not presented yet
          reply       \* answer of the last call

vars == <<entries, generation, now, cursor, poisoned, receipts, reply>>

\* A lease is the pair (generation, until); generation zero means no lease.
NoLease == [generation |-> 0, until |-> 0]

NoEntry == [failures |-> 0, lastFailure |-> 0, retryAt |-> 0, lease |-> NoLease, stored |-> FALSE]

NewEntry(at) ==
    [failures |-> 0, lastFailure |-> at, retryAt |-> at, lease |-> NoLease, stored |-> TRUE]

Reply(outcome, k, retry) == [outcome |-> outcome, key |-> k, receipt |-> 0, retry |-> retry]

Init ==
    /\ entries = [k \in Key |-> NoEntry]
    /\ generation = 0
    /\ now = 0
    /\ cursor = NoKey
    /\ poisoned = FALSE
    /\ receipts = {}
    /\ reply = Reply("none", NoKey, 0)

Stored(map) == {k \in Key : map[k].stored}

----------------------------------------------------------------------------
(* Transitions of one entry                                                *)

Fail(k, e, at) ==
    [e EXCEPT !.failures = @ + 1,
              !.lastFailure = at,
              !.retryAt = at + Delay(k, e.failures + 1)]

\* reconcile, first half: an expired lease is a failure at its own end.
Lapse(k, e, at) ==
    IF e.lease # NoLease /\ at >= e.lease.until
    THEN Fail(k, [e EXCEPT !.lease = NoLease], e.lease.until)
    ELSE e

\* reconcile: then a quiet period forgives all failures.
Reconcile(k, e, at) ==
    LET lapsed == Lapse(k, e, at)
    IN  IF lapsed.lease = NoLease /\ at >= lapsed.lastFailure + QuietPeriod[k]
        THEN [lapsed EXCEPT !.failures = 0, !.retryAt = at]
        ELSE lapsed

\* deny
Denial(k, e, at) ==
    CASE e.lease # NoLease -> Reply("busy", k, e.lease.until - at)
      [] e.lease = NoLease /\ at < e.retryAt -> Reply("backoff", k, e.retryAt - at)
      [] OTHER -> Reply("none", NoKey, 0)

----------------------------------------------------------------------------
(* cleanup: the next few entries after the cursor                          *)

After(map, c) == {k \in Stored(map) : c = NoKey \/ k > c}

Examined(map, c) ==
    {k \in After(map, c) : Cardinality({j \in After(map, c) : j < k}) < CleanupBatch}

\* A cursor that stays at the end of the map instead of wrapping around.
NextCursorStuck(map, c) == IF Examined(map, c) = {} THEN c ELSE Max(Examined(map, c))

\* A pass that finds nothing after the cursor only rewinds it.
NextCursor(map, c) == IF Examined(map, c) = {} THEN NoKey ELSE Max(Examined(map, c))

\* Garbage judged by the last failure even while an attempt is leased.
OriginIgnoringLease(e) == e.lastFailure

Origin(e) == IF e.lease = NoLease THEN e.lastFailure ELSE e.lease.until

Reclaimable(k, e, at) == at >= Origin(e) + QuietPeriod[k]

Cleanup(map, c, at) ==
    [k \in Key |-> IF k \in Examined(map, c) /\ Reclaimable(k, map[k], at)
                   THEN NoEntry ELSE map[k]]

----------------------------------------------------------------------------
(* Calls                                                                   *)

Sampled(observed) == IF observed > now THEN observed ELSE now

\* Room for one entry more than the capacity.
FullTooLate(map) == Cardinality(Stored(map)) > Capacity

Full(map) == Cardinality(Stored(map)) >= Capacity

\* admit.  A denial and an exhausted sequence keep what cleanup and reconcile
\* have already done.
Admit(k, observed) ==
    LET at == Sampled(observed)
        cleaned == Cleanup(entries, cursor, at)
        settled == IF cleaned[k].stored
                   THEN [cleaned EXCEPT ![k] = Reconcile(k, @, at)] ELSE cleaned
        denial == CASE settled[k].stored -> Denial(k, settled[k], at)
                    [] ~settled[k].stored /\ Full(settled) -> Reply("storage_capacity", k, 0)
                    [] OTHER -> Reply("none", NoKey, 0)
        lease == [generation |-> generation + 1, until |-> at + LeasePeriod[k]]
        base == IF settled[k].stored THEN settled[k] ELSE NewEntry(at)
    IN  /\ ~poisoned
        /\ now' = at
        /\ cursor' = NextCursor(entries, cursor)
        /\ \/ /\ denial.outcome # "none"
              /\ entries' = settled
              /\ reply' = denial
              /\ UNCHANGED <<generation, receipts>>
           \/ /\ denial.outcome = "none"
              /\ generation = MaxGeneration
              /\ entries' = settled
              /\ reply' = Reply("sequence_exhausted", k, 0)
              /\ UNCHANGED <<generation, receipts>>
           \/ /\ denial.outcome = "none"
              /\ generation < MaxGeneration
              /\ generation' = generation + 1
              /\ entries' = [settled EXCEPT ![k] = [base EXCEPT !.lease = lease]]
              /\ receipts' = receipts \cup {[key |-> k, generation |-> generation + 1, own |-> TRUE,
                                             until |-> lease.until]}
              /\ reply' = Reply("admitted", k, 0)
        /\ UNCHANGED poisoned

\* A match that only asks whether the subject has some live lease.
MatchesAnyLease(r, at) ==
    /\ entries[r.key].stored
    /\ r.own
    /\ entries[r.key].lease # NoLease
    /\ at < entries[r.key].lease.until

\* The receipt belongs to this limiter and to the lease that is still running.
Matches(r, at) ==
    /\ entries[r.key].stored
    /\ r.own
    /\ entries[r.key].lease # NoLease
    /\ entries[r.key].lease.generation = r.generation
    /\ at < entries[r.key].lease.until

Presented(outcome, r, retry) ==
    [outcome |-> outcome, key |-> r.key, receipt |-> r.generation, retry |-> retry]

\* complete; an abandoned attempt counts as a failed one.
Complete(r, outcome, observed) ==
    LET at == Sampled(observed)
        e == entries[r.key]
        failed == Fail(r.key, [e EXCEPT !.lease = NoLease], at)
    IN  /\ ~poisoned
        /\ now' = at
        /\ receipts' = receipts \ {r}
        /\ \/ /\ Matches(r, at)
              /\ outcome = "Success"
              /\ entries' = [entries EXCEPT ![r.key] = NoEntry]
              /\ reply' = Presented("succeeded", r, 0)
           \/ /\ Matches(r, at)
              /\ outcome # "Success"
              /\ entries' = [entries EXCEPT ![r.key] = failed]
              /\ reply' = Presented("failed", r, Delay(r.key, failed.failures))
           \/ /\ ~Matches(r, at)
              /\ reply' = Presented("stale", r, 0)
              /\ UNCHANGED entries
        /\ UNCHANGED <<generation, cursor, poisoned>>

\* The clock panics in admit or complete, before anything is written.
ClockPanic ==
    /\ ~poisoned
    /\ poisoned' = TRUE
    /\ reply' = Reply("panicked", NoKey, 0)
    /\ UNCHANGED <<entries, generation, now, cursor, receipts>>

\* Every later call fails closed; nothing ever clears this poison.
RefusePoisoned ==
    /\ poisoned
    /\ reply' = Reply("poisoned", NoKey, 0)
    /\ UNCHANGED <<entries, generation, now, cursor, poisoned, receipts>>

AdmitAny == \E k \in Key, observed \in Time : Admit(k, observed)

Next ==
    \/ AdmitAny
    \/ \E r \in receipts \cup Foreign, outcome \in {"Success", "Failure", "Abandoned"},
          observed \in Time : Complete(r, outcome, observed)
    \/ ClockPanic
    \/ RefusePoisoned

Spec == Init /\ [][Next]_vars

\* The application keeps asking for attempts.
FairSpec == Spec /\ WF_vars(AdmitAny)

----------------------------------------------------------------------------
(* Properties                                                              *)

EntryType ==
    [failures : Nat, lastFailure : Nat, retryAt : Nat,
     lease : [generation : 0..MaxGeneration, until : Nat], stored : BOOLEAN]

\* Every variable stays in its type, receipt numbers included: the sequence is
\* never advanced past its largest number.
TypeOK ==
    /\ entries \in [Key -> EntryType]
    /\ generation \in 0..MaxGeneration
    /\ now \in Nat
    /\ cursor \in Key \cup {NoKey}
    /\ poisoned \in BOOLEAN
    /\ receipts \subseteq [key : Key, generation : 1..MaxGeneration, own : {TRUE}, until : Nat]
    /\ reply \in [outcome : {"none", "busy", "backoff", "storage_capacity", "sequence_exhausted",
                             "admitted", "succeeded", "failed", "stale", "panicked", "poisoned"},
                  key : Key \cup {NoKey}, receipt : 0..MaxGeneration, retry : Nat]

\* "A bounded attempt store": admission never grows the map past its capacity,
\* however cleanup, success and expiry interleave.
HardBound == Cardinality(Stored(entries)) <= Capacity

\* "exactly one in-flight attempt": of all the receipts ever handed out and not
\* yet presented, at most one per subject is still within its lease.  Cleanup,
\* reconciliation and late completions must never free a subject whose receipt
\* is still good.
SingleFlight ==
    \A r, s \in receipts : r.key = s.key /\ now < r.until /\ now < s.until => r = s

\* Cleanup's cursor visits every entry again and again: as long as the
\* application keeps calling admit, an entry that has been quiet long enough does
\* not occupy the bounded store for ever.
GarbageReclaimed ==
    \A k \in Key :
        (entries[k].stored /\ Reclaimable(k, entries[k], now))
            ~> (poisoned \/ ~entries[k].stored \/ ~Reclaimable(k, entries[k], now))

\* The state a caller can observe: entries as they would be reconciled now.
Observed(k) ==
    LET settled == Reconcile(k, entries[k], now)
    IN  [failures |-> settled.failures, until |-> settled.lease.until,
         holder |-> settled.lease.generation,
         failedAt |-> IF settled.lease = NoLease /\ settled.failures > 0
                      THEN settled.lastFailure ELSE 0]

Abstract == INSTANCE AttemptThrottle WITH
    Receipt <- 1..MaxGeneration,
    time <- now,
    subject <- [k \in Key |-> Observed(k)],
    issued <- 1..generation

\* The limiter implements its promise: lazily expired leases count as failures at
\* the instant they ended, cleanup and removal are invisible, a stale or foreign
\* receipt changes nothing, and every denial states exactly when it ends.
ImplementsAttemptThrottle == Abstract!Spec

=============================================================================
