------------------------ MODULE MemoryAttemptsProofs ------------------------
(***************************************************************************)
(* Proofs about MemoryAttempts, for every set of subjects, every timing    *)
(* policy, every capacity and every behaviour of the clock: the store      *)
(* never outgrows its capacity, no subject ever has two good receipts, and *)
(* the limiter implements AttemptThrottle.                                 *)
(***************************************************************************)
EXTENDS MemoryAttempts, FiniteSetTheorems, TLAPS

----------------------------------------------------------------------------
(* Numbers and sets                                                        *)

\* A nonempty finite set of naturals has a maximum, and Max chooses it.
LEMMA MaxOfFinite ==
  ASSUME NEW S \in SUBSET Nat, IsFiniteSet(S), S # {}
  PROVE  Max(S) \in S /\ \A y \in S : y <= Max(S)
<1> DEFINE HasMax(A) == \E x \in A : \A y \in A : y <= x
<1> DEFINE Bad == {A \in SUBSET S : A # {} /\ ~HasMax(A)}
<1>1. Bad = {}
  <2> SUFFICES ASSUME Bad # {} PROVE FALSE
    OBVIOUS
  <2>1. IsWellFoundedOn(StrictSubsetOrdering(S), SUBSET S)
    BY FS_StrictSubsetOrderingWellFounded, FS_FiniteSubsetsOfFinite
  <2>2. PICK A \in Bad : \A B \in Bad : ~(<<B, A>> \in StrictSubsetOrdering(S))
    <3>1. Bad \subseteq SUBSET S
      OBVIOUS
    <3> HIDE DEF Bad
    <3> QED BY <2>1, <3>1, WFMin
  <2>3. PICK x \in A : TRUE
    BY <2>2
  <2> DEFINE B == A \ {x}
  <2>4. B # A /\ B \subseteq A /\ B \in SUBSET S /\ A \in SUBSET S
    BY <2>2, <2>3
  <2>5. <<B, A>> \in StrictSubsetOrdering(S)
    BY <2>4 DEF StrictSubsetOrdering
  <2>6. B = {} \/ HasMax(B)
    BY <2>2, <2>4, <2>5
  <2>7. HasMax(A)
    <3>1. A \subseteq Nat
      BY <2>2
    <3>2. CASE B = {}
      <4>1. A = {x}
        BY <2>3, <3>2
      <4> QED BY <4>1, <3>1
    <3>3. CASE HasMax(B)
      <4>1. PICK m \in B : \A y \in B : y <= m
        BY <3>3
      <4>2. CASE x <= m
        BY <4>1, <4>2, <2>3
      <4>3. CASE ~(x <= m)
        <5>1. \A y \in A : y <= x
          BY <4>1, <4>3, <2>3, <3>1
        <5> QED BY <5>1, <2>3
      <4> QED BY <4>2, <4>3
    <3> QED BY <2>6, <3>2, <3>3
  <2> QED BY <2>2, <2>7
<1>2. HasMax(S)
  BY <1>1
<1>3. PICK x \in S : \A y \in S : y <= x
  BY <1>2
<1>4. \A y \in S : x >= y
  BY <1>3
<1>5. Max(S) \in S /\ \A y \in S : Max(S) >= y
  BY <1>4 DEF Max
<1> QED BY <1>5

----------------------------------------------------------------------------
(* The inductive invariant                                                 *)

\* An entry `e` of `k` when `last` receipts were issued and the clock shows `at`.
EntryOK(k, e, last, at) ==
    /\ ~e.stored => e = NoEntry
    /\ e.lease = NoLease \/ (e.lease.generation \in 1..last /\ e.lease.until > 0)
    /\ e.failures > 0 => e.retryAt = e.lastFailure + Delay(k, e.failures)
    /\ e.failures = 0 => e.retryAt <= at

\* A receipt still within its lease is the receipt of the lease its subject has.
ReceiptOK(r, e, last, at) ==
    /\ r.generation <= last
    /\ at < r.until => e.lease = [generation |-> r.generation, until |-> r.until]
    /\ e.lease.generation = r.generation => e.lease.until = r.until

EntriesInv == \A k \in Key : EntryOK(k, entries[k], generation, now)

ReceiptsInv == \A r \in receipts : ReceiptOK(r, entries[r.key], generation, now)

Inv == TypeOK /\ HardBound /\ EntriesInv /\ ReceiptsInv

----------------------------------------------------------------------------
(* Delays                                                                  *)

\* A power of two counts the subsets of a finite set.
LEMMA PowerOfTwo ==
  ASSUME NEW n \in Nat
  PROVE  2 ^ n \in Nat \ {0}
<1>1. IsFiniteSet(1..n) /\ Cardinality(1..n) = n
  BY FS_Interval
<1>2. IsFiniteSet(SUBSET (1..n)) /\ Cardinality(SUBSET (1..n)) = 2 ^ n
  BY <1>1, FS_SUBSET
<1>3. Cardinality(SUBSET (1..n)) \in Nat /\ Cardinality(SUBSET (1..n)) # 0
  BY <1>2, FS_CardinalityType, FS_EmptySet
<1> QED BY <1>2, <1>3

\* AttemptPolicy::delay is a whole number of milliseconds, and no failure waits longer
\* than the cap.
LEMMA DelayLemma ==
  ASSUME NEW k \in Key, NEW n \in Nat
  PROVE  Delay(k, n) \in Nat /\ Delay(k, n) <= MaximumDelay[k] /\ Delay(k, n) <= QuietPeriod[k]
<1>1. InitialDelay[k] \in Nat /\ MaximumDelay[k] \in Nat /\ QuietPeriod[k] \in Nat
      /\ MaximumDelay[k] <= QuietPeriod[k]
  BY AttemptPolicyAssumption
<1>2. CASE n = 0
  BY <1>1, <1>2 DEF Delay
<1>3. CASE n # 0
  <2> DEFINE p == 2 ^ (n - 1)
  <2>1. p \in Nat
    BY <1>3, PowerOfTwo
  <2>2. Delay(k, n) = IF InitialDelay[k] * p < MaximumDelay[k] THEN InitialDelay[k] * p
                      ELSE MaximumDelay[k]
    BY <1>3 DEF Delay
  <2> HIDE DEF p
  <2>3. InitialDelay[k] * p \in Nat
    BY <1>1, <2>1
  <2> QED BY <1>1, <2>2, <2>3
<1> QED BY <1>2, <1>3

----------------------------------------------------------------------------
(* Transitions of one entry                                                *)

\* The absent entry has its type and satisfies every condition on entries.
LEMMA NoEntryLemma ==
  ASSUME NEW k \in Key, NEW last \in Nat, NEW at \in Nat
  PROVE  NoEntry \in EntryType /\ EntryOK(k, NoEntry, last, at)
<1>1. MaxGeneration \in Nat
  BY MemoryAttemptsAssumption
<1> QED BY <1>1 DEF NoEntry, NoLease, EntryType, EntryOK

\* A failure is recorded with the delay its count calls for.
LEMMA FailLemma ==
  ASSUME NEW k \in Key, NEW e \in EntryType, NEW at \in Nat, e.stored
  PROVE  LET f == Fail(k, [e EXCEPT !.lease = NoLease], at)
         IN  /\ f \in EntryType
             /\ f.stored /\ f.lease = NoLease
             /\ f.failures = e.failures + 1 /\ f.lastFailure = at
             /\ f.retryAt = at + Delay(k, e.failures + 1)
             /\ \A last, t \in Nat : EntryOK(k, f, last, t)
<1> DEFINE f == Fail(k, [e EXCEPT !.lease = NoLease], at)
<1> DEFINE d == Delay(k, e.failures + 1)
<1>1. e.failures \in Nat /\ MaxGeneration \in Nat
  BY MemoryAttemptsAssumption DEF EntryType
<1>2. d \in Nat
  BY <1>1, DelayLemma
<1>3. NoLease \in [generation : 0..MaxGeneration, until : Nat]
  BY <1>1 DEF NoLease
<1>4. f = [e EXCEPT !.lease = NoLease, !.failures = e.failures + 1, !.lastFailure = at,
                    !.retryAt = at + d]
  BY DEF Fail, EntryType
<1> HIDE DEF d
<1>5. /\ f.stored /\ f.lease = NoLease /\ f.failures = e.failures + 1 /\ f.lastFailure = at
      /\ f.retryAt = at + d
  BY <1>4 DEF EntryType
<1> HIDE DEF f
<1>6. f \in EntryType
  <2>1. e.failures + 1 \in Nat /\ at + d \in Nat
    BY <1>1, <1>2
  <2> DEFINE n == e.failures + 1
  <2> DEFINE w == at + d
  <2>2. n \in Nat /\ w \in Nat
        /\ f = [e EXCEPT !.lease = NoLease, !.failures = n, !.lastFailure = at, !.retryAt = w]
    BY <1>4, <2>1
  <2> HIDE DEF n, w
  <2> QED BY <1>3, <2>2 DEF EntryType
<1>7. \A last, t \in Nat : EntryOK(k, f, last, t)
  <2>1. d = Delay(k, f.failures)
    BY <1>5 DEF d
  <2>2. f.retryAt = f.lastFailure + Delay(k, f.failures)
    BY <1>5, <2>1
  <2>3. f.failures > 0 /\ f.failures # 0
    BY <1>1, <1>5
  <2> QED BY <1>5, <2>2, <2>3 DEF EntryOK
<1> QED BY <1>5, <1>6, <1>7 DEF f, d

\* Lapse: a lease that ran out is a failure at its own end, any other lease stays.
LEMMA LapseLemma ==
  ASSUME NEW k \in Key, NEW e \in EntryType, NEW last \in Nat, NEW t \in Nat, NEW at \in Nat,
         t <= at, e.stored, EntryOK(k, e, last, t)
  PROVE  LET l == Lapse(k, e, at)
         IN  /\ l \in EntryType /\ l.stored /\ EntryOK(k, l, last, at)
             /\ l.lease = NoLease \/ (l = e /\ at < e.lease.until)
             /\ e.lease = NoLease \/ at < e.lease.until => l = e
<1>1. CASE e.lease # NoLease /\ at >= e.lease.until
  <2>1. Lapse(k, e, at) = Fail(k, [e EXCEPT !.lease = NoLease], e.lease.until)
    BY <1>1 DEF Lapse
  <2>2. e.lease.until \in Nat
    BY DEF EntryType
  <2> QED BY <1>1, <2>1, <2>2, FailLemma
<1>2. CASE ~(e.lease # NoLease /\ at >= e.lease.until)
  <2>1. Lapse(k, e, at) = e
    BY <1>2 DEF Lapse
  <2>2. EntryOK(k, e, last, at)
    BY DEF EntryOK, EntryType
  <2>3. e.lease.until \in Nat
    BY DEF EntryType
  <2> QED BY <1>2, <2>1, <2>2, <2>3
<1> QED BY <1>1, <1>2

\* reconcile leaves an entry that fits the receipts issued and the clock, and a live
\* lease as it is.
LEMMA ReconcileLemma ==
  ASSUME NEW k \in Key, NEW e \in EntryType, NEW last \in Nat, NEW t \in Nat, NEW at \in Nat,
         t <= at, e.stored, EntryOK(k, e, last, t)
  PROVE  LET s == Reconcile(k, e, at)
         IN  /\ s \in EntryType /\ s.stored /\ EntryOK(k, s, last, at)
             /\ s.lease = NoLease \/ (s = e /\ at < e.lease.until)
             /\ e.lease # NoLease /\ at < e.lease.until => s = e
             /\ s.lease = NoLease /\ at >= s.lastFailure + QuietPeriod[k] => s.failures = 0
<1> DEFINE l == Lapse(k, e, at)
<1>1. /\ l \in EntryType /\ l.stored /\ EntryOK(k, l, last, at)
      /\ l.lease = NoLease \/ (l = e /\ at < e.lease.until)
      /\ e.lease # NoLease /\ at < e.lease.until => l = e
  BY LapseLemma
<1>2. Reconcile(k, e, at) = IF l.lease = NoLease /\ at >= l.lastFailure + QuietPeriod[k]
                            THEN [l EXCEPT !.failures = 0, !.retryAt = at] ELSE l
  BY DEF Reconcile
<1> HIDE DEF l
<1>3. CASE l.lease = NoLease /\ at >= l.lastFailure + QuietPeriod[k]
  <2> DEFINE s == [l EXCEPT !.failures = 0, !.retryAt = at]
  <2>1. s \in EntryType /\ s.stored /\ s.lease = NoLease /\ s.failures = 0 /\ s.retryAt = at
    BY <1>1, <1>3 DEF EntryType
  <2>2. EntryOK(k, s, last, at)
    BY <2>1 DEF EntryOK
  <2> QED BY <1>1, <1>2, <1>3, <2>1, <2>2
<1>4. CASE ~(l.lease = NoLease /\ at >= l.lastFailure + QuietPeriod[k])
  BY <1>1, <1>2, <1>4
<1> QED BY <1>3, <1>4

----------------------------------------------------------------------------
(* Cleanup and settlement of the whole map                                 *)

\* The stored entries form a finite set.
LEMMA StoredFinite ==
  ASSUME NEW map
  PROVE  /\ IsFiniteSet(Stored(map)) /\ Cardinality(Stored(map)) \in Nat
         /\ \A S \in SUBSET Stored(map) :
               IsFiniteSet(S) /\ Cardinality(S) \in Nat /\ Cardinality(S) <= Cardinality(Stored(map))
<1>1. Stored(map) \subseteq Key /\ IsFiniteSet(Key)
  BY MemoryAttemptsAssumption DEF Stored
<1>2. IsFiniteSet(Stored(map))
  BY <1>1, FS_Subset
<1> QED BY <1>2, FS_Subset, FS_CardinalityType

\* The cursor is a key, or rewound.
LEMMA NextCursorType ==
  ASSUME NEW map, NEW c
  PROVE  NextCursor(map, c) \in Key \cup {NoKey}
<1> DEFINE X == Examined(map, c)
<1>1. X \subseteq Stored(map) /\ X \subseteq Key /\ Key \subseteq Nat
  BY AttemptPolicyAssumption DEF Examined, After, Stored
<1>2. IsFiniteSet(X)
  BY <1>1, StoredFinite
<1>3. CASE X = {}
  BY <1>3 DEF NextCursor
<1>4. CASE X # {}
  <2>1. Max(X) \in X
    <3>1. X \in SUBSET Nat
      BY <1>1
    <3> HIDE DEF X
    <3> QED BY <1>2, <1>4, <3>1, MaxOfFinite
  <2> QED BY <1>1, <1>4, <2>1 DEF NextCursor
<1> QED BY <1>3, <1>4

\* The map admit decides on: cleaned, and the subject's own entry reconciled.
Settled(k, at) ==
    LET cleaned == Cleanup(entries, cursor, at)
    IN  IF cleaned[k].stored THEN [cleaned EXCEPT ![k] = Reconcile(k, @, at)] ELSE cleaned

\* What settlement does to one entry.
Settling(k, j, at, e) ==
    \/ e = entries[j]
    \/ e = NoEntry /\ Reclaimable(j, entries[j], at)
    \/ j = k /\ entries[j].stored /\ e = Reconcile(j, entries[j], at)

\* What the map of entries becomes when the lapsed lease of a subject is settled.
LEMMA SettlingLemma ==
  ASSUME Inv, NEW k \in Key, NEW at
  PROVE  /\ DOMAIN Settled(k, at) = Key
         /\ \A j \in Key : Settling(k, j, at, Settled(k, at)[j])
         /\ Settled(k, at)[k].stored =>
               entries[k].stored /\ Settled(k, at)[k] = Reconcile(k, entries[k], at)
         /\ ~Settled(k, at)[k].stored =>
               \/ entries[k] = NoEntry
               \/ Reclaimable(k, entries[k], at)
<1> DEFINE C == Cleanup(entries, cursor, at)
<1> DEFINE S == Settled(k, at)
<1>1. DOMAIN C = Key /\ \A j \in Key : C[j] = entries[j] \/ (C[j] = NoEntry /\ Reclaimable(j, entries[j], at))
  BY DEF Cleanup
<1>2. ~NoEntry.stored
  BY DEF NoEntry
<1>3. ~entries[k].stored => entries[k] = NoEntry
  BY DEF Inv, EntriesInv, EntryOK
<1>4. S = IF C[k].stored THEN [C EXCEPT ![k] = Reconcile(k, C[k], at)] ELSE C
  BY DEF Settled
<1> HIDE DEF C, S
<1>5. CASE C[k].stored
  <2>1. C[k] = entries[k] /\ entries[k].stored
    BY <1>1, <1>2, <1>5
  <2>2. DOMAIN S = Key /\ S[k] = Reconcile(k, entries[k], at) /\ \A j \in Key : j # k => S[j] = C[j]
    BY <1>1, <1>4, <1>5, <2>1
  <2>3. Reconcile(k, entries[k], at).stored
    <3>1. CASE entries[k].lease # NoLease /\ at >= entries[k].lease.until
      BY <2>1, <3>1 DEF Reconcile, Lapse, Fail, Inv, TypeOK, EntryType
    <3>2. CASE ~(entries[k].lease # NoLease /\ at >= entries[k].lease.until)
      BY <2>1, <3>2 DEF Reconcile, Lapse, Inv, TypeOK, EntryType
    <3> QED BY <3>1, <3>2
  <2>4. \A j \in Key : Settling(k, j, at, S[j])
    BY <1>1, <2>1, <2>2 DEF Settling
  <2> QED BY <2>1, <2>2, <2>3, <2>4 DEF S
<1>6. CASE ~C[k].stored
  <2>1. S = C
    BY <1>4, <1>6
  <2>2. \A j \in Key : Settling(k, j, at, S[j])
    BY <1>1, <2>1 DEF Settling
  <2> QED BY <1>1, <1>3, <1>6, <2>1, <2>2 DEF S
<1> QED BY <1>5, <1>6

\* Settlement keeps every entry in shape, stores no new one, and never touches a lease
\* that is still running.
LEMMA SettledLemma ==
  ASSUME Inv, NEW k \in Key, NEW at \in Nat, now <= at
  PROVE  /\ Settled(k, at) \in [Key -> EntryType]
         /\ \A j \in Key : EntryOK(j, Settled(k, at)[j], generation, at)
         /\ Stored(Settled(k, at)) \subseteq Stored(entries)
         /\ \A j \in Key : entries[j].lease # NoLease /\ at < entries[j].lease.until
                              => Settled(k, at)[j] = entries[j]
         /\ \A j \in Key : Settled(k, at)[j].lease \in {NoLease, entries[j].lease}
         /\ Settled(k, at)[k].lease = NoLease \/ at < Settled(k, at)[k].lease.until
<1> DEFINE S == Settled(k, at)
<1>1. /\ DOMAIN S = Key /\ \A j \in Key : Settling(k, j, at, S[j])
      /\ S[k].stored => entries[k].stored /\ S[k] = Reconcile(k, entries[k], at)
      /\ ~S[k].stored => entries[k] = NoEntry \/ Reclaimable(k, entries[k], at)
  BY SettlingLemma
<1>2. now \in Nat /\ generation \in Nat /\ QuietPeriod \in [Key -> Nat]
  BY MemoryAttemptsAssumption, AttemptPolicyAssumption DEF Inv, TypeOK
<1>3. S = [j \in Key |-> S[j]]
  <2>1. CASE Cleanup(entries, cursor, at)[k].stored
    BY <2>1 DEF Settled, Cleanup
  <2>2. CASE ~Cleanup(entries, cursor, at)[k].stored
    BY <2>2 DEF Settled, Cleanup
  <2> QED BY <2>1, <2>2
<1> HIDE DEF S
<1>4. ASSUME NEW j \in Key
      PROVE  /\ S[j] \in EntryType /\ EntryOK(j, S[j], generation, at)
             /\ S[j].stored => entries[j].stored
             /\ entries[j].lease # NoLease /\ at < entries[j].lease.until => S[j] = entries[j]
             /\ S[j].lease \in {NoLease, entries[j].lease}
  <2>1. entries[j] \in EntryType /\ EntryOK(j, entries[j], generation, now)
    BY DEF Inv, TypeOK, EntriesInv
  <2>2. CASE S[j] = entries[j]
    <3>1. EntryOK(j, entries[j], generation, at)
      BY <1>2, <2>1 DEF EntryOK, EntryType
    <3> QED BY <2>1, <2>2, <3>1
  <2>3. CASE S[j] = NoEntry /\ Reclaimable(j, entries[j], at)
    <3>1. ~(entries[j].lease # NoLease /\ at < entries[j].lease.until)
      BY <1>2, <2>1, <2>3 DEF Reclaimable, Origin, EntryType
    <3>2. ~NoEntry.stored /\ NoEntry.lease = NoLease
      BY DEF NoEntry
    <3> QED BY <1>2, <2>3, <3>1, <3>2, NoEntryLemma
  <2>4. CASE j = k /\ entries[j].stored /\ S[j] = Reconcile(j, entries[j], at)
    <3> DEFINE e == entries[j]
    <3> DEFINE s == Reconcile(j, e, at)
    <3>1. e \in EntryType /\ e.stored /\ EntryOK(j, e, generation, now) /\ S[j] = s
      BY <2>1, <2>4
    <3> HIDE DEF e
    <3>2. /\ s \in EntryType /\ s.stored /\ EntryOK(j, s, generation, at)
          /\ s.lease = NoLease \/ (s = e /\ at < e.lease.until)
          /\ e.lease # NoLease /\ at < e.lease.until => s = e
      BY <1>2, <3>1, ReconcileLemma
    <3> HIDE DEF s
    <3> QED BY <3>1, <3>2 DEF e
  <2> QED BY <1>1, <2>2, <2>3, <2>4 DEF Settling
<1>5. S \in [Key -> EntryType]
  BY <1>3, <1>4
<1>6. Stored(S) \subseteq Stored(entries)
  BY <1>4 DEF Stored
<1>7. S[k].lease = NoLease \/ at < S[k].lease.until
  <2>1. entries[k] \in EntryType /\ EntryOK(k, entries[k], generation, now)
    BY DEF Inv, TypeOK, EntriesInv
  <2>2. CASE S[k].stored
    BY <1>1, <1>2, <2>1, <2>2, ReconcileLemma
  <2>3. CASE ~S[k].stored
    <3>1. S[k] = NoEntry
      BY <1>4, <2>3 DEF EntryOK
    <3> QED BY <3>1 DEF NoEntry
  <2> QED BY <2>2, <2>3
<1> QED BY <1>4, <1>5, <1>6, <1>7 DEF S

----------------------------------------------------------------------------
(* Admission                                                               *)

\* What admit does once it has settled the map: it denies, finds the sequence
\* exhausted, or leases the subject.
Denies(k, at) ==
    LET e == Settled(k, at)[k]
    IN  /\ entries' = Settled(k, at)
        /\ \/ e.stored /\ e.lease # NoLease /\ reply' = Reply("busy", k, e.lease.until - at)
           \/ /\ e.stored /\ e.lease = NoLease /\ at < e.retryAt
              /\ reply' = Reply("backoff", k, e.retryAt - at)
           \/ ~e.stored /\ reply' = Reply("storage_capacity", k, 0)
        /\ UNCHANGED <<generation, receipts>>

Free(k, at) ==
    LET e == Settled(k, at)[k]
    IN  \/ e.stored /\ e.lease = NoLease /\ ~(at < e.retryAt)
        \/ ~e.stored /\ ~Full(Settled(k, at))

Exhausts(k, at) ==
    /\ Free(k, at)
    /\ generation = MaxGeneration
    /\ entries' = Settled(k, at)
    /\ reply' = Reply("sequence_exhausted", k, 0)
    /\ UNCHANGED <<generation, receipts>>

Base(k, at) == IF Settled(k, at)[k].stored THEN Settled(k, at)[k] ELSE NewEntry(at)

Lease(k, at) == [generation |-> generation + 1, until |-> at + LeasePeriod[k]]

Leases(k, at) ==
    /\ Free(k, at)
    /\ generation < MaxGeneration
    /\ generation' = generation + 1
    /\ entries' = [Settled(k, at) EXCEPT ![k] = [Base(k, at) EXCEPT !.lease = Lease(k, at)]]
    /\ receipts' = receipts \cup {[key |-> k, generation |-> generation + 1, own |-> TRUE,
                                   until |-> at + LeasePeriod[k]]}
    /\ reply' = Reply("admitted", k, 0)

\* An admission at the clamped time either leases the subject or refuses it.
LEMMA AdmitLemma ==
  ASSUME NEW k \in Key, NEW observed \in Time, Admit(k, observed)
  PROVE  /\ now' = Sampled(observed) /\ cursor' = NextCursor(entries, cursor)
         /\ ~poisoned /\ UNCHANGED poisoned
         /\ \/ Denies(k, Sampled(observed))
            \/ Exhausts(k, Sampled(observed))
            \/ Leases(k, Sampled(observed))
<1> DEFINE at == Sampled(observed)
<1> DEFINE S == Settled(k, at)
<1> DEFINE denial == CASE S[k].stored -> Denial(k, S[k], at)
                       [] ~S[k].stored /\ Full(S) -> Reply("storage_capacity", k, 0)
                       [] OTHER -> Reply("none", NoKey, 0)
<1> DEFINE base == IF S[k].stored THEN S[k] ELSE NewEntry(at)
<1> DEFINE lease == [generation |-> generation + 1, until |-> at + LeasePeriod[k]]
<1>1. /\ now' = at /\ cursor' = NextCursor(entries, cursor) /\ ~poisoned /\ UNCHANGED poisoned
      /\ \/ /\ denial.outcome # "none" /\ entries' = S /\ reply' = denial
            /\ UNCHANGED <<generation, receipts>>
         \/ /\ denial.outcome = "none" /\ generation = MaxGeneration /\ entries' = S
            /\ reply' = Reply("sequence_exhausted", k, 0)
            /\ UNCHANGED <<generation, receipts>>
         \/ /\ denial.outcome = "none"
            /\ generation < MaxGeneration
            /\ generation' = generation + 1
            /\ entries' = [S EXCEPT ![k] = [base EXCEPT !.lease = lease]]
            /\ receipts' = receipts \cup {[key |-> k, generation |-> generation + 1, own |-> TRUE,
                                           until |-> lease.until]}
            /\ reply' = Reply("admitted", k, 0)
  BY Zenon DEF Admit, Settled
<1>2. \/ /\ denial.outcome = "busy" /\ S[k].stored /\ S[k].lease # NoLease
         /\ denial = Reply("busy", k, S[k].lease.until - at)
      \/ /\ denial.outcome = "backoff" /\ S[k].stored /\ S[k].lease = NoLease /\ at < S[k].retryAt
         /\ denial = Reply("backoff", k, S[k].retryAt - at)
      \/ /\ denial.outcome = "storage_capacity" /\ ~S[k].stored
         /\ denial = Reply("storage_capacity", k, 0)
      \/ denial.outcome = "none" /\ Free(k, at)
  <2> HIDE DEF S, at
  <2>1. \A o, j, r : Reply(o, j, r).outcome = o
    BY DEF Reply
  <2>2. CASE S[k].stored
    <3>1. denial = Denial(k, S[k], at)
      BY <2>2
    <3> HIDE DEF denial
    <3>2. CASE S[k].lease # NoLease
      BY <2>1, <2>2, <3>1, <3>2 DEF Denial
    <3>3. CASE S[k].lease = NoLease /\ at < S[k].retryAt
      BY <2>1, <2>2, <3>1, <3>3 DEF Denial
    <3>4. CASE S[k].lease = NoLease /\ ~(at < S[k].retryAt)
      <4>1. Free(k, at)
        BY <2>2, <3>4 DEF Free, S
      <4> QED BY <2>1, <2>2, <3>1, <3>4, <4>1 DEF Denial
    <3> QED BY <3>2, <3>3, <3>4
  <2>3. CASE ~S[k].stored /\ Full(S)
    BY <2>1, <2>3
  <2>4. CASE ~S[k].stored /\ ~Full(S)
    <3>1. Free(k, at)
      BY <2>4 DEF Free, S
    <3> QED BY <2>1, <2>4, <3>1
  <2> QED BY <2>2, <2>3, <2>4
<1> HIDE DEF denial, at
<1>3. CASE denial.outcome # "none" /\ entries' = S /\ reply' = denial /\ UNCHANGED <<generation, receipts>>
  <2>1. Denies(k, at)
    BY <1>2, <1>3 DEF Denies
  <2> QED BY <1>1, <2>1 DEF at
<1>4. CASE /\ denial.outcome = "none" /\ generation = MaxGeneration /\ entries' = S
           /\ reply' = Reply("sequence_exhausted", k, 0)
           /\ UNCHANGED <<generation, receipts>>
  <2>1. Exhausts(k, at)
    BY <1>2, <1>4 DEF Exhausts
  <2> QED BY <1>1, <2>1 DEF at
<1>5. CASE /\ denial.outcome = "none"
           /\ generation < MaxGeneration
           /\ generation' = generation + 1
           /\ entries' = [S EXCEPT ![k] = [base EXCEPT !.lease = lease]]
           /\ receipts' = receipts \cup {[key |-> k, generation |-> generation + 1, own |-> TRUE,
                                          until |-> lease.until]}
           /\ reply' = Reply("admitted", k, 0)
  <2>1. base = Base(k, at) /\ lease = Lease(k, at) /\ lease.until = at + LeasePeriod[k]
    BY DEF Base, Lease
  <2>2. Leases(k, at)
    BY <1>2, <1>5, <2>1 DEF Leases
  <2> QED BY <1>1, <2>2 DEF at
<1> QED BY <1>1, <1>3, <1>4, <1>5

----------------------------------------------------------------------------
(* The invariant holds initially and every step preserves it               *)

\* The invariant holds initially.
LEMMA InitInv == Init => Inv
<1> SUFFICES ASSUME Init PROVE Inv
  OBVIOUS
<1>1. MaxGeneration \in Nat /\ Capacity \in Nat
  BY MemoryAttemptsAssumption
<1>2. entries = [k \in Key |-> NoEntry] /\ generation = 0 /\ now = 0 /\ cursor = NoKey
      /\ poisoned = FALSE /\ receipts = {} /\ reply = Reply("none", NoKey, 0)
  BY DEF Init
<1>3. \A k \in Key : NoEntry \in EntryType /\ EntryOK(k, NoEntry, 0, 0)
  BY NoEntryLemma
<1>4. reply = [outcome |-> "none", key |-> NoKey, receipt |-> 0, retry |-> 0]
  BY <1>2 DEF Reply
<1>5. TypeOK
  <2>1. entries \in [Key -> EntryType]
    BY <1>2, <1>3
  <2>2. reply \in [outcome : {"none", "busy", "backoff", "storage_capacity", "sequence_exhausted",
                             "admitted", "succeeded", "failed", "stale", "panicked", "poisoned"},
                  key : Key \cup {NoKey}, receipt : 0..MaxGeneration, retry : Nat]
    BY <1>1, <1>4
  <2>3. generation \in 0..MaxGeneration /\ now \in Nat
    <3>1. generation = 0 /\ now = 0
      BY <1>2
    <3> QED BY <1>1, <3>1
  <2>4. cursor \in Key \cup {NoKey} /\ poisoned \in BOOLEAN
    BY <1>2, Zenon
  <2>5. receipts \subseteq [key : Key, generation : 1..MaxGeneration, own : {TRUE}, until : Nat]
    BY <1>2
  <2> QED BY <2>1, <2>2, <2>3, <2>4, <2>5 DEF TypeOK
<1>6. Stored(entries) = {}
  BY <1>2 DEF Stored, NoEntry
<1>7. HardBound
  BY <1>1, <1>6, FS_EmptySet DEF HardBound
<1>8. EntriesInv /\ ReceiptsInv
  BY <1>2, <1>3 DEF EntriesInv, ReceiptsInv
<1> QED BY <1>5, <1>7, <1>8 DEF Inv

\* The clamped clock never moves backwards.
LEMMA SampledLemma ==
  ASSUME Inv, NEW observed \in Time
  PROVE  Sampled(observed) \in Nat /\ now <= Sampled(observed)
BY MemoryAttemptsAssumption DEF Inv, TypeOK, Sampled

Outcome == {"none", "busy", "backoff", "storage_capacity", "sequence_exhausted", "admitted", "succeeded",
            "failed", "stale", "panicked", "poisoned"}

\* Every reply has the type of replies.
LEMMA ReplyType ==
  ASSUME NEW o \in Outcome, NEW k \in Key \cup {NoKey}, NEW n \in Nat
  PROVE  Reply(o, k, n) \in [outcome : Outcome, key : Key \cup {NoKey}, receipt : 0..MaxGeneration, retry : Nat]
BY MemoryAttemptsAssumption DEF Reply

\* A step that settles the map and issues nothing preserves the invariant.
LEMMA SettlesInv ==
  ASSUME Inv, NEW k \in Key, NEW at \in Nat, now <= at, now' = at,
         cursor' = NextCursor(entries, cursor), UNCHANGED <<generation, receipts, poisoned>>,
         entries' = Settled(k, at),
         reply' \in [outcome : Outcome, key : Key \cup {NoKey}, receipt : 0..MaxGeneration, retry : Nat]
  PROVE  Inv'
<1> DEFINE S == Settled(k, at)
<1>1. /\ S \in [Key -> EntryType] /\ \A j \in Key : EntryOK(j, S[j], generation, at)
      /\ Stored(S) \subseteq Stored(entries)
      /\ \A j \in Key : entries[j].lease # NoLease /\ at < entries[j].lease.until => S[j] = entries[j]
      /\ \A j \in Key : S[j].lease \in {NoLease, entries[j].lease}
  BY SettledLemma
<1>2. entries' = S
  OBVIOUS
<1> HIDE DEF S
<1>3. TypeOK'
  BY <1>1, <1>2, NextCursorType DEF Inv, TypeOK, Outcome
<1>4. HardBound'
  <2>1. Cardinality(Stored(S)) \in Nat /\ Cardinality(Stored(S)) <= Cardinality(Stored(entries))
    BY <1>1, StoredFinite
  <2>2. Cardinality(Stored(entries)) \in Nat /\ Cardinality(Stored(entries)) <= Capacity
    BY StoredFinite DEF Inv, HardBound
  <2>3. Cardinality(Stored(S)) <= Capacity
    BY <2>1, <2>2, MemoryAttemptsAssumption
  <2>4. Stored(entries') = Stored(S)
    BY <1>2 DEF Stored
  <2> QED BY <2>3, <2>4 DEF HardBound, Stored
<1>5. EntriesInv'
  BY <1>1, <1>2 DEF EntriesInv
<1>6. ReceiptsInv'
  <2> SUFFICES ASSUME NEW r \in receipts' PROVE ReceiptOK(r, entries'[r.key], generation', now')
    BY DEF ReceiptsInv
  <2>1. r \in receipts /\ r.key \in Key /\ r.generation \in 1..MaxGeneration /\ r.until \in Nat
        /\ ReceiptOK(r, entries[r.key], generation, now) /\ now \in Nat
    BY DEF Inv, TypeOK, ReceiptsInv
  <2>4. S[r.key].lease.generation = r.generation => S[r.key].lease.until = r.until
    BY <1>1, <2>1, MemoryAttemptsAssumption DEF ReceiptOK, NoLease
  <2>2. CASE at < r.until
    <3>1. now < r.until
      BY <2>1, <2>2
    <3>2. entries[r.key].lease = [generation |-> r.generation, until |-> r.until]
      BY <2>1, <3>1 DEF ReceiptOK
    <3>3. entries[r.key].lease # NoLease /\ at < entries[r.key].lease.until
      BY <2>1, <2>2, <3>2, MemoryAttemptsAssumption DEF NoLease
    <3>4. S[r.key] = entries[r.key]
      BY <1>1, <2>1, <3>3
    <3> QED BY <1>2, <2>1, <2>4, <3>2, <3>4 DEF ReceiptOK
  <2>3. CASE ~(at < r.until)
    BY <1>2, <2>1, <2>3, <2>4 DEF ReceiptOK
  <2> QED BY <2>2, <2>3
<1> QED BY <1>3, <1>4, <1>5, <1>6 DEF Inv

\* Leases preserves the invariant.
LEMMA LeasesInv ==
  ASSUME Inv, NEW k \in Key, NEW at \in Nat, now <= at, now' = at,
         cursor' = NextCursor(entries, cursor), UNCHANGED poisoned, Leases(k, at)
  PROVE  Inv'
<1> DEFINE S == Settled(k, at)
<1> DEFINE g == generation + 1
<1> DEFINE u == at + LeasePeriod[k]
<1> DEFINE base == Base(k, at)
<1> DEFINE new == [base EXCEPT !.lease = [generation |-> g, until |-> u]]
<1>1. /\ S \in [Key -> EntryType] /\ \A j \in Key : EntryOK(j, S[j], generation, at)
      /\ Stored(S) \subseteq Stored(entries)
      /\ \A j \in Key : entries[j].lease # NoLease /\ at < entries[j].lease.until => S[j] = entries[j]
      /\ \A j \in Key : S[j].lease \in {NoLease, entries[j].lease}
  BY SettledLemma
<1>2. /\ generation \in Nat /\ g \in 1..MaxGeneration /\ u \in Nat /\ u > at /\ u > 0
      /\ MaxGeneration \in Nat /\ Capacity \in Nat /\ now \in Nat
  BY MemoryAttemptsAssumption, AttemptPolicyAssumption DEF Inv, TypeOK, Leases
<1>3. entries' = [S EXCEPT ![k] = new] /\ generation' = g
      /\ receipts' = receipts \cup {[key |-> k, generation |-> g, own |-> TRUE, until |-> u]}
      /\ reply' = Reply("admitted", k, 0)
  BY DEF Leases, Lease
<1>4. /\ S[k].stored => base = S[k] /\ S[k].lease = NoLease
      /\ ~S[k].stored => base = NewEntry(at) /\ ~Full(S)
  BY DEF Leases, Free, Base
<1> HIDE DEF S, g, u, base
<1>5. /\ base \in EntryType /\ base.stored
      /\ base.failures > 0 => base.retryAt = base.lastFailure + Delay(k, base.failures)
      /\ base.failures = 0 => base.retryAt <= at
  <2>1. CASE S[k].stored
    BY <1>1, <1>4, <2>1 DEF EntryOK
  <2>2. CASE ~S[k].stored
    <3>1. base = [failures |-> 0, lastFailure |-> at, retryAt |-> at,
                  lease |-> [generation |-> 0, until |-> 0], stored |-> TRUE]
      BY <1>4, <2>2 DEF NewEntry, NoLease
    <3>2. base \in EntryType
      BY <1>2, <3>1 DEF EntryType
    <3> QED BY <1>2, <3>1, <3>2
  <2> QED BY <2>1, <2>2
<1>6. [generation |-> g, until |-> u] \in [generation : 0..MaxGeneration, until : Nat]
  BY <1>2
<1>7. /\ new \in EntryType /\ new.stored /\ new.failures = base.failures /\ new.retryAt = base.retryAt
      /\ new.lastFailure = base.lastFailure /\ new.lease = [generation |-> g, until |-> u]
  BY <1>5, <1>6 DEF EntryType
<1> HIDE DEF new
<1>8. entries'[k] = new /\ \A j \in Key : j # k => entries'[j] = S[j]
  BY <1>1, <1>3
<1>9. TypeOK'
  <2>1. entries' \in [Key -> EntryType]
    BY <1>1, <1>3, <1>7
  <2>2. generation' \in 0..MaxGeneration
    BY <1>2, <1>3
  <2>3. receipts' \subseteq [key : Key, generation : 1..MaxGeneration, own : {TRUE}, until : Nat]
    <3>1. [key |-> k, generation |-> g, own |-> TRUE, until |-> u]
            \in [key : Key, generation : 1..MaxGeneration, own : {TRUE}, until : Nat]
      BY <1>2
    <3>2. receipts \subseteq [key : Key, generation : 1..MaxGeneration, own : {TRUE}, until : Nat]
      BY DEF Inv, TypeOK
    <3> QED BY <1>3, <3>1, <3>2
  <2>4. reply' \in [outcome : Outcome, key : Key \cup {NoKey}, receipt : 0..MaxGeneration, retry : Nat]
    BY <1>3, ReplyType DEF Outcome
  <2> QED BY <2>1, <2>2, <2>3, <2>4, NextCursorType DEF Inv, TypeOK, Outcome
<1>10. HardBound'
  <2>1. /\ Cardinality(Stored(S)) \in Nat /\ Cardinality(Stored(S)) <= Cardinality(Stored(entries))
        /\ Cardinality(Stored(entries)) \in Nat /\ Cardinality(Stored(entries)) <= Capacity
        /\ IsFiniteSet(Stored(S))
    BY <1>1, StoredFinite DEF Inv, HardBound
  <2>2. Stored(entries') = Stored(S) \cup {k}
    BY <1>7, <1>8 DEF Stored
  <2>3. Cardinality(Stored(entries')) <= Capacity
    <3>1. CASE S[k].stored
      <4>1. Stored(entries') = Stored(S)
        BY <2>2, <3>1 DEF Stored
      <4> QED BY <1>2, <2>1, <4>1
    <3>2. CASE ~S[k].stored
      <4>1. k \notin Stored(S) /\ ~(Cardinality(Stored(S)) >= Capacity)
        BY <1>4, <3>2 DEF Stored, Full
      <4>2. Cardinality(Stored(S) \cup {k}) = Cardinality(Stored(S)) + 1
        BY <2>1, <4>1, FS_AddElement
      <4> QED BY <1>2, <2>1, <2>2, <4>1, <4>2
    <3> QED BY <3>1, <3>2
  <2> QED BY <2>3 DEF HardBound, Stored
<1>11. EntriesInv'
  <2> SUFFICES ASSUME NEW j \in Key PROVE EntryOK(j, entries'[j], generation', now')
    BY DEF EntriesInv
  <2>1. CASE j = k
    <3>1. EntryOK(k, new, g, at)
      BY <1>2, <1>5, <1>7 DEF EntryOK
    <3> QED BY <1>3, <1>8, <2>1, <3>1
  <2>2. CASE j # k
    <3>1. EntryOK(j, S[j], generation, at) /\ S[j] \in EntryType
      BY <1>1
    <3>2. EntryOK(j, S[j], g, at)
      BY <1>2, <3>1 DEF EntryOK, EntryType, g
    <3> QED BY <1>3, <1>8, <2>2, <3>2
  <2> QED BY <2>1, <2>2
<1>12. ReceiptsInv'
  <2> SUFFICES ASSUME NEW r \in receipts' PROVE ReceiptOK(r, entries'[r.key], generation', now')
    BY DEF ReceiptsInv
  <2>1. CASE r = [key |-> k, generation |-> g, own |-> TRUE, until |-> u]
    BY <1>2, <1>3, <1>7, <1>8, <2>1 DEF ReceiptOK
  <2>2. CASE r \in receipts
    <3>1. r.key \in Key /\ r.generation \in 1..MaxGeneration /\ r.until \in Nat
          /\ ReceiptOK(r, entries[r.key], generation, now)
      BY <2>2 DEF Inv, TypeOK, ReceiptsInv
    <3>2. r.generation <= generation'
      BY <1>2, <1>3, <3>1 DEF ReceiptOK, g
    <3>3. ASSUME at < r.until
          PROVE  entries'[r.key].lease = [generation |-> r.generation, until |-> r.until]
      <4>1. now < r.until
        BY <1>2, <3>1, <3>3
      <4>2. entries[r.key].lease = [generation |-> r.generation, until |-> r.until]
        BY <3>1, <4>1 DEF ReceiptOK
      <4>3. entries[r.key].lease # NoLease /\ at < entries[r.key].lease.until
        BY <3>1, <3>3, <4>2, MemoryAttemptsAssumption DEF NoLease
      <4>4. S[r.key] = entries[r.key]
        BY <1>1, <3>1, <4>3
      <4>5. r.key # k
        <5> SUFFICES ASSUME r.key = k PROVE FALSE
          OBVIOUS
        <5>1. S[k].lease # NoLease
          BY <4>3, <4>4
        <5>2. ~S[k].stored
          BY <1>4, <5>1
        <5>3. S[k] = NoEntry
          BY <1>1, <5>2 DEF EntryOK
        <5> QED BY <5>1, <5>3 DEF NoEntry
      <4> QED BY <1>8, <3>1, <4>2, <4>4, <4>5
    <3>4. entries'[r.key].lease.generation = r.generation => entries'[r.key].lease.until = r.until
      <4>1. CASE r.key = k
        BY <1>2, <1>7, <1>8, <3>1, <4>1 DEF ReceiptOK, g
      <4>2. CASE r.key # k
        BY <1>1, <1>8, <3>1, <4>2, MemoryAttemptsAssumption DEF ReceiptOK, NoLease
      <4> QED BY <4>1, <4>2
    <3> QED BY <3>2, <3>3, <3>4 DEF ReceiptOK
  <2> QED BY <1>3, <2>1, <2>2
<1> QED BY <1>9, <1>10, <1>11, <1>12 DEF Inv

\* Admit preserves the invariant.
LEMMA AdmitInv ==
  ASSUME Inv, NEW k \in Key, NEW observed \in Time, Admit(k, observed)
  PROVE  Inv'
<1> DEFINE at == Sampled(observed)
<1>1. at \in Nat /\ now <= at
  BY SampledLemma
<1>2. /\ now' = at /\ cursor' = NextCursor(entries, cursor) /\ UNCHANGED poisoned
      /\ Denies(k, at) \/ Exhausts(k, at) \/ Leases(k, at)
  BY AdmitLemma
<1> HIDE DEF at
<1>3. CASE Denies(k, at)
  <2> DEFINE e == Settled(k, at)[k]
  <2>1. e \in EntryType /\ (e.lease = NoLease \/ at < e.lease.until)
    BY <1>1, SettledLemma
  <2>2. reply' \in [outcome : Outcome, key : Key \cup {NoKey}, receipt : 0..MaxGeneration, retry : Nat]
    <3>1. CASE e.lease # NoLease /\ reply' = Reply("busy", k, e.lease.until - at)
      <4>1. e.lease.until - at \in Nat
        BY <1>1, <2>1, <3>1 DEF EntryType
      <4> QED BY <3>1, <4>1, ReplyType DEF Outcome
    <3>2. CASE at < e.retryAt /\ reply' = Reply("backoff", k, e.retryAt - at)
      <4>1. e.retryAt - at \in Nat
        BY <1>1, <2>1, <3>2 DEF EntryType
      <4> QED BY <3>2, <4>1, ReplyType DEF Outcome
    <3>3. CASE reply' = Reply("storage_capacity", k, 0)
      BY <3>3, ReplyType DEF Outcome
    <3> QED BY <1>3, <3>1, <3>2, <3>3 DEF Denies
  <2> QED BY <1>1, <1>2, <1>3, <2>2, SettlesInv DEF Denies
<1>4. CASE Exhausts(k, at)
  <2>1. reply' \in [outcome : Outcome, key : Key \cup {NoKey}, receipt : 0..MaxGeneration, retry : Nat]
    BY <1>4, ReplyType DEF Exhausts, Outcome
  <2> QED BY <1>1, <1>2, <1>4, <2>1, SettlesInv DEF Exhausts
<1>5. CASE Leases(k, at)
  BY <1>1, <1>2, <1>5, LeasesInv
<1> QED BY <1>2, <1>3, <1>4, <1>5

\* What complete does, for a receipt that may be this limiter's or another's.
LEMMA CompleteInv ==
  ASSUME Inv, NEW r \in receipts \cup Foreign, NEW outcome, NEW observed \in Time,
         Complete(r, outcome, observed)
  PROVE  Inv'
<1> DEFINE at == Sampled(observed)
<1> DEFINE k == r.key
<1> DEFINE e == entries[k]
<1> DEFINE failed == Fail(k, [e EXCEPT !.lease = NoLease], at)
<1>1. at \in Nat /\ now \in Nat /\ now <= at /\ generation \in Nat
  <2>1. now \in Nat /\ generation \in Nat
    BY MemoryAttemptsAssumption DEF Inv, TypeOK
  <2> QED BY <2>1, SampledLemma
<1>2. k \in Key /\ r.generation \in 1..MaxGeneration /\ MaxGeneration \in Nat
  BY MemoryAttemptsAssumption DEF Inv, TypeOK
<1>3. e \in EntryType /\ EntryOK(k, e, generation, now)
  BY <1>2 DEF Inv, TypeOK, EntriesInv
<1>4. /\ now' = at /\ receipts' = receipts \ {r} /\ UNCHANGED <<generation, cursor, poisoned>>
      /\ \/ /\ Matches(r, at) /\ entries' = [entries EXCEPT ![k] = NoEntry]
            /\ reply' = Presented("succeeded", r, 0)
         \/ /\ Matches(r, at) /\ entries' = [entries EXCEPT ![k] = failed]
            /\ reply' = Presented("failed", r, Delay(k, failed.failures))
         \/ UNCHANGED entries /\ reply' = Presented("stale", r, 0)
  BY DEF Complete
<1> HIDE DEF at
<1>5. \A o \in Outcome, n \in Nat :
        Presented(o, r, n) \in [outcome : Outcome, key : Key \cup {NoKey}, receipt : 0..MaxGeneration, retry : Nat]
  BY <1>2 DEF Presented
\* The part of the invariant about the other subjects, whatever replaces the entry.
<1>6. ASSUME NEW f \in EntryType, entries' = [entries EXCEPT ![k] = f],
             EntryOK(k, f, generation, at), f.stored => e.stored,
             NEW o \in Outcome, NEW n \in Nat, reply' = Presented(o, r, n),
             \A s \in receipts' : s.key = k /\ at < s.until
                => f.lease = [generation |-> s.generation, until |-> s.until],
             f.lease \in {NoLease, e.lease}
      PROVE  Inv'
  <2>1. entries \in [Key -> EntryType]
    BY DEF Inv, TypeOK
  <2>2. entries'[k] = f /\ \A j \in Key : j # k => entries'[j] = entries[j]
    BY <1>2, <1>6, <2>1
  <2>3. TypeOK'
    <3>1. entries' \in [Key -> EntryType]
      BY <1>6, <2>1
    <3>2. reply' \in [outcome : Outcome, key : Key \cup {NoKey}, receipt : 0..MaxGeneration, retry : Nat]
      BY <1>5, <1>6
    <3>3. receipts' \subseteq receipts
      BY <1>4
    <3> QED BY <1>1, <1>4, <3>1, <3>2, <3>3 DEF Inv, TypeOK, Outcome
  <2>4. HardBound'
    <3>1. Stored(entries') \subseteq Stored(entries)
      BY <1>6, <2>2 DEF Stored
    <3>2. /\ Cardinality(Stored(entries')) \in Nat
          /\ Cardinality(Stored(entries')) <= Cardinality(Stored(entries))
          /\ Cardinality(Stored(entries)) \in Nat /\ Cardinality(Stored(entries)) <= Capacity
      BY <3>1, StoredFinite DEF Inv, HardBound
    <3>3. Cardinality(Stored(entries')) <= Capacity
      BY <3>2, MemoryAttemptsAssumption
    <3> QED BY <3>3 DEF HardBound, Stored
  <2>5. EntriesInv'
    <3> SUFFICES ASSUME NEW j \in Key PROVE EntryOK(j, entries'[j], generation', now')
      BY DEF EntriesInv
    <3>1. CASE j = k
      BY <1>4, <1>6, <2>2, <3>1
    <3>2. CASE j # k
      <4>1. entries[j] \in EntryType /\ EntryOK(j, entries[j], generation, now)
        BY DEF Inv, TypeOK, EntriesInv
      <4>2. EntryOK(j, entries[j], generation, at)
        BY <1>1, <4>1 DEF EntryOK, EntryType
      <4> QED BY <1>4, <2>2, <3>2, <4>2
    <3> QED BY <3>1, <3>2
  <2>6. ReceiptsInv'
    <3> SUFFICES ASSUME NEW s \in receipts' PROVE ReceiptOK(s, entries'[s.key], generation', now')
      BY DEF ReceiptsInv
    <3>1. s.key \in Key /\ s.generation \in 1..MaxGeneration /\ s.until \in Nat
          /\ ReceiptOK(s, entries[s.key], generation, now)
      BY <1>4 DEF Inv, TypeOK, ReceiptsInv
    <3>2. s.generation <= generation'
      BY <1>4, <3>1 DEF ReceiptOK
    <3>3. ASSUME at < s.until
          PROVE  entries'[s.key].lease = [generation |-> s.generation, until |-> s.until]
      <4>1. CASE s.key = k
        BY <1>6, <2>2, <3>3, <4>1
      <4>2. CASE s.key # k
        <5>1. now < s.until
          BY <1>1, <3>1, <3>3
        <5> QED BY <2>2, <3>1, <4>2, <5>1 DEF ReceiptOK
      <4> QED BY <4>1, <4>2
    <3>4. entries'[s.key].lease.generation = s.generation => entries'[s.key].lease.until = s.until
      <4>1. CASE s.key = k
        BY <1>6, <2>2, <3>1, <4>1, MemoryAttemptsAssumption DEF ReceiptOK, NoLease
      <4>2. CASE s.key # k
        BY <2>2, <3>1, <4>2 DEF ReceiptOK
      <4> QED BY <4>1, <4>2
    <3> QED BY <1>4, <3>2, <3>3, <3>4 DEF ReceiptOK
  <2> QED BY <2>3, <2>4, <2>5, <2>6 DEF Inv
\* Only the receipt that matched could still be good.
<1>7. ASSUME Matches(r, at), NEW s \in receipts', s.key = k, at < s.until
      PROVE  FALSE
  <2>1. s \in receipts /\ s # r /\ s.generation \in 1..MaxGeneration /\ s.until \in Nat /\ s.own = TRUE
        /\ s \in [key : Key, generation : 1..MaxGeneration, own : {TRUE}, until : Nat]
        /\ ReceiptOK(s, e, generation, now)
    BY <1>4, <1>7 DEF Inv, TypeOK, ReceiptsInv
  <2>2. e.lease = [generation |-> s.generation, until |-> s.until]
    BY <1>1, <1>7, <2>1 DEF ReceiptOK
  <2>3. s.generation = r.generation /\ r.own
    BY <1>7, <2>2 DEF Matches
  <2>4. r \in receipts
    BY <2>3, MemoryAttemptsAssumption
  <2>5. r \in [key : Key, generation : 1..MaxGeneration, own : {TRUE}, until : Nat]
        /\ ReceiptOK(r, e, generation, now)
    BY <2>4 DEF Inv, TypeOK, ReceiptsInv
  <2>6. e.lease.generation = r.generation /\ e.lease.until = r.until /\ e.lease.until = s.until
    BY <1>7, <2>2, <2>5 DEF Matches, ReceiptOK
  <2>7. r.key = s.key /\ r.generation = s.generation /\ r.own = s.own /\ r.until = s.until
    BY <1>7, <2>1, <2>3, <2>5, <2>6
  <2>8. r = s
    BY <2>1, <2>5, <2>7
  <2> QED BY <2>1, <2>8
<1>8. CASE Matches(r, at) /\ entries' = [entries EXCEPT ![k] = NoEntry] /\ reply' = Presented("succeeded", r, 0)
  <2>1. NoEntry \in EntryType /\ EntryOK(k, NoEntry, generation, at)
    BY <1>1, <1>2, NoEntryLemma
  <2>2. ~NoEntry.stored /\ NoEntry.lease = NoLease
    BY DEF NoEntry
  <2> QED BY <1>6, <1>7, <1>8, <2>1, <2>2 DEF Outcome
<1>9. CASE /\ Matches(r, at) /\ entries' = [entries EXCEPT ![k] = failed]
           /\ reply' = Presented("failed", r, Delay(k, failed.failures))
  <2>1. e.stored
    BY <1>9 DEF Matches
  <2>2. failed \in EntryType /\ EntryOK(k, failed, generation, at) /\ failed.lease = NoLease
    BY <1>1, <1>2, <1>3, <2>1, FailLemma
  <2>3. Delay(k, failed.failures) \in Nat
    BY <1>2, <2>2, DelayLemma DEF EntryType
  <2> HIDE DEF failed
  <2> QED BY <1>6, <1>7, <1>9, <2>1, <2>2, <2>3 DEF Outcome
<1>10. CASE UNCHANGED entries /\ reply' = Presented("stale", r, 0)
  <2>1. entries' = [entries EXCEPT ![k] = e]
    BY <1>2, <1>10 DEF Inv, TypeOK
  <2>2. EntryOK(k, e, generation, at)
    BY <1>1, <1>3 DEF EntryOK, EntryType
  <2>3. ASSUME NEW s \in receipts', s.key = k, at < s.until
        PROVE  e.lease = [generation |-> s.generation, until |-> s.until]
    <3>1. s.until \in Nat /\ ReceiptOK(s, e, generation, now)
      BY <1>4, <2>3 DEF Inv, TypeOK, ReceiptsInv
    <3> QED BY <1>1, <2>3, <3>1 DEF ReceiptOK
  <2> QED BY <1>3, <1>6, <1>10, <2>1, <2>2, <2>3 DEF Outcome
<1> QED BY <1>4, <1>8, <1>9, <1>10

\* A panicking clock and a poisoned lock refuse and keep the invariant.
LEMMA RefusalInv ==
  ASSUME Inv, ClockPanic \/ RefusePoisoned
  PROVE  Inv'
<1>1. UNCHANGED <<entries, generation, now, cursor, receipts>> /\ poisoned' \in BOOLEAN
  <2>1. CASE ClockPanic
    BY <2>1, Zenon DEF ClockPanic
  <2>2. CASE RefusePoisoned
    <3>1. UNCHANGED <<entries, generation, now, cursor, receipts>>
      BY <2>2 DEF RefusePoisoned
    <3>2. poisoned' = poisoned
      BY <2>2 DEF RefusePoisoned
    <3>3. poisoned \in BOOLEAN
      BY DEF Inv, TypeOK
    <3>4. poisoned' \in BOOLEAN
      BY <3>2, <3>3, Zenon
    <3> QED BY <3>1, <3>4
  <2> QED BY <2>1, <2>2
<1>2. reply' = Reply("panicked", NoKey, 0) \/ reply' = Reply("poisoned", NoKey, 0)
  BY DEF ClockPanic, RefusePoisoned
<1>3. reply' \in [outcome : Outcome, key : Key \cup {NoKey}, receipt : 0..MaxGeneration, retry : Nat]
  <2>1. "panicked" \in Outcome /\ "poisoned" \in Outcome /\ NoKey \in Key \cup {NoKey} /\ 0 \in Nat
    BY DEF Outcome
  <2> HIDE DEF Outcome
  <2>2. /\ Reply("panicked", NoKey, 0)
             \in [outcome : Outcome, key : Key \cup {NoKey}, receipt : 0..MaxGeneration, retry : Nat]
        /\ Reply("poisoned", NoKey, 0)
             \in [outcome : Outcome, key : Key \cup {NoKey}, receipt : 0..MaxGeneration, retry : Nat]
    BY <2>1, ReplyType
  <2> QED BY <1>2, <2>2
<1>4. TypeOK'
  BY <1>1, <1>3 DEF Inv, TypeOK, Outcome
<1>5. HardBound' /\ EntriesInv' /\ ReceiptsInv'
  BY <1>1 DEF Inv, HardBound, Stored, EntriesInv, ReceiptsInv
<1> QED BY <1>4, <1>5 DEF Inv

\* Every step preserves the invariant.
LEMMA NextInv == Inv /\ [Next]_vars => Inv'
<1> SUFFICES ASSUME Inv, [Next]_vars PROVE Inv'
  OBVIOUS
<1>1. CASE AdmitAny
  BY <1>1, AdmitInv DEF AdmitAny
<1>2. CASE \E r \in receipts \cup Foreign, outcome \in {"Success", "Failure", "Abandoned"},
              observed \in Time : Complete(r, outcome, observed)
  BY <1>2, CompleteInv
<1>3. CASE ClockPanic \/ RefusePoisoned
  BY <1>3, RefusalInv
<1>4. CASE UNCHANGED vars
  BY <1>4 DEF vars, Inv, TypeOK, HardBound, Stored, EntriesInv, ReceiptsInv
<1> QED BY <1>1, <1>2, <1>3, <1>4 DEF Next

\* The inductive invariant: entries, leases, receipts and the sequence fit together in
\* every reachable state (attempts.rs).
THEOREM Invariance == Spec => []Inv
<1>1. Init => Inv
  BY InitInv
<1>2. Inv /\ [Next]_vars => Inv'
  BY NextInv
<1> QED BY <1>1, <1>2, PTL DEF Spec

\* Type correctness, the receipt sequence and every retry time included.
THEOREM TypeCorrectness == Spec => []TypeOK
<1>1. Inv => TypeOK
  BY DEF Inv
<1> QED BY <1>1, Invariance, PTL

\* HardBound: admission never grows the map past its capacity (admit).
THEOREM Boundedness == Spec => []HardBound
<1>1. Inv => HardBound
  BY DEF Inv
<1> QED BY <1>1, Invariance, PTL

\* SingleFlight: no subject ever has two receipts that are both within their leases,
\* however cleanup, reconciliation and completion interleave (admit, complete, cleanup).
THEOREM OneAttemptInFlight == Spec => []SingleFlight
<1>1. Inv => SingleFlight
  <2> SUFFICES ASSUME Inv, NEW r \in receipts, NEW s \in receipts, r.key = s.key,
                      now < r.until, now < s.until
               PROVE  r = s
    BY DEF SingleFlight
  <2>1. /\ r \in [key : Key, generation : 1..MaxGeneration, own : {TRUE}, until : Nat]
        /\ s \in [key : Key, generation : 1..MaxGeneration, own : {TRUE}, until : Nat]
    BY DEF Inv, TypeOK
  <2>2. /\ entries[r.key].lease = [generation |-> r.generation, until |-> r.until]
        /\ entries[r.key].lease = [generation |-> s.generation, until |-> s.until]
    BY DEF Inv, ReceiptsInv, ReceiptOK
  <2>3. r.generation = s.generation /\ r.until = s.until
    BY <2>2
  <2>4. r.own = s.own
    BY <2>1
  <2> QED BY <2>1, <2>3, <2>4
<1> QED BY <1>1, Invariance, PTL

----------------------------------------------------------------------------
(* Refinement: the limiter implements AttemptThrottle                      *)

\* An entry as a caller would see it at `at`.
View(k, e, at) ==
    LET settled == Reconcile(k, e, at)
    IN  [failures |-> settled.failures, until |-> settled.lease.until,
         holder |-> settled.lease.generation,
         failedAt |-> IF settled.lease = NoLease /\ settled.failures > 0
                      THEN settled.lastFailure ELSE 0]

Quieted(k, failures, failedAt, at) ==
    IF failures = 0 \/ at >= failedAt + QuietPeriod[k]
    THEN Abstract!Clear ELSE Abstract!Failed(failures, failedAt)

\* What a caller sees: a live lease, a lapsed one as a failure at its end, or the last
\* failure unless it has been forgiven.
LEMMA ViewLemma ==
  ASSUME NEW k \in Key, NEW e \in EntryType, NEW at \in Nat
  PROVE  /\ e.lease # NoLease /\ at < e.lease.until =>
               View(k, e, at) = Abstract!Leased(e.failures, e.lease.until, e.lease.generation)
         /\ e.lease # NoLease /\ at >= e.lease.until =>
               View(k, e, at) = Quieted(k, e.failures + 1, e.lease.until, at)
         /\ e.lease = NoLease => View(k, e, at) = Quieted(k, e.failures, e.lastFailure, at)
<1> DEFINE l == Lapse(k, e, at)
<1> DEFINE s == Reconcile(k, e, at)
<1>1. e.failures \in Nat /\ e.lastFailure \in Nat /\ e.lease.until \in Nat /\ QuietPeriod[k] \in Nat
  BY AttemptPolicyAssumption DEF EntryType
<1>2. s = IF l.lease = NoLease /\ at >= l.lastFailure + QuietPeriod[k]
          THEN [l EXCEPT !.failures = 0, !.retryAt = at] ELSE l
  BY DEF Reconcile
<1>3. View(k, e, at) = [failures |-> s.failures, until |-> s.lease.until, holder |-> s.lease.generation,
                        failedAt |-> IF s.lease = NoLease /\ s.failures > 0 THEN s.lastFailure ELSE 0]
  BY DEF View
<1> HIDE DEF l, s
\* The state of a subject without a lease.
<1>4. ASSUME NEW n \in Nat, NEW f \in Nat, DOMAIN l = DOMAIN e, l.lease = NoLease, l.failures = n,
             l.lastFailure = f
      PROVE  View(k, e, at) = Quieted(k, n, f, at)
  <2>1. NoLease.until = 0 /\ NoLease.generation = 0
    BY DEF NoLease
  <2>2. CASE at >= f + QuietPeriod[k]
    <3>1. s = [l EXCEPT !.failures = 0, !.retryAt = at]
      BY <1>2, <1>4, <2>2
    <3>2. DOMAIN l = {"failures", "lastFailure", "retryAt", "lease", "stored"}
      BY <1>4 DEF EntryType
    <3>3. s.failures = 0 /\ s.lease = NoLease
      BY <1>4, <3>1, <3>2
    <3> QED BY <1>1, <1>3, <2>1, <2>2, <3>3 DEF Quieted, Abstract!Clear
  <2>3. CASE ~(at >= f + QuietPeriod[k])
    <3>1. s = l
      BY <1>2, <1>4, <2>3
    <3> QED BY <1>1, <1>3, <1>4, <2>1, <2>3, <3>1 DEF Quieted, Abstract!Clear, Abstract!Failed
  <2> QED BY <2>2, <2>3
<1>5. CASE e.lease # NoLease /\ at < e.lease.until
  <2>1. l = e
    BY <1>1, <1>5 DEF Lapse, l
  <2>2. s = e
    BY <1>2, <1>5, <2>1
  <2> QED BY <1>1, <1>3, <1>5, <2>2 DEF Abstract!Leased
<1>6. CASE e.lease # NoLease /\ at >= e.lease.until
  <2>1. l = Fail(k, [e EXCEPT !.lease = NoLease], e.lease.until)
    BY <1>6 DEF Lapse, l
  <2>2. DOMAIN l = DOMAIN e /\ l.lease = NoLease /\ l.failures = e.failures + 1
        /\ l.lastFailure = e.lease.until
    BY <2>1 DEF Fail, EntryType
  <2>3. e.failures + 1 \in Nat
    BY <1>1
  <2> QED BY <1>1, <1>4, <1>6, <2>2, <2>3
<1>7. CASE e.lease = NoLease
  <2>1. l = e
    BY <1>7 DEF Lapse, l
  <2> QED BY <1>1, <1>4, <1>7, <2>1
<1> QED BY <1>1, <1>5, <1>6, <1>7

\* What a caller sees later is what it sees now, aged: nobody has to look in between.
LEMMA AgeLemma ==
  ASSUME NEW k \in Key, NEW e \in EntryType, NEW last \in Nat, NEW t \in Nat, NEW at \in Nat,
         t <= at, EntryOK(k, e, last, t)
  PROVE  Abstract!AtTime(k, View(k, e, t), at) = View(k, e, at)
<1> DEFINE v == View(k, e, t)
<1>1. e.failures \in Nat /\ e.lastFailure \in Nat /\ e.lease.until \in Nat /\ QuietPeriod[k] \in Nat
      /\ QuietPeriod[k] > 0
  BY AttemptPolicyAssumption DEF EntryType
\* Ageing of a subject without a lease.
<1>2. ASSUME NEW n \in Nat, NEW f \in Nat
      PROVE  Abstract!AtTime(k, Quieted(k, n, f, t), at) = Quieted(k, n, f, at)
  <2> DEFINE q == Quieted(k, n, f, t)
  <2>1. CASE n = 0 \/ t >= f + QuietPeriod[k]
    <3>1. q = Abstract!Clear /\ Quieted(k, n, f, at) = Abstract!Clear
      BY <1>1, <2>1 DEF Quieted
    <3> HIDE DEF q
    <3>2. q.until = 0 /\ q.failedAt = 0
      BY <3>1 DEF Abstract!Clear
    <3>3. Abstract!AtTime(k, q, at) = Abstract!Clear
      BY <3>1, <3>2 DEF Abstract!AtTime
    <3> QED BY <3>1, <3>3 DEF q
  <2>2. CASE ~(n = 0 \/ t >= f + QuietPeriod[k])
    <3>1. q = Abstract!Failed(n, f)
      BY <2>2 DEF Quieted
    <3> HIDE DEF q
    <3>2. q.until = 0 /\ q.failedAt = f
      BY <3>1 DEF Abstract!Failed
    <3>3. Abstract!AtTime(k, q, at) = IF at >= f + QuietPeriod[k] THEN Abstract!Clear ELSE q
      BY <3>2 DEF Abstract!AtTime
    <3> QED BY <2>2, <3>1, <3>3 DEF q, Quieted
  <2> QED BY <2>1, <2>2
<1>3. CASE e.lease = NoLease
  BY <1>1, <1>2, <1>3, ViewLemma
<1>4. CASE e.lease # NoLease /\ t >= e.lease.until
  <2>1. at >= e.lease.until /\ e.failures + 1 \in Nat
    BY <1>1, <1>4
  <2> QED BY <1>1, <1>2, <1>4, <2>1, ViewLemma
<1>5. CASE e.lease # NoLease /\ t < e.lease.until
  <2>1. v = Abstract!Leased(e.failures, e.lease.until, e.lease.generation)
    BY <1>5, ViewLemma
  <2>2. v.until = e.lease.until /\ v.until # 0 /\ v.failures = e.failures
    BY <1>1, <1>5, <2>1 DEF Abstract!Leased
  <2> HIDE DEF v
  <2>3. CASE at < e.lease.until
    <3>1. Abstract!AtTime(k, v, at) = v
      BY <1>1, <2>2, <2>3 DEF Abstract!AtTime
    <3>2. View(k, e, at) = v
      BY <1>5, <2>1, <2>3, ViewLemma
    <3> QED BY <3>1, <3>2 DEF v
  <2>4. CASE at >= e.lease.until
    <3> DEFINE f == Abstract!Failed(e.failures + 1, e.lease.until)
    <3>1. f.until = 0 /\ f.failedAt = e.lease.until
      BY DEF Abstract!Failed
    <3>2. Abstract!AtTime(k, v, at) = IF at >= e.lease.until + QuietPeriod[k] THEN Abstract!Clear ELSE f
      BY <2>2, <2>4, <3>1 DEF Abstract!AtTime
    <3>3. View(k, e, at) = Quieted(k, e.failures + 1, e.lease.until, at)
      BY <1>5, <2>4, ViewLemma
    <3>4. e.failures + 1 # 0
      BY <1>1
    <3> QED BY <3>2, <3>3, <3>4 DEF v, Quieted
  <2> QED BY <1>1, <2>3, <2>4
<1> QED BY <1>1, <1>3, <1>4, <1>5

\* Settlement is invisible: a cleaned entry had nothing left to show, a reconciled one
\* shows the same.
LEMMA SettledView ==
  ASSUME Inv, NEW k \in Key, NEW at \in Nat, now <= at, NEW j \in Key
  PROVE  View(j, Settled(k, at)[j], at) = View(j, entries[j], at)
<1> DEFINE e == entries[j]
<1> DEFINE s == Settled(k, at)[j]
<1>1. now \in Nat /\ generation \in Nat
  BY MemoryAttemptsAssumption DEF Inv, TypeOK
<1>2. e \in EntryType /\ EntryOK(j, e, generation, now)
  BY DEF Inv, TypeOK, EntriesInv
<1>3. Settling(k, j, at, s)
  BY SettlingLemma
<1>4. e.failures \in Nat /\ e.lastFailure \in Nat /\ e.lease.until \in Nat /\ QuietPeriod[j] \in Nat
  BY <1>2, AttemptPolicyAssumption DEF EntryType
<1> HIDE DEF s, e
<1>5. CASE s = NoEntry /\ Reclaimable(j, e, at)
  <2>1. NoEntry \in EntryType /\ NoEntry.lease = NoLease /\ NoEntry.failures = 0
    BY NoEntryLemma DEF NoEntry
  <2>2. View(j, NoEntry, at) = Abstract!Clear
    BY <2>1, ViewLemma DEF Quieted
  <2>3. View(j, e, at) = Abstract!Clear
    <3>1. CASE e.lease = NoLease
      <4>1. at >= e.lastFailure + QuietPeriod[j]
        BY <1>5, <3>1 DEF Reclaimable, Origin
      <4> QED BY <1>2, <3>1, <4>1, ViewLemma DEF Quieted
    <3>2. CASE e.lease # NoLease
      <4>1. at >= e.lease.until + QuietPeriod[j]
        BY <1>5, <3>2 DEF Reclaimable, Origin
      <4>2. at >= e.lease.until
        BY <1>4, <4>1
      <4> QED BY <1>2, <3>2, <4>1, <4>2, ViewLemma DEF Quieted
    <3> QED BY <3>1, <3>2
  <2> QED BY <1>5, <2>2, <2>3 DEF s, e
<1>6. CASE e.stored /\ s = Reconcile(j, e, at)
  <2>1. s \in EntryType
    BY <1>1, <1>2, <1>6, ReconcileLemma
  <2> DEFINE l == Lapse(j, e, at)
  <2>2. s = IF l.lease = NoLease /\ at >= l.lastFailure + QuietPeriod[j]
            THEN [l EXCEPT !.failures = 0, !.retryAt = at] ELSE l
    BY <1>6 DEF Reconcile
  <2>3. l \in EntryType
    BY <1>1, <1>2, <1>6, LapseLemma
  <2> HIDE DEF l
  <2>4. View(j, l, at) = View(j, e, at)
    <3>1. CASE e.lease # NoLease /\ at >= e.lease.until
      <4>1. l = Fail(j, [e EXCEPT !.lease = NoLease], e.lease.until)
        BY <3>1 DEF Lapse, l
      <4>2. l.lease = NoLease /\ l.failures = e.failures + 1 /\ l.lastFailure = e.lease.until
        BY <1>2, <1>4, <1>6, <4>1, FailLemma
      <4>3. View(j, l, at) = Quieted(j, e.failures + 1, e.lease.until, at)
        BY <2>3, <4>2, ViewLemma
      <4> QED BY <1>2, <3>1, <4>3, ViewLemma
    <3>2. CASE ~(e.lease # NoLease /\ at >= e.lease.until)
      <4>1. l = e
        BY <3>2 DEF Lapse, l
      <4> QED BY <4>1
    <3> QED BY <3>1, <3>2
  <2>5. View(j, s, at) = View(j, l, at)
    <3>1. CASE l.lease = NoLease /\ at >= l.lastFailure + QuietPeriod[j]
      <4>1. s = [l EXCEPT !.failures = 0, !.retryAt = at]
        BY <2>2, <3>1
      <4>2. s.lease = NoLease /\ s.failures = 0
        BY <2>3, <3>1, <4>1 DEF EntryType
      <4>3. View(j, s, at) = Abstract!Clear
        BY <2>1, <4>2, ViewLemma DEF Quieted
      <4>4. View(j, l, at) = Abstract!Clear
        BY <2>3, <3>1, ViewLemma DEF Quieted
      <4> QED BY <4>3, <4>4
    <3>2. CASE ~(l.lease = NoLease /\ at >= l.lastFailure + QuietPeriod[j])
      BY <2>2, <3>2
    <3> QED BY <3>1, <3>2
  <2> QED BY <2>4, <2>5 DEF s, e
<1> QED BY <1>3, <1>5, <1>6 DEF Settling, s, e

\* The abstract subject before and after a step, in terms of entries.
LEMMA AbstractSubject ==
  ASSUME Inv, now' \in Nat, now <= now', NEW k \in Key
  PROVE  /\ Observed(k) = View(k, entries[k], now)
         /\ Observed(k)' = View(k, entries'[k], now')
         /\ Abstract!Seen(k) = View(k, entries[k], now')
<1>1. now \in Nat /\ generation \in Nat /\ entries[k] \in EntryType
      /\ EntryOK(k, entries[k], generation, now)
  BY MemoryAttemptsAssumption DEF Inv, TypeOK, EntriesInv
<1>2. Observed(k) = View(k, entries[k], now) /\ Observed(k)' = View(k, entries'[k], now')
  BY DEF Observed, View
<1>3. Abstract!AtTime(k, View(k, entries[k], now), now') = View(k, entries[k], now')
  BY <1>1, AgeLemma
<1>4. Abstract!Seen(k) = Abstract!AtTime(k, Observed(k), now')
  BY DEF Abstract!Seen
<1> QED BY <1>2, <1>3, <1>4

\* A step that shows every subject the same, one older, is an ageing step.
LEMMA AgesLemma ==
  ASSUME Inv, now' \in Nat, now <= now', \A j \in Key : View(j, entries'[j], now') = View(j, entries[j], now')
  PROVE  Abstract!Ages
<1>1. now' >= now
  BY DEF Inv, TypeOK
<1>2. \A j \in Key : Observed(j)' = Abstract!Seen(j)
  BY AbstractSubject
<1> QED BY <1>1, <1>2 DEF Abstract!Ages, Abstract!Later

\* Both specifications compute the same delay.
LEMMA AbstractDelay ==
  ASSUME NEW k, NEW n
  PROVE  Abstract!Delay(k, n) = Delay(k, n)
BY DEF Delay, Abstract!Delay

\* A denial is one of the denials of AttemptThrottle.
LEMMA DeniesRefines ==
  ASSUME Inv, NEW k \in Key, now' \in Nat, now <= now', Denies(k, now')
  PROVE  Abstract!Busy(k) \/ Abstract!BackingOff(k) \/ Abstract!NoRoom(k)
<1> DEFINE at == now'
<1> DEFINE e == Settled(k, at)[k]
<1>1. e \in EntryType /\ EntryOK(k, e, generation, at) /\ (e.lease = NoLease \/ at < e.lease.until)
  BY SettledLemma
<1>2. View(k, e, at) = View(k, entries[k], at)
  BY SettledView
<1>3. Abstract!Seen(k) = View(k, e, at)
  BY <1>2, AbstractSubject
<1>4. Abstract!Ages
  BY AgesLemma, SettledView DEF Denies
<1>5. UNCHANGED (1..generation)
  BY DEF Denies
<1>6. e.failures \in Nat /\ e.lastFailure \in Nat /\ e.lease.until \in Nat /\ e.retryAt \in Nat
      /\ QuietPeriod[k] \in Nat
  BY <1>1, AttemptPolicyAssumption DEF EntryType
<1>7. /\ entries' = Settled(k, at)
      /\ \/ e.stored /\ e.lease # NoLease /\ reply' = Reply("busy", k, e.lease.until - at)
         \/ /\ e.stored /\ e.lease = NoLease /\ at < e.retryAt
            /\ reply' = Reply("backoff", k, e.retryAt - at)
         \/ ~e.stored /\ reply' = Reply("storage_capacity", k, 0)
  BY DEF Denies
<1> HIDE DEF e
<1>8. CASE e.lease # NoLease /\ reply' = Reply("busy", k, e.lease.until - at)
  <2>1. View(k, e, at) = Abstract!Leased(e.failures, e.lease.until, e.lease.generation)
    BY <1>1, <1>8, ViewLemma
  <2>2. Abstract!Seen(k).until = e.lease.until /\ e.lease.until > at
    BY <1>1, <1>3, <1>6, <1>8, <2>1 DEF Abstract!Leased
  <2>3. Abstract!Answered(k, "busy") /\ reply'.retry = e.lease.until - at
    BY <1>8 DEF Abstract!Answered, Reply
  <2> QED BY <1>4, <1>5, <2>2, <2>3 DEF Abstract!Busy
<1>9. CASE e.lease = NoLease /\ at < e.retryAt /\ reply' = Reply("backoff", k, e.retryAt - at)
  <2>1. e.failures > 0 /\ e.retryAt = e.lastFailure + Delay(k, e.failures)
    BY <1>1, <1>6, <1>9 DEF EntryOK
  <2>2. Delay(k, e.failures) \in Nat /\ Delay(k, e.failures) <= QuietPeriod[k]
    BY <1>6, DelayLemma
  <2>3. ~(at >= e.lastFailure + QuietPeriod[k]) /\ e.failures # 0
    BY <1>6, <1>9, <2>1, <2>2
  <2>4. View(k, e, at) = Abstract!Failed(e.failures, e.lastFailure)
    BY <1>1, <1>9, <2>3, ViewLemma DEF Quieted
  <2>5. /\ Abstract!Seen(k).until = 0 /\ Abstract!Seen(k).failedAt = e.lastFailure
        /\ Abstract!Seen(k).failures = e.failures
    BY <1>3, <2>4 DEF Abstract!Failed
  <2>6. Abstract!Backoff(k, Abstract!Seen(k)) = e.retryAt
    BY <2>1, <2>5, AbstractDelay DEF Abstract!Backoff
  <2>7. Abstract!Answered(k, "backoff") /\ reply'.retry = e.retryAt - at
    BY <1>9 DEF Abstract!Answered, Reply
  <2> QED BY <1>4, <1>5, <1>9, <2>5, <2>6, <2>7 DEF Abstract!BackingOff
<1>10. CASE ~e.stored /\ reply' = Reply("storage_capacity", k, 0)
  <2>1. e = NoEntry
    BY <1>1, <1>10 DEF EntryOK
  <2>2. e.lease = NoLease /\ e.failures = 0
    BY <2>1 DEF NoEntry
  <2>3. View(k, e, at) = Abstract!Clear
    BY <1>1, <2>2, ViewLemma DEF Quieted
  <2>4. Abstract!Answered(k, "storage_capacity")
    BY <1>10 DEF Abstract!Answered, Reply
  <2> QED BY <1>3, <1>4, <1>5, <2>3, <2>4 DEF Abstract!NoRoom
<1> QED BY <1>7, <1>8, <1>9, <1>10

\* Exhausts maps to a step of the abstract specification or to a stutter.
LEMMA ExhaustsRefines ==
  ASSUME Inv, NEW k \in Key, now' \in Nat, now <= now', Exhausts(k, now')
  PROVE  Abstract!Exhausted(k)
<1>1. Abstract!Ages
  BY AgesLemma, SettledView DEF Exhausts
<1>2. UNCHANGED (1..generation) /\ 1..generation = 1..MaxGeneration
  BY DEF Exhausts
<1>3. Abstract!Answered(k, "sequence_exhausted")
  BY DEF Exhausts, Abstract!Answered, Reply
<1> QED BY <1>1, <1>2, <1>3 DEF Abstract!Exhausted

\* Leases maps to a step of the abstract specification or to a stutter.
LEMMA LeasesRefines ==
  ASSUME Inv, NEW k \in Key, now' \in Nat, now <= now', Leases(k, now')
  PROVE  Abstract!Admit(k)
<1> DEFINE at == now'
<1> DEFINE S == Settled(k, at)
<1> DEFINE g == generation + 1
<1> DEFINE u == at + LeasePeriod[k]
<1> DEFINE base == Base(k, at)
<1> DEFINE new == [base EXCEPT !.lease = [generation |-> g, until |-> u]]
<1>1. S \in [Key -> EntryType] /\ S[k] \in EntryType /\ EntryOK(k, S[k], generation, at)
  BY SettledLemma
<1>2. generation \in Nat /\ g \in 1..MaxGeneration /\ u \in Nat /\ u > at /\ LeasePeriod[k] \in Nat
  BY MemoryAttemptsAssumption, AttemptPolicyAssumption DEF Inv, TypeOK, Leases
<1>3. entries' = [S EXCEPT ![k] = new] /\ generation' = g /\ reply' = Reply("admitted", k, 0)
  BY DEF Leases, Lease
<1>4. \/ S[k].stored /\ base = S[k] /\ S[k].lease = NoLease /\ ~(at < S[k].retryAt)
      \/ ~S[k].stored /\ base = NewEntry(at)
  BY DEF Leases, Free, Base
<1>5. Abstract!Seen(k) = View(k, S[k], at)
  BY SettledView, AbstractSubject
<1> HIDE DEF S, base, g, u
<1>6. base \in EntryType
  <2>1. NewEntry(at) = [failures |-> 0, lastFailure |-> at, retryAt |-> at,
                        lease |-> [generation |-> 0, until |-> 0], stored |-> TRUE]
    BY DEF NewEntry, NoLease
  <2>2. NewEntry(at) \in EntryType
    BY <1>2, <2>1, MemoryAttemptsAssumption DEF EntryType
  <2> QED BY <1>1, <1>4, <2>2
<1>7. Abstract!Seen(k) = Abstract!Clear =>
        /\ Abstract!Seen(k).until = 0 /\ Abstract!Seen(k).failures = 0
        /\ at >= Abstract!Backoff(k, Abstract!Seen(k))
  <2>1. Abstract!Clear.until = 0 /\ Abstract!Clear.failures = 0 /\ Abstract!Clear.failedAt = 0
    BY DEF Abstract!Clear
  <2>2. Delay(k, 0) = 0
    BY DEF Delay
  <2>3. Abstract!Backoff(k, Abstract!Clear) = 0
    BY <2>1, <2>2, AbstractDelay DEF Abstract!Backoff
  <2> QED BY <2>1, <2>3
\* The subject may be admitted, with the failures it carries.
<1>8. /\ Abstract!Seen(k).until = 0 /\ Abstract!Seen(k).failures = base.failures
      /\ at >= Abstract!Backoff(k, Abstract!Seen(k))
  <2>1. CASE S[k].stored
    <3> DEFINE e == S[k]
    <3>1. base = e /\ e.lease = NoLease /\ e.retryAt <= at
      BY <1>1, <1>4, <2>1 DEF EntryType
    <3>2. e.failures \in Nat /\ e.lastFailure \in Nat /\ e.retryAt \in Nat /\ QuietPeriod[k] \in Nat
      BY <1>1, AttemptPolicyAssumption DEF EntryType
    <3>3. at >= e.lastFailure + QuietPeriod[k] => e.failures = 0
      <4>1. entries[k].stored /\ e = Reconcile(k, entries[k], at)
        BY <2>1, SettlingLemma DEF S
      <4>2. now \in Nat /\ entries[k] \in EntryType /\ EntryOK(k, entries[k], generation, now)
        BY DEF Inv, TypeOK, EntriesInv
      <4> QED BY <1>2, <3>1, <4>1, <4>2, ReconcileLemma
    <3>4. View(k, e, at) = Quieted(k, e.failures, e.lastFailure, at)
      BY <1>1, <3>1, ViewLemma
    <3>5. CASE e.failures = 0
      <4>1. Abstract!Seen(k) = Abstract!Clear
        BY <1>5, <3>4, <3>5 DEF Quieted
      <4> QED BY <3>1, <3>5, <4>1, <1>7
    <3>6. CASE e.failures # 0
      <4>1. Abstract!Seen(k) = Abstract!Failed(e.failures, e.lastFailure)
        BY <1>5, <3>3, <3>4, <3>6 DEF Quieted
      <4>2. /\ Abstract!Seen(k).until = 0 /\ Abstract!Seen(k).failures = e.failures
            /\ Abstract!Seen(k).failedAt = e.lastFailure
        BY <4>1 DEF Abstract!Failed
      <4>3. e.retryAt = e.lastFailure + Delay(k, e.failures)
        BY <1>1, <3>2, <3>6 DEF EntryOK
      <4>4. Abstract!Backoff(k, Abstract!Seen(k)) = e.retryAt
        BY <4>2, <4>3, AbstractDelay DEF Abstract!Backoff
      <4> QED BY <3>1, <3>2, <4>2, <4>4
    <3> QED BY <3>5, <3>6
  <2>2. CASE ~S[k].stored
    <3>1. S[k] = NoEntry
      BY <1>1, <2>2 DEF EntryOK
    <3>2. S[k].lease = NoLease /\ S[k].failures = 0 /\ base.failures = 0
      BY <1>4, <2>2, <3>1 DEF NoEntry, NewEntry
    <3>3. Abstract!Seen(k) = Abstract!Clear
      BY <1>1, <1>5, <3>2, ViewLemma DEF Quieted
    <3> QED BY <1>7, <3>2, <3>3
  <2> QED BY <2>1, <2>2
<1>9. View(k, new, at) = Abstract!Leased(base.failures, u, g)
  <2>1. [generation |-> g, until |-> u] \in [generation : 0..MaxGeneration, until : Nat]
        /\ [generation |-> g, until |-> u] # NoLease
    BY <1>2 DEF NoLease
  <2>2. new \in EntryType /\ new.failures = base.failures /\ new.lease = [generation |-> g, until |-> u]
    BY <1>6, <2>1 DEF EntryType
  <2> HIDE DEF new
  <2>3. View(k, new, at) = Abstract!Leased(new.failures, new.lease.until, new.lease.generation)
    BY <1>2, <2>1, <2>2, ViewLemma
  <2> QED BY <2>2, <2>3
<1> HIDE DEF new
<1>10. Abstract!OnlyChanges(k, Abstract!Leased(base.failures, u, g))
  <2>1. ASSUME NEW j \in Key
        PROVE  Observed(j)' = IF j = k THEN Abstract!Leased(base.failures, u, g) ELSE Abstract!Seen(j)
    <3>1. Observed(j)' = View(j, entries'[j], at)
      BY AbstractSubject
    <3>2. CASE j = k
      BY <1>1, <1>3, <1>9, <3>1, <3>2
    <3>3. CASE j # k
      <4>1. entries'[j] = S[j]
        BY <1>1, <1>3, <3>3
      <4>2. View(j, S[j], at) = View(j, entries[j], at)
        BY SettledView DEF S
      <4> QED BY <3>1, <3>3, <4>1, <4>2, AbstractSubject
    <3> QED BY <3>2, <3>3
  <2>2. now' >= now
    BY DEF Inv, TypeOK
  <2> QED BY <2>1, <2>2 DEF Abstract!OnlyChanges, Abstract!Later
<1>11. g \in (1..MaxGeneration) \ (1..generation) /\ 1..generation' = (1..generation) \cup {g}
  BY <1>2, <1>3 DEF g
<1>12. Abstract!Answered(k, "admitted")
  BY <1>3 DEF Abstract!Answered, Reply
<1> QED BY <1>8, <1>10, <1>11, <1>12 DEF Abstract!Admit, u

\* Complete maps to a step of the abstract specification or to a stutter.
LEMMA CompleteRefines ==
  ASSUME Inv, NEW r \in receipts \cup Foreign, NEW outcome, NEW observed \in Time,
         Complete(r, outcome, observed)
  PROVE  \/ \E success \in BOOLEAN : Abstract!Apply(r.key, success)
         \/ Abstract!Stale(r.key)
<1> DEFINE at == now'
<1> DEFINE k == r.key
<1> DEFINE e == entries[k]
<1> DEFINE failed == Fail(k, [e EXCEPT !.lease = NoLease], at)
<1>1. /\ now' = Sampled(observed) /\ UNCHANGED generation
      /\ \/ /\ Matches(r, at) /\ entries' = [entries EXCEPT ![k] = NoEntry]
            /\ reply' = Presented("succeeded", r, 0)
         \/ /\ Matches(r, at) /\ entries' = [entries EXCEPT ![k] = failed]
            /\ reply' = Presented("failed", r, Delay(k, failed.failures))
         \/ UNCHANGED entries /\ reply' = Presented("stale", r, 0)
  BY DEF Complete
<1>2. at \in Nat /\ now <= at
  BY <1>1, SampledLemma
<1>3. now \in Nat /\ k \in Key /\ entries \in [Key -> EntryType] /\ at >= now
  BY <1>2, MemoryAttemptsAssumption DEF Inv, TypeOK
<1>4. e \in EntryType /\ EntryOK(k, e, generation, now)
  BY <1>3 DEF Inv, EntriesInv
<1>5. UNCHANGED (1..generation)
  BY <1>1
<1>6. \A o, n : Presented(o, r, n) = [outcome |-> o, key |-> k, receipt |-> r.generation, retry |-> n]
  BY DEF Presented
<1> HIDE DEF at
\* The receipt that matches is the holder of the lease a caller would see.
<1>7. ASSUME Matches(r, at)
      PROVE  /\ e.stored /\ e.failures \in Nat
             /\ Abstract!Seen(k).until # 0 /\ Abstract!Seen(k).holder = r.generation
             /\ Abstract!Seen(k).failures = e.failures
  <2>1. e.stored /\ e.lease # NoLease /\ e.lease.generation = r.generation /\ at < e.lease.until
    BY <1>7 DEF Matches
  <2>2. Abstract!Seen(k) = Abstract!Leased(e.failures, e.lease.until, e.lease.generation)
    <3>1. Abstract!Seen(k) = View(k, e, at)
      BY <1>2, <1>3, AbstractSubject DEF at
    <3> QED BY <1>2, <1>3, <1>4, <2>1, <3>1, ViewLemma
  <2>3. e.lease.until # 0
    BY <1>4, <2>1 DEF EntryOK
  <2> QED BY <1>4, <2>1, <2>2, <2>3 DEF Abstract!Leased, EntryType
\* The other subjects only age.
<1>8. ASSUME NEW f \in EntryType, entries' = [entries EXCEPT ![k] = f], NEW s, View(k, f, at) = s
      PROVE  Abstract!OnlyChanges(k, s)
  <2>1. ASSUME NEW j \in Key
        PROVE  Observed(j)' = IF j = k THEN s ELSE Abstract!Seen(j)
    <3>1. Observed(j)' = View(j, entries'[j], at) /\ Abstract!Seen(j) = View(j, entries[j], at)
      BY <1>2, AbstractSubject DEF at
    <3>2. entries'[j] = IF j = k THEN f ELSE entries[j]
      BY <1>3, <1>8
    <3> QED BY <1>8, <3>1, <3>2
  <2> QED BY <1>3, <2>1 DEF Abstract!OnlyChanges, Abstract!Later, at
<1>9. CASE Matches(r, at) /\ entries' = [entries EXCEPT ![k] = NoEntry] /\ reply' = Presented("succeeded", r, 0)
  <2>1. NoEntry \in EntryType /\ NoEntry.lease = NoLease /\ NoEntry.failures = 0
    BY <1>2, <1>3, NoEntryLemma DEF NoEntry
  <2>2. View(k, NoEntry, at) = Abstract!Clear
    BY <1>2, <1>3, <2>1, ViewLemma DEF Quieted
  <2>3. Abstract!OnlyChanges(k, Abstract!Clear)
    BY <1>8, <1>9, <2>1, <2>2
  <2>4. Abstract!Answered(k, "succeeded") /\ reply'.receipt = r.generation /\ reply'.retry = 0
    BY <1>6, <1>9 DEF Abstract!Answered
  <2>5. Abstract!Apply(k, TRUE)
    BY <1>5, <1>7, <1>9, <2>3, <2>4 DEF Abstract!Apply
  <2> QED BY <2>5
<1>10. CASE /\ Matches(r, at) /\ entries' = [entries EXCEPT ![k] = failed]
            /\ reply' = Presented("failed", r, Delay(k, failed.failures))
  <2>1. /\ failed \in EntryType /\ failed.lease = NoLease /\ failed.failures = e.failures + 1
        /\ failed.lastFailure = at
    BY <1>2, <1>3, <1>4, <1>7, <1>10, FailLemma
  <2> HIDE DEF failed
  <2>2. View(k, failed, at) = Abstract!Failed(e.failures + 1, at)
    <3>1. QuietPeriod[k] \in Nat /\ QuietPeriod[k] > 0
      <4>1. \A j \in Key : QuietPeriod[j] \in Nat /\ QuietPeriod[j] > 0
        BY AttemptPolicyAssumption
      <4> QED BY <1>3, <4>1
    <3>2. e.failures + 1 # 0
      BY <1>4 DEF EntryType
    <3>3. ~(at >= at + QuietPeriod[k])
      BY <1>2, <3>1
    <3>4. View(k, failed, at) = Quieted(k, e.failures + 1, at, at)
      BY <1>2, <1>3, <2>1, ViewLemma
    <3> QED BY <3>2, <3>3, <3>4 DEF Quieted
  <2>3. Abstract!OnlyChanges(k, Abstract!Failed(e.failures + 1, at))
    BY <1>8, <1>10, <2>1, <2>2
  <2>4. /\ Abstract!Answered(k, "failed") /\ reply'.receipt = r.generation
        /\ reply'.retry = Abstract!Delay(k, e.failures + 1)
    BY <1>6, <1>10, <2>1, AbstractDelay DEF Abstract!Answered
  <2>5. Abstract!Apply(k, FALSE)
    BY <1>5, <1>7, <1>10, <2>3, <2>4 DEF Abstract!Apply, at
  <2> QED BY <2>5
<1>11. CASE UNCHANGED entries /\ reply' = Presented("stale", r, 0)
  <2>1. Abstract!Ages
    BY <1>2, <1>11, AgesLemma DEF at
  <2>2. Abstract!Answered(k, "stale")
    BY <1>6, <1>11 DEF Abstract!Answered
  <2> QED BY <1>5, <2>1, <2>2 DEF Abstract!Stale
<1> QED BY <1>1, <1>9, <1>10, <1>11 DEF at

\* Initial states map to initial states.
LEMMA InitRefines == Init => Abstract!Init
<1> SUFFICES ASSUME Init PROVE Abstract!Init
  OBVIOUS
<1>1. \A k \in Key : entries[k] = NoEntry /\ generation = 0 /\ now = 0
  BY DEF Init
<1>2. ASSUME NEW k \in Key PROVE Observed(k) = Abstract!Clear
  <2>1. NoEntry \in EntryType /\ NoEntry.lease = NoLease /\ NoEntry.failures = 0
    BY NoEntryLemma DEF NoEntry
  <2>2. View(k, NoEntry, 0) = Abstract!Clear
    BY <2>1, ViewLemma DEF Quieted
  <2> QED BY <1>1, <2>2 DEF Observed, View
<1>3. 1..generation = {}
  BY DEF Init
<1> QED BY <1>2, <1>3 DEF Abstract!Init

\* Every step maps to a step of the abstract specification or to a stutter.
LEMMA NextRefines == Inv /\ [Next]_vars => [Abstract!Next]_Abstract!vars
<1> SUFFICES ASSUME Inv, [Next]_vars PROVE [Abstract!Next]_Abstract!vars
  OBVIOUS
<1>1. ASSUME NEW k \in Key, NEW observed \in Time, Admit(k, observed)
      PROVE  Abstract!Next
  <2>1. now' \in Nat /\ now <= now' /\ (Denies(k, now') \/ Exhausts(k, now') \/ Leases(k, now'))
    BY <1>1, AdmitLemma, SampledLemma
  <2>2. CASE Denies(k, now')
    BY <2>1, <2>2, DeniesRefines DEF Abstract!Next
  <2>3. CASE Exhausts(k, now')
    BY <2>1, <2>3, ExhaustsRefines DEF Abstract!Next
  <2>4. CASE Leases(k, now')
    BY <2>1, <2>4, LeasesRefines DEF Abstract!Next
  <2> QED BY <2>1, <2>2, <2>3, <2>4
<1>2. ASSUME NEW r \in receipts \cup Foreign, NEW outcome, NEW observed \in Time,
             Complete(r, outcome, observed)
      PROVE  Abstract!Next
  <2>1. r.key \in Key
    BY MemoryAttemptsAssumption DEF Inv, TypeOK
  <2> QED BY <1>2, <2>1, CompleteRefines DEF Abstract!Next
<1>3. CASE ClockPanic \/ RefusePoisoned
  <2>1. reply' = Reply("panicked", NoKey, 0) \/ reply' = Reply("poisoned", NoKey, 0)
    BY <1>3 DEF ClockPanic, RefusePoisoned
  <2>2. reply'.outcome \in {"poisoned", "panicked"}
    BY <2>1 DEF Reply
  <2>3. now' = now /\ entries' = entries /\ generation' = generation
    BY <1>3 DEF ClockPanic, RefusePoisoned
  <2>4. Abstract!Unavailable
    BY <2>2, <2>3 DEF Abstract!Unavailable, Observed
  <2> QED BY <2>4 DEF Abstract!Next
<1>4. CASE UNCHANGED vars
  BY <1>4 DEF vars, Abstract!vars, Observed
<1> QED BY <1>1, <1>2, <1>3, <1>4 DEF Next, AdmitAny

\* ImplementsAttemptThrottle: for every policy, capacity and clock, the limiter keeps
\* the promise of AttemptThrottle; lazily expired leases, cleanup, removal, stale and
\* foreign receipts are invisible, and denials state exactly when they end.
THEOREM Refinement == Spec => ImplementsAttemptThrottle
<1>1. Init => Abstract!Init
  BY InitRefines
<1>2. Inv /\ [Next]_vars => [Abstract!Next]_Abstract!vars
  BY NextRefines
<1> QED BY <1>1, <1>2, Invariance, PTL DEF Spec, ImplementsAttemptThrottle, Abstract!Spec

=============================================================================
