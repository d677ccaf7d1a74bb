-------------------------- MODULE PgAttemptsProofs --------------------------
(***************************************************************************)
(* Proofs about PgAttempts, for every number of replicas and application   *)
(* transactions, every set of subjects and their assignment to shards, and *)
(* every mix of row bounds: no slot is ever given twice and no shard       *)
(* outgrows the largest bound, no transactions wait for each other in a    *)
(* circle, and what callers and the application see of it all is the       *)
(* shared throttle.                                                        *)
(***************************************************************************)
EXTENDS PgAttempts, FiniteSetTheorems, TLAPS

----------------------------------------------------------------------------
(* Numbers and sets                                                        *)

\* A nonempty set of naturals has a minimum, and Min chooses it.
LEMMA MinOfNaturals ==
  ASSUME NEW S \in SUBSET Nat, S # {}
  PROVE  Min(S) \in S /\ \A y \in S : Min(S) <= y
<1> DEFINE Less(x, y) == <<x, y>> \in OpToRel(<, Nat)
<1>1. PICK n \in S : \A m \in S : ~Less(m, n)
  BY NatLessThanWellFounded, WFMin
<1>2. \A x, y \in Nat : x < y => Less(x, y)
  BY DEF OpToRel
<1> HIDE DEF Less
<1>3. \A y \in S : n <= y
  BY <1>1, <1>2
<1> QED BY <1>3 DEF Min

----------------------------------------------------------------------------
(* The inductive invariant                                                 *)

Phase == {"idle", "shard", "cleanup", "row", "decide", "complete", "host", "ready", "committing",
          "orphan"}

Shards == {Shard[k] : k \in Key}

\* The table's CHECK on one row.
RowOK(row) == row \in RowType /\ ((row.until = 0) <=> (row.token = 0))

\* A transaction of admit that has the lock of its shard.
Admitting(t) == pc[t] \notin {"idle", "shard"} /\ call[t].kind = "admit"

\* The calls that a session may be in at each phase.
CallOK(t) ==
    /\ pc[t] \in Phase
    /\ call[t].kind \in {"none", "admit", "complete"}
    /\ call[t].kind # "none" => call[t].key \in Key
    /\ reply[t] = Reply(reply[t].outcome, reply[t].retry)
    /\ reply[t].outcome \in Outcome /\ reply[t].retry \in Nat
    /\ t \in Host => /\ pc[t] \in {"idle", "host", "committing"}
                     /\ call[t] = NoCall /\ reply[t] = Reply("none", 0)
    /\ t \in Library => pc[t] # "host"
    /\ pc[t] \in {"shard", "cleanup", "row", "decide"} => call[t].kind = "admit"
    /\ pc[t] = "complete" => call[t].kind = "complete"
    /\ t \in Library /\ pc[t] # "idle" => call[t].kind # "none"

\* A transaction has locked what it has written, and every row it relies on; an
\* admission does all its work in the shard it has locked, and nothing else inserts,
\* deletes or moves a row.
LocksOK(t) ==
    /\ pc[t] \in {"idle", "shard", "complete"} =>
            work[t] = Nothing /\ \A l \in Locks : holder[l] # t
    /\ Admitting(t) =>
            /\ holder[<<"shard", Shard[call[t].key]>>] = t
            /\ \A k \in Key : holder[Row(k)] = t => Shard[k] = Shard[call[t].key]
    /\ ~Admitting(t) => \A k \in Key : holder[Row(k)] = t => rows[k].stored
    /\ pc[t] = "decide" /\ View(t)[call[t].key].stored => holder[Row(call[t].key)] = t

WorkOK(t) ==
    /\ \A k \in DOMAIN work[t] : k \in Key /\ holder[Row(k)] = t /\ RowOK(work[t][k])
    /\ ~Admitting(t) =>
            \A k \in DOMAIN work[t] : work[t][k].stored /\ work[t][k].slot = rows[k].slot
    /\ Admitting(t) /\ pc[t] \in {"ready", "committing"} /\ Waiting(t) =>
            call[t].key \in DOMAIN work[t] /\ work[t][call[t].key].token # 0

SessionOK(t) == CallOK(t) /\ LocksOK(t) /\ WorkOK(t)

\* Shard s of a table, committed or not: slots are apart and a bound is respected.
Sound(v, s) ==
    /\ \A j, k \in Key : j # k /\ Shard[j] = s /\ Shard[k] = s /\ v[j].stored /\ v[k].stored
            => v[j].slot # v[k].slot
    /\ \E t \in Library : Cardinality(StoredIn(v, s)) <= MaxRows[t]

TablesInv == \A s \in Shards : Sound(rows, s) /\ \A t \in Session : Sound(View(t), s)

\* Which functions the session-indexed variables are.
Shape == DOMAIN pc = Session /\ DOMAIN call = Session /\ DOMAIN work = Session /\ DOMAIN reply = Session

\* The variables no session owns.
SharedOK ==
    /\ rows \in [Key -> RowType]
    /\ \A k \in Key : (rows[k].until = 0) <=> (rows[k].token = 0)
    /\ clock \in 0..MaxTime
    /\ holder \in [Locks -> Session \cup {None}]
    /\ token \in 0..MaxToken
    /\ receipts \subseteq [key : Key, token : 1..MaxToken]
    /\ claims \subseteq [key : Key, token : 1..MaxToken, tx : Host \cup {None}]

Inv == SharedOK /\ Shape /\ TablesInv /\ \A t \in Session : SessionOK(t)

----------------------------------------------------------------------------
(* Locks, rows and shards                                                  *)

\* Locks of distinct rows, shards and ledgers are distinct.
LEMMA LockFacts ==
  /\ \A k \in Key : /\ Row(k) \in Locks
                    /\ <<"shard", Shard[k]>> \in Locks
                    /\ Shard[k] \in Shards
  /\ \A j, k \in Key : Row(j) = Row(k) => j = k
  /\ \A j, k \in Key : Row(j) # <<"shard", Shard[k]>>
  /\ None \notin Session
BY PgAttemptsAssumption DEF Locks, Row, Shards

\* A power of two counts the subsets of a finite set.
LEMMA PowerOfTwo ==
  ASSUME NEW n \in Nat
  PROVE  2 ^ n \in Nat
<1>1. IsFiniteSet(1..n) /\ Cardinality(1..n) = n
  BY FS_Interval
<1>2. IsFiniteSet(SUBSET (1..n)) /\ Cardinality(SUBSET (1..n)) = 2 ^ n
  BY <1>1, FS_SUBSET
<1> QED BY <1>2, FS_CardinalityType

\* AttemptPolicy::delay is a whole number of milliseconds.
LEMMA DelayType ==
  ASSUME NEW k \in Key, NEW n \in Nat
  PROVE  Delay(k, n) \in Nat
<1>1. InitialDelay[k] \in Nat /\ MaximumDelay[k] \in Nat
  BY AttemptPolicyAssumption
<1>2. CASE n = 0
  BY <1>2 DEF Delay
<1>3. CASE n # 0
  <2> DEFINE p == 2 ^ (n - 1)
  <2>1. p \in Nat
    BY <1>3, PowerOfTwo
  <2>2. Delay(k, n) = IF InitialDelay[k] * p < MaximumDelay[k] THEN InitialDelay[k] * p
                      ELSE MaximumDelay[k]
    BY <1>3 DEF Delay
  <2> HIDE DEF p
  <2>3. InitialDelay[k] * p \in Nat
    BY <1>1, <2>1
  <2> QED BY <1>1, <2>2, <2>3
<1> QED BY <1>2, <1>3

\* The stored entries form a finite set.
LEMMA StoredFinite ==
  ASSUME NEW v, NEW s
  PROVE  IsFiniteSet(StoredIn(v, s)) /\ Cardinality(StoredIn(v, s)) \in Nat
<1>1. StoredIn(v, s) \subseteq Key
  BY DEF StoredIn
<1>2. IsFiniteSet(StoredIn(v, s))
  BY <1>1, FS_Subset, PgAttemptsAssumption
<1> QED BY <1>2, FS_CardinalityType

\* A table that only lacks rows of a sound one is sound.
LEMMA FewerLemma ==
  ASSUME NEW v, NEW w, NEW s, Sound(w, s),
         \A k \in Key : Shard[k] = s /\ v[k].stored => w[k].stored /\ v[k].slot = w[k].slot
  PROVE  Sound(v, s)
<1>1. \A j, k \in Key : j # k /\ Shard[j] = s /\ Shard[k] = s /\ v[j].stored /\ v[k].stored
            => v[j].slot # v[k].slot
  BY DEF Sound
<1>2. PICK t \in Library : Cardinality(StoredIn(w, s)) <= MaxRows[t]
  BY DEF Sound
<1>3. StoredIn(v, s) \subseteq StoredIn(w, s)
  BY DEF StoredIn
<1>4. Cardinality(StoredIn(v, s)) <= Cardinality(StoredIn(w, s))
  BY <1>3, StoredFinite, FS_Subset
<1>5. MaxRows[t] \in Nat
  BY PgAttemptsAssumption
<1>6. Cardinality(StoredIn(v, s)) <= MaxRows[t]
  BY <1>2, <1>4, <1>5, StoredFinite
<1> QED BY <1>1, <1>6 DEF Sound

\* The absent row is well formed.
LEMMA NoRowOK == RowOK(NoRow) /\ ~NoRow.stored
BY PgAttemptsAssumption DEF RowOK, NoRow, RowType

\* What t sees of a row.
LEMMA ViewFacts ==
  ASSUME Inv, NEW t \in Session, NEW k \in Key
  PROVE  /\ k \in DOMAIN work[t] => View(t)[k] = work[t][k]
         /\ k \notin DOMAIN work[t] => View(t)[k] = rows[k]
         /\ RowOK(View(t)[k]) /\ RowOK(rows[k])
<1>1. /\ k \in DOMAIN work[t] => View(t)[k] = work[t][k]
      /\ k \notin DOMAIN work[t] => View(t)[k] = rows[k]
  BY DEF View
<1>2. RowOK(rows[k])
  BY DEF Inv, SharedOK, RowOK
<1>3. k \in DOMAIN work[t] => RowOK(work[t][k])
  BY DEF Inv, SessionOK, WorkOK
<1> QED BY <1>1, <1>2, <1>3

\* A transaction that is not admitting sees the stored rows in their slots.
LEMMA ViewSlots ==
  ASSUME Inv, NEW t \in Session, NEW k \in Key, ~Admitting(t)
  PROVE  /\ View(t)[k].stored <=> rows[k].stored
         /\ View(t)[k].slot = rows[k].slot
<1>1. CASE k \in DOMAIN work[t]
  <2>1. work[t][k].stored /\ work[t][k].slot = rows[k].slot /\ rows[k].stored
    <3>1. WorkOK(t) /\ LocksOK(t)
      BY DEF Inv, SessionOK
    <3>2. work[t][k].stored /\ work[t][k].slot = rows[k].slot /\ holder[Row(k)] = t
      BY <1>1, <3>1 DEF WorkOK
    <3>3. rows[k].stored
      BY <3>1, <3>2 DEF LocksOK
    <3> QED BY <3>2, <3>3
  <2> QED BY <1>1, <2>1, ViewFacts
<1>2. CASE k \notin DOMAIN work[t]
  BY <1>2, ViewFacts
<1> QED BY <1>1, <1>2

----------------------------------------------------------------------------
(* Steps of one session that leave the table alone                         *)

\* A step of t before its commit leaves the table, the other transactions and their
\* locks alone.
KeepsOthers(t) ==
    /\ Shape'
    /\ rows' = rows
    /\ holder' \in [Locks -> Session \cup {None}]
    /\ \A u \in Session \ {t} :
        /\ pc'[u] = pc[u] /\ call'[u] = call[u] /\ work'[u] = work[u] /\ reply'[u] = reply[u]
        /\ \A l \in Locks : holder'[l] = u <=> holder[l] = u

\* A session that neither moves nor loses a lock keeps its part of the invariant.
LEMMA Undisturbed ==
  ASSUME Inv, NEW t \in Session, KeepsOthers(t), NEW u \in Session, u # t
  PROVE  SessionOK(u)' /\ View(u)' = View(u)
<1>1. /\ pc'[u] = pc[u] /\ call'[u] = call[u] /\ work'[u] = work[u] /\ reply'[u] = reply[u]
      /\ rows' = rows
      /\ \A l \in Locks : holder'[l] = u <=> holder[l] = u
  BY DEF KeepsOthers
<1>2. View(u)' = View(u)
  BY <1>1 DEF View
<1>3. SessionOK(u)
  BY DEF Inv
<1>4. Admitting(u)' <=> Admitting(u)
  BY <1>1 DEF Admitting
<1>5. Waiting(u)' <=> Waiting(u)
  BY <1>1 DEF Waiting
<1>6. CallOK(u)'
  BY <1>1, <1>3 DEF SessionOK, CallOK
<1>7. \A k \in Key : holder'[Row(k)] = u <=> holder[Row(k)] = u
  BY <1>1, LockFacts
<1>8. call[u].key \in Key =>
        (holder'[<<"shard", Shard[call[u].key]>>] = u <=> holder[<<"shard", Shard[call[u].key]>>] = u)
  BY <1>1, LockFacts
<1>9. Admitting(u) \/ pc[u] = "decide" => call[u].key \in Key
  BY <1>3 DEF SessionOK, CallOK, Admitting
<1>10. LocksOK(u)'
  <2>1. LocksOK(u)
    BY <1>3 DEF SessionOK
  <2>2. pc'[u] \in {"idle", "shard", "complete"} =>
            work'[u] = Nothing /\ \A l \in Locks : holder'[l] # u
    BY <1>1, <2>1 DEF LocksOK
  <2>3. Admitting(u)' =>
            /\ holder'[<<"shard", Shard[call'[u].key]>>] = u
            /\ \A k \in Key : holder'[Row(k)] = u => Shard[k] = Shard[call'[u].key]
    BY <1>1, <1>4, <1>7, <1>8, <1>9, <2>1 DEF LocksOK
  <2>4. ~Admitting(u)' => \A k \in Key : holder'[Row(k)] = u => rows'[k].stored
    BY <1>1, <1>4, <1>7, <2>1 DEF LocksOK
  <2>5. pc'[u] = "decide" /\ View(u)'[call'[u].key].stored => holder'[Row(call'[u].key)] = u
    BY <1>1, <1>2, <1>7, <1>9, <2>1 DEF LocksOK
  <2> QED BY <2>2, <2>3, <2>4, <2>5 DEF LocksOK, Nothing, Row
<1>11. WorkOK(u)'
  <2>1. WorkOK(u)
    BY <1>3 DEF SessionOK
  <2>2. \A k \in DOMAIN work'[u] : k \in Key /\ holder'[Row(k)] = u /\ RowOK(work'[u][k])
    BY <1>1, <1>7, <2>1 DEF WorkOK
  <2>3. ~Admitting(u)' => \A k \in DOMAIN work'[u] : work'[u][k].stored /\ work'[u][k].slot = rows'[k].slot
    BY <1>1, <1>4, <2>1 DEF WorkOK
  <2>4. Admitting(u)' /\ pc'[u] \in {"ready", "committing"} /\ Waiting(u)' =>
            call'[u].key \in DOMAIN work'[u] /\ work'[u][call'[u].key].token # 0
    BY <1>1, <1>4, <1>5, <2>1 DEF WorkOK
  <2> QED BY <2>2, <2>3, <2>4 DEF WorkOK, Row, RowOK, RowType
<1> QED BY <1>2, <1>6, <1>10, <1>11 DEF SessionOK

\* What is left to show of a step of t.
LEMMA StepInv ==
  ASSUME Inv, NEW t \in Session, KeepsOthers(t), SessionOK(t)',
         \A s \in Shards : Sound(View(t)', s),
         clock' \in 0..MaxTime, token' \in 0..MaxToken,
         receipts' \subseteq [key : Key, token : 1..MaxToken],
         claims' \subseteq [key : Key, token : 1..MaxToken, tx : Host \cup {None}]
  PROVE  Inv'
<1>1. SharedOK'
  BY DEF Inv, SharedOK, KeepsOthers, RowType
<1>2. \A u \in Session : SessionOK(u)'
  BY Undisturbed
<1>3. ASSUME NEW s \in Shards
      PROVE  Sound(rows', s) /\ \A u \in Session : Sound(View(u)', s)
  <2>1. Sound(rows', s)
    BY DEF Inv, TablesInv, KeepsOthers
  <2>2. ASSUME NEW u \in Session PROVE Sound(View(u)', s)
    <3>1. CASE u = t
      BY <3>1
    <3>2. CASE u # t
      BY <3>2, Undisturbed DEF Inv, TablesInv
    <3> QED BY <3>1, <3>2
  <2> QED BY <2>1, <2>2
<1>4. TablesInv'
  BY <1>3 DEF TablesInv, Shards, Sound, StoredIn
<1> QED BY <1>1, <1>2, <1>4 DEF Inv, KeepsOthers

\* Taking free locks leaves the locks of all other sessions alone.
LEMMA TakeFacts ==
  ASSUME Inv, NEW t \in Session, NEW ls \in SUBSET Locks, TakeAll(t, ls), \A l \in ls : Free(t, l)
  PROVE  /\ holder' \in [Locks -> Session \cup {None}]
         /\ \A u \in Session \ {t}, l \in Locks : holder'[l] = u <=> holder[l] = u
         /\ \A l \in Locks : holder'[l] = t <=> l \in ls \/ holder[l] = t
<1>1. holder \in [Locks -> Session \cup {None}]
  BY DEF Inv, SharedOK
<1>2. holder' = [l \in Locks |-> IF l \in ls THEN t ELSE holder[l]]
  BY DEF TakeAll
<1>3. \A l \in ls : holder[l] = t \/ holder[l] = None
  BY DEF Free
<1> QED BY <1>1, <1>2, <1>3, LockFacts

\* The parts of the invariant that speak of one session.
LEMMA SessionFacts ==
  ASSUME Inv, NEW t \in Session
  PROVE  /\ CallOK(t) /\ LocksOK(t) /\ WorkOK(t)
         /\ Shape /\ SharedOK
         /\ \A s \in Shards : Sound(rows, s) /\ Sound(View(t), s)
BY DEF Inv, SessionOK, TablesInv

\* BeginAdmit preserves the invariant.
LEMMA BeginAdmitInv ==
  ASSUME Inv, NEW t \in Library, NEW k \in Key, BeginAdmit(t, k)
  PROVE  Inv' /\ KeepsOthers(t)
<1> USE DEF BeginAdmit
<1>0. t \in Session /\ t \notin Host
  BY PgAttemptsAssumption DEF Session
<1>1. CallOK(t) /\ LocksOK(t) /\ WorkOK(t) /\ Shape /\ SharedOK
      /\ \A s \in Shards : Sound(rows, s) /\ Sound(View(t), s)
  BY <1>0, SessionFacts
<1>2. /\ pc'[t] = "shard" /\ call'[t].kind = "admit" /\ call'[t].key = k
      /\ reply'[t] = Pending /\ work' = work /\ holder' = holder /\ rows' = rows
  BY <1>0, <1>1 DEF Shape
<1>3. KeepsOthers(t)
  BY <1>0, <1>1 DEF Shape, SharedOK, KeepsOthers
<1>4. CallOK(t)'
  BY <1>0, <1>2 DEF CallOK, Phase, Pending, Reply, Outcome
<1>5. ~Admitting(t)' /\ ~Admitting(t) /\ work[t] = Nothing /\ \A l \in Locks : holder[l] # t
  BY <1>1, <1>2 DEF Admitting, LocksOK
<1>6. LocksOK(t)'
  BY <1>2, <1>5, LockFacts DEF LocksOK
<1>7. WorkOK(t)'
  BY <1>2, <1>5 DEF WorkOK, Nothing
<1>8. View(t)' = View(t)
  BY <1>2 DEF View
<1>9. clock' \in 0..MaxTime /\ token' \in 0..MaxToken /\ receipts' = receipts /\ claims' = claims
  BY <1>1 DEF SharedOK
<1> QED BY <1>0, <1>1, <1>3, <1>4, <1>6, <1>7, <1>8, <1>9, StepInv DEF SessionOK, SharedOK

\* BeginComplete preserves the invariant.
LEMMA BeginCompleteInv ==
  ASSUME Inv, NEW t \in Library, NEW r \in receipts, NEW success \in BOOLEAN, BeginComplete(t, r, success)
  PROVE  Inv' /\ KeepsOthers(t)
<1> USE DEF BeginComplete
<1>0. t \in Session /\ t \notin Host
  BY PgAttemptsAssumption DEF Session
<1>1. CallOK(t) /\ LocksOK(t) /\ WorkOK(t) /\ Shape /\ SharedOK
      /\ \A s \in Shards : Sound(rows, s) /\ Sound(View(t), s)
  BY <1>0, SessionFacts
<1>2. /\ pc'[t] = "complete" /\ call'[t].kind = "complete" /\ call'[t].key = r.key
      /\ reply'[t] = Pending /\ work' = work /\ holder' = holder /\ rows' = rows
  BY <1>0, <1>1 DEF Shape
<1>3. KeepsOthers(t)
  BY <1>0, <1>1 DEF Shape, SharedOK, KeepsOthers
<1>4. CallOK(t)'
  <2>1. r.key \in Key
    BY <1>1 DEF SharedOK
  <2> QED BY <1>0, <1>2, <2>1 DEF CallOK, Phase, Pending, Reply, Outcome
<1>5. ~Admitting(t)' /\ ~Admitting(t) /\ work[t] = Nothing /\ \A l \in Locks : holder[l] # t
  BY <1>1, <1>2 DEF Admitting, LocksOK
<1>6. LocksOK(t)'
  BY <1>2, <1>5, LockFacts DEF LocksOK
<1>7. WorkOK(t)'
  BY <1>2, <1>5 DEF WorkOK, Nothing
<1>8. View(t)' = View(t)
  BY <1>2 DEF View
<1>9. clock' \in 0..MaxTime /\ token' \in 0..MaxToken /\ receipts' \subseteq receipts /\ claims' = claims
  BY <1>1 DEF SharedOK
<1> QED BY <1>0, <1>1, <1>3, <1>4, <1>6, <1>7, <1>8, <1>9, StepInv DEF SessionOK, SharedOK

\* BeginHost preserves the invariant.
LEMMA BeginHostInv ==
  ASSUME Inv, NEW t \in Host, BeginHost(t)
  PROVE  Inv' /\ KeepsOthers(t)
<1> USE DEF BeginHost
<1>0. t \in Session /\ t \notin Library
  BY PgAttemptsAssumption DEF Session
<1>1. CallOK(t) /\ LocksOK(t) /\ WorkOK(t) /\ Shape /\ SharedOK
      /\ \A s \in Shards : Sound(rows, s) /\ Sound(View(t), s)
  BY <1>0, SessionFacts
<1>2. /\ pc'[t] = "host" /\ call' = call /\ reply' = reply /\ work' = work /\ holder' = holder
      /\ rows' = rows
  BY <1>0, <1>1 DEF Shape
<1>3. KeepsOthers(t)
  BY <1>0, <1>1 DEF Shape, SharedOK, KeepsOthers
<1>4. CallOK(t)'
  BY <1>0, <1>1, <1>2 DEF CallOK, Phase, NoCall
<1>5. ~Admitting(t)' /\ work[t] = Nothing /\ \A l \in Locks : holder[l] # t
  BY <1>1, <1>2 DEF Admitting, LocksOK, CallOK, NoCall
<1>6. LocksOK(t)'
  BY <1>2, <1>5, LockFacts DEF LocksOK
<1>7. WorkOK(t)'
  BY <1>2, <1>5 DEF WorkOK, Nothing
<1>8. View(t)' = View(t)
  BY <1>2 DEF View
<1>9. clock' \in 0..MaxTime /\ token' \in 0..MaxToken /\ receipts' = receipts /\ claims' = claims
  BY <1>1 DEF SharedOK
<1> QED BY <1>0, <1>1, <1>3, <1>4, <1>6, <1>7, <1>8, <1>9, StepInv DEF SessionOK, SharedOK

\* LockShard preserves the invariant.
LEMMA LockShardInv ==
  ASSUME Inv, NEW t \in Library, LockShard(t)
  PROVE  Inv' /\ KeepsOthers(t)
<1> USE DEF LockShard
<1>0. t \in Session /\ t \notin Host
  BY PgAttemptsAssumption DEF Session
<1>1. CallOK(t) /\ LocksOK(t) /\ WorkOK(t) /\ Shape /\ SharedOK
      /\ \A s \in Shards : Sound(rows, s) /\ Sound(View(t), s)
  BY <1>0, SessionFacts
<1>2. /\ pc' = [pc EXCEPT ![t] = IF Waiting(t) THEN "cleanup" ELSE "orphan"]
      /\ call' = call /\ reply' = reply /\ work' = work /\ rows' = rows
  BY DEF Then
<1>3. pc'[t] \in {"cleanup", "orphan"}
  BY <1>0, <1>1, <1>2 DEF Shape
<1>4. call[t].key \in Key /\ call[t].kind = "admit" /\ work[t] = Nothing /\ \A l \in Locks : holder[l] # t
  BY <1>1 DEF CallOK, LocksOK
<1> DEFINE lock == <<"shard", Shard[call[t].key]>>
<1>5. lock \in Locks /\ \A k \in Key : Row(k) # lock
  BY <1>4, LockFacts
<1>6. /\ holder' \in [Locks -> Session \cup {None}]
      /\ \A u \in Session \ {t}, l \in Locks : holder'[l] = u <=> holder[l] = u
      /\ \A l \in Locks : holder'[l] = t <=> l = lock
  <2>1. ShardLocks(t) = {lock}
    BY DEF ShardLocks
  <2> HIDE DEF lock
  <2>2. {lock} \in SUBSET Locks /\ TakeAll(t, {lock}) /\ \A l \in {lock} : Free(t, l)
    BY <1>5, <2>1
  <2> QED BY <1>0, <1>4, <2>2, TakeFacts
<1>7. KeepsOthers(t)
  BY <1>0, <1>1, <1>2, <1>6 DEF Shape, KeepsOthers
<1>8. CallOK(t)'
  BY <1>0, <1>1, <1>2, <1>3, <1>4 DEF CallOK, Phase
<1>9. \A k \in Key : holder'[Row(k)] # t
  BY <1>5, <1>6, LockFacts
<1>10. LocksOK(t)'
  BY <1>2, <1>3, <1>4, <1>5, <1>6, <1>9 DEF LocksOK, Admitting
<1>11. WorkOK(t)'
  BY <1>2, <1>3, <1>4 DEF WorkOK, Nothing
<1>12. View(t)' = View(t)
  BY <1>2 DEF View
<1>13. clock' \in 0..MaxTime /\ token' \in 0..MaxToken /\ receipts' = receipts /\ claims' = claims
  BY <1>1 DEF SharedOK
<1> QED BY <1>0, <1>1, <1>7, <1>8, <1>10, <1>11, <1>12, <1>13, StepInv DEF SessionOK, SharedOK

\* LockRow preserves the invariant.
LEMMA LockRowInv ==
  ASSUME Inv, NEW t \in Library, LockRow(t)
  PROVE  Inv' /\ KeepsOthers(t)
<1>0. t \in Session /\ t \notin Host
  BY PgAttemptsAssumption DEF Session
<1>1. CallOK(t) /\ LocksOK(t) /\ WorkOK(t) /\ Shape /\ SharedOK
      /\ \A s \in Shards : Sound(rows, s) /\ Sound(View(t), s)
  BY <1>0, SessionFacts
<1>2. /\ pc' = [pc EXCEPT ![t] = IF Waiting(t) THEN "decide" ELSE "orphan"] /\ pc[t] = "row"
      /\ call' = call /\ reply' = reply /\ work' = work /\ rows' = rows
      /\ clock' = clock /\ token' = token /\ receipts' = receipts /\ claims' = claims
  BY DEF Then, LockRow
<1>3. pc'[t] \in {"decide", "orphan"}
  BY <1>0, <1>1, <1>2 DEF Shape
<1>4. call[t].key \in Key /\ call[t].kind = "admit" /\ Admitting(t)
  BY <1>1, <1>2 DEF CallOK, Admitting
<1> DEFINE ls == IF View(t)[call[t].key].stored THEN {Row(call[t].key)} ELSE {}
<1>5. ls \in SUBSET Locks /\ TakeAll(t, ls) /\ \A l \in ls : Free(t, l)
  BY <1>4, LockFacts DEF LockRow
<1>6. /\ holder' \in [Locks -> Session \cup {None}]
      /\ \A u \in Session \ {t}, l \in Locks : holder'[l] = u <=> holder[l] = u
      /\ \A l \in Locks : holder'[l] = t <=> l \in ls \/ holder[l] = t
  <2> HIDE DEF ls
  <2> QED BY <1>0, <1>5, TakeFacts
<1>7. KeepsOthers(t)
  BY <1>0, <1>1, <1>2, <1>6 DEF Shape, KeepsOthers
<1>8. CallOK(t)'
  BY <1>0, <1>1, <1>2, <1>3, <1>4 DEF CallOK, Phase
<1>9. Admitting(t)'
  BY <1>2, <1>3, <1>4 DEF Admitting
<1>10. View(t)' = View(t)
  BY <1>2 DEF View
<1>11. LocksOK(t)'
  <2>1. holder'[<<"shard", Shard[call'[t].key]>>] = t
    BY <1>1, <1>2, <1>4, <1>6, LockFacts DEF LocksOK
  <2>2. \A k \in Key : holder'[Row(k)] = t => holder[Row(k)] = t \/ k = call[t].key
    BY <1>4, <1>6, LockFacts
  <2>3. \A k \in Key : holder'[Row(k)] = t => Shard[k] = Shard[call'[t].key]
    BY <1>1, <1>2, <1>4, <2>2 DEF LocksOK
  <2>4. View(t)'[call'[t].key].stored => holder'[Row(call'[t].key)] = t
    BY <1>2, <1>4, <1>6, <1>10, LockFacts
  <2> QED BY <1>3, <1>9, <2>1, <2>3, <2>4 DEF LocksOK
<1>12. WorkOK(t)'
  BY <1>1, <1>2, <1>3, <1>6, <1>9, LockFacts DEF WorkOK
<1> QED BY <1>0, <1>1, <1>2, <1>7, <1>8, <1>10, <1>11, <1>12, StepInv DEF SessionOK, SharedOK

\* CleanupShard preserves the invariant.
LEMMA CleanupShardInv ==
  ASSUME Inv, NEW t \in Library, CleanupShard(t)
  PROVE  Inv' /\ KeepsOthers(t)
<1>0. t \in Session /\ t \notin Host
  BY PgAttemptsAssumption DEF Session
<1>1. CallOK(t) /\ LocksOK(t) /\ WorkOK(t) /\ Shape /\ SharedOK
      /\ \A s \in Shards : Sound(rows, s) /\ Sound(View(t), s)
  BY <1>0, SessionFacts
<1>2. /\ pc' = [pc EXCEPT ![t] = IF Waiting(t) THEN "row" ELSE "orphan"] /\ pc[t] = "cleanup"
      /\ call' = call /\ reply' = reply /\ rows' = rows
      /\ clock' = clock /\ token' = token /\ receipts' = receipts /\ claims' = claims
  BY DEF Then, CleanupShard
<1>3. pc'[t] \in {"row", "orphan"}
  BY <1>0, <1>1, <1>2 DEF Shape
<1>4. call[t].key \in Key /\ call[t].kind = "admit" /\ Admitting(t)
  BY <1>1, <1>2 DEF CallOK, Admitting
<1>5. PICK S : /\ \A k \in S : k \in Key /\ Reapable(t, k)
               /\ TakeAll(t, {Row(k) : k \in S})
               /\ work' = [work EXCEPT ![t] = [k \in S |-> NoRow]]
  BY DEF CleanupShard
<1> DEFINE ls == {Row(k) : k \in S}
<1>6. ls \in SUBSET Locks /\ TakeAll(t, ls) /\ \A l \in ls : Free(t, l)
  BY <1>5, LockFacts DEF Reapable, Free
<1>7. /\ holder' \in [Locks -> Session \cup {None}]
      /\ \A u \in Session \ {t}, l \in Locks : holder'[l] = u <=> holder[l] = u
      /\ \A l \in Locks : holder'[l] = t <=> l \in ls \/ holder[l] = t
  <2> HIDE DEF ls
  <2> QED BY <1>0, <1>6, TakeFacts
<1>8. work'[t] = [k \in S |-> NoRow] /\ \A u \in Session \ {t} : work'[u] = work[u]
  BY <1>0, <1>1, <1>5 DEF Shape
<1>9. KeepsOthers(t)
  BY <1>0, <1>1, <1>2, <1>5, <1>7, <1>8 DEF Shape, KeepsOthers
<1>10. CallOK(t)'
  BY <1>0, <1>1, <1>2, <1>3, <1>4 DEF CallOK, Phase
<1>11. Admitting(t)'
  BY <1>2, <1>3, <1>4 DEF Admitting
<1>12. LocksOK(t)'
  <2>1. holder'[<<"shard", Shard[call'[t].key]>>] = t
    BY <1>1, <1>2, <1>4, <1>7, LockFacts DEF LocksOK
  <2>2. \A k \in Key : holder'[Row(k)] = t => holder[Row(k)] = t \/ k \in S
    BY <1>5, <1>7, LockFacts
  <2>3. \A k \in S : Shard[k] = Shard[call[t].key]
    BY <1>5 DEF Reapable
  <2>4. \A k \in Key : holder'[Row(k)] = t => Shard[k] = Shard[call'[t].key]
    BY <1>1, <1>2, <1>4, <2>2, <2>3 DEF LocksOK
  <2> QED BY <1>3, <1>11, <2>1, <2>4 DEF LocksOK
<1>13. WorkOK(t)'
  <2>1. \A k \in S : k \in Key /\ holder'[Row(k)] = t /\ RowOK(NoRow)
    BY <1>5, <1>7, LockFacts, NoRowOK
  <2>2. \A k \in DOMAIN work'[t] : k \in Key /\ holder'[Row(k)] = t /\ RowOK(work'[t][k])
    BY <1>8, <2>1
  <2> QED BY <1>3, <1>11, <2>2 DEF WorkOK, RowOK, RowType, Row
<1>14. ASSUME NEW s \in Shards PROVE Sound(View(t)', s)
  <2>1. \A k \in Key : View(t)'[k] = IF k \in S THEN NoRow ELSE rows[k]
    BY <1>2, <1>8 DEF View, NoRow
  <2>2. \A k \in Key : View(t)'[k].stored => rows[k].stored /\ View(t)'[k].slot = rows[k].slot
    BY <2>1, NoRowOK
  <2> QED BY <1>1, <2>2, FewerLemma
<1> QED BY <1>0, <1>1, <1>2, <1>9, <1>10, <1>12, <1>13, <1>14, StepInv DEF SessionOK, SharedOK

----------------------------------------------------------------------------
(* The decision of an admission                                            *)

\* Settling a lapsed lease yields a well-formed row.
LEMMA SettledOK ==
  ASSUME Inv, NEW k \in Key, NEW row \in RowType
  PROVE  /\ Settled(k, row) \in RowType
         /\ Settled(k, row).slot = row.slot /\ Settled(k, row).stored = row.stored
         /\ Settled(k, row).until = row.until
<1>1. clock \in Nat
  BY PgAttemptsAssumption DEF Inv, SharedOK
<1>2. Delay(k, row.failures + 1) \in Nat
  BY DelayType DEF RowType
<1>3. /\ Lapsed(k, row) \in RowType
      /\ Lapsed(k, row).slot = row.slot /\ Lapsed(k, row).stored = row.stored
      /\ Lapsed(k, row).until = row.until
  <2>1. CASE row.until = 0
    BY <2>1 DEF Lapsed
  <2>2. CASE row.until # 0
    <3>1. row.failures + 1 \in Nat /\ row.until \in Nat
          /\ row.until + Delay(k, row.failures + 1) \in Nat
      BY <1>2 DEF RowType
    <3>2. Lapsed(k, row) = [row EXCEPT !.failures = row.failures + 1, !.lastFailure = row.until,
                                       !.retryAt = row.until + Delay(k, row.failures + 1)]
      BY <2>2 DEF Lapsed
    <3> DEFINE a == row.failures + 1
    <3> DEFINE b == row.until
    <3> DEFINE c == row.until + Delay(k, row.failures + 1)
    <3>3. a \in Nat /\ b \in Nat /\ c \in Nat /\ 0 \in 0..MaxToken
      BY <3>1, PgAttemptsAssumption
    <3>4. Lapsed(k, row) = [row EXCEPT !.failures = a, !.lastFailure = b, !.retryAt = c]
      BY <3>2
    <3> HIDE DEF a, b, c
    <3> QED BY <3>3, <3>4 DEF RowType
  <2> QED BY <2>1, <2>2
<1> DEFINE lapsed == Lapsed(k, row)
<1>4. Settled(k, row) \in {lapsed, [lapsed EXCEPT !.failures = 0, !.retryAt = clock]}
  BY DEF Settled
<1>5. lapsed \in RowType
  BY <1>3
<1> HIDE DEF lapsed
<1>6. /\ [lapsed EXCEPT !.failures = 0, !.retryAt = clock] \in RowType
      /\ [lapsed EXCEPT !.failures = 0, !.retryAt = clock].slot = lapsed.slot
      /\ [lapsed EXCEPT !.failures = 0, !.retryAt = clock].stored = lapsed.stored
      /\ [lapsed EXCEPT !.failures = 0, !.retryAt = clock].until = lapsed.until
  BY <1>1, <1>5 DEF RowType
<1> QED BY <1>3, <1>4, <1>6 DEF lapsed

\* The lock of the shard is what makes room for a new row safe: nobody else has the
\* subject's row locked while the admission finds none.
LEMMA RowIsFree ==
  ASSUME Inv, NEW t \in Session, Admitting(t), call[t].key \in Key, ~View(t)[call[t].key].stored
  PROVE  Free(t, Row(call[t].key))
<1> DEFINE k == call[t].key
<1>0. k \in Key /\ ~View(t)[k].stored
  OBVIOUS
<1>1. SUFFICES ASSUME NEW u \in Session, u # t, holder[Row(k)] = u PROVE FALSE
  <2> HIDE DEF k
  <2>1. Row(k) \in Locks
    BY <1>0, LockFacts
  <2>2. holder[Row(k)] \in Session \cup {None}
    BY <2>1 DEF Inv, SharedOK
  <2>3. holder[Row(k)] = t \/ holder[Row(k)] = None
    BY <2>2
  <2>4. Free(t, Row(k))
    BY <2>3 DEF Free
  <2> QED BY <2>4 DEF k
<1>2. CallOK(u) /\ LocksOK(u) /\ LocksOK(t) /\ WorkOK(t)
  BY SessionFacts
<1>3. CASE Admitting(u)
  <2>1. Shard[k] = Shard[call[u].key] /\ holder[<<"shard", Shard[call[u].key]>>] = u
    BY <1>1, <1>2, <1>3 DEF LocksOK
  <2>2. holder[<<"shard", Shard[k]>>] = t
    BY <1>2 DEF LocksOK
  <2> QED BY <1>1, <2>1, <2>2
<1>4. CASE ~Admitting(u)
  <2>1. rows[k].stored
    BY <1>1, <1>2, <1>4 DEF LocksOK
  <2>2. k \in DOMAIN work[t]
    BY <2>1, ViewFacts
  <2>3. holder[Row(k)] = t
    BY <1>2, <2>2 DEF WorkOK
  <2> QED BY <1>1, <2>3
<1> QED BY <1>3, <1>4

\* A row in a free slot of a shard with room keeps every shard sound.
LEMMA InsertLemma ==
  ASSUME NEW v, NEW w, NEW k \in Key, NEW t \in Library, NEW s \in Shards, Sound(v, s),
         ~v[k].stored, \A j \in Key \ {k} : w[j] = v[j],
         \A j \in StoredIn(v, Shard[k]) : v[j].slot # w[k].slot,
         Cardinality(StoredIn(v, Shard[k])) < MaxRows[t]
  PROVE  Sound(w, s)
<1>1. CASE s # Shard[k]
  <2>1. \A j \in Key : Shard[j] = s => w[j] = v[j]
    BY <1>1
  <2>2. \A j \in Key : Shard[j] = s /\ w[j].stored => v[j].stored /\ w[j].slot = v[j].slot
    BY <2>1
  <2> QED BY <2>2, FewerLemma
<1>2. CASE s = Shard[k]
  <2>1. \A j \in Key \ {k} : w[j].stored /\ Shard[j] = s => w[j].slot # w[k].slot
    BY <1>2 DEF StoredIn
  <2>2. \A i, j \in Key : i # j /\ Shard[i] = s /\ Shard[j] = s /\ w[i].stored /\ w[j].stored
            => w[i].slot # w[j].slot
    BY <2>1 DEF Sound
  <2>3. StoredIn(w, s) \subseteq StoredIn(v, s) \cup {k} /\ k \notin StoredIn(v, s)
    BY DEF StoredIn
  <2>4. /\ IsFiniteSet(StoredIn(v, s) \cup {k})
        /\ Cardinality(StoredIn(v, s) \cup {k}) = Cardinality(StoredIn(v, s)) + 1
    BY <2>3, StoredFinite, FS_AddElement
  <2>5. Cardinality(StoredIn(w, s)) <= Cardinality(StoredIn(v, s)) + 1
    BY <2>3, <2>4, FS_Subset
  <2>6. Cardinality(StoredIn(w, s)) <= MaxRows[t]
    <3>1. MaxRows[t] \in Nat
      BY PgAttemptsAssumption
    <3> QED BY <1>2, <2>5, <3>1, StoredFinite
  <2> QED BY <2>2, <2>6 DEF Sound
<1> QED BY <1>1, <1>2

\* An uncommitted write changes one row, and only as its own session sees it.
LEMMA WriteFacts ==
  ASSUME Inv, NEW t \in Session, NEW k \in Key, NEW row, Write(t, k, row), rows' = rows
  PROVE  /\ DOMAIN work' = Session
         /\ \A u \in Session \ {t} : work'[u] = work[u]
         /\ DOMAIN work'[t] = DOMAIN work[t] \cup {k}
         /\ \A j \in DOMAIN work'[t] : work'[t][j] = IF j = k THEN row ELSE work[t][j]
         /\ \A j \in Key : View(t)'[j] = IF j = k THEN row ELSE View(t)[j]
<1>1. DOMAIN work = Session
  BY DEF Inv, Shape
<1>2. /\ DOMAIN work' = Session
      /\ \A u \in Session \ {t} : work'[u] = work[u]
      /\ work'[t] = [j \in DOMAIN work[t] \cup {k} |-> IF j = k THEN row ELSE work[t][j]]
  BY <1>1 DEF Write
<1>3. /\ DOMAIN work'[t] = DOMAIN work[t] \cup {k}
      /\ \A j \in DOMAIN work'[t] : work'[t][j] = IF j = k THEN row ELSE work[t][j]
  BY <1>2
<1>4. \A j \in Key : View(t)'[j] = IF j = k THEN row ELSE View(t)[j]
  BY <1>3 DEF View
<1> QED BY <1>2, <1>3, <1>4

\* The row an admission inserts is well formed.
LEMMA NewRow ==
  ASSUME NEW slot \in Nat, NEW at \in Nat
  PROVE  LET base == [NoRow EXCEPT !.stored = TRUE, !.slot = slot, !.lastFailure = at]
         IN  base \in RowType /\ base.slot = slot /\ base.stored
<1>1. NoRow \in RowType
  BY NoRowOK DEF RowOK
<1>2. ASSUME NEW row \in RowType
      PROVE  LET base == [row EXCEPT !.stored = TRUE, !.slot = slot, !.lastFailure = at]
             IN  base \in RowType /\ base.slot = slot /\ base.stored
  BY DEF RowType
<1> QED BY <1>1, <1>2

\* A free slot, in a shard with room.
LEMMA FreshSlot ==
  ASSUME Inv, NEW t \in Library, NEW s, ~NoRoom(t, s)
  PROVE  /\ Min(FreeSlots(t, s)) \in FreeSlots(t, s) /\ Min(FreeSlots(t, s)) \in Nat
         /\ Cardinality(StoredIn(View(t), s)) < MaxRows[t]
<1>1. MaxRows[t] \in Nat
  BY PgAttemptsAssumption
<1>2. FreeSlots(t, s) # {} /\ ~(Cardinality(StoredIn(View(t), s)) >= MaxRows[t])
  BY DEF NoRoom
<1>3. Cardinality(StoredIn(View(t), s)) < MaxRows[t]
  BY <1>1, <1>2, StoredFinite
<1>4. FreeSlots(t, s) \in SUBSET Nat
  BY <1>1 DEF FreeSlots
<1> QED BY <1>2, <1>3, <1>4, MinOfNaturals

\* The row with a new lease.
LEMMA GrantedRow ==
  ASSUME Inv, NEW k \in Key, NEW base \in RowType, token < MaxToken
  PROVE  LET new == [base EXCEPT !.retryAt = clock, !.until = clock + LeasePeriod[k],
                                 !.token = token + 1]
         IN  /\ RowOK(new) /\ new.stored = base.stored /\ new.slot = base.slot
             /\ new.failures = base.failures /\ new.until = clock + LeasePeriod[k]
             /\ new.token = token + 1 /\ new.token # 0 /\ new.until # 0
<1>1. clock \in Nat /\ token \in Nat /\ token + 1 \in 1..MaxToken
  BY PgAttemptsAssumption DEF Inv, SharedOK
<1>2. clock + LeasePeriod[k] \in Nat \ {0}
  BY <1>1, AttemptPolicyAssumption
<1> DEFINE end == clock + LeasePeriod[k]
<1> DEFINE n == token + 1
<1>3. end \in Nat /\ n \in 0..MaxToken /\ end # 0 /\ n # 0
  BY <1>1, <1>2
<1> HIDE DEF end, n
<1> DEFINE new == [base EXCEPT !.retryAt = clock, !.until = end, !.token = n]
<1>4. /\ new \in RowType /\ new.slot = base.slot /\ new.stored = base.stored
      /\ new.failures = base.failures /\ new.until = end /\ new.token = n
  BY <1>1, <1>3 DEF RowType
<1> HIDE DEF new
<1>5. RowOK(new) /\ new.token # 0 /\ new.until # 0
  BY <1>3, <1>4 DEF RowOK
<1> QED BY <1>4, <1>5 DEF new, end, n

\* Decide preserves the invariant.
LEMMA DecideInv ==
  ASSUME Inv, NEW t \in Library, Decide(t)
  PROVE  Inv' /\ KeepsOthers(t)
<1>0. t \in Session /\ t \notin Host
  BY PgAttemptsAssumption DEF Session
<1>1. CallOK(t) /\ LocksOK(t) /\ WorkOK(t) /\ Shape /\ SharedOK
      /\ \A s \in Shards : Sound(rows, s) /\ Sound(View(t), s)
  BY <1>0, SessionFacts
<1>2. /\ pc[t] = "decide" /\ Waiting(t) /\ rows' = rows
      /\ clock' = clock /\ call' = call /\ receipts' = receipts /\ claims' = claims
  BY DEF Decide
<1>3. call[t].key \in Key /\ call[t].kind = "admit" /\ Admitting(t)
  BY <1>1, <1>2 DEF CallOK, Admitting
<1> DEFINE k == call[t].key
<1> DEFINE row == View(t)[k]
<1> DEFINE settled == Settled(k, row)
<1> DEFINE base == IF row.stored THEN settled
                   ELSE [NoRow EXCEPT !.stored = TRUE, !.slot = Min(FreeSlots(t, Shard[k])),
                                      !.lastFailure = clock]
<1> DEFINE new == [base EXCEPT !.retryAt = clock, !.until = clock + LeasePeriod[k], !.token = token + 1]
<1> DEFINE Denied(r) == reply' = [reply EXCEPT ![t] = r] /\ UNCHANGED <<holder, work, token>>
<1>4. k \in Key /\ row \in RowType /\ settled \in RowType /\ RowOK(row)
  BY <1>0, <1>3, ViewFacts, SettledOK DEF RowOK
<1>5. ASSUME NEW o \in Outcome, o # "pending", NEW n \in Nat, Denied(Reply(o, n)),
             pc' = pc \/ pc' = [pc EXCEPT ![t] = "ready"]
      PROVE  Inv' /\ KeepsOthers(t)
  <2>1. /\ reply'[t] = Reply(o, n) /\ pc'[t] \in {"decide", "ready"} /\ work' = work /\ holder' = holder
        /\ token' = token
    BY <1>0, <1>1, <1>2, <1>5 DEF Shape
  <2>2. KeepsOthers(t)
    BY <1>0, <1>1, <1>2, <1>5 DEF Shape, SharedOK, KeepsOthers
  <2>3. CallOK(t)'
    BY <1>0, <1>1, <1>2, <1>3, <2>1 DEF CallOK, Phase, Reply
  <2>4. View(t)' = View(t)
    BY <1>2, <2>1 DEF View
  <2>5. Admitting(t)' /\ ~Waiting(t)'
    BY <1>2, <1>3, <1>5, <2>1 DEF Admitting, Waiting, Pending, Reply
  <2>6. LocksOK(t)'
    BY <1>1, <1>2, <1>3, <2>1, <2>4, <2>5 DEF LocksOK
  <2>7. WorkOK(t)'
    BY <1>1, <1>2, <1>3, <2>1, <2>5 DEF WorkOK
  <2> QED BY <1>0, <1>1, <1>2, <2>1, <2>2, <2>3, <2>4, <2>6, <2>7, StepInv DEF SessionOK, SharedOK
<1>6. ASSUME IF row.stored THEN clock >= row.until /\ clock >= settled.retryAt ELSE ~NoRoom(t, Shard[k]),
             token < MaxToken, token' = token + 1, Write(t, k, new), TakeAll(t, {Row(k)}),
             pc' = [pc EXCEPT ![t] = "ready"], reply' = reply
      PROVE  Inv' /\ KeepsOthers(t)
  <2>1. /\ RowOK(new) /\ new.stored /\ new.token # 0
        /\ row.stored => new.slot = row.slot
        /\ ~row.stored => /\ new.slot \in FreeSlots(t, Shard[k])
                          /\ Cardinality(StoredIn(View(t), Shard[k])) < MaxRows[t]
    <3>1. CASE row.stored
      <4>1. base = Settled(k, row)
        BY <3>1
      <4> HIDE DEF base, row, k
      <4>2. base \in RowType /\ base.slot = row.slot /\ base.stored = row.stored
        BY <1>4, <4>1, SettledOK
      <4>3. /\ RowOK(new) /\ new.stored = base.stored /\ new.slot = base.slot /\ new.token # 0
        BY <1>4, <1>6, <4>2, GrantedRow
      <4> HIDE DEF new
      <4> QED BY <3>1, <4>2, <4>3
    <3>2. CASE ~row.stored
      <4> DEFINE slot == Min(FreeSlots(t, Shard[k]))
      <4>1. base = [NoRow EXCEPT !.stored = TRUE, !.slot = slot, !.lastFailure = clock]
        BY <3>2
      <4>2. ~NoRoom(t, Shard[k]) /\ clock \in Nat
        BY <1>1, <1>6, <3>2, PgAttemptsAssumption DEF SharedOK
      <4>3. /\ slot \in FreeSlots(t, Shard[k]) /\ slot \in Nat
            /\ Cardinality(StoredIn(View(t), Shard[k])) < MaxRows[t]
        BY <4>2, FreshSlot
      <4> HIDE DEF slot, base, row, k
      <4>4. base \in RowType /\ base.slot = slot /\ base.stored
        BY <4>1, <4>2, <4>3, NewRow
      <4>5. /\ RowOK(new) /\ new.stored = base.stored /\ new.slot = base.slot /\ new.token # 0
        BY <1>4, <1>6, <4>4, GrantedRow
      <4> QED BY <3>2, <4>3, <4>4, <4>5
    <3> QED BY <3>1, <3>2
  <2> HIDE DEF new
  <2>2. /\ DOMAIN work' = Session
        /\ \A u \in Session \ {t} : work'[u] = work[u]
        /\ DOMAIN work'[t] = DOMAIN work[t] \cup {k}
        /\ \A j \in DOMAIN work'[t] : work'[t][j] = IF j = k THEN new ELSE work[t][j]
        /\ \A j \in Key : View(t)'[j] = IF j = k THEN new ELSE View(t)[j]
    BY <1>0, <1>2, <1>4, <1>6, WriteFacts
  <2>3. Free(t, Row(k))
    <3>1. row.stored => holder[Row(k)] = t
      BY <1>1, <1>2 DEF LocksOK
    <3> QED BY <1>0, <1>3, <3>1, RowIsFree DEF Free
  <2>4. /\ holder' \in [Locks -> Session \cup {None}]
        /\ \A u \in Session \ {t}, l \in Locks : holder'[l] = u <=> holder[l] = u
        /\ \A l \in Locks : holder'[l] = t <=> l \in {Row(k)} \/ holder[l] = t
    <3>1. {Row(k)} \in SUBSET Locks /\ \A l \in {Row(k)} : Free(t, l)
      BY <1>4, <2>3, LockFacts
    <3> QED BY <1>0, <1>6, <3>1, TakeFacts
  <2>5. KeepsOthers(t)
    BY <1>0, <1>1, <1>2, <1>6, <2>2, <2>4 DEF Shape, KeepsOthers
  <2>6. pc'[t] = "ready" /\ reply'[t] = reply[t]
    BY <1>0, <1>1, <1>6 DEF Shape
  <2>7. CallOK(t)'
    BY <1>0, <1>1, <1>2, <1>3, <2>6 DEF CallOK, Phase
  <2>8. Admitting(t)'
    BY <1>2, <1>3, <2>6 DEF Admitting
  <2>9. LocksOK(t)'
    <3>1. holder'[<<"shard", Shard[call'[t].key]>>] = t
      BY <1>1, <1>2, <1>3, <2>4, LockFacts DEF LocksOK
    <3>2. \A j \in Key : holder'[Row(j)] = t => holder[Row(j)] = t \/ j = k
      BY <1>4, <2>4, LockFacts
    <3>3. \A j \in Key : holder'[Row(j)] = t => Shard[j] = Shard[call'[t].key]
      BY <1>1, <1>2, <1>3, <3>2 DEF LocksOK
    <3> QED BY <2>6, <2>8, <3>1, <3>3 DEF LocksOK
  <2>10. WorkOK(t)'
    <3>1. \A j \in DOMAIN work'[t] : j \in Key /\ holder'[Row(j)] = t
      BY <1>1, <1>4, <2>2, <2>4, LockFacts DEF WorkOK
    <3>2. \A j \in DOMAIN work'[t] : RowOK(work'[t][j])
      BY <1>1, <2>1, <2>2 DEF WorkOK
    <3>3. call'[t].key \in DOMAIN work'[t] /\ work'[t][call'[t].key].token # 0
      BY <1>2, <2>1, <2>2
    <3> QED BY <2>8, <3>1, <3>2, <3>3 DEF WorkOK, RowOK, RowType, Row
  <2>11. ASSUME NEW s \in Shards PROVE Sound(View(t)', s)
    <3>1. CASE row.stored
      <4>1. \A j \in Key : View(t)'[j].stored => View(t)[j].stored /\ View(t)'[j].slot = View(t)[j].slot
        BY <2>1, <2>2, <3>1
      <4> QED BY <1>1, <4>1, FewerLemma
    <3>2. CASE ~row.stored
      <4>1. \A j \in StoredIn(View(t), Shard[k]) : View(t)[j].slot # View(t)'[k].slot
        <5>1. View(t)'[k] = new
          BY <1>4, <2>2
        <5> QED BY <2>1, <3>2, <5>1 DEF FreeSlots
      <4>2. \A j \in Key \ {k} : View(t)'[j] = View(t)[j]
        BY <2>2
      <4>3. ~View(t)[k].stored /\ k \in Key /\ Sound(View(t), s)
        BY <1>1, <1>4, <3>2
      <4>4. Cardinality(StoredIn(View(t), Shard[k])) < MaxRows[t]
        BY <2>1, <3>2
      <4> HIDE DEF k
      <4> DEFINE v == View(t)
      <4> DEFINE w == View(t)'
      <4>5. /\ Sound(v, s) /\ ~v[k].stored /\ \A j \in Key \ {k} : w[j] = v[j]
            /\ \A j \in StoredIn(v, Shard[k]) : v[j].slot # w[k].slot
            /\ Cardinality(StoredIn(v, Shard[k])) < MaxRows[t]
        BY <4>1, <4>2, <4>3, <4>4
      <4> HIDE DEF v, w
      <4>6. Sound(w, s)
        BY <4>3, <4>5, InsertLemma
      <4> QED BY <4>6 DEF w
    <3> QED BY <3>1, <3>2
  <2>12. token' \in 0..MaxToken
    BY <1>1, <1>6, PgAttemptsAssumption DEF SharedOK
  <2> QED BY <1>0, <1>1, <1>2, <2>5, <2>7, <2>9, <2>10, <2>11, <2>12, StepInv DEF SessionOK, SharedOK
<1>7. \/ /\ row.stored /\ clock < row.until
         /\ Denied(Reply("busy", row.until - clock)) /\ UNCHANGED pc
      \/ /\ row.stored /\ clock >= row.until /\ clock < settled.retryAt
         /\ Denied(Reply("backoff", settled.retryAt - clock)) /\ UNCHANGED pc
      \/ /\ ~row.stored /\ NoRoom(t, Shard[k])
         /\ Denied(Reply("storage_capacity", 0)) /\ pc' = [pc EXCEPT ![t] = "ready"]
      \/ /\ IF row.stored THEN clock >= row.until /\ clock >= settled.retryAt ELSE ~NoRoom(t, Shard[k])
         /\ token < MaxToken /\ token' = token + 1 /\ Write(t, k, new) /\ TakeAll(t, {Row(k)})
         /\ pc' = [pc EXCEPT ![t] = "ready"] /\ reply' = reply
  BY DEF Decide, AfterNoRoom
<1>8. clock \in Nat /\ row.until \in Nat /\ settled.retryAt \in Nat
  BY <1>1, <1>4, PgAttemptsAssumption DEF SharedOK, RowType
<1> HIDE DEF Denied, new, settled, row, k
<1>9. CASE row.stored /\ clock < row.until /\ Denied(Reply("busy", row.until - clock)) /\ pc' = pc
  <2>1. row.until - clock \in Nat /\ "busy" \in Outcome
    BY <1>8, <1>9 DEF Outcome
  <2> QED BY <1>5, <1>9, <2>1
<1>10. CASE clock < settled.retryAt /\ Denied(Reply("backoff", settled.retryAt - clock)) /\ pc' = pc
  <2>1. settled.retryAt - clock \in Nat /\ "backoff" \in Outcome
    BY <1>8, <1>10 DEF Outcome
  <2> QED BY <1>5, <1>10, <2>1
<1>11. CASE Denied(Reply("storage_capacity", 0)) /\ pc' = [pc EXCEPT ![t] = "ready"]
  <2>1. "storage_capacity" \in Outcome
    BY DEF Outcome
  <2> QED BY <1>5, <1>11, <2>1
<1> QED BY <1>6, <1>7, <1>9, <1>10, <1>11

----------------------------------------------------------------------------
(* Completions and the application's transactions                          *)

\* The row a completion leaves is well formed.
LEMMA CompletedOK ==
  ASSUME Inv, NEW k \in Key, NEW row \in RowType, NEW success
  PROVE  /\ RowOK(CompletedRow(k, row, success))
         /\ CompletedRow(k, row, success).stored = row.stored
         /\ CompletedRow(k, row, success).slot = row.slot
<1> DEFINE failures == IF success THEN 0 ELSE row.failures + 1
<1> DEFINE end == clock + Delay(k, failures)
<1>1. clock \in Nat /\ failures \in Nat
  BY PgAttemptsAssumption DEF Inv, SharedOK, RowType
<1>2. CompletedRow(k, row, success)
        = [row EXCEPT !.failures = failures, !.lastFailure = clock, !.retryAt = end, !.until = 0,
                      !.token = 0]
  BY DEF CompletedRow
<1> HIDE DEF failures
<1>3. end \in Nat /\ 0 \in 0..MaxToken
  BY <1>1, DelayType, PgAttemptsAssumption
<1> HIDE DEF end
<1> DEFINE new == [row EXCEPT !.failures = failures, !.lastFailure = clock, !.retryAt = end, !.until = 0,
                              !.token = 0]
<1>4. new \in RowType /\ new.until = 0 /\ new.token = 0 /\ new.stored = row.stored /\ new.slot = row.slot
  BY <1>1, <1>3 DEF RowType
<1>5. CompletedRow(k, row, success) = new
  BY <1>2
<1> HIDE DEF new
<1> QED BY <1>4, <1>5 DEF RowOK

\* A completion or a claim: it locks the row it finds, and may write it in its slot.
LEMMA RowStatement ==
  ASSUME Inv, NEW t \in Session, NEW k \in Key, ~Admitting(t), rows' = rows,
         View(t)[k].stored => Free(t, Row(k)),
         TakeAll(t, IF View(t)[k].stored THEN {Row(k)} ELSE {}),
         NEW new, RowOK(new), View(t)[k].stored => new.stored /\ new.slot = View(t)[k].slot,
         (View(t)[k].stored /\ Write(t, k, new)) \/ work' = work
  PROVE  /\ holder' \in [Locks -> Session \cup {None}]
         /\ \A u \in Session \ {t}, l \in Locks : holder'[l] = u <=> holder[l] = u
         /\ DOMAIN work' = Session
         /\ \A u \in Session \ {t} : work'[u] = work[u]
         /\ \A j \in Key : holder'[Row(j)] = t => rows[j].stored
         /\ \A j \in DOMAIN work'[t] : /\ j \in Key /\ holder'[Row(j)] = t /\ RowOK(work'[t][j])
                                       /\ work'[t][j].stored /\ work'[t][j].slot = rows[j].slot
         /\ \A s \in Shards : Sound(View(t)', s)
<1> DEFINE ls == IF View(t)[k].stored THEN {Row(k)} ELSE {}
<1>1. ls \in SUBSET Locks /\ TakeAll(t, ls) /\ \A l \in ls : Free(t, l)
  BY LockFacts
<1>2. /\ holder' \in [Locks -> Session \cup {None}]
      /\ \A u \in Session \ {t}, l \in Locks : holder'[l] = u <=> holder[l] = u
      /\ \A l \in Locks : holder'[l] = t <=> l \in ls \/ holder[l] = t
  <2> HIDE DEF ls
  <2> QED BY <1>1, TakeFacts
<1>3. CallOK(t) /\ LocksOK(t) /\ WorkOK(t) /\ Shape /\ \A s \in Shards : Sound(View(t), s)
  BY SessionFacts
<1>4. /\ View(t)[k].stored <=> rows[k].stored
      /\ View(t)[k].slot = rows[k].slot
  BY ViewSlots
<1>5. ASSUME NEW j \in Key, holder'[Row(j)] = t PROVE rows[j].stored
  <2>1. CASE holder[Row(j)] = t
    BY <1>3, <2>1 DEF LocksOK
  <2>2. CASE holder[Row(j)] # t
    <3>1. Row(j) \in ls
      BY <1>2, <1>5, <2>2, LockFacts
    <3>2. j = k /\ View(t)[k].stored
      BY <3>1, LockFacts
    <3> QED BY <1>4, <3>2
  <2> QED BY <2>1, <2>2
<1>6. \A j \in DOMAIN work[t] : /\ j \in Key /\ holder'[Row(j)] = t /\ RowOK(work[t][j])
                                /\ work[t][j].stored /\ work[t][j].slot = rows[j].slot
  BY <1>2, <1>3, LockFacts DEF WorkOK
<1>7. CASE work' = work
  <2>1. View(t)' = View(t)
    BY <1>7 DEF View
  <2> QED BY <1>2, <1>3, <1>5, <1>6, <1>7, <2>1 DEF Shape
<1>8. CASE View(t)[k].stored /\ Write(t, k, new)
  <2>1. /\ DOMAIN work' = Session
        /\ \A u \in Session \ {t} : work'[u] = work[u]
        /\ DOMAIN work'[t] = DOMAIN work[t] \cup {k}
        /\ \A j \in DOMAIN work'[t] : work'[t][j] = IF j = k THEN new ELSE work[t][j]
        /\ \A j \in Key : View(t)'[j] = IF j = k THEN new ELSE View(t)[j]
    BY <1>8, WriteFacts
  <2>2. holder'[Row(k)] = t
    BY <1>2, <1>8, LockFacts
  <2>3. \A j \in DOMAIN work'[t] : /\ j \in Key /\ holder'[Row(j)] = t /\ RowOK(work'[t][j])
                                   /\ work'[t][j].stored /\ work'[t][j].slot = rows[j].slot
    BY <1>4, <1>6, <1>8, <2>1, <2>2
  <2>4. ASSUME NEW s \in Shards PROVE Sound(View(t)', s)
    <3>1. \A j \in Key : View(t)'[j].stored => View(t)[j].stored /\ View(t)'[j].slot = View(t)[j].slot
      BY <1>8, <2>1
    <3> QED BY <1>3, <3>1, FewerLemma
  <2> QED BY <1>2, <1>5, <2>1, <2>3, <2>4
<1> QED BY <1>7, <1>8

\* The same for COMPLETE_SQL.
LEMMA CompletionFacts ==
  ASSUME Inv, NEW t \in Session, NEW k \in Key, NEW success, NEW fits,
         CompletionStatement(t, k, success, fits), ~Admitting(t), rows' = rows
  PROVE  /\ holder' \in [Locks -> Session \cup {None}]
         /\ \A u \in Session \ {t}, l \in Locks : holder'[l] = u <=> holder[l] = u
         /\ DOMAIN work' = Session
         /\ \A u \in Session \ {t} : work'[u] = work[u]
         /\ \A j \in Key : holder'[Row(j)] = t => rows[j].stored
         /\ \A j \in DOMAIN work'[t] : /\ j \in Key /\ holder'[Row(j)] = t /\ RowOK(work'[t][j])
                                       /\ work'[t][j].stored /\ work'[t][j].slot = rows[j].slot
         /\ \A s \in Shards : Sound(View(t)', s)
<1> DEFINE new == CompletedRow(k, View(t)[k], success)
<1>1. /\ View(t)[k].stored => Free(t, Row(k))
      /\ TakeAll(t, IF View(t)[k].stored THEN {Row(k)} ELSE {})
      /\ (View(t)[k].stored /\ Write(t, k, new)) \/ work' = work
  BY DEF CompletionStatement
<1>2. View(t)[k] \in RowType
  BY ViewFacts DEF RowOK
<1>3. RowOK(new) /\ new.stored = View(t)[k].stored /\ new.slot = View(t)[k].slot
  BY <1>2, CompletedOK
<1> HIDE DEF new
<1>4. RowOK(new) /\ (View(t)[k].stored => new.stored /\ new.slot = View(t)[k].slot)
  BY <1>3
<1> QED BY <1>1, <1>4, RowStatement

\* What is left to show of a step that is a completion or a claim.
LEMMA StatementInv ==
  ASSUME Inv, NEW t \in Session, rows' = rows, clock' = clock, call' = call, reply' = reply,
         pc' = pc \/ \E p : pc' = [pc EXCEPT ![t] = p],
         pc'[t] \notin {"idle", "shard", "complete", "decide"}, CallOK(t)', ~Admitting(t)',
         holder' \in [Locks -> Session \cup {None}],
         \A u \in Session \ {t}, l \in Locks : holder'[l] = u <=> holder[l] = u,
         DOMAIN work' = Session,
         \A u \in Session \ {t} : work'[u] = work[u],
         \A j \in Key : holder'[Row(j)] = t => rows[j].stored,
         \A j \in DOMAIN work'[t] : /\ j \in Key /\ holder'[Row(j)] = t /\ RowOK(work'[t][j])
                                    /\ work'[t][j].stored /\ work'[t][j].slot = rows[j].slot,
         \A s \in Shards : Sound(View(t)', s),
         token' \in 0..MaxToken,
         receipts' \subseteq [key : Key, token : 1..MaxToken],
         claims' \subseteq [key : Key, token : 1..MaxToken, tx : Host \cup {None}]
  PROVE  Inv' /\ KeepsOthers(t)
<1>1. Shape /\ SharedOK
  BY SessionFacts
<1>2. DOMAIN pc' = Session /\ \A u \in Session \ {t} : pc'[u] = pc[u]
  BY <1>1 DEF Shape
<1>3. KeepsOthers(t)
  BY <1>1, <1>2 DEF Shape, KeepsOthers
<1>4. LocksOK(t)'
  BY DEF LocksOK
<1>5. WorkOK(t)'
  BY DEF WorkOK, RowOK, RowType, Row
<1>6. clock' \in 0..MaxTime
  BY <1>1 DEF SharedOK
<1> QED BY <1>3, <1>4, <1>5, <1>6, StepInv DEF SessionOK

\* Complete preserves the invariant.
LEMMA CompleteInv ==
  ASSUME Inv, NEW t \in Library, Complete(t)
  PROVE  Inv' /\ KeepsOthers(t)
<1>0. t \in Session /\ t \notin Host
  BY PgAttemptsAssumption DEF Session
<1>1. CallOK(t) /\ Shape /\ SharedOK
  BY <1>0, SessionFacts
<1>2. /\ pc' = [pc EXCEPT ![t] = IF Waiting(t) THEN "ready" ELSE "orphan"] /\ pc[t] = "complete"
      /\ CompletionStatement(t, call[t].key, call[t].success, Live(View(t)[call[t].key], call[t]))
      /\ call' = call /\ reply' = reply /\ rows' = rows
      /\ clock' = clock /\ token' = token /\ receipts' = receipts /\ claims' = claims
  BY DEF Complete, Then
<1>3. pc'[t] \in {"ready", "orphan"}
  BY <1>0, <1>1, <1>2 DEF Shape
<1>4. call[t].key \in Key /\ ~Admitting(t) /\ ~Admitting(t)'
  BY <1>1, <1>2 DEF CallOK, Admitting
<1>5. CallOK(t)'
  BY <1>0, <1>1, <1>2, <1>3 DEF CallOK, Phase
<1>6. /\ holder' \in [Locks -> Session \cup {None}]
      /\ \A u \in Session \ {t}, l \in Locks : holder'[l] = u <=> holder[l] = u
      /\ DOMAIN work' = Session
      /\ \A u \in Session \ {t} : work'[u] = work[u]
      /\ \A j \in Key : holder'[Row(j)] = t => rows[j].stored
      /\ \A j \in DOMAIN work'[t] : /\ j \in Key /\ holder'[Row(j)] = t /\ RowOK(work'[t][j])
                                    /\ work'[t][j].stored /\ work'[t][j].slot = rows[j].slot
      /\ \A s \in Shards : Sound(View(t)', s)
  BY <1>0, <1>2, <1>4, CompletionFacts
<1>7. \E p : pc' = [pc EXCEPT ![t] = p]
  BY <1>2
<1>8. token' \in 0..MaxToken /\ receipts' \subseteq [key : Key, token : 1..MaxToken]
      /\ claims' \subseteq [key : Key, token : 1..MaxToken, tx : Host \cup {None}]
  BY <1>1, <1>2 DEF SharedOK
<1>9. pc'[t] \notin {"idle", "shard", "complete", "decide"}
  BY <1>3
<1> QED BY <1>0, <1>2, <1>4, <1>5, <1>6, <1>7, <1>8, <1>9, StatementInv

\* An application transaction is never inside an admission.
LEMMA HostFacts ==
  ASSUME Inv, NEW h \in Host, pc[h] = "host", pc' = pc, call' = call, reply' = reply
  PROVE  h \in Session /\ ~Admitting(h) /\ ~Admitting(h)' /\ CallOK(h)' /\ pc'[h] = "host"
<1>1. h \in Session
  BY DEF Session
<1>2. CallOK(h)
  BY <1>1, SessionFacts
<1> QED BY <1>1, <1>2 DEF CallOK, Admitting, NoCall

\* FinishIn preserves the invariant.
LEMMA FinishInInv ==
  ASSUME Inv, NEW h \in Host, NEW c \in claims, NEW success \in BOOLEAN, FinishIn(h, c, success)
  PROVE  Inv' /\ KeepsOthers(h)
<1>1. /\ pc[h] = "host" /\ pc' = pc /\ call' = call /\ reply' = reply /\ rows' = rows
      /\ clock' = clock /\ token' = token /\ receipts' = receipts /\ claims' \subseteq claims
      /\ CompletionStatement(h, c.key, success, View(h)[c.key].token = c.token /\ SameTransaction(h, c))
  BY DEF FinishIn
<1>2. h \in Session /\ ~Admitting(h) /\ ~Admitting(h)' /\ CallOK(h)' /\ pc'[h] = "host"
  BY <1>1, HostFacts
<1>3. SharedOK
  BY <1>2, SessionFacts
<1>4. c.key \in Key
  BY <1>3 DEF SharedOK
<1>6. /\ holder' \in [Locks -> Session \cup {None}]
      /\ \A u \in Session \ {h}, l \in Locks : holder'[l] = u <=> holder[l] = u
      /\ DOMAIN work' = Session
      /\ \A u \in Session \ {h} : work'[u] = work[u]
      /\ \A j \in Key : holder'[Row(j)] = h => rows[j].stored
      /\ \A j \in DOMAIN work'[h] : /\ j \in Key /\ holder'[Row(j)] = h /\ RowOK(work'[h][j])
                                    /\ work'[h][j].stored /\ work'[h][j].slot = rows[j].slot
      /\ \A s \in Shards : Sound(View(h)', s)
  BY <1>1, <1>2, <1>4, CompletionFacts
<1>7. token' \in 0..MaxToken /\ receipts' \subseteq [key : Key, token : 1..MaxToken]
      /\ claims' \subseteq [key : Key, token : 1..MaxToken, tx : Host \cup {None}]
  BY <1>1, <1>3 DEF SharedOK
<1> QED BY <1>1, <1>2, <1>6, <1>7, StatementInv

\* CompleteIn preserves the invariant.
LEMMA CompleteInInv ==
  ASSUME Inv, NEW h \in Host, NEW r \in receipts, NEW success \in BOOLEAN, CompleteIn(h, r, success)
  PROVE  Inv' /\ KeepsOthers(h)
<1>1. /\ pc[h] = "host" /\ pc' = pc /\ call' = call /\ reply' = reply /\ rows' = rows
      /\ clock' = clock /\ token' = token /\ receipts' \subseteq receipts /\ claims' = claims
      /\ CompletionStatement(h, r.key, success, Live(View(h)[r.key], r))
  BY DEF CompleteIn
<1>2. h \in Session /\ ~Admitting(h) /\ ~Admitting(h)' /\ CallOK(h)' /\ pc'[h] = "host"
  BY <1>1, HostFacts
<1>3. SharedOK
  BY <1>2, SessionFacts
<1>4. r.key \in Key
  BY <1>3 DEF SharedOK
<1>6. /\ holder' \in [Locks -> Session \cup {None}]
      /\ \A u \in Session \ {h}, l \in Locks : holder'[l] = u <=> holder[l] = u
      /\ DOMAIN work' = Session
      /\ \A u \in Session \ {h} : work'[u] = work[u]
      /\ \A j \in Key : holder'[Row(j)] = h => rows[j].stored
      /\ \A j \in DOMAIN work'[h] : /\ j \in Key /\ holder'[Row(j)] = h /\ RowOK(work'[h][j])
                                    /\ work'[h][j].stored /\ work'[h][j].slot = rows[j].slot
      /\ \A s \in Shards : Sound(View(h)', s)
  BY <1>1, <1>2, <1>4, CompletionFacts
<1>7. token' \in 0..MaxToken /\ receipts' \subseteq [key : Key, token : 1..MaxToken]
      /\ claims' \subseteq [key : Key, token : 1..MaxToken, tx : Host \cup {None}]
  BY <1>1, <1>3 DEF SharedOK
<1> QED BY <1>1, <1>2, <1>6, <1>7, StatementInv

\* A session that holds no lock has written nothing.
LEMMA NoLocksNoWork ==
  ASSUME Inv, NEW t \in Session, Holds(t) = {}
  PROVE  /\ \A l \in Locks : holder[l] # t
         /\ DOMAIN work[t] = {}
         /\ \A k \in Key : View(t)[k] = rows[k]
<1>1. \A l \in Locks : holder[l] # t
  BY DEF Holds
<1>2. WorkOK(t)
  BY SessionFacts
<1>3. DOMAIN work[t] = {}
  BY <1>1, <1>2, LockFacts DEF WorkOK
<1> QED BY <1>1, <1>3, ViewFacts

\* A claimed row is well formed under its new token.
LEMMA ClaimedRow ==
  ASSUME Inv, NEW row \in RowType, row.until > clock, token < MaxToken
  PROVE  LET new == [row EXCEPT !.token = token + 1]
         IN  /\ RowOK(new) /\ new.stored = row.stored /\ new.slot = row.slot /\ new.until = row.until
             /\ new.failures = row.failures /\ new.token = token + 1
<1> DEFINE n == token + 1
<1>1. n \in 1..MaxToken /\ clock \in Nat
  BY PgAttemptsAssumption DEF Inv, SharedOK
<1> HIDE DEF n
<1> DEFINE new == [row EXCEPT !.token = n]
<1>2. n \in 0..MaxToken /\ n # 0
  BY <1>1
<1>3. /\ new \in RowType /\ new.stored = row.stored /\ new.slot = row.slot /\ new.until = row.until
      /\ new.failures = row.failures /\ new.token = n
  BY <1>2 DEF RowType
<1>4. row.until # 0
  BY <1>1 DEF RowType
<1> HIDE DEF new
<1>5. RowOK(new)
  BY <1>2, <1>3, <1>4 DEF RowOK
<1> QED BY <1>3, <1>5 DEF new, n

\* ClaimIn preserves the invariant.
LEMMA ClaimInInv ==
  ASSUME Inv, NEW h \in Host, NEW r \in receipts, ClaimIn(h, r)
  PROVE  Inv' /\ KeepsOthers(h)
<1> DEFINE k == r.key
<1> DEFINE row == rows[k]
<1> DEFINE new == [row EXCEPT !.token = token + 1]
<1> DEFINE claim == [key |-> k, token |-> token + 1, tx |-> h]
<1>1. /\ pc[h] = "host" /\ Holds(h) = {} /\ pc' = pc /\ call' = call /\ reply' = reply /\ rows' = rows
      /\ clock' = clock /\ receipts' \subseteq receipts
      /\ row.stored => Free(h, Row(k))
      /\ TakeAll(h, IF row.stored THEN {Row(k)} ELSE {})
      /\ \/ /\ row.stored /\ row.until > clock /\ token < MaxToken /\ token' = token + 1
            /\ Write(h, k, new) /\ claims' = claims \cup {claim}
         \/ token' = token /\ work' = work /\ claims' = claims
  BY DEF ClaimIn, Live
<1>2. h \in Session /\ ~Admitting(h) /\ ~Admitting(h)' /\ CallOK(h)' /\ pc'[h] = "host"
  BY <1>1, HostFacts
<1>3. SharedOK
  BY <1>2, SessionFacts
<1>4. k \in Key /\ RowOK(row) /\ row \in RowType
  BY <1>2, <1>3, ViewFacts DEF SharedOK, RowOK
<1>5. View(h)[k] = row
  BY <1>1, <1>2, <1>4, NoLocksNoWork
<1> DEFINE written == IF row.until > clock /\ token < MaxToken THEN new ELSE row
<1>6. RowOK(written) /\ written.stored = row.stored /\ written.slot = row.slot
  <2>1. CASE row.until > clock /\ token < MaxToken
    <3> HIDE DEF row
    <3> QED BY <1>4, <2>1, ClaimedRow
  <2>2. CASE ~(row.until > clock /\ token < MaxToken)
    BY <1>4, <2>2
  <2> QED BY <2>1, <2>2
<1>7. (row.stored /\ Write(h, k, written)) \/ work' = work
  BY <1>1
<1>8. claims' \subseteq [key : Key, token : 1..MaxToken, tx : Host \cup {None}] /\ token' \in 0..MaxToken
  <2>1. CASE token' = token /\ claims' = claims
    BY <1>3, <2>1 DEF SharedOK
  <2>2. CASE token < MaxToken /\ token' = token + 1 /\ claims' = claims \cup {claim}
    <3>1. token + 1 \in 1..MaxToken
      BY <1>3, <2>2, PgAttemptsAssumption DEF SharedOK
    <3>2. claim \in [key : Key, token : 1..MaxToken, tx : Host \cup {None}]
      BY <1>4, <3>1
    <3> HIDE DEF claim
    <3> QED BY <1>3, <2>2, <3>1, <3>2 DEF SharedOK
  <2> QED BY <1>1, <2>1, <2>2
<1> HIDE DEF written, new, row, k, claim
<1>9. /\ View(h)[k].stored => Free(h, Row(k))
      /\ TakeAll(h, IF View(h)[k].stored THEN {Row(k)} ELSE {})
      /\ View(h)[k].stored => written.stored /\ written.slot = View(h)[k].slot
      /\ (View(h)[k].stored /\ Write(h, k, written)) \/ work' = work
  BY <1>1, <1>5, <1>6, <1>7
<1>10. /\ holder' \in [Locks -> Session \cup {None}]
       /\ \A u \in Session \ {h}, l \in Locks : holder'[l] = u <=> holder[l] = u
       /\ DOMAIN work' = Session
       /\ \A u \in Session \ {h} : work'[u] = work[u]
       /\ \A j \in Key : holder'[Row(j)] = h => rows[j].stored
       /\ \A j \in DOMAIN work'[h] : /\ j \in Key /\ holder'[Row(j)] = h /\ RowOK(work'[h][j])
                                     /\ work'[h][j].stored /\ work'[h][j].slot = rows[j].slot
       /\ \A s \in Shards : Sound(View(h)', s)
  BY <1>1, <1>2, <1>4, <1>6, <1>9, RowStatement
<1>11. receipts' \subseteq [key : Key, token : 1..MaxToken]
  BY <1>1, <1>3 DEF SharedOK
<1> QED BY <1>1, <1>2, <1>8, <1>10, <1>11, StatementInv

\* The lock table after t has given up all its locks.
LEMMA ReleaseFacts ==
  ASSUME Inv, NEW t \in Session, holder' = [l \in Locks |-> IF holder[l] = t THEN None ELSE holder[l]]
  PROVE  /\ holder' \in [Locks -> Session \cup {None}]
         /\ \A u \in Session \ {t}, l \in Locks : holder'[l] = u <=> holder[l] = u
         /\ \A l \in Locks : holder'[l] # t
BY LockFacts DEF Inv, SharedOK

\* RollbackToSavepoint preserves the invariant.
LEMMA RollbackToSavepointInv ==
  ASSUME Inv, NEW h \in Host, RollbackToSavepoint(h)
  PROVE  Inv' /\ KeepsOthers(h)
<1>1. /\ pc[h] = "host" /\ pc' = pc /\ call' = call /\ reply' = reply /\ rows' = rows
      /\ clock' = clock /\ token' = token /\ receipts' = receipts /\ claims' = claims
      /\ work' = [work EXCEPT ![h] = Nothing]
      /\ holder' = [l \in Locks |-> IF holder[l] = h THEN None ELSE holder[l]]
  BY DEF RollbackToSavepoint
<1>2. h \in Session /\ ~Admitting(h) /\ ~Admitting(h)' /\ CallOK(h)' /\ pc'[h] = "host"
  BY <1>1, HostFacts
<1>3. SharedOK /\ Shape /\ \A s \in Shards : Sound(rows, s)
  BY <1>2, SessionFacts
<1>4. /\ DOMAIN work' = Session /\ work'[h] = Nothing /\ DOMAIN work'[h] = {}
      /\ \A u \in Session \ {h} : work'[u] = work[u]
  BY <1>1, <1>2, <1>3 DEF Shape, Nothing
<1>5. \A s \in Shards : Sound(View(h)', s)
  <2>1. \A k \in Key : View(h)'[k] = rows[k]
    BY <1>1, <1>4 DEF View
  <2>2. \A k \in Key : View(h)'[k].stored => rows[k].stored /\ View(h)'[k].slot = rows[k].slot
    BY <2>1
  <2> QED BY <1>3, <2>2, FewerLemma
<1>6. /\ holder' \in [Locks -> Session \cup {None}]
      /\ \A u \in Session \ {h}, l \in Locks : holder'[l] = u <=> holder[l] = u
      /\ \A l \in Locks : holder'[l] # h
  BY <1>1, <1>2, ReleaseFacts
<1>7. \A j \in Key : holder'[Row(j)] # h
  BY <1>6, LockFacts
<1>8. token' \in 0..MaxToken /\ receipts' \subseteq [key : Key, token : 1..MaxToken]
      /\ claims' \subseteq [key : Key, token : 1..MaxToken, tx : Host \cup {None}]
  BY <1>1, <1>3 DEF SharedOK
<1> QED BY <1>1, <1>2, <1>4, <1>5, <1>6, <1>7, <1>8, StatementInv

----------------------------------------------------------------------------
(* The end of a transaction                                                *)

\* A step that changes no table and no lock, and keeps the phases apart.
LEMMA QuietInv ==
  ASSUME Inv, NEW t \in Session, rows' = rows, clock' = clock, holder' = holder, call' = call,
         work' = work, token' = token, receipts' = receipts, claims' = claims,
         Shape', \A u \in Session \ {t} : pc'[u] = pc[u] /\ reply'[u] = reply[u],
         CallOK(t)',
         pc'[t] = pc[t] \/ (pc[t] \notin {"idle", "shard", "complete"} /\ pc'[t] = "committing"),
         pc'[t] = "committing" /\ Waiting(t)' => pc[t] \in {"host", "ready", "committing"},
         Waiting(t)' => Waiting(t)
  PROVE  Inv' /\ KeepsOthers(t)
<1>1. CallOK(t) /\ LocksOK(t) /\ WorkOK(t) /\ Shape /\ SharedOK
      /\ \A s \in Shards : Sound(rows, s) /\ Sound(View(t), s)
  BY SessionFacts
<1>2. KeepsOthers(t)
  BY <1>1 DEF KeepsOthers, SharedOK
<1>3. Admitting(t)' <=> Admitting(t)
  BY DEF Admitting
<1>4. View(t)' = View(t)
  BY DEF View
<1>5. LocksOK(t)'
  BY <1>1, <1>3, <1>4 DEF LocksOK
<1>6. WorkOK(t)'
  <2>1. Admitting(t) => pc[t] # "host"
    BY <1>1, PgAttemptsAssumption DEF CallOK, Admitting, NoCall, Session
  <2> QED BY <1>1, <1>3, <2>1 DEF WorkOK
<1>7. clock' \in 0..MaxTime /\ token' \in 0..MaxToken
  BY <1>1 DEF SharedOK
<1> QED BY <1>1, <1>2, <1>4, <1>5, <1>6, <1>7, StepInv DEF SessionOK, SharedOK

\* SendCommit preserves the invariant.
LEMMA SendCommitInv ==
  ASSUME Inv, NEW t \in Session, SendCommit(t)
  PROVE  Inv' /\ KeepsOthers(t)
<1>1. CallOK(t) /\ Shape
  BY SessionFacts
<1>2. pc'[t] = "committing" /\ call' = call /\ reply' = reply /\ DOMAIN pc' = Session
      /\ \A u \in Session \ {t} : pc'[u] = pc[u]
  BY <1>1 DEF SendCommit, Shape
<1>3. pc[t] \in {"host", "ready"}
  BY DEF SendCommit
<1>4. CallOK(t)'
  BY <1>1, <1>2, <1>3 DEF CallOK, Phase, NoCall
<1>5. Shape'
  BY <1>1, <1>2 DEF Shape, SendCommit
<1>6. Waiting(t)' => Waiting(t)
  BY <1>2 DEF Waiting
<1>7. /\ rows' = rows /\ clock' = clock /\ holder' = holder /\ work' = work /\ token' = token
      /\ receipts' = receipts /\ claims' = claims
  BY DEF SendCommit
<1> QED BY <1>2, <1>3, <1>4, <1>5, <1>6, <1>7, QuietInv

\* LoseConfirmation and Abandon tell the client something; the session goes on.
LEMMA ToldInv ==
  ASSUME Inv, NEW t \in Library, NEW o \in Outcome \ {"pending"},
         reply' = [reply EXCEPT ![t] = Reply(o, 0)],
         UNCHANGED <<rows, clock, holder, pc, call, work, token, receipts, claims>>
  PROVE  Inv' /\ KeepsOthers(t)
<1>0. t \in Session /\ t \notin Host
  BY PgAttemptsAssumption DEF Session
<1>1. CallOK(t) /\ Shape
  BY <1>0, SessionFacts
<1>2. reply'[t] = Reply(o, 0) /\ \A u \in Session \ {t} : reply'[u] = reply[u]
  BY <1>0, <1>1 DEF Shape
<1>3. CallOK(t)'
  BY <1>0, <1>1, <1>2 DEF CallOK, Reply
<1>4. Shape'
  BY <1>1 DEF Shape
<1>5. ~Waiting(t)'
  BY <1>2 DEF Waiting, Pending, Reply
<1> QED BY <1>0, <1>2, <1>3, <1>4, <1>5, QuietInv

\* LoseConfirmation preserves the invariant.
LEMMA LoseConfirmationInv ==
  ASSUME Inv, NEW t \in Library, LoseConfirmation(t)
  PROVE  Inv' /\ KeepsOthers(t)
<1>1. "unknown" \in Outcome \ {"pending"}
  BY DEF Outcome
<1> QED BY <1>1, ToldInv DEF LoseConfirmation

\* Abandon preserves the invariant.
LEMMA AbandonInv ==
  ASSUME Inv, NEW t \in Library, Abandon(t)
  PROVE  Inv' /\ KeepsOthers(t)
<1>1. "not_consumed" \in Outcome \ {"pending"}
  BY DEF Outcome
<1> QED BY <1>1, ToldInv DEF Abandon

\* Tick preserves the invariant.
LEMMA TickInv ==
  ASSUME Inv, Tick
  PROVE  Inv'
<1>1. clock' \in 0..MaxTime
  BY PgAttemptsAssumption DEF Tick, Inv, SharedOK
<1>2. /\ rows' = rows /\ holder' = holder /\ pc' = pc /\ call' = call /\ work' = work /\ token' = token
      /\ receipts' = receipts /\ claims' = claims /\ reply' = reply
  BY DEF Tick
<1>3. SharedOK'
  BY <1>1, <1>2 DEF Inv, SharedOK, RowType
<1>4. \A t \in Session : View(t)' = View(t)
  BY <1>2 DEF View
<1>5. TablesInv'
  BY <1>2, <1>4 DEF Inv, TablesInv, Sound, StoredIn, Shards
<1>6. Shape'
  BY <1>2 DEF Inv, Shape
<1>7. ASSUME NEW t \in Session PROVE SessionOK(t)'
  <2>1. SessionOK(t)
    BY DEF Inv
  <2>2. (Admitting(t)' <=> Admitting(t)) /\ (Waiting(t)' <=> Waiting(t))
    BY <1>2 DEF Admitting, Waiting
  <2>3. CallOK(t)'
    BY <1>2, <2>1 DEF SessionOK, CallOK
  <2>4. LocksOK(t)'
    BY <1>2, <1>4, <2>1, <2>2 DEF SessionOK, LocksOK
  <2>5. WorkOK(t)'
    BY <1>2, <2>1, <2>2 DEF SessionOK, WorkOK
  <2> QED BY <2>3, <2>4, <2>5 DEF SessionOK
<1> QED BY <1>3, <1>5, <1>6, <1>7 DEF Inv

\* Every way a transaction ends leaves its session idle, with no lock and no work.
LEMMA EndFacts ==
  ASSUME Inv, NEW t \in Session, EndTransaction(t), call' = call,
         DOMAIN reply' = Session, \A u \in Session \ {t} : reply'[u] = reply[u],
         reply'[t] = reply[t] \/ (t \in Library /\ \E o \in Outcome : reply'[t] = Reply(o, 0))
  PROVE  /\ Shape'
         /\ holder' \in [Locks -> Session \cup {None}]
         /\ \A l \in Locks : holder'[l] # t
         /\ \A u \in Session \ {t} :
              /\ pc'[u] = pc[u] /\ call'[u] = call[u] /\ work'[u] = work[u] /\ reply'[u] = reply[u]
              /\ \A l \in Locks : holder'[l] = u <=> holder[l] = u
         /\ pc'[t] = "idle" /\ work'[t] = Nothing /\ DOMAIN work'[t] = {}
         /\ SessionOK(t)'
         /\ claims' \subseteq [key : Key, token : 1..MaxToken, tx : Host \cup {None}]
<1>1. CallOK(t) /\ Shape /\ SharedOK
  BY SessionFacts
<1>2. /\ holder' = [l \in Locks |-> IF holder[l] = t THEN None ELSE holder[l]]
      /\ pc' = [pc EXCEPT ![t] = "idle"]
      /\ work' = [work EXCEPT ![t] = Nothing]
      /\ claims' = {[c EXCEPT !.tx = IF @ = t THEN None ELSE @] : c \in claims}
  BY DEF EndTransaction
<1>3. /\ holder' \in [Locks -> Session \cup {None}]
      /\ \A u \in Session \ {t}, l \in Locks : holder'[l] = u <=> holder[l] = u
      /\ \A l \in Locks : holder'[l] # t
  BY <1>2, ReleaseFacts
<1>4. /\ Shape'
      /\ \A u \in Session \ {t} : /\ pc'[u] = pc[u] /\ call'[u] = call[u] /\ work'[u] = work[u]
                                  /\ reply'[u] = reply[u]
  BY <1>1, <1>2 DEF Shape
<1>5. pc'[t] = "idle" /\ work'[t] = Nothing /\ DOMAIN work'[t] = {}
  BY <1>1, <1>2 DEF Shape, Nothing
<1>6. CallOK(t)'
  <2>1. CASE reply'[t] = reply[t]
    BY <1>1, <1>5, <2>1 DEF CallOK, Phase
  <2>2. CASE t \in Library /\ \E o \in Outcome : reply'[t] = Reply(o, 0)
    <3>1. PICK o \in Outcome : reply'[t] = Reply(o, 0)
      BY <2>2
    <3>2. reply'[t] = Reply(o, 0) /\ t \notin Host
      BY <2>2, <3>1, PgAttemptsAssumption
    <3> QED BY <1>1, <1>5, <3>2 DEF CallOK, Phase, Reply
  <2> QED BY <2>1, <2>2
<1>7. ~Admitting(t)' /\ \A k \in Key : holder'[Row(k)] # t
  BY <1>3, <1>5, LockFacts DEF Admitting
<1>8. LocksOK(t)' /\ WorkOK(t)'
  BY <1>3, <1>5, <1>7 DEF LocksOK, WorkOK, Nothing
<1>9. claims' \subseteq [key : Key, token : 1..MaxToken, tx : Host \cup {None}]
  <2> SUFFICES ASSUME NEW c \in claims
               PROVE  [c EXCEPT !.tx = IF @ = t THEN None ELSE @]
                        \in [key : Key, token : 1..MaxToken, tx : Host \cup {None}]
    BY <1>2
  <2>1. c \in [key : Key, token : 1..MaxToken, tx : Host \cup {None}]
    BY <1>1 DEF SharedOK
  <2> QED BY <2>1
<1> QED BY <1>3, <1>4, <1>5, <1>6, <1>8, <1>9 DEF SessionOK

\* Ending a transaction without its writes keeps the invariant.
LEMMA DiscardInv ==
  ASSUME Inv, NEW t \in Session, EndTransaction(t), UNCHANGED <<rows, clock, call, token, receipts>>,
         DOMAIN reply' = Session, \A u \in Session \ {t} : reply'[u] = reply[u],
         reply'[t] = reply[t] \/ (t \in Library /\ \E o \in Outcome : reply'[t] = Reply(o, 0))
  PROVE  Inv' /\ KeepsOthers(t)
<1>1. /\ Shape' /\ holder' \in [Locks -> Session \cup {None}] /\ DOMAIN work'[t] = {}
      /\ \A u \in Session \ {t} :
              /\ pc'[u] = pc[u] /\ call'[u] = call[u] /\ work'[u] = work[u] /\ reply'[u] = reply[u]
              /\ \A l \in Locks : holder'[l] = u <=> holder[l] = u
      /\ SessionOK(t)'
      /\ claims' \subseteq [key : Key, token : 1..MaxToken, tx : Host \cup {None}]
  BY EndFacts
<1>2. KeepsOthers(t)
  BY <1>1 DEF KeepsOthers
<1>3. SharedOK /\ \A s \in Shards : Sound(rows, s)
  BY SessionFacts
<1>4. \A s \in Shards : Sound(View(t)', s)
  <2>1. \A k \in Key : View(t)'[k] = rows[k]
    BY <1>1 DEF View
  <2>2. \A k \in Key : View(t)'[k].stored => rows[k].stored /\ View(t)'[k].slot = rows[k].slot
    BY <2>1
  <2> QED BY <1>3, <2>2, FewerLemma
<1>5. clock' \in 0..MaxTime /\ token' \in 0..MaxToken /\ receipts' \subseteq [key : Key, token : 1..MaxToken]
  BY <1>3 DEF SharedOK
<1> QED BY <1>1, <1>2, <1>4, <1>5, StepInv

\* FailCommit preserves the invariant.
LEMMA FailCommitInv ==
  ASSUME Inv, NEW t \in Session, FailCommit(t)
  PROVE  Inv' /\ KeepsOthers(t)
<1>1. DOMAIN reply = Session /\ CallOK(t)
  BY SessionFacts DEF Shape
<1>2. DOMAIN reply' = Session /\ \A u \in Session \ {t} : reply'[u] = reply[u]
  BY <1>1 DEF FailCommit
<1>3. reply'[t] = reply[t] \/ (t \in Library /\ \E o \in Outcome : reply'[t] = Reply(o, 0))
  <2>1. CASE Waiting(t)
    <3>1. t \in Library
      BY <1>1, <2>1 DEF CallOK, Waiting, Pending, Reply, Session
    <3>2. reply'[t] = Reply("unknown", 0) /\ "unknown" \in Outcome
      BY <1>1, <2>1 DEF FailCommit, Outcome
    <3> QED BY <3>1, <3>2
  <2>2. CASE ~Waiting(t)
    BY <1>1, <2>2 DEF FailCommit
  <2> QED BY <2>1, <2>2
<1> QED BY <1>2, <1>3, DiscardInv DEF FailCommit

\* Rollback preserves the invariant.
LEMMA RollbackInv ==
  ASSUME Inv, NEW t \in Session, Rollback(t)
  PROVE  Inv' /\ KeepsOthers(t)
<1>1. DOMAIN reply = Session
  BY SessionFacts DEF Shape
<1>2. reply' = reply
  BY DEF Rollback
<1> QED BY <1>1, <1>2, DiscardInv DEF Rollback

----------------------------------------------------------------------------
(* Commit                                                                  *)

\* Whatever another transaction is about to commit, the rows of the shard an admission
\* has locked stay where they are.
LEMMA ShardUndisturbed ==
  ASSUME Inv, NEW t \in Session, NEW u \in Session, t # u, Admitting(u), NEW k \in Key,
         Shard[k] = Shard[call[u].key]
  PROVE  (View(t)[k].stored <=> rows[k].stored) /\ View(t)[k].slot = rows[k].slot
<1>1. CASE ~Admitting(t)
  BY <1>1, ViewSlots
<1>2. CASE Admitting(t)
  <2>1. LocksOK(t) /\ LocksOK(u) /\ WorkOK(t)
    BY SessionFacts
  <2>2. holder[<<"shard", Shard[k]>>] = u
    BY <2>1 DEF LocksOK
  <2>3. k \notin DOMAIN work[t]
    <3> SUFFICES ASSUME k \in DOMAIN work[t] PROVE FALSE
      OBVIOUS
    <3>1. holder[Row(k)] = t
      BY <2>1 DEF WorkOK
    <3>2. Shard[k] = Shard[call[t].key] /\ holder[<<"shard", Shard[call[t].key]>>] = t
      BY <1>2, <2>1, <3>1 DEF LocksOK
    <3> QED BY <2>2, <3>2
  <2> QED BY <2>3, ViewFacts
<1> QED BY <1>1, <1>2

\* A row locked by u is not t's to write.
LEMMA OthersRows ==
  ASSUME Inv, NEW t \in Session, NEW u \in Session, t # u, NEW k \in Key, holder[Row(k)] = u
  PROVE  k \notin DOMAIN work[t] /\ View(t)[k] = rows[k]
<1>1. k \notin DOMAIN work[t]
  BY SessionFacts DEF WorkOK
<1> QED BY <1>1, ViewFacts

\* A commit of t, seen from the transaction of u.
LEMMA CommitUndisturbed ==
  ASSUME Inv, NEW t \in Session, NEW u \in Session, u # t, rows' = View(t),
         pc'[u] = pc[u], call'[u] = call[u], work'[u] = work[u], reply'[u] = reply[u],
         \A l \in Locks : holder'[l] = u <=> holder[l] = u
  PROVE  SessionOK(u)'
<1>1. CallOK(u) /\ LocksOK(u) /\ WorkOK(u)
  BY SessionFacts
<1>2. (Admitting(u)' <=> Admitting(u)) /\ (Waiting(u)' <=> Waiting(u))
  BY DEF Admitting, Waiting
<1>3. CallOK(u)'
  BY <1>1 DEF CallOK
<1>4. \A k \in Key : holder'[Row(k)] = u <=> holder[Row(k)] = u
  BY LockFacts
<1>5. \A k \in Key : holder[Row(k)] = u => rows'[k] = rows[k]
  BY OthersRows
<1>6. Admitting(u) \/ pc[u] = "decide" => call[u].key \in Key
  BY <1>1 DEF CallOK, Admitting
<1>7. LocksOK(u)'
  <2>1. Admitting(u)' =>
            /\ holder'[<<"shard", Shard[call'[u].key]>>] = u
            /\ \A k \in Key : holder'[Row(k)] = u => Shard[k] = Shard[call'[u].key]
    BY <1>1, <1>2, <1>4, <1>6, LockFacts DEF LocksOK
  <2>2. ~Admitting(u)' => \A k \in Key : holder'[Row(k)] = u => rows'[k].stored
    BY <1>1, <1>2, <1>4, <1>5 DEF LocksOK
  <2>3. ASSUME pc'[u] = "decide", View(u)'[call'[u].key].stored
        PROVE  holder'[Row(call'[u].key)] = u
    <3> DEFINE k == call[u].key
    <3>1. k \in Key /\ Admitting(u)
      BY <1>1, <1>6, <2>3 DEF CallOK, Admitting
    <3>2. CASE k \in DOMAIN work[u]
      BY <1>1, <1>4, <3>1, <3>2 DEF WorkOK
    <3>3. CASE k \notin DOMAIN work[u]
      <4>1. View(u)'[k] = View(t)[k] /\ View(u)[k] = rows[k]
        BY <3>1, <3>3 DEF View
      <4>2. View(u)[k].stored
        BY <2>3, <3>1, <4>1, ShardUndisturbed
      <4> QED BY <1>1, <1>4, <2>3, <3>1, <4>2 DEF LocksOK
    <3> QED BY <3>2, <3>3
  <2>4. pc'[u] \in {"idle", "shard", "complete"} =>
            work'[u] = Nothing /\ \A l \in Locks : holder'[l] # u
    BY <1>1 DEF LocksOK
  <2> QED BY <2>1, <2>2, <2>3, <2>4 DEF LocksOK
<1>8. WorkOK(u)'
  <2>1. \A k \in DOMAIN work'[u] : k \in Key /\ holder'[Row(k)] = u /\ RowOK(work'[u][k])
    BY <1>1, <1>4 DEF WorkOK
  <2>2. ~Admitting(u)' => \A k \in DOMAIN work'[u] : work'[u][k].stored /\ work'[u][k].slot = rows'[k].slot
    BY <1>1, <1>2, <1>5 DEF WorkOK
  <2>3. Admitting(u)' /\ pc'[u] \in {"ready", "committing"} /\ Waiting(u)' =>
            call'[u].key \in DOMAIN work'[u] /\ work'[u][call'[u].key].token # 0
    BY <1>1, <1>2 DEF WorkOK
  <2> QED BY <2>1, <2>2, <2>3 DEF WorkOK, RowOK, RowType, Row
<1> QED BY <1>3, <1>7, <1>8 DEF SessionOK

\* Shard s as u will see it after t's commit is as t or as u sees it now.
LEMMA CommitSound ==
  ASSUME Inv, NEW t \in Session, NEW u \in Session, u # t, rows' = View(t), work'[u] = work[u],
         NEW s \in Shards
  PROVE  Sound(View(u)', s)
<1>1. Sound(View(t), s) /\ Sound(View(u), s) /\ CallOK(u) /\ LocksOK(u) /\ WorkOK(u)
  BY SessionFacts
<1>2. \A k \in Key : View(u)'[k] = IF k \in DOMAIN work[u] THEN work[u][k] ELSE View(t)[k]
  BY DEF View
<1>3. CASE ~Admitting(u)
  <2>1. \A k \in DOMAIN work[u] : work[u][k].slot = View(t)[k].slot /\ View(t)[k].stored /\ k \in Key
    <3> SUFFICES ASSUME NEW k \in DOMAIN work[u]
                 PROVE  work[u][k].slot = View(t)[k].slot /\ View(t)[k].stored /\ k \in Key
      OBVIOUS
    <3>1. k \in Key /\ holder[Row(k)] = u /\ work[u][k].slot = rows[k].slot
      BY <1>1, <1>3 DEF WorkOK
    <3>2. rows[k].stored
      BY <1>1, <1>3, <3>1 DEF LocksOK
    <3> QED BY <3>1, <3>2, OthersRows
  <2>2. \A k \in Key : View(u)'[k].stored => View(t)[k].stored /\ View(u)'[k].slot = View(t)[k].slot
    BY <1>2, <2>1
  <2> QED BY <1>1, <2>2, FewerLemma
<1>4. CASE Admitting(u) /\ s = Shard[call[u].key]
  <2>1. ASSUME NEW k \in Key, Shard[k] = s, View(u)'[k].stored
        PROVE  View(u)[k].stored /\ View(u)'[k].slot = View(u)[k].slot
    <3>1. CASE k \in DOMAIN work[u]
      BY <1>2, <2>1, <3>1, ViewFacts
    <3>2. CASE k \notin DOMAIN work[u]
      <4>1. View(u)'[k] = View(t)[k] /\ View(u)[k] = rows[k]
        BY <1>2, <3>2, ViewFacts
      <4> QED BY <1>4, <2>1, <4>1, ShardUndisturbed
    <3> QED BY <3>1, <3>2
  <2> QED BY <1>1, <2>1, FewerLemma
<1>5. CASE Admitting(u) /\ s # Shard[call[u].key]
  <2>1. \A k \in DOMAIN work[u] : k \in Key /\ Shard[k] = Shard[call[u].key]
    BY <1>1, <1>5 DEF WorkOK, LocksOK
  <2>2. \A k \in Key : Shard[k] = s => View(u)'[k] = View(t)[k]
    BY <1>2, <1>5, <2>1
  <2>3. \A k \in Key : Shard[k] = s /\ View(u)'[k].stored
            => View(t)[k].stored /\ View(u)'[k].slot = View(t)[k].slot
    BY <2>2
  <2> QED BY <1>1, <2>3, FewerLemma
<1> QED BY <1>3, <1>4, <1>5

\* What a confirmed commit tells the client is an outcome.
LEMMA ConfirmedOutcome ==
  ASSUME NEW t \in Session
  PROVE  \E o \in Outcome : o # "pending" /\ Confirmed(t) = Reply(o, 0)
<1>1. {"admitted", "stale", "succeeded", "failed"} \subseteq Outcome
  BY DEF Outcome
<1>2. CASE call[t].kind = "admit"
  BY <1>1, <1>2 DEF Confirmed
<1>3. CASE call[t].kind = "complete" /\ work[t] = Nothing
  BY <1>1, <1>3 DEF Confirmed
<1>4. CASE call[t].kind # "admit" /\ ~(call[t].kind = "complete" /\ work[t] = Nothing)
  <2>1. Confirmed(t) = Reply(IF call[t].success THEN "succeeded" ELSE "failed", 0)
    BY <1>4 DEF Confirmed
  <2> QED BY <1>1, <2>1
<1> QED BY <1>2, <1>3, <1>4

\* ServerCommit preserves the invariant.
LEMMA ServerCommitInv ==
  ASSUME Inv, NEW t \in Session, ServerCommit(t)
  PROVE  Inv'
<1>1. CallOK(t) /\ LocksOK(t) /\ WorkOK(t) /\ Shape /\ SharedOK
      /\ \A s \in Shards : Sound(rows, s) /\ Sound(View(t), s)
  BY SessionFacts
<1>2. /\ pc[t] = "committing" /\ rows' = View(t) /\ EndTransaction(t)
      /\ clock' = clock /\ call' = call /\ token' = token
  BY DEF ServerCommit
<1>3. Waiting(t) => t \in Library
  BY <1>1 DEF CallOK, Waiting, Pending, Reply, Session
<1>4. \/ reply' = reply /\ receipts' = receipts
      \/ /\ Waiting(t) /\ reply' = [reply EXCEPT ![t] = Confirmed(t)]
         /\ receipts' = IF call[t].kind # "admit" THEN receipts
                        ELSE receipts \cup {[key |-> call[t].key, token |-> work[t][call[t].key].token]}
      \/ /\ Waiting(t) /\ reply' = [reply EXCEPT ![t] = Reply("unknown", 0)]
         /\ receipts' = receipts
  BY DEF ServerCommit
<1>5. /\ DOMAIN reply' = Session /\ \A u \in Session \ {t} : reply'[u] = reply[u]
      /\ reply'[t] = reply[t] \/ (t \in Library /\ \E o \in Outcome : reply'[t] = Reply(o, 0))
  <2>1. CASE reply' = reply
    BY <1>1, <2>1 DEF Shape
  <2>2. CASE Waiting(t) /\ reply' = [reply EXCEPT ![t] = Confirmed(t)]
    BY <1>1, <1>3, <2>2, ConfirmedOutcome DEF Shape
  <2>3. CASE Waiting(t) /\ reply' = [reply EXCEPT ![t] = Reply("unknown", 0)]
    <3>1. "unknown" \in Outcome
      BY DEF Outcome
    <3> QED BY <1>1, <1>3, <2>3, <3>1 DEF Shape
  <2> QED BY <1>4, <2>1, <2>2, <2>3
<1>6. /\ Shape' /\ holder' \in [Locks -> Session \cup {None}] /\ DOMAIN work'[t] = {}
      /\ \A u \in Session \ {t} :
              /\ pc'[u] = pc[u] /\ call'[u] = call[u] /\ work'[u] = work[u] /\ reply'[u] = reply[u]
              /\ \A l \in Locks : holder'[l] = u <=> holder[l] = u
      /\ SessionOK(t)'
      /\ claims' \subseteq [key : Key, token : 1..MaxToken, tx : Host \cup {None}]
  BY <1>2, <1>5, EndFacts
<1>7. receipts' \subseteq [key : Key, token : 1..MaxToken]
  <2>1. CASE receipts' = receipts
    BY <1>1, <2>1 DEF SharedOK
  <2>2. CASE /\ Waiting(t) /\ call[t].kind = "admit"
             /\ receipts' = receipts \cup {[key |-> call[t].key, token |-> work[t][call[t].key].token]}
    <3>1. call[t].key \in DOMAIN work[t] /\ work[t][call[t].key].token # 0 /\ call[t].key \in Key
      BY <1>1, <1>2, <2>2 DEF WorkOK, Admitting, CallOK
    <3>2. work[t][call[t].key].token \in 0..MaxToken
      BY <1>1, <3>1 DEF WorkOK, RowOK, RowType
    <3>3. work[t][call[t].key].token \in 1..MaxToken
      BY <3>1, <3>2, PgAttemptsAssumption
    <3> QED BY <1>1, <2>2, <3>1, <3>3 DEF SharedOK
  <2> QED BY <1>4, <2>1, <2>2
<1>8. SharedOK'
  <2>1. \A k \in Key : RowOK(View(t)[k])
    BY ViewFacts
  <2>2. rows' \in [Key -> RowType]
    BY <1>2, <2>1 DEF View, RowOK
  <2>3. \A k \in Key : (rows'[k].until = 0) <=> (rows'[k].token = 0)
    BY <1>2, <2>1 DEF RowOK
  <2> QED BY <1>1, <1>2, <1>6, <1>7, <2>2, <2>3 DEF SharedOK, RowType
<1>9. ASSUME NEW u \in Session PROVE SessionOK(u)'
  BY <1>2, <1>6, CommitUndisturbed
<1>10. ASSUME NEW s \in Shards PROVE Sound(rows', s) /\ \A u \in Session : Sound(View(u)', s)
  <2>1. Sound(rows', s)
    BY <1>1, <1>2
  <2>2. ASSUME NEW u \in Session PROVE Sound(View(u)', s)
    <3>1. CASE u = t
      <4>1. \A k \in Key : View(t)'[k] = rows'[k]
        BY <1>6 DEF View
      <4>2. \A k \in Key : View(t)'[k].stored => rows'[k].stored /\ View(t)'[k].slot = rows'[k].slot
        BY <4>1
      <4> QED BY <2>1, <3>1, <4>2, FewerLemma
    <3>2. CASE u # t
      BY <1>2, <1>6, <3>2, CommitSound
    <3> QED BY <3>1, <3>2
  <2> QED BY <2>1, <2>2
<1>11. TablesInv'
  BY <1>10 DEF TablesInv, Shards, Sound, StoredIn
<1> QED BY <1>6, <1>8, <1>9, <1>11 DEF Inv

----------------------------------------------------------------------------
(* The invariants                                                          *)

\* The invariant holds initially.
LEMMA InitInv == Init => Inv
<1> SUFFICES ASSUME Init PROVE Inv
  OBVIOUS
<1> USE DEF Init
<1>1. \A k \in Key : rows[k] = NoRow
  OBVIOUS
<1>2. SharedOK
  <2>1. NoRow \in RowType /\ ((NoRow.until = 0) <=> (NoRow.token = 0))
    BY NoRowOK DEF RowOK
  <2>2. 0 \in 0..MaxTime /\ 0 \in 0..MaxToken
    BY PgAttemptsAssumption
  <2>3. rows \in [Key -> RowType] /\ \A k \in Key : (rows[k].until = 0) <=> (rows[k].token = 0)
    BY <1>1, <2>1
  <2>4. holder \in [Locks -> Session \cup {None}]
    OBVIOUS
  <2> QED BY <2>2, <2>3, <2>4 DEF SharedOK
<1>3. Shape
  BY DEF Shape
<1>4. \A t \in Session : DOMAIN work[t] = {} /\ \A k \in Key : View(t)[k] = NoRow
  BY <1>1 DEF View, Nothing
<1>5. ASSUME NEW v, \A k \in Key : v[k] = NoRow, NEW s PROVE Sound(v, s)
  <2>1. \A k \in Key : ~v[k].stored
    BY <1>5, NoRowOK
  <2>2. StoredIn(v, s) = {}
    BY <2>1 DEF StoredIn
  <2>3. PICK t \in Library : TRUE
    BY PgAttemptsAssumption
  <2>4. Cardinality(StoredIn(v, s)) <= MaxRows[t]
    BY <2>2, FS_EmptySet, PgAttemptsAssumption
  <2> QED BY <2>1, <2>4 DEF Sound
<1>6. TablesInv
  BY <1>1, <1>4, <1>5 DEF TablesInv
<1>7. ASSUME NEW t \in Session PROVE SessionOK(t)
  <2>1. pc[t] = "idle" /\ call[t] = NoCall /\ work[t] = Nothing /\ reply[t] = Reply("none", 0)
    OBVIOUS
  <2>2. CallOK(t)
    BY <2>1 DEF CallOK, Phase, NoCall, Reply, Outcome
  <2>3. \A l \in Locks : holder[l] # t
    BY LockFacts
  <2>4. ~Admitting(t) /\ \A k \in Key : holder[Row(k)] # t
    BY <2>1, <2>3, LockFacts DEF Admitting
  <2>5. LocksOK(t)
    BY <2>1, <2>3, <2>4 DEF LocksOK
  <2>6. WorkOK(t)
    BY <1>4, <2>4 DEF WorkOK
  <2> QED BY <2>2, <2>5, <2>6 DEF SessionOK
<1> QED BY <1>2, <1>3, <1>6, <1>7 DEF Inv

\* Every step preserves the invariant.
LEMMA NextInv == Inv /\ [Next]_vars => Inv'
<1> SUFFICES ASSUME Inv, [Next]_vars PROVE Inv'
  OBVIOUS
<1>1. CASE Tick
  BY <1>1, TickInv
<1>2. ASSUME NEW t \in Library,
             \/ \E k \in Key : BeginAdmit(t, k)
             \/ LockShard(t) \/ CleanupShard(t) \/ LockRow(t) \/ Decide(t)
             \/ \E r \in receipts, success \in BOOLEAN : BeginComplete(t, r, success)
             \/ Complete(t)
             \/ Abandon(t) \/ LoseConfirmation(t)
      PROVE  Inv'
  BY <1>2, BeginAdmitInv, LockShardInv, CleanupShardInv, LockRowInv, DecideInv, BeginCompleteInv,
     CompleteInv, AbandonInv, LoseConfirmationInv
<1>3. ASSUME NEW h \in Host,
             \/ BeginHost(h) \/ RollbackToSavepoint(h)
             \/ \E r \in receipts : ClaimIn(h, r)
             \/ \E r \in receipts, success \in BOOLEAN : CompleteIn(h, r, success)
             \/ \E c \in claims, success \in BOOLEAN : FinishIn(h, c, success)
      PROVE  Inv'
  BY <1>3, BeginHostInv, RollbackToSavepointInv, ClaimInInv, CompleteInInv, FinishInInv
<1>4. ASSUME NEW t \in Session, SendCommit(t) \/ ServerCommit(t) \/ FailCommit(t) \/ Rollback(t)
      PROVE  Inv'
  BY <1>4, SendCommitInv, ServerCommitInv, FailCommitInv, RollbackInv
<1>5. CASE UNCHANGED vars
  <2>1. SharedOK'
    BY <1>5 DEF Inv, SharedOK, vars, RowType
  <2>2. \A t \in Session : View(t)' = View(t)
    BY <1>5 DEF View, vars
  <2>3. TablesInv'
    BY <1>5, <2>2 DEF Inv, TablesInv, Sound, StoredIn, Shards, vars
  <2>4. Shape'
    BY <1>5 DEF Inv, Shape, vars
  <2>5. ASSUME NEW t \in Session PROVE SessionOK(t)'
    <3>1. SessionOK(t)
      BY DEF Inv
    <3>2. CallOK(t)' /\ WorkOK(t)'
      BY <1>5, <3>1 DEF SessionOK, CallOK, WorkOK, Admitting, Waiting, vars
    <3>3. LocksOK(t)'
      BY <1>5, <2>2, <3>1 DEF SessionOK, LocksOK, Admitting, vars
    <3> QED BY <3>2, <3>3 DEF SessionOK
  <2> QED BY <2>1, <2>3, <2>4, <2>5 DEF Inv
<1> QED BY <1>1, <1>2, <1>3, <1>4, <1>5 DEF Next

\* The invariant holds in every reachable state.
THEOREM Invariance == Spec => []Inv
BY InitInv, NextInv, PTL DEF Spec

\* Rows, locks, tokens, receipts and claims always have their types, and a row has a
\* token and an end of its lease or neither, as the table's CHECK demands.
THEOREM TypeCorrectness == Spec => []TypeOK
<1>1. Inv => TypeOK
  <2> SUFFICES ASSUME Inv PROVE TypeOK
    OBVIOUS
  <2>1. SharedOK
    BY DEF Inv
  <2>2. \A t \in Session : DOMAIN work[t] \subseteq Key /\ \A k \in DOMAIN work[t] : work[t][k] \in RowType
    BY DEF Inv, SessionOK, WorkOK, RowOK
  <2>3. \A t \in Session : reply[t].outcome \in Outcome /\ reply[t].retry \in Nat
    BY DEF Inv, SessionOK, CallOK
  <2> QED BY <2>1, <2>2, <2>3 DEF SharedOK, TypeOK
<1> QED BY <1>1, Invariance, PTL

\* No slot of a shard is ever given to two subjects, committed or not, and no shard
\* holds more rows than the largest bound: the lock of the shard is all it takes.
THEOREM SlotsStayApart == Spec => []SlotsHold
<1>1. Inv => SlotsHold
  <2> SUFFICES ASSUME Inv PROVE SlotsHold
    OBVIOUS
  <2>1. ASSUME NEW t \in Session, NEW j \in Key, NEW k \in Key, j # k, Shard[j] = Shard[k],
               View(t)[j].stored, View(t)[k].stored
        PROVE  View(t)[j].slot # View(t)[k].slot
    <3>1. Sound(View(t), Shard[j])
      BY SessionFacts, LockFacts
    <3> QED BY <2>1, <3>1 DEF Sound
  <2>2. ASSUME NEW t \in Library, NEW u \in Library, t # u, NEW j \in Key, NEW k \in Key,
               j \in DOMAIN work[t], k \in DOMAIN work[u], j # k, Shard[j] = Shard[k],
               work[t][j].stored, work[u][k].stored
        PROVE  work[t][j].slot # work[u][k].slot
    <3>0. t \in Session /\ u \in Session
      BY DEF Session
    <3>1. LocksOK(t) /\ LocksOK(u) /\ WorkOK(t) /\ WorkOK(u)
      BY <3>0, SessionFacts
    <3>2. holder[Row(j)] = t /\ holder[Row(k)] = u
      BY <2>2, <3>1 DEF WorkOK
    <3>3. View(t)[j] = work[t][j] /\ View(u)[k] = work[u][k] /\ View(t)[k] = rows[k] /\ View(u)[j] = rows[j]
      BY <2>2, <3>0, <3>2, ViewFacts, OthersRows
    <3>4. CASE ~Admitting(u)
      <4>1. rows[k].stored /\ rows[k].slot = work[u][k].slot
        BY <2>2, <3>0, <3>3, <3>4, ViewSlots
      <4> QED BY <2>1, <2>2, <3>0, <3>3, <4>1
    <3>5. CASE ~Admitting(t)
      <4>1. rows[j].stored /\ rows[j].slot = work[t][j].slot
        BY <2>2, <3>0, <3>3, <3>5, ViewSlots
      <4> QED BY <2>1, <2>2, <3>0, <3>3, <4>1
    <3>6. CASE Admitting(t) /\ Admitting(u)
      <4>1. Shard[j] = Shard[call[t].key] /\ holder[<<"shard", Shard[call[t].key]>>] = t
        BY <2>2, <3>1, <3>2, <3>6 DEF LocksOK
      <4>2. Shard[k] = Shard[call[u].key] /\ holder[<<"shard", Shard[call[u].key]>>] = u
        BY <2>2, <3>1, <3>2, <3>6 DEF LocksOK
      <4> QED BY <2>2, <4>1, <4>2
    <3> QED BY <3>4, <3>5, <3>6
  <2>3. ASSUME NEW k \in Key
        PROVE  \E t \in Library : Cardinality(StoredIn(rows, Shard[k])) <= MaxRows[t]
    <3>1. Shard[k] \in Shards
      BY LockFacts
    <3> QED BY <3>1 DEF Inv, TablesInv, Sound
  <2> QED BY <2>1, <2>2, <2>3 DEF SlotsHold
<1> QED BY <1>1, Invariance, PTL

\* No set of sessions waits in a circle: one that waits for its shard or completes holds
\* nothing, and the rows an admission waits for are never another admission's.
THEOREM DeadlockFreedom == Spec => []NoWaitCycle
<1>1. Inv => NoWaitCycle
  <2> SUFFICES ASSUME Inv, NEW S \in SUBSET Session, S # {}, \A t \in S : \E u \in S : WaitsFor(t, u)
               PROVE  FALSE
    BY DEF NoWaitCycle
  <2>1. ASSUME NEW t \in Session, NEW u \in Session, NEW v \in Session, WaitsFor(t, u), WaitsFor(u, v)
        PROVE  /\ pc[u] = "row" /\ call[u].key \in Key /\ Admitting(u)
               /\ holder[Row(call[u].key)] = v /\ u # v
    <3>1. CallOK(u) /\ LocksOK(u) /\ CallOK(t)
      BY SessionFacts
    <3>2. \E l \in Locks : holder[l] = u
      <4>1. PICK l \in Needs(t) : holder[l] = u
        BY <2>1 DEF WaitsFor
      <4>2. l \in Locks
        <5>1. CASE pc[t] = "shard"
          BY <3>1, <4>1, <5>1, LockFacts DEF Needs, ShardLocks, CallOK
        <5>2. CASE pc[t] \in {"row", "complete"} /\ View(t)[call[t].key].stored
          <6>1. Needs(t) = {Row(call[t].key)}
            BY <5>2 DEF Needs
          <6> QED BY <3>1, <4>1, <5>2, <6>1, LockFacts DEF CallOK
        <5>3. CASE pc[t] # "shard" /\ ~(pc[t] \in {"row", "complete"} /\ View(t)[call[t].key].stored)
          BY <4>1, <5>3 DEF Needs
        <5> QED BY <5>1, <5>2, <5>3
      <4> QED BY <4>1, <4>2
    <3>3. pc[u] \notin {"idle", "shard", "complete"}
      BY <3>1, <3>2 DEF LocksOK
    <3>4. PICK m \in Needs(u) : holder[m] = v /\ u # v
      BY <2>1 DEF WaitsFor
    <3>5. pc[u] = "row" /\ Needs(u) = {Row(call[u].key)}
      BY <3>3, <3>4 DEF Needs
    <3> QED BY <3>1, <3>4, <3>5 DEF CallOK, Admitting
  <2>2. PICK a \in S : TRUE
    OBVIOUS
  <2>3. PICK t \in S : WaitsFor(a, t)
    BY <2>2
  <2>4. PICK u \in S : WaitsFor(t, u)
    BY <2>3
  <2>5. PICK v \in S : WaitsFor(u, v)
    BY <2>4
  <2>6. /\ call[t].key \in Key /\ Admitting(t) /\ holder[Row(call[t].key)] = u /\ t # u
        /\ Admitting(u)
    BY <2>1, <2>2, <2>3, <2>4, <2>5
  <2>7. LocksOK(t) /\ LocksOK(u)
    BY SessionFacts
  <2>8. holder[<<"shard", Shard[call[t].key]>>] = t
    BY <2>6, <2>7 DEF LocksOK
  <2>9. Shard[call[t].key] = Shard[call[u].key] /\ holder[<<"shard", Shard[call[u].key]>>] = u
    BY <2>6, <2>7 DEF LocksOK
  <2> QED BY <2>6, <2>8, <2>9
<1> QED BY <1>1, Invariance, PTL

----------------------------------------------------------------------------
(* Refinement: what the promise of SharedThrottle needs besides Inv        *)

\* The history a row keeps, committed or not.
HistoryOK(k, row) ==
    /\ ~row.stored => row = NoRow
    /\ row.stored => row.lastFailure <= clock
    /\ row.until # 0 => row.until <= clock + LeasePeriod[k]
    /\ row.stored /\ row.until = 0 => row.retryAt = row.lastFailure + Delay(k, row.failures)

\* A lease that was due at an instant before the commit, as seen on the committed row.
Due(k, row, new) ==
    \E at \in 0..clock :
        LET s == Shared!AtTime(k, SubjectOf(row), at)
        IN  /\ s.until = 0 /\ at >= Shared!Backoff(k, s)
            /\ SubjectOf(new) = Shared!Leased(s.failures, at + LeasePeriod[k], new.token)

\* The work of an admission: rows it has cleaned up, which nobody would miss, and the
\* lease it grants.
GrantOK(t) ==
    \A k \in DOMAIN work[t] :
        /\ ~work[t][k].stored => rows[k].stored /\ Expiry(k) <= clock
        /\ work[t][k].stored => k = call[t].key /\ Due(k, rows[k], work[t][k])

\* The work of a completion or of the application: a claim, or the outcome of one.
ClaimOK(t) ==
    \A k \in DOMAIN work[t] :
        /\ rows[k].until # 0
        /\ \/ /\ t \in Host /\ work[t][k].token # 0
              /\ work[t][k].until = rows[k].until /\ work[t][k].failures = rows[k].failures
           \/ /\ t \in Library => call[t].success
              /\ work[t][k].until = 0 /\ work[t][k].failures = 0
           \/ /\ t \in Library => ~call[t].success
              /\ work[t][k].until = 0 /\ work[t][k].failures = rows[k].failures + 1
              /\ rows[k].until <= work[t][k].lastFailure + LeasePeriod[k]

\* A client's answer fits the phase of its transaction.
AnswerOK(t) ==
    /\ reply[t].outcome = "pending" => reply[t] = Pending
    /\ pc[t] = "idle" => reply[t].outcome # "pending"
    /\ pc[t] \notin {"idle", "committing"} => reply[t].outcome # "unknown"
    /\ t \in Library /\ pc[t] = "committing" =>
            reply[t].outcome \in {"pending", "unknown", "storage_capacity"}
    /\ pc[t] # "idle" /\ call[t].kind = "complete" => reply[t].outcome # "storage_capacity"

\* The work of a transaction fits the phase it is in.
ProgressOK(t) ==
    /\ pc[t] \in {"cleanup", "row", "decide"} => \A k \in DOMAIN work[t] : ~work[t][k].stored
    /\ Admitting(t) /\ pc[t] \in {"ready", "committing"} =>
            /\ reply[t].outcome \in {"pending", "unknown"} =>
                    call[t].key \in DOMAIN work[t] /\ work[t][call[t].key].stored
            /\ reply[t].outcome = "storage_capacity" => \A k \in DOMAIN work[t] : ~work[t][k].stored
    /\ call[t].kind = "complete" /\ pc[t] \notin {"idle", "complete"} =>
            /\ \A k \in Key : holder[Row(k)] = t => k = call[t].key
            /\ DOMAIN work[t] = {} =>
                    /\ work[t] = Nothing
                    /\ rows[call[t].key].token # call[t].token \/ rows[call[t].key].until <= clock
    /\ t \in Host => \A j, k \in Key : holder[Row(j)] = t /\ holder[Row(k)] = t => j = k

\* A token that is not committed yet is nobody else's.
Fresh(t, n) ==
    /\ \A k \in Key : rows[k].token # n
    /\ \A u \in Session \ {t} : \A k \in DOMAIN work[u] : work[u][k].token # n

TokensOK(t) ==
    \A k \in DOMAIN work[t] : work[t][k].token # 0 =>
        /\ work[t][k].token <= token
        /\ Fresh(t, work[t][k].token)
        /\ \A r \in receipts : r.token # work[t][k].token
        /\ \A u \in Library : call[u].kind = "complete" => call[u].token # work[t][k].token

TransactionOK(t) ==
    /\ AnswerOK(t) /\ ProgressOK(t) /\ TokensOK(t)
    /\ \A k \in DOMAIN work[t] : HistoryOK(k, work[t][k])
    /\ Admitting(t) => GrantOK(t)
    /\ ~Admitting(t) => ClaimOK(t)

CallsInv ==
    /\ \A k \in Key : HistoryOK(k, rows[k]) /\ rows[k].token <= token
    /\ \A r \in receipts : r.token <= token
    /\ \A t \in Library : call[t].kind = "complete" => call[t].token \in 1..token
    /\ \A c \in claims : c.token <= token /\ (c.tx # None => Fresh(c.tx, c.token))
    /\ \A t \in Session : TransactionOK(t)

\* The parts of the invariant that speak of one transaction.
LEMMA TransactionFacts ==
  ASSUME Inv, CallsInv, NEW t \in Session
  PROVE  /\ AnswerOK(t) /\ ProgressOK(t) /\ TokensOK(t)
         /\ \A k \in DOMAIN work[t] : HistoryOK(k, work[t][k]) /\ work[t][k].token \in Nat
                                      /\ work[t][k].token <= token
         /\ Admitting(t) => GrantOK(t)
         /\ ~Admitting(t) => ClaimOK(t)
         /\ token \in Nat /\ clock \in Nat
<1>1. TransactionOK(t)
  BY DEF CallsInv
<1>2. token \in Nat /\ clock \in Nat /\ MaxToken \in Nat
  BY PgAttemptsAssumption DEF Inv, SharedOK
<1>3. ASSUME NEW k \in DOMAIN work[t] PROVE work[t][k].token \in Nat /\ work[t][k].token <= token
  <2>1. work[t][k] \in RowType
    BY SessionFacts DEF WorkOK, RowOK
  <2>2. work[t][k].token \in Nat
    BY <1>2, <2>1 DEF RowType
  <2> QED BY <1>1, <1>2, <2>2 DEF TransactionOK, TokensOK
<1> QED BY <1>1, <1>2, <1>3 DEF TransactionOK

\* What another session's step leaves of a transaction, the tokens apart.
LEMMA CallUndisturbed ==
  ASSUME Inv, CallsInv, NEW u \in Session, rows' = rows, clock' = clock,
         pc'[u] = pc[u], call'[u] = call[u], work'[u] = work[u], reply'[u] = reply[u],
         \A l \in Locks : holder'[l] = u <=> holder[l] = u
  PROVE  /\ AnswerOK(u)' /\ ProgressOK(u)'
         /\ (\A k \in DOMAIN work[u] : HistoryOK(k, work[u][k]))'
         /\ Admitting(u)' => GrantOK(u)'
         /\ ~Admitting(u)' => ClaimOK(u)'
<1>1. /\ AnswerOK(u) /\ ProgressOK(u) /\ \A k \in DOMAIN work[u] : HistoryOK(k, work[u][k])
      /\ Admitting(u) => GrantOK(u)
      /\ ~Admitting(u) => ClaimOK(u)
  BY TransactionFacts
<1>2. Admitting(u)' <=> Admitting(u)
  BY DEF Admitting
<1>3. AnswerOK(u)'
  BY <1>1 DEF AnswerOK
<1>4. \A k \in Key : holder'[Row(k)] = u <=> holder[Row(k)] = u
  BY LockFacts
<1>5. ProgressOK(u)'
  BY <1>1, <1>2, <1>4 DEF ProgressOK
<1>6. (\A k \in DOMAIN work[u] : HistoryOK(k, work[u][k]))'
  BY <1>1 DEF HistoryOK
<1>7. Admitting(u)' => GrantOK(u)'
  <2>1. \A k \in DOMAIN work[u] : Due(k, rows[k], work[u][k])' <=> Due(k, rows[k], work[u][k])
    BY DEF Due
  <2>2. \A k \in DOMAIN work[u] : Expiry(k)' = Expiry(k)
    BY DEF Expiry
  <2> QED BY <1>1, <1>2, <2>1, <2>2 DEF GrantOK
<1>8. ~Admitting(u)' => ClaimOK(u)'
  BY <1>1, <1>2 DEF ClaimOK
<1> QED BY <1>3, <1>5, <1>6, <1>7, <1>8

\* Where the tokens of a step come from.
TokensMove(t) ==
    /\ token' = token \/ (token' = token + 1 /\ token' \in 0..MaxToken)
    /\ receipts' \subseteq receipts
    /\ call'[t].kind = "complete" =>
            call'[t] = call[t] \/ \E r \in receipts : call'[t].token = r.token
    /\ \A k \in DOMAIN work'[t] : work'[t][k].token # 0 =>
            \/ k \in DOMAIN work[t] /\ work'[t][k].token = work[t][k].token
            \/ token' = token + 1 /\ work'[t][k].token = token + 1
    /\ \A c \in claims' :
            \/ \E d \in claims : c.token = d.token /\ c.tx \in {d.tx, None}
            \/ token' = token + 1 /\ c.token = token + 1 /\ c.tx = t

\* A step that issues at most one token, to its own session, keeps tokens apart.
LEMMA TokensStep ==
  ASSUME Inv, CallsInv, NEW t \in Session, KeepsOthers(t), TokensMove(t)
  PROVE  /\ \A u \in Session : TokensOK(u)'
         /\ \A k \in Key : rows'[k].token <= token'
         /\ \A r \in receipts' : r.token <= token'
         /\ \A u \in Library : call'[u].kind = "complete" => call'[u].token \in 1..token'
         /\ \A c \in claims' : c.token <= token' /\ (c.tx # None => Fresh(c.tx, c.token)')
<1>1. SharedOK /\ MaxToken \in Nat
  BY PgAttemptsAssumption DEF Inv
<1>2. token \in Nat /\ token' \in Nat /\ token <= token'
  BY <1>1 DEF SharedOK, TokensMove
<1>3. \A k \in Key : rows[k].token \in Nat /\ rows[k].token <= token
  <2>1. \A k \in Key : rows[k].token <= token
    BY DEF CallsInv
  <2>2. \A k \in Key : rows[k] \in RowType
    BY <1>1 DEF SharedOK
  <2>3. \A row \in RowType : row.token \in Nat
    BY <1>1 DEF RowType
  <2> QED BY <2>1, <2>2, <2>3
<1>4. \A r \in receipts : r.token \in Nat /\ r.token # 0 /\ r.token <= token
  BY <1>1 DEF SharedOK, CallsInv
<1>5. \A c \in claims : c.token \in Nat /\ c.token <= token /\ (c.tx # None => Fresh(c.tx, c.token))
  BY <1>1 DEF SharedOK, CallsInv
<1>6. \A u \in Session : \A k \in DOMAIN work[u] : work[u][k].token \in Nat /\ work[u][k].token <= token
  BY TransactionFacts
<1>7. /\ rows' = rows
      /\ \A u \in Session \ {t} : work'[u] = work[u] /\ call'[u] = call[u]
  BY DEF KeepsOthers
<1>8. ASSUME NEW u \in Library, call'[u].kind = "complete"
      PROVE  \/ call[u].kind = "complete" /\ call'[u].token = call[u].token
             \/ \E r \in receipts : call'[u].token = r.token
  <2>1. u \in Session
    BY DEF Session
  <2>2. CASE u # t
    BY <1>7, <1>8, <2>1, <2>2
  <2>3. CASE u = t
    BY <1>8, <2>3 DEF TokensMove
  <2> QED BY <2>2, <2>3
<1>9. ASSUME NEW u \in Library, call'[u].kind = "complete" PROVE call'[u].token \in 1..token /\ call'[u].token \in 1..token'
  <2>1. CASE call[u].kind = "complete" /\ call'[u].token = call[u].token
    <3>1. call[u].token \in 1..token
      BY <2>1 DEF CallsInv
    <3> QED BY <1>2, <2>1, <3>1
  <2>2. CASE \E r \in receipts : call'[u].token = r.token
    BY <1>2, <1>4, <2>2
  <2> QED BY <1>8, <1>9, <2>1, <2>2
<1>10. ASSUME NEW u \in Session, NEW k \in DOMAIN work'[u], work'[u][k].token # 0
       PROVE  \/ k \in DOMAIN work[u] /\ work'[u][k].token = work[u][k].token
              \/ u = t /\ token' = token + 1 /\ work'[u][k].token = token + 1
  <2>1. CASE u = t
    BY <1>10, <2>1 DEF TokensMove
  <2>2. CASE u # t
    BY <1>7, <2>2
  <2> QED BY <2>1, <2>2
<1>11. ASSUME NEW n \in Nat, n # 0, NEW u \in Session,
              \/ n <= token /\ Fresh(u, n)
              \/ u = t /\ n = token + 1 /\ token' = token + 1
       PROVE  Fresh(u, n)'
  <2>1. \A k \in Key : rows'[k].token # n
    BY <1>2, <1>3, <1>7, <1>11 DEF Fresh
  <2>2. ASSUME NEW v \in Session \ {u}, NEW k \in DOMAIN work'[v], work'[v][k].token = n
        PROVE  FALSE
    <3>1. CASE k \in DOMAIN work[v] /\ work'[v][k].token = work[v][k].token
      BY <1>2, <1>6, <1>11, <2>2, <3>1 DEF Fresh
    <3>2. CASE v = t /\ token' = token + 1 /\ work'[v][k].token = token + 1
      BY <1>2, <1>11, <2>2, <3>2
    <3> QED BY <1>10, <1>11, <2>2, <3>1, <3>2
  <2> QED BY <2>1, <2>2 DEF Fresh
<1>12. ASSUME NEW u \in Session PROVE TokensOK(u)'
  <2>0. ASSUME NEW k \in DOMAIN work'[u], NEW n, n = work'[u][k].token, n # 0
        PROVE  /\ n <= token'
               /\ Fresh(u, n)'
               /\ \A r \in receipts' : r.token # n
               /\ \A v \in Library : call'[v].kind = "complete" => call'[v].token # n
    <3>1. CASE k \in DOMAIN work[u] /\ n = work[u][k].token
      <4>1. /\ n \in Nat /\ n # 0 /\ n <= token /\ Fresh(u, n) /\ \A r \in receipts : r.token # n
            /\ \A v \in Library : call[v].kind = "complete" => call[v].token # n
        BY <1>6, <2>0, <3>1, TransactionFacts DEF TokensOK
      <4>2. Fresh(u, n)'
        BY <1>11, <4>1
      <4>3. \A r \in receipts' : r.token # n
        BY <4>1 DEF TokensMove
      <4>4. \A v \in Library : call'[v].kind = "complete" => call'[v].token # n
        BY <1>8, <4>1
      <4>5. n <= token'
        BY <1>2, <4>1
      <4> QED BY <4>2, <4>3, <4>4, <4>5
    <3>2. CASE u = t /\ token' = token + 1 /\ n = token + 1
      <4>1. n \in Nat /\ n # 0 /\ n <= token'
        BY <1>2, <3>2
      <4>2. Fresh(u, n)'
        BY <1>11, <3>2, <4>1
      <4>3. \A r \in receipts' : r.token # n
        BY <1>2, <1>4, <3>2 DEF TokensMove
      <4>4. \A v \in Library : call'[v].kind = "complete" => call'[v].token # n
        BY <1>2, <1>9, <3>2
      <4> QED BY <4>1, <4>2, <4>3, <4>4
    <3> QED BY <1>10, <2>0, <3>1, <3>2
  <2> QED BY <2>0 DEF TokensOK, Fresh
<1>13. ASSUME NEW c \in claims' PROVE c.token <= token' /\ (c.tx # None => Fresh(c.tx, c.token)')
  <2>1. CASE \E d \in claims : c.token = d.token /\ c.tx \in {d.tx, None}
    <3>1. PICK d \in claims : c.token = d.token /\ c.tx \in {d.tx, None}
      BY <2>1
    <3>2. c.token \in Nat /\ c.token # 0 /\ c.token <= token
      BY <1>1, <1>5, <3>1 DEF SharedOK
    <3>3. ASSUME c.tx # None PROVE Fresh(c.tx, c.token)'
      <4>1. c.tx = d.tx /\ c.tx \in Session /\ Fresh(c.tx, c.token)
        BY <1>1, <1>5, <3>1, <3>3 DEF SharedOK, Session
      <4> QED BY <1>11, <3>2, <4>1
    <3> QED BY <1>2, <3>2, <3>3
  <2>2. CASE token' = token + 1 /\ c.token = token + 1 /\ c.tx = t
    <3>1. c.token \in Nat /\ c.token # 0
      BY <1>2, <2>2
    <3> QED BY <1>2, <1>11, <2>2, <3>1
  <2> QED BY <2>1, <2>2 DEF TokensMove
<1>14. \A k \in Key : rows'[k].token <= token'
  BY <1>2, <1>3, <1>7
<1>15. \A r \in receipts' : r.token <= token'
  BY <1>2, <1>4 DEF TokensMove
<1> QED BY <1>9, <1>12, <1>13, <1>14, <1>15

\* What is left to show of a step of t.
LEMMA CallsStep ==
  ASSUME Inv, CallsInv, NEW t \in Session, KeepsOthers(t), clock' = clock, TokensMove(t),
         AnswerOK(t)', ProgressOK(t)', (\A k \in DOMAIN work[t] : HistoryOK(k, work[t][k]))',
         Admitting(t)' => GrantOK(t)', ~Admitting(t)' => ClaimOK(t)'
  PROVE  CallsInv'
<1>1. \A u \in Session : TokensOK(u)'
  BY TokensStep
<1>2. ASSUME NEW u \in Session, u # t PROVE TransactionOK(u)'
  <2>1. /\ rows' = rows /\ pc'[u] = pc[u] /\ call'[u] = call[u] /\ work'[u] = work[u]
        /\ reply'[u] = reply[u] /\ \A l \in Locks : holder'[l] = u <=> holder[l] = u
    BY <1>2 DEF KeepsOthers
  <2> QED BY <1>1, <2>1, CallUndisturbed DEF TransactionOK
<1>3. TransactionOK(t)'
  BY <1>1 DEF TransactionOK
<1>4. \A k \in Key : HistoryOK(k, rows[k])'
  BY DEF KeepsOthers, CallsInv, HistoryOK
<1> QED BY <1>2, <1>3, <1>4, TokensStep DEF CallsInv

\* Steps that write nothing, in a phase that asks for nothing new.
LEMMA PlainStep ==
  ASSUME Inv, CallsInv, NEW t \in Session, KeepsOthers(t), clock' = clock, token' = token,
         receipts' \subseteq receipts, claims' = claims, work' = work,
         Admitting(t)' <=> Admitting(t), call'[t] = call[t],
         AnswerOK(t)', ProgressOK(t)'
  PROVE  CallsInv'
<1>1. rows' = rows
  BY DEF KeepsOthers
<1>2. /\ \A k \in DOMAIN work[t] : HistoryOK(k, work[t][k])
      /\ Admitting(t) => GrantOK(t)
      /\ ~Admitting(t) => ClaimOK(t)
  BY TransactionFacts
<1>3. (\A k \in DOMAIN work[t] : HistoryOK(k, work[t][k]))'
  BY <1>2 DEF HistoryOK
<1>4. Admitting(t)' => GrantOK(t)'
  <2>1. \A k \in DOMAIN work[t] : Due(k, rows[k], work[t][k])' <=> Due(k, rows[k], work[t][k])
    BY <1>1 DEF Due
  <2>2. \A k \in DOMAIN work[t] : Expiry(k)' = Expiry(k)
    BY <1>1 DEF Expiry
  <2> QED BY <1>1, <1>2, <2>1, <2>2 DEF GrantOK
<1>5. ~Admitting(t)' => ClaimOK(t)'
  BY <1>1, <1>2 DEF ClaimOK
<1>6. TokensMove(t)
  BY DEF TokensMove
<1> QED BY <1>3, <1>4, <1>5, <1>6, CallsStep

----------------------------------------------------------------------------
(* The abstract state                                                      *)

\* Session t has claimed the lease of k.
Claims(t, k) == k \in DOMAIN work[t] /\ (t \in Host \/ call[t].kind = "complete")

\* Only completions and application transactions claim; admissions do not.
LEMMA ClaimsFacts ==
  ASSUME Inv, NEW t \in Session, NEW k
  PROVE  Claims(t, k) <=> k \in DOMAIN work[t] /\ ~Admitting(t)
<1>1. CallOK(t) /\ LocksOK(t)
  BY SessionFacts
<1>2. k \in DOMAIN work[t] => pc[t] \notin {"idle", "shard", "complete"}
  BY <1>1 DEF LocksOK, Nothing
<1>3. t \in Host => ~Admitting(t)
  BY <1>1 DEF CallOK, NoCall, Admitting
<1>4. t \in Library /\ pc[t] # "idle" => call[t].kind \in {"admit", "complete"}
  BY <1>1 DEF CallOK
<1> QED BY <1>2, <1>3, <1>4 DEF Claims, Admitting, Session

\* A claimed row is locked by the one session that has claimed it.
LEMMA ClaimantFacts ==
  ASSUME Inv, NEW k \in Key
  PROVE  /\ \A t \in Session : Claims(t, k) => Claimant(k) = t
         /\ (\A t \in Session : ~Claims(t, k)) => Claimant(k) = None
<1> DEFINE D == {t \in Session : Claims(t, k)}
<1>1. Claimant(k) = IF D = {} THEN None ELSE CHOOSE t \in D : TRUE
  BY DEF Claimant, Claims
<1>2. \A t \in D : t \in Session /\ holder[Row(k)] = t
  BY DEF Claims, Inv, SessionOK, WorkOK
<1>3. \A t \in Session : Claims(t, k) => t \in D
  OBVIOUS
<1>4. (\A t \in Session : ~Claims(t, k)) => D = {}
  OBVIOUS
<1> HIDE DEF D
<1>5. D # {} => (CHOOSE t \in D : TRUE) \in D
  OBVIOUS
<1>6. \A t \in D : Claimant(k) = t
  BY <1>1, <1>2, <1>5
<1> QED BY <1>1, <1>3, <1>4, <1>6

\* The same after a step.
LEMMA ClaimantAfter ==
  ASSUME Inv', NEW k \in Key
  PROVE  /\ \A t \in Session : Claims(t, k)' => Claimant(k)' = t
         /\ (\A t \in Session : ~Claims(t, k)') => Claimant(k)' = None
<1> DEFINE D == {t \in Session : Claims(t, k)'}
<1>1. Claimant(k)' = IF D = {} THEN None ELSE CHOOSE t \in D : TRUE
  BY DEF Claimant, Claims
<1>2. \A t \in D : t \in Session /\ holder'[Row(k)] = t
  BY DEF Claims, Inv, SessionOK, WorkOK, Row
<1>3. \A t \in Session : Claims(t, k)' => t \in D
  OBVIOUS
<1>4. (\A t \in Session : ~Claims(t, k)') => D = {}
  OBVIOUS
<1> HIDE DEF D
<1>5. D # {} => (CHOOSE t \in D : TRUE) \in D
  OBVIOUS
<1>6. \A t \in D : Claimant(k)' = t
  BY <1>1, <1>2, <1>5
<1> QED BY <1>1, <1>3, <1>4, <1>6

\* The claimant of a row depends on the claims of the sessions only.
LEMMA ClaimantKept ==
  ASSUME NEW k \in Key, \A t \in Session : Claims(t, k)' <=> Claims(t, k)
  PROVE  Claimant(k)' = Claimant(k)
<1> DEFINE D == {t \in Session : Claims(t, k)}
           E == {t \in Session : Claims(t, k)'}
<1>1. Claimant(k) = IF D = {} THEN None ELSE CHOOSE t \in D : TRUE
  BY DEF Claimant, Claims
<1>2. Claimant(k)' = IF E = {} THEN None ELSE CHOOSE t \in E : TRUE
  BY DEF Claimant, Claims
<1>3. E = D
  OBVIOUS
<1> HIDE DEF D, E
<1> QED BY <1>1, <1>2, <1>3

\* A step of t leaves the calls and claims of the others alone.
OthersKept(t) ==
    \A u \in Session \ {t} :
        /\ pc'[u] = pc[u] /\ call'[u] = call[u] /\ work'[u] = work[u] /\ reply'[u] = reply[u]

\* The calls of all other sessions look the same after the step.
LEMMA OthersSeen ==
  ASSUME NEW t \in Session, OthersKept(t)
  PROVE  /\ \A u \in Library \ {t} :
              call'[u] = call[u] /\ CallStatus(u)' = CallStatus(u) /\ reply'[u] = reply[u]
         /\ \A u \in Session \ {t}, k \in Key : Claims(u, k)' <=> Claims(u, k)
BY DEF OthersKept, CallStatus, Claims, Waiting, Session

\* Spending receipts, or nothing at all.
LEMMA DropRefines ==
  ASSUME rows' = rows, clock' = clock, receipts' \subseteq receipts,
         \A k \in Key : Claimant(k)' = Claimant(k),
         \A u \in Library : call'[u] = call[u] /\ CallStatus(u)' = CallStatus(u) /\ reply'[u] = reply[u]
  PROVE  Shared!Next
<1>1. [k \in Key |-> SubjectOf(rows'[k])] = [k \in Key |-> SubjectOf(rows[k])]
  OBVIOUS
<1>2. [k \in Key |-> Claimant(k)'] = [k \in Key |-> Claimant(k)]
  OBVIOUS
<1>3. [u \in Library |-> CallStatus(u)'] = [u \in Library |-> CallStatus(u)]
  OBVIOUS
<1>4. [u \in Library |-> call'[u]] = [u \in Library |-> call[u]]
  OBVIOUS
<1>5. [u \in Library |-> reply'[u]] = [u \in Library |-> reply[u]]
  OBVIOUS
<1>6. Shared!Drop
  BY <1>1, <1>2, <1>3, <1>4, <1>5 DEF Shared!Drop, SubjectOf
<1> QED BY <1>6 DEF Shared!Next

\* The same, for a step of one session.
LEMMA QuietRefines ==
  ASSUME NEW t \in Session, OthersKept(t), rows' = rows, clock' = clock, receipts' \subseteq receipts,
         \A k \in Key : Claims(t, k)' <=> Claims(t, k),
         t \in Library => call'[t] = call[t] /\ CallStatus(t)' = CallStatus(t) /\ reply'[t] = reply[t]
  PROVE  Shared!Next
<1>1. \A k \in Key : Claimant(k)' = Claimant(k)
  BY OthersSeen, ClaimantKept
<1>2. \A u \in Library : call'[u] = call[u] /\ CallStatus(u)' = CallStatus(u) /\ reply'[u] = reply[u]
  BY OthersSeen
<1> QED BY <1>1, <1>2, DropRefines

\* A step of a client.
LEMMA ClientStep ==
  ASSUME NEW t \in Library, OthersKept(t),
         \/ Shared!Invoke(t) \/ Shared!Grant(t) \/ Shared!Deny(t) \/ Shared!Complete(t)
         \/ Shared!Stale(t) \/ Shared!GiveUp(t)
  PROVE  Shared!Next
<1>0. t \in Session
  BY DEF Session
<1>1. \A u \in Library \ {t} :
        call'[u] = call[u] /\ CallStatus(u)' = CallStatus(u) /\ reply'[u] = reply[u]
  BY <1>0, OthersSeen
<1>2. \A u \in Library \ {t} :
        /\ [v \in Library |-> call'[v]][u] = [v \in Library |-> call[v]][u]
        /\ [v \in Library |-> CallStatus(v)'][u] = [v \in Library |-> CallStatus(v)][u]
        /\ [v \in Library |-> reply'[v]][u] = [v \in Library |-> reply[v]][u]
  BY <1>1
<1> QED BY <1>2 DEF Shared!Next

\* A completion or an application transaction has locked one row at most, so it has
\* one claim at most.
LEMMA OneClaim ==
  ASSUME Inv, CallsInv, NEW t \in Session
  PROVE  \A j, k \in Key : Claims(t, j) /\ Claims(t, k) => j = k
<1>1. ProgressOK(t) /\ WorkOK(t) /\ LocksOK(t) /\ CallOK(t)
  BY SessionFacts, TransactionFacts
<1>2. \A k \in DOMAIN work[t] : holder[Row(k)] = t
  BY <1>1 DEF WorkOK
<1>3. (\E k \in DOMAIN work[t] : TRUE) => pc[t] \notin {"idle", "complete"}
  BY <1>1 DEF LocksOK, Nothing
<1> QED BY <1>1, <1>2, <1>3 DEF ProgressOK, Claims

\* A claim of t shows on the row it has claimed, and nowhere else.
LEMMA ClaimMade ==
  ASSUME Inv, Inv', NEW t \in Session, OthersKept(t), NEW k \in Key,
         ~Claims(t, k), Claims(t, k)', \A j \in Key \ {k} : Claims(t, j)' <=> Claims(t, j)
  PROVE  /\ Claimant(k) = None
         /\ [j \in Key |-> Claimant(j)'] = [[j \in Key |-> Claimant(j)] EXCEPT ![k] = t]
<1>1. Claimant(k)' = t
  BY ClaimantAfter
<1>2. \A u \in Session \ {t} : Claims(u, k) <=> Claims(u, k)'
  BY OthersSeen
<1>3. \A u \in Session : ~Claims(u, k)
  BY <1>1, <1>2, ClaimantAfter
<1>4. Claimant(k) = None
  BY <1>3, ClaimantFacts
<1>5. \A j \in Key \ {k} : Claimant(j)' = Claimant(j)
  BY OthersSeen, ClaimantKept
<1> QED BY <1>1, <1>4, <1>5

\* A claim of t that ends.
LEMMA ClaimEnded ==
  ASSUME Inv, Inv', NEW t \in Session, OthersKept(t), NEW k \in Key,
         Claims(t, k), ~Claims(t, k)', \A j \in Key \ {k} : Claims(t, j)' <=> Claims(t, j)
  PROVE  /\ Claimant(k) = t
         /\ [j \in Key |-> Claimant(j)'] = [[j \in Key |-> Claimant(j)] EXCEPT ![k] = None]
<1>1. Claimant(k) = t
  BY ClaimantFacts
<1>2. \A u \in Session \ {t} : Claims(u, k)' <=> Claims(u, k)
  BY OthersSeen
<1>3. \A u \in Session : ~Claims(u, k)'
  BY <1>1, <1>2, ClaimantFacts
<1>4. Claimant(k)' = None
  BY <1>3, ClaimantAfter
<1>5. \A j \in Key \ {k} : Claimant(j)' = Claimant(j)
  BY OthersSeen, ClaimantKept
<1> QED BY <1>1, <1>4, <1>5

\* A step of t that does not touch what it claims leaves all claims as they are.
LEMMA ClaimsStay ==
  ASSUME NEW t \in Session, OthersKept(t), \A k \in Key : Claims(t, k)' <=> Claims(t, k)
  PROVE  /\ [k \in Key |-> Claimant(k)'] = [k \in Key |-> Claimant(k)]
         /\ \A k \in Key : Claimant(k)' = Claimant(k)
<1>1. \A k \in Key : Claimant(k)' = Claimant(k)
  BY OthersSeen, ClaimantKept
<1> QED BY <1>1

\* Nobody has claimed a row that an admission has locked, or that is not there.
LEMMA Unclaimed ==
  ASSUME Inv, CallsInv, NEW k \in Key,
         (\E t \in Session : Admitting(t) /\ holder[Row(k)] = t) \/ ~rows[k].stored
  PROVE  Claimant(k) = None
<1>1. ASSUME NEW u \in Session, Claims(u, k) PROVE FALSE
  <2>1. ~Admitting(u) /\ k \in DOMAIN work[u]
    BY <1>1, ClaimsFacts
  <2>2. holder[Row(k)] = u /\ rows[k].until # 0
    BY <2>1, SessionFacts, TransactionFacts DEF WorkOK, ClaimOK
  <2>3. ~rows[k].stored => rows[k].until = 0
    BY DEF CallsInv, HistoryOK, NoRow
  <2> QED BY <2>1, <2>2, <2>3
<1> QED BY <1>1, ClaimantFacts

----------------------------------------------------------------------------
(* Steps before the commit                                                 *)

\* A step after which t has written nothing.
LEMMA EmptyStep ==
  ASSUME Inv, CallsInv, NEW t \in Session, KeepsOthers(t), clock' = clock, token' = token,
         receipts' \subseteq receipts, DOMAIN work'[t] = {},
         call'[t].kind = "complete" => call'[t] = call[t] \/ \E r \in receipts : call'[t].token = r.token,
         \A c \in claims' : \E d \in claims : c.token = d.token /\ c.tx \in {d.tx, None},
         AnswerOK(t)', ProgressOK(t)'
  PROVE  CallsInv'
<1>1. TokensMove(t)
  BY DEF TokensMove
<1>2. (\A k \in DOMAIN work[t] : HistoryOK(k, work[t][k]))'
  OBVIOUS
<1>3. GrantOK(t)' /\ ClaimOK(t)'
  BY DEF GrantOK, ClaimOK
<1> QED BY <1>1, <1>2, <1>3, CallsStep

\* A step before the commit is a step of one session.
LEMMA KeptIsOthersKept ==
  ASSUME NEW t, KeepsOthers(t)
  PROVE  OthersKept(t) /\ Shape' /\ rows' = rows
BY DEF KeepsOthers, OthersKept

\* A session that has written nothing claims nothing.
LEMMA NoWorkNoClaim ==
  ASSUME NEW t \in Session
  PROVE  /\ DOMAIN work[t] = {} => \A k \in Key : ~Claims(t, k)
         /\ DOMAIN work'[t] = {} => \A k \in Key : ~Claims(t, k)'
BY DEF Claims

\* A client starts a call.
LEMMA InvokeRefines ==
  ASSUME NEW t \in Library, OthersKept(t), rows' = rows, clock' = clock, receipts' \subseteq receipts,
         \A k \in Key : Claims(t, k)' <=> Claims(t, k),
         CallStatus(t) = "idle", CallStatus(t)' = "open",
         reply[t].outcome # "pending", reply'[t].outcome = "pending"
  PROVE  Shared!Next
<1>0. t \in Session
  BY DEF Session
<1>1. [k \in Key |-> SubjectOf(rows'[k])] = [k \in Key |-> SubjectOf(rows[k])]
  OBVIOUS
<1>2. [k \in Key |-> Claimant(k)'] = [k \in Key |-> Claimant(k)]
  BY <1>0, ClaimsStay
<1>3. Shared!Invoke(t)
  BY <1>1, <1>2 DEF Shared!Invoke, Shared!Waiting, SubjectOf
<1> QED BY <1>3, ClientStep

\* BeginAdmit starts a call.
LEMMA BeginAdmitRefines ==
  ASSUME Inv, CallsInv, NEW t \in Library, NEW k \in Key, BeginAdmit(t, k)
  PROVE  CallsInv' /\ Shared!Next
<1>0. t \in Session /\ t \notin Host
  BY PgAttemptsAssumption DEF Session
<1>1. KeepsOthers(t) /\ Shape /\ LocksOK(t) /\ AnswerOK(t)
  BY <1>0, BeginAdmitInv, SessionFacts, TransactionFacts DEF Inv
<1>2. /\ pc[t] = "idle" /\ pc'[t] = "shard" /\ call'[t].kind = "admit" /\ reply'[t] = Pending
      /\ rows' = rows /\ clock' = clock /\ token' = token /\ receipts' = receipts /\ claims' = claims
      /\ work' = work
  BY <1>0, <1>1 DEF BeginAdmit, Shape
<1>3. DOMAIN work[t] = {} /\ DOMAIN work'[t] = {}
  BY <1>1, <1>2 DEF LocksOK, Nothing
<1>4. AnswerOK(t)'
  BY <1>2 DEF AnswerOK, Pending, Reply
<1>5. ProgressOK(t)'
  BY <1>0, <1>2 DEF ProgressOK, Admitting
<1>6. CallsInv'
  BY <1>0, <1>1, <1>2, <1>3, <1>4, <1>5, EmptyStep
<1>7. CallStatus(t) = "idle" /\ CallStatus(t)' = "open" /\ reply[t].outcome # "pending" /\ reply'[t].outcome = "pending"
  BY <1>1, <1>2 DEF CallStatus, Waiting, AnswerOK, Pending, Reply
<1>8. \A j \in Key : Claims(t, j)' <=> Claims(t, j)
  BY <1>0, <1>3, NoWorkNoClaim
<1>9. Shared!Next
  BY <1>1, <1>2, <1>7, <1>8, KeptIsOthersKept, InvokeRefines
<1> QED BY <1>6, <1>9

\* BeginComplete starts a call and uses up its receipt.
LEMMA BeginCompleteRefines ==
  ASSUME Inv, CallsInv, NEW t \in Library, NEW r \in receipts, NEW success \in BOOLEAN,
         BeginComplete(t, r, success)
  PROVE  CallsInv' /\ Shared!Next
<1>0. t \in Session /\ t \notin Host
  BY PgAttemptsAssumption DEF Session
<1>1. KeepsOthers(t) /\ Shape /\ LocksOK(t) /\ AnswerOK(t)
  BY <1>0, BeginCompleteInv, SessionFacts, TransactionFacts DEF Inv
<1>2. /\ pc[t] = "idle" /\ pc'[t] = "complete" /\ call'[t].kind = "complete" /\ call'[t].token = r.token
      /\ reply'[t] = Pending
      /\ rows' = rows /\ clock' = clock /\ token' = token /\ receipts' \subseteq receipts /\ claims' = claims
      /\ work' = work
  BY <1>0, <1>1 DEF BeginComplete, Shape
<1>3. DOMAIN work[t] = {} /\ DOMAIN work'[t] = {}
  BY <1>1, <1>2 DEF LocksOK, Nothing
<1>4. AnswerOK(t)'
  BY <1>2 DEF AnswerOK, Pending, Reply
<1>5. ProgressOK(t)'
  BY <1>0, <1>2 DEF ProgressOK, Admitting
<1>6. CallsInv'
  BY <1>0, <1>1, <1>2, <1>3, <1>4, <1>5, EmptyStep
<1>7. CallStatus(t) = "idle" /\ CallStatus(t)' = "open" /\ reply[t].outcome # "pending" /\ reply'[t].outcome = "pending"
  BY <1>1, <1>2 DEF CallStatus, Waiting, AnswerOK, Pending, Reply
<1>8. \A j \in Key : Claims(t, j)' <=> Claims(t, j)
  BY <1>0, <1>3, NoWorkNoClaim
<1>9. Shared!Next
  BY <1>1, <1>2, <1>7, <1>8, KeptIsOthersKept, InvokeRefines
<1> QED BY <1>6, <1>9

\* The application opens a transaction.
LEMMA BeginHostRefines ==
  ASSUME Inv, CallsInv, NEW h \in Host, BeginHost(h)
  PROVE  CallsInv' /\ Shared!Next
<1>0. h \in Session /\ h \notin Library
  BY PgAttemptsAssumption DEF Session
<1>1. KeepsOthers(h) /\ Shape /\ LocksOK(h) /\ CallOK(h) /\ ProgressOK(h)
  BY <1>0, BeginHostInv, SessionFacts, TransactionFacts DEF Inv
<1>2. /\ pc[h] = "idle" /\ pc'[h] = "host" /\ call' = call /\ reply' = reply /\ holder' = holder
      /\ rows' = rows /\ clock' = clock /\ token' = token /\ receipts' = receipts /\ claims' = claims
      /\ work' = work
  BY <1>0, <1>1 DEF BeginHost, Shape
<1>3. DOMAIN work[h] = {} /\ DOMAIN work'[h] = {}
  BY <1>1, <1>2 DEF LocksOK, Nothing
<1>4. AnswerOK(h)'
  BY <1>0, <1>1, <1>2 DEF AnswerOK, CallOK, Reply, NoCall
<1>5. ProgressOK(h)'
  BY <1>0, <1>1, <1>2 DEF ProgressOK, Admitting, CallOK, NoCall
<1>6. CallsInv'
  BY <1>0, <1>1, <1>2, <1>3, <1>4, <1>5, EmptyStep
<1>7. \A j \in Key : Claims(h, j)' <=> Claims(h, j)
  BY <1>0, <1>3, NoWorkNoClaim
<1>8. Shared!Next
  BY <1>0, <1>1, <1>2, <1>7, KeptIsOthersKept, QuietRefines
<1> QED BY <1>6, <1>8

\* Taking the lock of the shard is invisible to callers.
LEMMA LockShardRefines ==
  ASSUME Inv, CallsInv, NEW t \in Library, LockShard(t)
  PROVE  CallsInv' /\ Shared!Next
<1>0. t \in Session /\ t \notin Host
  BY PgAttemptsAssumption DEF Session
<1>1. KeepsOthers(t) /\ Shape /\ LocksOK(t) /\ CallOK(t) /\ AnswerOK(t)
  BY <1>0, LockShardInv, SessionFacts, TransactionFacts DEF Inv
<1>2. /\ pc[t] = "shard" /\ pc'[t] = (IF Waiting(t) THEN "cleanup" ELSE "orphan")
      /\ call' = call /\ reply' = reply
      /\ rows' = rows /\ clock' = clock /\ token' = token /\ receipts' = receipts /\ claims' = claims
      /\ work' = work
  BY <1>0, <1>1 DEF LockShard, Then, Shape
<1>3. DOMAIN work[t] = {} /\ DOMAIN work'[t] = {} /\ call[t].kind = "admit"
  BY <1>1, <1>2 DEF LocksOK, Nothing, CallOK
<1>4. AnswerOK(t)'
  BY <1>1, <1>2, <1>3 DEF AnswerOK
<1>5. ProgressOK(t)'
  BY <1>0, <1>2, <1>3 DEF ProgressOK, Admitting
<1>6. CallsInv'
  BY <1>0, <1>1, <1>2, <1>3, <1>4, <1>5, EmptyStep
<1>7. \A j \in Key : Claims(t, j)' <=> Claims(t, j)
  BY <1>0, <1>3, NoWorkNoClaim
<1>8. CallStatus(t)' = CallStatus(t)
  BY <1>2 DEF CallStatus, Waiting
<1>9. Shared!Next
  BY <1>0, <1>1, <1>2, <1>7, <1>8, KeptIsOthersKept, QuietRefines
<1> QED BY <1>6, <1>9

\* Deleting expired rows before the commit is invisible to callers.
LEMMA CleanupShardRefines ==
  ASSUME Inv, CallsInv, NEW t \in Library, CleanupShard(t)
  PROVE  CallsInv' /\ Shared!Next
<1>0. t \in Session /\ t \notin Host
  BY PgAttemptsAssumption DEF Session
<1>1. KeepsOthers(t) /\ Shape /\ CallOK(t) /\ AnswerOK(t)
  BY <1>0, CleanupShardInv, SessionFacts, TransactionFacts DEF Inv
<1>2. /\ pc[t] = "cleanup" /\ pc'[t] = (IF Waiting(t) THEN "row" ELSE "orphan")
      /\ call' = call /\ reply' = reply
      /\ rows' = rows /\ clock' = clock /\ token' = token /\ receipts' = receipts /\ claims' = claims
  BY <1>0, <1>1 DEF CleanupShard, Then, Shape
<1>3. PICK S \in SUBSET {k \in Key : Reapable(t, k)} : work' = [work EXCEPT ![t] = [k \in S |-> NoRow]]
  BY DEF CleanupShard
<1>4. /\ DOMAIN work'[t] = S
      /\ \A k \in S : k \in Key /\ work'[t][k] = NoRow /\ rows[k].stored /\ Expiry(k) <= clock
  BY <1>0, <1>1, <1>3 DEF Shape, Reapable
<1>5. call[t].kind = "admit" /\ Admitting(t) /\ Admitting(t)'
  BY <1>1, <1>2 DEF CallOK, Admitting
<1>6. AnswerOK(t)'
  BY <1>1, <1>2, <1>5 DEF AnswerOK
<1>7. ProgressOK(t)'
  BY <1>0, <1>2, <1>4, <1>5 DEF ProgressOK, NoRow
<1>8. (\A k \in DOMAIN work[t] : HistoryOK(k, work[t][k]))'
  BY <1>4 DEF HistoryOK, NoRow
<1>9. GrantOK(t)'
  <2>1. \A k \in S : Expiry(k)' = Expiry(k)
    BY <1>2 DEF Expiry
  <2> QED BY <1>2, <1>4, <2>1 DEF GrantOK, NoRow
<1>10. TokensMove(t)
  BY <1>2, <1>4 DEF TokensMove, NoRow
<1>11. CallsInv'
  BY <1>0, <1>1, <1>2, <1>5, <1>6, <1>7, <1>8, <1>9, <1>10, CallsStep
<1>12. \A j \in Key : Claims(t, j)' <=> Claims(t, j)
  BY <1>0, <1>2, <1>5 DEF Claims
<1>13. CallStatus(t)' = CallStatus(t)
  BY <1>2 DEF CallStatus, Waiting
<1>14. Shared!Next
  BY <1>0, <1>1, <1>2, <1>12, <1>13, KeptIsOthersKept, QuietRefines
<1> QED BY <1>11, <1>14

\* Waiting for the row of the subject is invisible to callers.
LEMMA LockRowRefines ==
  ASSUME Inv, CallsInv, NEW t \in Library, LockRow(t)
  PROVE  CallsInv' /\ Shared!Next
<1>0. t \in Session /\ t \notin Host
  BY PgAttemptsAssumption DEF Session
<1>1. KeepsOthers(t) /\ Shape /\ CallOK(t) /\ AnswerOK(t) /\ ProgressOK(t)
  BY <1>0, LockRowInv, SessionFacts, TransactionFacts DEF Inv
<1>2. /\ pc[t] = "row" /\ pc'[t] = (IF Waiting(t) THEN "decide" ELSE "orphan")
      /\ call' = call /\ reply' = reply /\ work' = work
      /\ rows' = rows /\ clock' = clock /\ token' = token /\ receipts' = receipts /\ claims' = claims
  BY <1>0, <1>1 DEF LockRow, Then, Shape
<1>3. call[t].kind = "admit" /\ Admitting(t) /\ Admitting(t)'
  BY <1>1, <1>2 DEF CallOK, Admitting
<1>4. AnswerOK(t)'
  BY <1>1, <1>2, <1>3 DEF AnswerOK
<1>5. ProgressOK(t)'
  BY <1>0, <1>1, <1>2, <1>3 DEF ProgressOK
<1>6. CallsInv'
  BY <1>0, <1>1, <1>2, <1>3, <1>4, <1>5, PlainStep
<1>7. \A j \in Key : Claims(t, j)' <=> Claims(t, j)
  BY <1>2 DEF Claims
<1>8. CallStatus(t)' = CallStatus(t)
  BY <1>2 DEF CallStatus, Waiting
<1>9. Shared!Next
  BY <1>0, <1>1, <1>2, <1>7, <1>8, KeptIsOthersKept, QuietRefines
<1> QED BY <1>6, <1>9

\* Sending COMMIT is invisible to callers.
LEMMA SendCommitRefines ==
  ASSUME Inv, CallsInv, NEW t \in Session, SendCommit(t)
  PROVE  CallsInv' /\ Shared!Next
<1>1. KeepsOthers(t) /\ Shape /\ CallOK(t) /\ AnswerOK(t) /\ ProgressOK(t)
  BY SendCommitInv, SessionFacts, TransactionFacts DEF Inv
<1>2. /\ pc[t] \in {"host", "ready"} /\ pc'[t] = "committing" /\ holder' = holder
      /\ call' = call /\ reply' = reply /\ work' = work
      /\ rows' = rows /\ clock' = clock /\ token' = token /\ receipts' = receipts /\ claims' = claims
      /\ pc[t] = "ready" => reply[t].outcome \in {"pending", "storage_capacity"}
  BY <1>1 DEF SendCommit, Shape, Waiting, Pending, Reply
<1>3. Admitting(t)' <=> Admitting(t)
  BY <1>2 DEF Admitting
<1>4. pc[t] = "host" => t \notin Library /\ call[t].kind # "admit" /\ call[t].kind # "complete"
  BY <1>1 DEF CallOK, Session, NoCall
<1>5. AnswerOK(t)'
  BY <1>1, <1>2, <1>4 DEF AnswerOK
<1>6. ProgressOK(t)'
  BY <1>1, <1>2, <1>3, <1>4 DEF ProgressOK, Admitting
<1>7. CallsInv'
  BY <1>1, <1>2, <1>3, <1>5, <1>6, PlainStep
<1>8. \A j \in Key : Claims(t, j)' <=> Claims(t, j)
  BY <1>2 DEF Claims
<1>9. CallStatus(t)' = CallStatus(t)
  BY <1>2 DEF CallStatus, Waiting
<1>10. Shared!Next
  BY <1>1, <1>2, <1>8, <1>9, KeptIsOthersKept, QuietRefines
<1> QED BY <1>7, <1>10

\* A call that ends without effect, or in doubt.
LEMMA GiveUpRefines ==
  ASSUME NEW t \in Library, OthersKept(t), rows' = rows, clock' = clock, receipts' = receipts,
         call'[t] = call[t], CallStatus(t) = "open",
         \/ reply[t].outcome = "pending" /\ reply'[t].outcome = "not_consumed" /\ CallStatus(t)' = "idle"
         \/ reply'[t].outcome = "unknown",
         \/ [k \in Key |-> Claimant(k)'] = [k \in Key |-> Claimant(k)]
         \/ /\ call[t].key \in Key /\ Claimant(call[t].key) = t
            /\ [k \in Key |-> Claimant(k)'] = [[k \in Key |-> Claimant(k)] EXCEPT ![call[t].key] = None]
  PROVE  Shared!Next
<1>0. t \in Session /\ t # None
  BY PgAttemptsAssumption DEF Session
<1>1. [k \in Key |-> SubjectOf(rows'[k])] = [k \in Key |-> SubjectOf(rows[k])]
  OBVIOUS
<1>2. [u \in Library |-> call'[u]] = [u \in Library |-> call[u]]
  BY DEF OthersKept, Session
<1>3. CallStatus(t)' \in {"open", "idle"}
  BY DEF CallStatus
<1>4. \/ [k \in Key |-> Claimant(k)'] = [k \in Key |-> Claimant(k)]
      \/ [k \in Key |-> Claimant(k)][call[t].key] = t /\ Shared!Withdraw(call[t].key)
  <2> DEFINE k == call[t].key
             C == [j \in Key |-> Claimant(j)]
             D == [j \in Key |-> Claimant(j)']
  <2>1. CASE k \in Key /\ Claimant(k) = t /\ D = [C EXCEPT ![k] = None]
    <3>1. C[k] = t /\ C[k] # None
      BY <1>0, <2>1
    <3>2. Shared!Unclaim(k)
      BY <1>1, <2>1, <3>1 DEF Shared!Unclaim, SubjectOf
    <3>3. [j \in Key |-> SubjectOf(rows'[j])][k] = [j \in Key |-> SubjectOf(rows[j])][k]
      BY <1>1
    <3>4. Shared!Withdraw(k)
      BY <3>2, <3>3 DEF Shared!Withdraw, SubjectOf
    <3> QED BY <3>1, <3>4
  <2> QED BY <2>1
<1>5. [u \in Library |-> call[u]][t].key = call[t].key
  OBVIOUS
<1>6. \/ [k \in Key |-> Claimant(k)'] = [k \in Key |-> Claimant(k)]
      \/ /\ [k \in Key |-> Claimant(k)][[u \in Library |-> call[u]][t].key] = t
         /\ Shared!Withdraw([u \in Library |-> call[u]][t].key)
  BY <1>4, <1>5
<1>7. /\ [u \in Library |-> CallStatus(u)][t] = "open"
      /\ \/ /\ [u \in Library |-> reply[u]][t].outcome = "pending"
            /\ [u \in Library |-> reply'[u]][t].outcome = "not_consumed"
            /\ [u \in Library |-> CallStatus(u)'][t] = "idle"
         \/ /\ [u \in Library |-> reply'[u]][t].outcome = "unknown"
            /\ [u \in Library |-> CallStatus(u)'][t] \in {"open", "idle"}
  BY <1>3
<1>8. Shared!GiveUp(t)
  BY <1>1, <1>2, <1>6, <1>7, Zenon DEF Shared!GiveUp, Shared!Waiting
<1> QED BY <1>8, ClientStep

\* A call that is given up before its COMMIT was sent has no effect.
LEMMA AbandonRefines ==
  ASSUME Inv, CallsInv, NEW t \in Library, Abandon(t)
  PROVE  CallsInv' /\ Shared!Next
<1>0. t \in Session /\ t \notin Host
  BY PgAttemptsAssumption DEF Session
<1>1. KeepsOthers(t) /\ Shape /\ CallOK(t) /\ AnswerOK(t) /\ ProgressOK(t)
  BY <1>0, AbandonInv, SessionFacts, TransactionFacts DEF Inv
<1>2. /\ pc[t] \notin {"idle", "committing"} /\ pc' = pc /\ holder' = holder
      /\ reply[t].outcome = "pending" /\ Waiting(t) /\ reply'[t] = Reply("not_consumed", 0)
      /\ call' = call /\ work' = work
      /\ rows' = rows /\ clock' = clock /\ token' = token /\ receipts' = receipts /\ claims' = claims
  BY <1>0, <1>1 DEF Abandon, Shape, Waiting, Pending, Reply
<1>3. Admitting(t)' <=> Admitting(t)
  BY <1>2 DEF Admitting
<1>4. AnswerOK(t)'
  BY <1>1, <1>2 DEF AnswerOK, Reply
<1>5. ProgressOK(t)'
  BY <1>0, <1>1, <1>2, <1>3 DEF ProgressOK, Reply
<1>6. CallsInv'
  BY <1>0, <1>1, <1>2, <1>3, <1>4, <1>5, PlainStep
<1>7. CallStatus(t) = "open" /\ CallStatus(t)' = "idle" /\ reply'[t].outcome = "not_consumed"
  BY <1>2 DEF CallStatus, Waiting, Pending, Reply
<1>8. [k \in Key |-> Claimant(k)'] = [k \in Key |-> Claimant(k)]
  BY <1>0, <1>1, <1>2, KeptIsOthersKept, ClaimsStay DEF Claims
<1>9. Shared!Next
  BY <1>1, <1>2, <1>7, <1>8, KeptIsOthersKept, GiveUpRefines
<1> QED BY <1>6, <1>9

\* A call whose confirmation does not come is in doubt, and may still take effect.
LEMMA LoseConfirmationRefines ==
  ASSUME Inv, CallsInv, NEW t \in Library, LoseConfirmation(t)
  PROVE  CallsInv' /\ Shared!Next
<1>0. t \in Session /\ t \notin Host
  BY PgAttemptsAssumption DEF Session
<1>1. KeepsOthers(t) /\ Shape /\ CallOK(t) /\ AnswerOK(t) /\ ProgressOK(t)
  BY <1>0, LoseConfirmationInv, SessionFacts, TransactionFacts DEF Inv
<1>2. /\ pc[t] = "committing" /\ pc' = pc /\ holder' = holder
      /\ reply[t].outcome = "pending" /\ Waiting(t) /\ reply'[t] = Reply("unknown", 0)
      /\ call' = call /\ work' = work
      /\ rows' = rows /\ clock' = clock /\ token' = token /\ receipts' = receipts /\ claims' = claims
  BY <1>0, <1>1 DEF LoseConfirmation, Shape, Waiting, Pending, Reply
<1>3. Admitting(t)' <=> Admitting(t)
  BY <1>2 DEF Admitting
<1>4. AnswerOK(t)'
  BY <1>1, <1>2 DEF AnswerOK, Reply
<1>5. ProgressOK(t)'
  BY <1>0, <1>1, <1>2, <1>3 DEF ProgressOK, Reply
<1>6. CallsInv'
  BY <1>0, <1>1, <1>2, <1>3, <1>4, <1>5, PlainStep
<1>7. CallStatus(t) = "open" /\ reply'[t].outcome = "unknown"
  BY <1>2 DEF CallStatus, Waiting, Pending, Reply
<1>8. [k \in Key |-> Claimant(k)'] = [k \in Key |-> Claimant(k)]
  BY <1>0, <1>1, <1>2, KeptIsOthersKept, ClaimsStay DEF Claims
<1>9. Shared!Next
  BY <1>1, <1>2, <1>7, <1>8, KeptIsOthersKept, GiveUpRefines
<1> QED BY <1>6, <1>9

----------------------------------------------------------------------------
(* Transactions that end without effect                                    *)

\* A claim that comes to nothing leaves the lease as it was.
LEMMA WithdrawRefines ==
  ASSUME Inv, CallsInv, Inv', NEW t \in Session, OthersKept(t), rows' = rows, clock' = clock,
         receipts' = receipts, DOMAIN work'[t] = {},
         t \in Library => call'[t] = call[t] /\ CallStatus(t)' = CallStatus(t) /\ reply'[t] = reply[t]
  PROVE  Shared!Next
<1>1. \A j \in Key : ~Claims(t, j)'
  BY NoWorkNoClaim
<1>2. CASE \A j \in Key : ~Claims(t, j)
  BY <1>1, <1>2, QuietRefines
<1>3. ASSUME NEW k \in Key, Claims(t, k) PROVE Shared!Next
  <2> DEFINE C == [j \in Key |-> Claimant(j)]
             D == [j \in Key |-> Claimant(j)']
  <2>1. \A j \in Key \ {k} : Claims(t, j)' <=> Claims(t, j)
    BY <1>1, <1>3, OneClaim
  <2>2. Claimant(k) = t /\ D = [C EXCEPT ![k] = None]
    BY <1>1, <1>3, <2>1, ClaimEnded
  <2>3. C[k] # None
    BY <2>2, PgAttemptsAssumption DEF Session
  <2>4. [j \in Key |-> SubjectOf(rows'[j])] = [j \in Key |-> SubjectOf(rows[j])]
    OBVIOUS
  <2>5. /\ [u \in Library |-> call'[u]] = [u \in Library |-> call[u]]
        /\ [u \in Library |-> CallStatus(u)'] = [u \in Library |-> CallStatus(u)]
        /\ [u \in Library |-> reply'[u]] = [u \in Library |-> reply[u]]
    <3>1. \A u \in Library : call'[u] = call[u] /\ CallStatus(u)' = CallStatus(u) /\ reply'[u] = reply[u]
      BY OthersSeen
    <3> QED BY <3>1
  <2>6. Shared!Withdraw(k)
    <3>1. Shared!Unclaim(k)
      BY <2>2, <2>3, <2>4 DEF Shared!Unclaim, SubjectOf
    <3>2. [j \in Key |-> SubjectOf(rows'[j])][k] = [j \in Key |-> SubjectOf(rows[j])][k]
      BY <2>4
    <3> QED BY <3>1, <3>2 DEF Shared!Withdraw, SubjectOf
  <2>7. Shared!EndClaim(k)
    BY <2>5, <2>6, Zenon DEF Shared!EndClaim
  <2> QED BY <2>7 DEF Shared!Next
<1> QED BY <1>2, <1>3

\* What ends a transaction keeps of the claims: their tokens.
LEMMA EndedClaims ==
  ASSUME Inv, NEW t \in Session, EndTransaction(t)
  PROVE  /\ \A c \in claims' : \E d \in claims : c.token = d.token /\ c.tx \in {d.tx, None}
         /\ \A c \in claims' : c.tx # t
<1>1. ASSUME NEW c \in claims'
      PROVE  (\E d \in claims : c.token = d.token /\ c.tx \in {d.tx, None}) /\ c.tx # t
  <2>1. PICK d \in claims : c = [d EXCEPT !.tx = IF @ = t THEN None ELSE @]
    BY DEF EndTransaction
  <2>2. d \in [key : Key, token : 1..MaxToken, tx : Host \cup {None}]
    BY DEF Inv, SharedOK
  <2>3. c.token = d.token /\ c.tx = (IF d.tx = t THEN None ELSE d.tx)
    BY <2>1, <2>2
  <2> QED BY <2>3, LockFacts
<1> QED BY <1>1

\* The application rolls back to the savepoint before its claim.
LEMMA RollbackToSavepointRefines ==
  ASSUME Inv, CallsInv, NEW h \in Host, RollbackToSavepoint(h)
  PROVE  CallsInv' /\ Shared!Next
<1>0. h \in Session /\ h \notin Library
  BY PgAttemptsAssumption DEF Session
<1>1. Inv' /\ KeepsOthers(h) /\ Shape /\ CallOK(h) /\ AnswerOK(h)
  BY <1>0, RollbackToSavepointInv, SessionFacts, TransactionFacts DEF Inv
<1>2. /\ pc[h] = "host" /\ pc' = pc /\ call' = call /\ reply' = reply
      /\ holder' = [l \in Locks |-> IF holder[l] = h THEN None ELSE holder[l]]
      /\ rows' = rows /\ clock' = clock /\ token' = token /\ receipts' = receipts /\ claims' = claims
      /\ DOMAIN work'[h] = {}
  BY <1>0, <1>1 DEF RollbackToSavepoint, Shape, Nothing
<1>3. \A l \in Locks : holder'[l] # h
  BY <1>0, <1>2, ReleaseFacts
<1>4. AnswerOK(h)'
  BY <1>1, <1>2 DEF AnswerOK
<1>5. ProgressOK(h)'
  <2>1. \A k \in Key : holder'[Row(k)] # h
    BY <1>3, LockFacts
  <2>2. call'[h].kind = "none" /\ pc'[h] = "host"
    BY <1>1, <1>2 DEF CallOK, NoCall
  <2>3. ~Admitting(h)'
    BY <2>2 DEF Admitting
  <2> QED BY <2>1, <2>2, <2>3 DEF ProgressOK, Row
<1>6. CallsInv'
  BY <1>0, <1>1, <1>2, <1>4, <1>5, EmptyStep
<1>7. Shared!Next
  BY <1>0, <1>1, <1>2, KeptIsOthersKept, WithdrawRefines
<1> QED BY <1>6, <1>7

\* A transaction that ends without its writes.
LEMMA DiscardCalls ==
  ASSUME Inv, CallsInv, NEW t \in Session, EndTransaction(t), KeepsOthers(t),
         UNCHANGED <<clock, call, token, receipts>>, reply'[t].outcome # "pending"
  PROVE  CallsInv'
<1>1. Shape
  BY DEF Inv
<1>2. pc'[t] = "idle" /\ DOMAIN work'[t] = {}
  BY <1>1 DEF EndTransaction, Shape, Nothing
<1>3. \A l \in Locks : holder'[l] # t
  BY ReleaseFacts DEF EndTransaction
<1>4. AnswerOK(t)'
  BY <1>2 DEF AnswerOK
<1>5. ProgressOK(t)'
  BY <1>2, <1>3, LockFacts DEF ProgressOK, Admitting
<1> QED BY <1>2, <1>4, <1>5, EndedClaims, EmptyStep

\* A rollback ends what is left of a call that has its answer already.
LEMMA RollbackRefines ==
  ASSUME Inv, CallsInv, NEW t \in Session, Rollback(t)
  PROVE  CallsInv' /\ Shared!Next
<1>1. Inv' /\ KeepsOthers(t) /\ Shape /\ AnswerOK(t)
  BY RollbackInv, TransactionFacts DEF Inv
<1>2. /\ pc[t] \notin {"idle", "committing"} /\ ~Waiting(t) /\ EndTransaction(t)
      /\ UNCHANGED <<rows, clock, call, token, receipts, reply>>
  BY DEF Rollback
<1>3. reply[t].outcome \notin {"pending", "unknown"}
  BY <1>1, <1>2 DEF AnswerOK, Waiting
<1>4. CallsInv'
  BY <1>1, <1>2, <1>3, DiscardCalls
<1>5. pc'[t] = "idle" /\ DOMAIN work'[t] = {}
  BY <1>1, <1>2 DEF EndTransaction, Shape, Nothing
<1>6. CallStatus(t)' = CallStatus(t)
  BY <1>2, <1>3, <1>5 DEF CallStatus, Waiting
<1>7. Shared!Next
  BY <1>1, <1>2, <1>5, <1>6, KeptIsOthersKept, WithdrawRefines
<1> QED BY <1>4, <1>7

\* The row a completion has written is the row of its receipt.
LEMMA OwnClaim ==
  ASSUME Inv, CallsInv, NEW t \in Library, NEW k \in Key, Claims(t, k)
  PROVE  k = call[t].key /\ call[t].kind = "complete" /\ pc[t] \notin {"idle", "complete"}
<1>0. t \in Session /\ t \notin Host
  BY PgAttemptsAssumption DEF Session
<1>1. ProgressOK(t) /\ WorkOK(t) /\ LocksOK(t)
  BY <1>0, SessionFacts, TransactionFacts
<1>2. call[t].kind = "complete" /\ holder[Row(k)] = t
  BY <1>0, <1>1 DEF Claims, WorkOK
<1>3. pc[t] \notin {"idle", "complete"}
  BY <1>1 DEF LocksOK, Nothing, Claims
<1> QED BY <1>1, <1>2, <1>3 DEF ProgressOK

\* A commit that fails leaves its caller in doubt, and has no effect.
LEMMA FailCommitRefines ==
  ASSUME Inv, CallsInv, NEW t \in Session, FailCommit(t)
  PROVE  CallsInv' /\ Shared!Next
<1>1. Inv' /\ KeepsOthers(t) /\ Shape /\ AnswerOK(t) /\ CallOK(t)
  BY FailCommitInv, SessionFacts, TransactionFacts DEF Inv
<1>2. /\ pc[t] = "committing" /\ EndTransaction(t)
      /\ reply'[t] = (IF Waiting(t) THEN Reply("unknown", 0) ELSE reply[t])
      /\ UNCHANGED <<rows, clock, call, token, receipts>>
  BY <1>1 DEF FailCommit, Shape
<1>3. reply'[t].outcome # "pending"
  BY <1>1, <1>2 DEF AnswerOK, Waiting, Reply
<1>4. CallsInv'
  BY <1>1, <1>2, <1>3, DiscardCalls
<1>5. pc'[t] = "idle" /\ DOMAIN work'[t] = {}
  BY <1>1, <1>2 DEF EndTransaction, Shape, Nothing
<1>6. CASE t \notin Library \/ reply[t].outcome \notin {"pending", "unknown"}
  <2>1. t \in Library => reply'[t] = reply[t] /\ CallStatus(t)' = CallStatus(t)
    BY <1>2, <1>3, <1>5, <1>6 DEF CallStatus, Waiting, Pending, Reply
  <2> QED BY <1>1, <1>2, <1>4, <1>5, <2>1, KeptIsOthersKept, WithdrawRefines
<1>7. CASE t \in Library /\ reply[t].outcome \in {"pending", "unknown"}
  <2>1. CallStatus(t) = "open" /\ reply'[t].outcome = "unknown"
    BY <1>1, <1>2, <1>7 DEF CallStatus, Waiting, AnswerOK, Pending, Reply
  <2>2. \A j \in Key : ~Claims(t, j)'
    BY <1>5, NoWorkNoClaim
  <2>3. \/ [k \in Key |-> Claimant(k)'] = [k \in Key |-> Claimant(k)]
        \/ /\ call[t].key \in Key /\ Claimant(call[t].key) = t
           /\ [k \in Key |-> Claimant(k)'] = [[k \in Key |-> Claimant(k)] EXCEPT ![call[t].key] = None]
    <3>1. CASE \A j \in Key : ~Claims(t, j)
      BY <1>1, <2>2, <3>1, KeptIsOthersKept, ClaimsStay
    <3>2. ASSUME NEW k \in Key, Claims(t, k)
          PROVE  /\ k = call[t].key /\ Claimant(k) = t
                 /\ [j \in Key |-> Claimant(j)'] = [[j \in Key |-> Claimant(j)] EXCEPT ![k] = None]
      <4>1. \A j \in Key \ {k} : Claims(t, j)' <=> Claims(t, j)
        BY <2>2, <3>2, OneClaim
      <4> QED BY <1>1, <1>7, <2>2, <3>2, <4>1, OwnClaim, ClaimEnded, KeptIsOthersKept
    <3> QED BY <3>1, <3>2
  <2> QED BY <1>1, <1>2, <1>4, <1>7, <2>1, <2>3, KeptIsOthersKept, GiveUpRefines
<1> QED BY <1>6, <1>7

----------------------------------------------------------------------------
(* Rows and the subjects they stand for                                    *)

\* The promise delays by the same policy.
LEMMA SameDelay ==
  ASSUME NEW k, NEW n
  PROVE  Shared!Delay(k, n) = Delay(k, n)
BY DEF Shared!Delay, Delay

\* The fields of a row are numbers.
LEMMA RowFields ==
  ASSUME NEW row, RowOK(row)
  PROVE  /\ row.failures \in Nat /\ row.lastFailure \in Nat /\ row.retryAt \in Nat /\ row.until \in Nat
         /\ row.token \in 0..MaxToken /\ row.stored \in BOOLEAN
         /\ (row.until = 0) <=> (row.token = 0)
BY DEF RowOK, RowType

\* The subject a row stands for.
LEMMA SubjectFields ==
  ASSUME NEW row, RowOK(row)
  PROVE  /\ SubjectOf(row).failures = row.failures /\ SubjectOf(row).until = row.until
         /\ SubjectOf(row).holder = row.token
         /\ SubjectOf(row).failedAt =
              IF row.until = 0 /\ row.failures > 0 THEN row.lastFailure ELSE 0
         /\ row.until # 0 => SubjectOf(row) = Shared!Leased(row.failures, row.until, row.token)
         /\ row.until = 0 /\ row.failures = 0 => SubjectOf(row) = Shared!Clear
         /\ row.until = 0 /\ row.failures > 0 =>
              SubjectOf(row) = Shared!Failed(row.failures, row.lastFailure)
<1>1. row.until = 0 => row.token = 0
  BY RowFields
<1>2. row.failures \in Nat
  BY RowFields
<1> QED BY <1>1, <1>2 DEF SubjectOf, Shared!Leased, Shared!Clear, Shared!Failed

\* A row that is not there stands for a clear subject.
LEMMA NoRowClear == SubjectOf(NoRow) = Shared!Clear
BY DEF SubjectOf, NoRow, Shared!Clear

\* A clear subject stays clear.
LEMMA ClearStays ==
  ASSUME NEW k \in Key, NEW at \in Nat
  PROVE  /\ Shared!AtTime(k, Shared!Clear, at) = Shared!Clear
         /\ Shared!Clear.until = 0 /\ Shared!Clear.failures = 0
         /\ Shared!Backoff(k, Shared!Clear) = 0
<1>1. /\ Shared!Clear.until = 0 /\ Shared!Clear.failures = 0 /\ Shared!Clear.failedAt = 0
  BY DEF Shared!Clear
<1>2. Shared!Delay(k, 0) = 0
  BY SameDelay DEF Delay
<1>3. Shared!AtTime(k, Shared!Clear, at) = Shared!Clear
  BY <1>1 DEF Shared!AtTime
<1> QED BY <1>1, <1>2, <1>3 DEF Shared!Backoff

\* A subject that waits after failures, at a later instant.
LEMMA FailedLater ==
  ASSUME NEW k \in Key, NEW n \in Nat, NEW failed \in Nat, NEW at \in Nat
  PROVE  /\ Shared!AtTime(k, Shared!Failed(n, failed), at) =
              IF at >= failed + QuietPeriod[k] THEN Shared!Clear ELSE Shared!Failed(n, failed)
         /\ Shared!Failed(n, failed).until = 0 /\ Shared!Failed(n, failed).failures = n
         /\ Shared!Backoff(k, Shared!Failed(n, failed)) = failed + Delay(k, n)
<1>1. /\ Shared!Failed(n, failed).until = 0 /\ Shared!Failed(n, failed).failures = n
      /\ Shared!Failed(n, failed).failedAt = failed
  BY DEF Shared!Failed
<1>2. Shared!AtTime(k, Shared!Failed(n, failed), at) =
        IF at >= failed + QuietPeriod[k] THEN Shared!Clear ELSE Shared!Failed(n, failed)
  BY <1>1 DEF Shared!AtTime
<1> QED BY <1>1, <1>2, SameDelay DEF Shared!Backoff

\* A lease at a later instant: still there, or over and a failure at its end.
LEMMA LeasedLater ==
  ASSUME NEW k \in Key, NEW n \in Nat, NEW until \in Nat \ {0}, NEW r, NEW at \in Nat
  PROVE  /\ at < until =>
              Shared!AtTime(k, Shared!Leased(n, until, r), at) = Shared!Leased(n, until, r)
         /\ at >= until =>
              Shared!AtTime(k, Shared!Leased(n, until, r), at) =
                IF at >= until + QuietPeriod[k] THEN Shared!Clear ELSE Shared!Failed(n + 1, until)
         /\ Shared!Leased(n, until, r).until = until
<1>1. /\ Shared!Leased(n, until, r).until = until /\ Shared!Leased(n, until, r).failures = n
  BY DEF Shared!Leased
<1>2. /\ Shared!Failed(n + 1, until).until = 0 /\ Shared!Failed(n + 1, until).failedAt = until
  BY DEF Shared!Failed
<1>3. at < until => Shared!AtTime(k, Shared!Leased(n, until, r), at) = Shared!Leased(n, until, r)
  BY <1>1 DEF Shared!AtTime
<1>4. at >= until =>
              Shared!AtTime(k, Shared!Leased(n, until, r), at) =
                IF at >= until + QuietPeriod[k] THEN Shared!Clear ELSE Shared!Failed(n + 1, until)
  BY <1>1, <1>2 DEF Shared!AtTime
<1> QED BY <1>1, <1>3, <1>4

\* A row whose history no longer counts stands for a clear subject.
LEMMA ExpiredIsClear ==
  ASSUME Inv, CallsInv, NEW k \in Key, rows[k].stored, Expiry(k) <= clock
  PROVE  Shared!AtTime(k, SubjectOf(rows[k]), clock) = Shared!Clear
<1> DEFINE row == rows[k]
<1>1. RowOK(row)
  BY DEF Inv, SharedOK, RowOK
<1>2. Expiry(k) = (IF row.until # 0 THEN row.until ELSE row.lastFailure) + QuietPeriod[k]
  BY DEF Expiry
<1> HIDE DEF row
<1>3. clock \in Nat /\ QuietPeriod[k] \in Nat
  BY PgAttemptsAssumption, AttemptPolicyAssumption DEF Inv, SharedOK
<1>4. /\ row.failures \in Nat /\ row.lastFailure \in Nat /\ row.until \in Nat
  BY <1>1, RowFields
<1>5. CASE row.until # 0
  <2>1. SubjectOf(row) = Shared!Leased(row.failures, row.until, row.token)
    BY <1>1, <1>5, SubjectFields
  <2>2. clock >= row.until + QuietPeriod[k] /\ clock >= row.until
    BY <1>2, <1>3, <1>4, <1>5
  <2>3. Shared!AtTime(k, Shared!Leased(row.failures, row.until, row.token), clock) = Shared!Clear
    BY <1>3, <1>4, <1>5, <2>2, LeasedLater
  <2> QED BY <2>1, <2>3 DEF row
<1>6. CASE row.until = 0 /\ row.failures > 0
  <2>1. SubjectOf(row) = Shared!Failed(row.failures, row.lastFailure)
    BY <1>1, <1>6, SubjectFields
  <2>2. clock >= row.lastFailure + QuietPeriod[k]
    BY <1>2, <1>3, <1>4, <1>6
  <2>3. Shared!AtTime(k, Shared!Failed(row.failures, row.lastFailure), clock) = Shared!Clear
    BY <1>3, <1>4, <2>2, FailedLater
  <2> QED BY <2>1, <2>3 DEF row
<1>7. CASE row.until = 0 /\ row.failures = 0
  <2>1. SubjectOf(row) = Shared!Clear
    BY <1>1, <1>7, SubjectFields
  <2> QED BY <1>3, <2>1, ClearStays DEF row
<1> QED BY <1>4, <1>5, <1>6, <1>7

\* What admission reckons with is what the promise sees.
LEMMA SettledSeen ==
  ASSUME Inv, NEW k \in Key, NEW row, RowOK(row), HistoryOK(k, row), row.stored, clock >= row.until
  PROVE  LET s == Shared!AtTime(k, SubjectOf(row), clock)
             settled == Settled(k, row)
         IN  /\ s.until = 0 /\ s.failures = settled.failures
             /\ clock >= settled.retryAt <=> clock >= Shared!Backoff(k, s)
             /\ clock < settled.retryAt => settled.retryAt = Shared!Backoff(k, s)
<1> DEFINE s == Shared!AtTime(k, SubjectOf(row), clock)
           settled == Settled(k, row)
<1>1. clock \in Nat /\ QuietPeriod[k] \in Nat
  BY PgAttemptsAssumption, AttemptPolicyAssumption DEF Inv, SharedOK
<1>2. /\ row.failures \in Nat /\ row.lastFailure \in Nat /\ row.until \in Nat /\ row.retryAt \in Nat
  BY RowFields
<1>3. /\ row.lastFailure <= clock
      /\ row.until = 0 => row.retryAt = row.lastFailure + Delay(k, row.failures)
  BY DEF HistoryOK
<1>4. DOMAIN row = {"stored", "slot", "failures", "lastFailure", "retryAt", "until", "token"}
  BY DEF RowOK, RowType
<1>5. CASE row.until # 0
  <2>1. s = IF clock >= row.until + QuietPeriod[k] THEN Shared!Clear
            ELSE Shared!Failed(row.failures + 1, row.until)
    BY <1>1, <1>2, <1>5, SubjectFields, LeasedLater
  <2> DEFINE n == row.failures + 1
             d == Delay(k, n)
             lapsed == Lapsed(k, row)
  <2>2. n \in Nat /\ d \in Nat
    BY <1>2, DelayType
  <2>3. /\ lapsed.failures = n /\ lapsed.lastFailure = row.until /\ lapsed.retryAt = row.until + d
        /\ DOMAIN lapsed = DOMAIN row
    BY <1>4, <1>5 DEF Lapsed
  <2>4. settled = IF clock >= row.until + QuietPeriod[k]
                  THEN [lapsed EXCEPT !.failures = 0, !.retryAt = clock] ELSE lapsed
    BY <2>3 DEF Settled
  <2> HIDE DEF n, d, s, settled, lapsed
  <2>5. CASE clock >= row.until + QuietPeriod[k]
    <3>1. settled.failures = 0 /\ settled.retryAt = clock
      BY <1>4, <2>3, <2>4, <2>5
    <3>2. s = Shared!Clear
      BY <2>1, <2>5
    <3> QED BY <1>1, <3>1, <3>2, ClearStays DEF s, settled
  <2>6. CASE ~(clock >= row.until + QuietPeriod[k])
    <3>1. settled.failures = n /\ settled.retryAt = row.until + d
      BY <2>3, <2>4, <2>6
    <3>2. s = Shared!Failed(n, row.until)
      BY <2>1, <2>6 DEF n
    <3>3. s.until = 0 /\ s.failures = n /\ Shared!Backoff(k, s) = row.until + d
      <4>1. d = Delay(k, n)
        BY DEF d
      <4>2. /\ Shared!Failed(n, row.until).until = 0 /\ Shared!Failed(n, row.until).failures = n
            /\ Shared!Backoff(k, Shared!Failed(n, row.until)) = row.until + Delay(k, n)
        BY <1>1, <1>2, <2>2, FailedLater
      <4> QED BY <3>2, <4>1, <4>2
    <3> QED BY <1>1, <1>2, <2>2, <3>1, <3>3 DEF s, settled
  <2> QED BY <2>5, <2>6
<1>6. CASE row.until = 0
  <2>1. Lapsed(k, row) = row
    BY <1>6 DEF Lapsed
  <2>2. settled = IF clock >= row.lastFailure + QuietPeriod[k]
                  THEN [row EXCEPT !.failures = 0, !.retryAt = clock] ELSE row
    BY <2>1 DEF Settled
  <2>3. CASE row.failures = 0
    <3>1. s = Shared!Clear
      BY <1>1, <1>6, <2>3, SubjectFields, ClearStays
    <3>2. s.until = 0 /\ s.failures = 0 /\ Shared!Backoff(k, s) = 0
      BY <1>1, <3>1, ClearStays
    <3>3. row.retryAt <= clock
      BY <1>2, <1>3, <1>6, <2>3 DEF Delay
    <3> HIDE DEF s, settled
    <3>4. settled.failures = 0 /\ settled.retryAt <= clock
      BY <1>1, <1>2, <1>4, <2>2, <2>3, <3>3
    <3>5. settled.retryAt \in Nat
      BY <1>1, <1>2, <1>4, <2>2
    <3> QED BY <1>1, <3>2, <3>4, <3>5 DEF s, settled
  <2>4. CASE row.failures > 0
    <3>1. s = IF clock >= row.lastFailure + QuietPeriod[k] THEN Shared!Clear
              ELSE Shared!Failed(row.failures, row.lastFailure)
      BY <1>1, <1>2, <1>6, <2>4, SubjectFields, FailedLater
    <3> HIDE DEF s, settled
    <3>2. CASE clock >= row.lastFailure + QuietPeriod[k]
      <4>1. settled.failures = 0 /\ settled.retryAt = clock
        BY <1>4, <2>2, <3>2
      <4>2. s = Shared!Clear
        BY <3>1, <3>2
      <4> QED BY <1>1, <4>1, <4>2, ClearStays DEF s, settled
    <3>3. CASE ~(clock >= row.lastFailure + QuietPeriod[k])
      <4>1. settled = row
        BY <2>2, <3>3
      <4>2. s = Shared!Failed(row.failures, row.lastFailure)
        BY <3>1, <3>3
      <4>3. s.until = 0 /\ s.failures = row.failures /\ Shared!Backoff(k, s) = row.retryAt
        BY <1>1, <1>2, <1>3, <1>6, <4>2, FailedLater
      <4> QED BY <1>1, <1>2, <4>1, <4>3 DEF s, settled
    <3> QED BY <3>2, <3>3
  <2> QED BY <1>2, <2>3, <2>4
<1> QED BY <1>5, <1>6

\* A live lease is seen as it is.
LEMMA LiveSeen ==
  ASSUME Inv, NEW k \in Key, NEW row, RowOK(row), clock < row.until
  PROVE  /\ Shared!AtTime(k, SubjectOf(row), clock) = SubjectOf(row)
         /\ SubjectOf(row).until = row.until
<1>1. clock \in Nat
  BY PgAttemptsAssumption DEF Inv, SharedOK
<1>2. /\ row.failures \in Nat /\ row.until \in Nat /\ row.until # 0
  BY <1>1, RowFields
<1>3. SubjectOf(row) = Shared!Leased(row.failures, row.until, row.token)
  BY <1>2, SubjectFields
<1> QED BY <1>1, <1>2, <1>3, LeasedLater

----------------------------------------------------------------------------
(* Decisions                                                               *)

\* What an admission that decides knows of the subject's row.
LEMMA DecideSeen ==
  ASSUME Inv, CallsInv, NEW t \in Library, pc[t] = "decide", NEW k, k = call[t].key
  PROVE  /\ k \in Key /\ Admitting(t) /\ RowOK(View(t)[k]) /\ RowOK(rows[k]) /\ HistoryOK(k, rows[k])
         /\ Claimant(k) = None
         /\ View(t)[k].stored => View(t)[k] = rows[k]
         /\ ~View(t)[k].stored => Shared!AtTime(k, SubjectOf(rows[k]), clock) = Shared!Clear
<1>0. t \in Session
  BY DEF Session
<1>1. /\ CallOK(t) /\ LocksOK(t) /\ WorkOK(t) /\ ProgressOK(t)
      /\ Admitting(t) => GrantOK(t)
  BY <1>0, SessionFacts, TransactionFacts
<1>2. k \in Key /\ Admitting(t)
  BY <1>1 DEF CallOK, Admitting
<1>3. RowOK(View(t)[k]) /\ RowOK(rows[k]) /\ HistoryOK(k, rows[k])
  BY <1>0, <1>2, ViewFacts DEF Inv, SharedOK, RowOK, CallsInv
<1>4. View(t)[k] = IF k \in DOMAIN work[t] THEN work[t][k] ELSE rows[k]
  BY <1>2 DEF View
<1>5. k \in DOMAIN work[t] => ~View(t)[k].stored
  BY <1>1, <1>4 DEF ProgressOK
<1>6. Claimant(k) = None
  <2>1. View(t)[k].stored \/ k \in DOMAIN work[t] => holder[Row(k)] = t
    BY <1>1 DEF LocksOK, WorkOK
  <2> QED BY <1>0, <1>2, <1>4, <2>1, Unclaimed
<1>7. ASSUME ~View(t)[k].stored PROVE Shared!AtTime(k, SubjectOf(rows[k]), clock) = Shared!Clear
  <2>1. CASE k \in DOMAIN work[t]
    <3>1. rows[k].stored /\ Expiry(k) <= clock
      BY <1>1, <1>2, <1>4, <1>7, <2>1 DEF GrantOK
    <3> QED BY <1>2, <3>1, ExpiredIsClear
  <2>2. CASE k \notin DOMAIN work[t]
    <3>1. rows[k] = NoRow
      BY <1>3, <1>4, <1>7, <2>2 DEF HistoryOK
    <3>2. clock \in Nat
      BY PgAttemptsAssumption DEF Inv, SharedOK
    <3> QED BY <1>2, <3>1, <3>2, NoRowClear, ClearStays
  <2> QED BY <2>1, <2>2
<1> QED BY <1>2, <1>3, <1>4, <1>5, <1>6, <1>7

\* A denial decided on the committed state.
LEMMA DenyRefines ==
  ASSUME NEW t \in Library, OthersKept(t), rows' = rows, clock' = clock, receipts' = receipts,
         call'[t] = call[t], CallStatus(t) = "open", CallStatus(t)' = "idle",
         reply[t].outcome = "pending", call[t].kind = "admit",
         NEW k \in Key, k = call[t].key, Claimant(k) = None,
         [j \in Key |-> Claimant(j)'] = [j \in Key |-> Claimant(j)],
         NEW s, s = Shared!AtTime(k, SubjectOf(rows[k]), clock),
         \/ reply'[t].outcome = "busy" /\ s.until > clock /\ reply'[t].retry = s.until - clock
         \/ /\ reply'[t].outcome = "backoff" /\ s.until = 0 /\ clock < Shared!Backoff(k, s)
            /\ reply'[t].retry = Shared!Backoff(k, s) - clock
         \/ reply'[t].outcome = "storage_capacity" /\ s = Shared!Clear
  PROVE  Shared!Next
<1>1. [j \in Key |-> SubjectOf(rows'[j])] = [j \in Key |-> SubjectOf(rows[j])]
  OBVIOUS
<1>2. [u \in Library |-> call'[u]] = [u \in Library |-> call[u]]
  BY DEF OthersKept, Session
<1>3. [u \in Library |-> call[u]][t].key = k /\ [u \in Library |-> call[u]][t].kind = "admit"
  OBVIOUS
<1>4. Shared!Seen(k, clock) = s
  <2>1. [j \in Key |-> SubjectOf(rows[j])][k] = SubjectOf(rows[k])
    OBVIOUS
  <2> QED BY <2>1 DEF Shared!Seen
<1>5. /\ [u \in Library |-> CallStatus(u)][t] = "open"
      /\ [u \in Library |-> CallStatus(u)'][t] = "idle"
      /\ [u \in Library |-> reply[u]][t].outcome = "pending"
      /\ [j \in Key |-> Claimant(j)][k] = None
      /\ [u \in Library |-> reply'[u]][t] = reply'[t]
  OBVIOUS
<1> DEFINE Fits == CASE reply'[t].outcome = "busy" -> s.until > clock /\ reply'[t].retry = s.until - clock
                     [] reply'[t].outcome = "backoff" ->
                          /\ s.until = 0 /\ clock < Shared!Backoff(k, s)
                          /\ reply'[t].retry = Shared!Backoff(k, s) - clock
                     [] reply'[t].outcome = "storage_capacity" -> s = Shared!Clear
                     [] OTHER -> FALSE
<1>6. Fits
  <2>1. CASE reply'[t].outcome = "busy" /\ s.until > clock /\ reply'[t].retry = s.until - clock
    BY <2>1
  <2>2. CASE /\ reply'[t].outcome = "backoff" /\ s.until = 0 /\ clock < Shared!Backoff(k, s)
             /\ reply'[t].retry = Shared!Backoff(k, s) - clock
    BY <2>2
  <2>3. CASE reply'[t].outcome = "storage_capacity" /\ s = Shared!Clear
    BY <2>3
  <2> QED BY <2>1, <2>2, <2>3
<1>7. Shared!Deny(t)
  BY <1>1, <1>2, <1>3, <1>4, <1>5, <1>6, Zenon DEF Shared!Deny, Shared!Waiting
<1> QED BY <1>7, ClientStep

\* A row with a lease stands for a leased subject.
LEMMA LeasedSubject ==
  \A row : row.until # 0 => SubjectOf(row) = Shared!Leased(row.failures, row.until, row.token)
BY DEF SubjectOf, Shared!Leased

\* The row that an admission which is due a lease writes.
LEMMA GrantIsDue ==
  ASSUME Inv, NEW k \in Key, NEW base \in RowType, base.stored, base.lastFailure <= clock, token < MaxToken,
         NEW s, s = Shared!AtTime(k, SubjectOf(rows[k]), clock),
         s.until = 0, clock >= Shared!Backoff(k, s), s.failures = base.failures,
         NEW new, new = [base EXCEPT !.retryAt = clock, !.until = clock + LeasePeriod[k], !.token = token + 1]
  PROVE  HistoryOK(k, new) /\ Due(k, rows[k], new) /\ new.token = token + 1 /\ new.stored
<1>1. /\ RowOK(new) /\ new.stored = base.stored
      /\ new.failures = base.failures /\ new.until = clock + LeasePeriod[k]
      /\ new.token = token + 1 /\ new.token # 0 /\ new.until # 0
  BY GrantedRow
<1>2. new.lastFailure = base.lastFailure
  BY DEF RowType
<1>3. clock \in Nat /\ LeasePeriod[k] \in Nat
  BY PgAttemptsAssumption, AttemptPolicyAssumption DEF Inv, SharedOK
<1>4. HistoryOK(k, new)
  BY <1>1, <1>2, <1>3 DEF HistoryOK
<1>5. SubjectOf(new) = Shared!Leased(s.failures, clock + LeasePeriod[k], new.token)
  <2>1. SubjectOf(new) = Shared!Leased(new.failures, new.until, new.token)
    <3>1. new.until # 0
      BY <1>1
    <3> QED BY <3>1, LeasedSubject
  <2>2. new.failures = s.failures /\ new.until = clock + LeasePeriod[k]
    BY <1>1
  <2> QED BY <2>1, <2>2, Zenon
<1>6. clock \in 0..clock
  BY <1>3
<1>7. Due(k, rows[k], new)
  BY <1>5, <1>6 DEF Due
<1> QED BY <1>1, <1>4, <1>7

\* The last failure admission reckons with is in the past.
LEMMA SettledPast ==
  ASSUME Inv, NEW k \in Key, NEW row, RowOK(row), HistoryOK(k, row), row.stored, clock >= row.until
  PROVE  Settled(k, row).lastFailure <= clock
<1>1. row \in RowType
  BY DEF RowOK
<1>2. clock \in Nat /\ row.lastFailure <= clock
  BY PgAttemptsAssumption DEF Inv, SharedOK, HistoryOK
<1>3. Lapsed(k, row).lastFailure <= clock /\ DOMAIN Lapsed(k, row) = DOMAIN row
  <2>1. CASE row.until = 0
    BY <1>2, <2>1 DEF Lapsed
  <2>2. CASE row.until # 0
    <3>1. Lapsed(k, row).lastFailure = row.until /\ DOMAIN Lapsed(k, row) = DOMAIN row
      BY <1>1, <2>2 DEF Lapsed, RowType
    <3> QED BY <3>1
  <2> QED BY <2>1, <2>2
<1> DEFINE lapsed == Lapsed(k, row)
<1>4. Settled(k, row) \in {lapsed, [lapsed EXCEPT !.failures = 0, !.retryAt = clock]}
  BY DEF Settled
<1>5. DOMAIN row = {"stored", "slot", "failures", "lastFailure", "retryAt", "until", "token"}
  BY <1>1 DEF RowType
<1> HIDE DEF lapsed
<1>6. [lapsed EXCEPT !.failures = 0, !.retryAt = clock].lastFailure = lapsed.lastFailure
  BY <1>3, <1>5 DEF lapsed
<1> QED BY <1>3, <1>4, <1>6 DEF lapsed

\* A new row has no failures.
LEMMA NewRowFields ==
  ASSUME NEW slot \in Nat, NEW at \in Nat
  PROVE  LET base == [NoRow EXCEPT !.stored = TRUE, !.slot = slot, !.lastFailure = at]
         IN  base.failures = 0 /\ base.lastFailure = at
BY DEF NoRow

\* The row an admission that is due a lease starts from, when it is due one, and what
\* the promise sees of the subject.
BaseOf(t) ==
    IF View(t)[call[t].key].stored THEN Settled(call[t].key, View(t)[call[t].key])
    ELSE [NoRow EXCEPT !.stored = TRUE, !.slot = Min(FreeSlots(t, Shard[call[t].key])),
                       !.lastFailure = clock]

Admissible(t) ==
    IF View(t)[call[t].key].stored
    THEN /\ clock >= View(t)[call[t].key].until
         /\ clock >= Settled(call[t].key, View(t)[call[t].key]).retryAt
    ELSE ~NoRoom(t, Shard[call[t].key])

SeenBy(t) == Shared!AtTime(call[t].key, SubjectOf(rows[call[t].key]), clock)

\* The row admission starts from keeps the failures that the promise sees.
LEMMA BaseFits ==
  ASSUME Inv, CallsInv, NEW t \in Library, pc[t] = "decide", Admissible(t)
  PROVE  /\ BaseOf(t) \in RowType /\ BaseOf(t).stored /\ BaseOf(t).lastFailure <= clock
         /\ SeenBy(t).until = 0 /\ clock >= Shared!Backoff(call[t].key, SeenBy(t))
         /\ SeenBy(t).failures = BaseOf(t).failures
<1> DEFINE k == call[t].key
           row == View(t)[k]
           base == BaseOf(t)
           s == SeenBy(t)
<1>0. /\ k = call[t].key /\ row = View(t)[k] /\ s = Shared!AtTime(k, SubjectOf(rows[k]), clock)
      /\ base = IF row.stored THEN Settled(k, row)
                ELSE [NoRow EXCEPT !.stored = TRUE, !.slot = Min(FreeSlots(t, Shard[k])),
                                   !.lastFailure = clock]
      /\ IF row.stored THEN clock >= row.until /\ clock >= Settled(k, row).retryAt
         ELSE ~NoRoom(t, Shard[k])
  BY DEF BaseOf, Admissible, SeenBy
<1>z. SUFFICES /\ base \in RowType /\ base.stored /\ base.lastFailure <= clock
                /\ s.until = 0 /\ clock >= Shared!Backoff(k, s) /\ s.failures = base.failures
  OBVIOUS
<1> HIDE DEF k, row, base, s
<1>1. /\ k \in Key /\ RowOK(View(t)[k]) /\ RowOK(rows[k]) /\ HistoryOK(k, rows[k])
      /\ View(t)[k].stored => View(t)[k] = rows[k]
      /\ ~View(t)[k].stored => s = Shared!Clear
  BY <1>0, DecideSeen
<1>2. clock \in Nat
  BY PgAttemptsAssumption DEF Inv, SharedOK
<1>3. CASE row.stored
  <2>1. base = Settled(k, row) /\ row = rows[k] /\ RowOK(row) /\ HistoryOK(k, row) /\ row \in RowType
    BY <1>0, <1>1, <1>3 DEF RowOK
  <2>2. base \in RowType /\ base.stored = row.stored
    BY <1>1, <2>1, SettledOK
  <2>3. base.lastFailure <= clock
    BY <1>0, <1>1, <1>3, <2>1, SettledPast
  <2>4. /\ s.until = 0 /\ s.failures = Settled(k, row).failures
        /\ clock >= Settled(k, row).retryAt <=> clock >= Shared!Backoff(k, s)
    BY <1>0, <1>1, <1>3, <2>1, SettledSeen
  <2> QED BY <1>0, <1>3, <2>1, <2>2, <2>3, <2>4
<1>4. CASE ~row.stored
  <2> DEFINE slot == Min(FreeSlots(t, Shard[k]))
  <2>1. base = [NoRow EXCEPT !.stored = TRUE, !.slot = slot, !.lastFailure = clock]
    BY <1>0, <1>4
  <2>2. slot \in Nat
    BY <1>0, <1>4, FreshSlot
  <2> HIDE DEF slot
  <2> DEFINE b == [NoRow EXCEPT !.stored = TRUE, !.slot = slot, !.lastFailure = clock]
  <2>6. b \in RowType /\ b.stored
    BY <1>2, <2>2, NewRow
  <2>7. b.failures = 0 /\ b.lastFailure = clock
    BY <1>2, <2>2, NewRowFields
  <2>3. base \in RowType /\ base.stored /\ base.failures = 0 /\ base.lastFailure = clock
    BY <2>1, <2>6, <2>7, Zenon
  <2>4. s = Shared!Clear
    BY <1>0, <1>1, <1>4
  <2>5. s.until = 0 /\ s.failures = 0 /\ Shared!Backoff(k, s) = 0
    BY <1>1, <1>2, <2>4, ClearStays
  <2> QED BY <1>2, <2>3, <2>5
<1> QED BY <1>3, <1>4

\* The decision of an admission: a denial that is exact, or a lease that is due.
LEMMA DecideRefines ==
  ASSUME Inv, CallsInv, NEW t \in Library, Decide(t)
  PROVE  CallsInv' /\ Shared!Next
<1>0. t \in Session /\ t \notin Host
  BY PgAttemptsAssumption DEF Session
<1>1. /\ KeepsOthers(t) /\ OthersKept(t) /\ Shape /\ CallOK(t) /\ AnswerOK(t) /\ ProgressOK(t)
      /\ Admitting(t) => GrantOK(t)
      /\ \A j \in DOMAIN work[t] : HistoryOK(j, work[t][j])
  BY <1>0, DecideInv, SessionFacts, TransactionFacts, KeptIsOthersKept DEF Inv
<1>2. /\ pc[t] = "decide" /\ Waiting(t) /\ rows' = rows
      /\ clock' = clock /\ call' = call /\ receipts' = receipts /\ claims' = claims
  BY DEF Decide
<1> DEFINE k == call[t].key
           row == View(t)[k]
           settled == Settled(k, row)
           base == IF row.stored THEN settled
                   ELSE [NoRow EXCEPT !.stored = TRUE, !.slot = Min(FreeSlots(t, Shard[k])),
                                      !.lastFailure = clock]
           new == [base EXCEPT !.retryAt = clock, !.until = clock + LeasePeriod[k], !.token = token + 1]
           s == Shared!AtTime(k, SubjectOf(rows[k]), clock)
<1> DEFINE Denied(r) == reply' = [reply EXCEPT ![t] = r] /\ UNCHANGED <<holder, work, token>>
<1>3. /\ k \in Key /\ Admitting(t) /\ RowOK(row) /\ RowOK(rows[k]) /\ HistoryOK(k, rows[k])
      /\ Claimant(k) = None
      /\ row.stored => row = rows[k]
      /\ ~row.stored => s = Shared!Clear
  BY <1>2, DecideSeen
<1>4. call[t].kind = "admit" /\ reply[t].outcome = "pending" /\ CallStatus(t) = "open"
  BY <1>2, <1>3 DEF Admitting, Waiting, Pending, Reply, CallStatus
<1>5. \/ /\ row.stored /\ clock < row.until
         /\ Denied(Reply("busy", row.until - clock)) /\ UNCHANGED pc
      \/ /\ row.stored /\ clock >= row.until /\ clock < settled.retryAt
         /\ Denied(Reply("backoff", settled.retryAt - clock)) /\ UNCHANGED pc
      \/ /\ ~row.stored /\ NoRoom(t, Shard[k])
         /\ Denied(Reply("storage_capacity", 0)) /\ pc' = [pc EXCEPT ![t] = "ready"]
      \/ /\ IF row.stored THEN clock >= row.until /\ clock >= settled.retryAt ELSE ~NoRoom(t, Shard[k])
         /\ token < MaxToken /\ token' = token + 1 /\ Write(t, k, new) /\ TakeAll(t, {Row(k)})
         /\ pc' = [pc EXCEPT ![t] = "ready"] /\ reply' = reply
  BY DEF Decide, AfterNoRoom
<1> HIDE DEF k, row, settled, base, new, s
<1>6. ASSUME NEW o, NEW n, Denied(Reply(o, n)), pc' = pc \/ pc' = [pc EXCEPT ![t] = "ready"],
             o \in {"busy", "backoff", "storage_capacity"},
             \/ o = "busy" /\ s.until > clock /\ n = s.until - clock
             \/ o = "backoff" /\ s.until = 0 /\ clock < Shared!Backoff(k, s) /\ n = Shared!Backoff(k, s) - clock
             \/ o = "storage_capacity" /\ s = Shared!Clear,
             pc' # pc => o = "storage_capacity"
      PROVE  CallsInv' /\ Shared!Next
  <2>1. /\ reply'[t].outcome = o /\ reply'[t].retry = n /\ pc'[t] \in {"decide", "ready"}
        /\ work' = work /\ holder' = holder /\ token' = token
    BY <1>0, <1>1, <1>2, <1>6 DEF Shape, Reply
  <2>2. pc'[t] = "ready" => o = "storage_capacity"
    BY <1>2, <1>6
  <2>3. Admitting(t)' /\ call'[t].kind = "admit"
    BY <1>2, <1>4, <2>1 DEF Admitting
  <2>4. AnswerOK(t)'
    BY <1>6, <2>1, <2>3 DEF AnswerOK
  <2>5. ProgressOK(t)'
    BY <1>0, <1>1, <1>2, <1>6, <2>1, <2>2, <2>3 DEF ProgressOK
  <2>6. CallsInv'
    BY <1>0, <1>1, <1>2, <1>3, <2>1, <2>3, <2>4, <2>5, PlainStep
  <2>7. CallStatus(t)' = "idle"
    BY <1>6, <2>1 DEF CallStatus, Waiting, Pending, Reply
  <2>8. [j \in Key |-> Claimant(j)'] = [j \in Key |-> Claimant(j)]
    BY <1>0, <1>1, <1>2, <2>1, ClaimsStay DEF Claims
  <2>9. k = call[t].key /\ s = Shared!AtTime(k, SubjectOf(rows[k]), clock)
    BY DEF k, s
  <2>10. Shared!Next
    BY <1>1, <1>2, <1>3, <1>4, <1>6, <2>1, <2>7, <2>8, <2>9, DenyRefines
  <2> QED BY <2>6, <2>10
<1>7. CASE /\ row.stored /\ clock < row.until
           /\ Denied(Reply("busy", row.until - clock)) /\ UNCHANGED pc
  <2>1. s = SubjectOf(row) /\ s.until = row.until
    BY <1>3, <1>7, LiveSeen DEF s
  <2> QED BY <1>6, <1>7, <2>1
<1>8. CASE /\ row.stored /\ clock >= row.until /\ clock < settled.retryAt
           /\ Denied(Reply("backoff", settled.retryAt - clock)) /\ UNCHANGED pc
  <2>1. s.until = 0 /\ settled.retryAt = Shared!Backoff(k, s)
    BY <1>3, <1>8, SettledSeen DEF s, settled
  <2> QED BY <1>6, <1>8, <2>1
<1>9. CASE /\ ~row.stored /\ NoRoom(t, Shard[k])
           /\ Denied(Reply("storage_capacity", 0)) /\ pc' = [pc EXCEPT ![t] = "ready"]
  BY <1>3, <1>6, <1>9
<1>10. CASE /\ IF row.stored THEN clock >= row.until /\ clock >= settled.retryAt ELSE ~NoRoom(t, Shard[k])
            /\ token < MaxToken /\ token' = token + 1 /\ Write(t, k, new) /\ TakeAll(t, {Row(k)})
            /\ pc' = [pc EXCEPT ![t] = "ready"] /\ reply' = reply
  <2>1. /\ base \in RowType /\ base.stored /\ base.lastFailure <= clock
        /\ s.until = 0 /\ clock >= Shared!Backoff(k, s) /\ s.failures = base.failures
    <3>1. /\ k = call[t].key /\ s = SeenBy(t) /\ base = BaseOf(t) /\ Admissible(t)
      BY <1>10 DEF k, row, settled, base, s, BaseOf, SeenBy, Admissible
    <3> QED BY <1>2, <3>1, BaseFits
  <2>2. HistoryOK(k, new) /\ Due(k, rows[k], new) /\ new.token = token + 1 /\ new.stored
    BY <1>3, <1>10, <2>1, GrantIsDue DEF s, new
  <2>3. /\ DOMAIN work'[t] = DOMAIN work[t] \cup {k}
        /\ \A j \in DOMAIN work'[t] : work'[t][j] = IF j = k THEN new ELSE work[t][j]
    BY <1>0, <1>2, <1>3, <1>10, WriteFacts
  <2>4. pc'[t] = "ready" /\ reply'[t] = reply[t]
    BY <1>0, <1>1, <1>10 DEF Shape
  <2>5. Admitting(t)' /\ call'[t].kind = "admit" /\ call'[t].key = k
    BY <1>2, <1>4, <2>4 DEF Admitting, k
  <2>6. AnswerOK(t)'
    BY <1>1, <1>4, <2>4, <2>5 DEF AnswerOK
  <2>7. ProgressOK(t)'
    BY <1>0, <1>4, <2>2, <2>3, <2>4, <2>5 DEF ProgressOK
  <2>8. (\A j \in DOMAIN work[t] : HistoryOK(j, work[t][j]))'
    <3>1. \A j \in DOMAIN work'[t] : HistoryOK(j, work'[t][j])
      BY <1>1, <2>2, <2>3
    <3> QED BY <1>2, <3>1 DEF HistoryOK
  <2>9. \A j \in DOMAIN work[t] : ~work[t][j].stored
    BY <1>1, <1>2 DEF ProgressOK
  <2>10. GrantOK(t)'
    <3>1. \A j \in DOMAIN work'[t] : work'[t][j].stored => j = k /\ Due(j, rows[j], work'[t][j])
      BY <2>2, <2>3, <2>9
    <3>2. \A j \in DOMAIN work'[t] : ~work'[t][j].stored => rows[j].stored /\ Expiry(j)' <= clock
      <4>1. \A j : Expiry(j)' = Expiry(j)
        BY <1>2 DEF Expiry
      <4> QED BY <1>1, <1>3, <2>2, <2>3, <4>1 DEF GrantOK
    <3> QED BY <1>2, <2>5, <3>1, <3>2 DEF GrantOK, Due
  <2>11. TokensMove(t)
    <3>1. token' \in 0..MaxToken
      BY <1>10, PgAttemptsAssumption DEF Inv, SharedOK
    <3> QED BY <1>2, <1>10, <2>2, <2>3, <2>5, <3>1 DEF TokensMove
  <2>12. CallsInv'
    BY <1>0, <1>1, <1>2, <2>5, <2>6, <2>7, <2>8, <2>10, <2>11, CallsStep
  <2>13. \A j \in Key : Claims(t, j)' <=> Claims(t, j)
    BY <1>0, <1>4, <2>5 DEF Claims
  <2>14. CallStatus(t)' = CallStatus(t)
    BY <1>2, <2>4 DEF CallStatus, Waiting
  <2>15. Shared!Next
    BY <1>0, <1>1, <1>2, <2>4, <2>13, <2>14, QuietRefines
  <2> QED BY <2>12, <2>15
<1> QED BY <1>5, <1>7, <1>8, <1>9, <1>10

----------------------------------------------------------------------------
(* Claims                                                                  *)

\* The row a completion leaves, and its history.
LEMMA CompletedFields ==
  ASSUME Inv, NEW k \in Key, NEW row \in RowType, row.stored, NEW success
  PROVE  LET new == CompletedRow(k, row, success)
         IN  /\ new.until = 0 /\ new.token = 0 /\ new.lastFailure = clock
             /\ new.failures = IF success THEN 0 ELSE row.failures + 1
             /\ HistoryOK(k, new)
<1> DEFINE failures == IF success THEN 0 ELSE row.failures + 1
           end == clock + Delay(k, failures)
           new == CompletedRow(k, row, success)
<1>1. clock \in Nat /\ failures \in Nat
  BY PgAttemptsAssumption DEF Inv, SharedOK, RowType
<1>2. new = [row EXCEPT !.failures = failures, !.lastFailure = clock, !.retryAt = end, !.until = 0,
                        !.token = 0]
  BY DEF CompletedRow
<1>3. end = clock + Delay(k, failures)
  OBVIOUS
<1> HIDE DEF failures, end, new
<1>4. /\ new.until = 0 /\ new.token = 0 /\ new.lastFailure = clock /\ new.failures = failures
      /\ new.retryAt = end /\ new.stored = row.stored
  BY <1>2 DEF RowType
<1>5. HistoryOK(k, new)
  BY <1>1, <1>3, <1>4 DEF HistoryOK
<1> QED BY <1>4, <1>5 DEF new, failures

\* A statement that locks the row it finds locks no other.
LEMMA LocksItsRow ==
  ASSUME NEW t, NEW k \in Key, NEW stored, TakeAll(t, IF stored THEN {Row(k)} ELSE {})
  PROVE  \A j \in Key : holder'[Row(j)] = t => holder[Row(j)] = t \/ j = k
BY LockFacts DEF TakeAll

\* A row that session t may write over the committed one.
ClaimFits(t, k, new) ==
    /\ rows[k].until # 0
    /\ \/ /\ t \in Host /\ new.token # 0
          /\ new.until = rows[k].until /\ new.failures = rows[k].failures
       \/ /\ t \in Library => call[t].success
          /\ new.until = 0 /\ new.failures = 0
       \/ /\ t \in Library => ~call[t].success
          /\ new.until = 0 /\ new.failures = rows[k].failures + 1
          /\ rows[k].until <= new.lastFailure + LeasePeriod[k]

\* The outcome of a live lease fits the row.
LEMMA OutcomeFits ==
  ASSUME Inv, CallsInv, NEW t \in Session, NEW k \in Key, rows[k].until # 0,
         NEW row \in RowType, row.stored, row.failures = rows[k].failures,
         NEW success, t \in Library => success = call[t].success
  PROVE  ClaimFits(t, k, CompletedRow(k, row, success))
<1> DEFINE new == CompletedRow(k, row, success)
<1>1. /\ new.until = 0 /\ new.lastFailure = clock
      /\ new.failures = IF success THEN 0 ELSE rows[k].failures + 1
  BY CompletedFields
<1>2. rows[k].until <= clock + LeasePeriod[k]
  BY DEF CallsInv, HistoryOK
<1> HIDE DEF new
<1>3. ClaimFits(t, k, new)
  BY <1>1, <1>2 DEF ClaimFits
<1> QED BY <1>3 DEF new

\* A step of t that writes one row.
LEMMA WriteOne ==
  ASSUME Inv, CallsInv, NEW t \in Session, KeepsOthers(t), ~Admitting(t)', clock' = clock, call' = call,
         NEW k \in Key, NEW new, DOMAIN work[t] \subseteq {k}, Write(t, k, new),
         HistoryOK(k, new), ClaimFits(t, k, new), receipts' \subseteq receipts,
         \/ new.token = 0 /\ token' = token /\ claims' \subseteq claims
         \/ /\ token' = token + 1 /\ token' \in 0..MaxToken /\ new.token = token + 1
            /\ \A c \in claims' : c \in claims \/ (c.token = token + 1 /\ c.tx = t),
         AnswerOK(t)', ProgressOK(t)'
  PROVE  CallsInv'
<1>1. rows' = rows
  BY DEF KeepsOthers
<1>2. DOMAIN work'[t] = {k} /\ work'[t][k] = new
  BY <1>1, WriteFacts
<1>3. (\A j \in DOMAIN work[t] : HistoryOK(j, work[t][j]))'
  BY <1>2 DEF HistoryOK
<1>4. ClaimOK(t)'
  BY <1>1, <1>2 DEF ClaimOK, ClaimFits
<1>5. TokensMove(t)
  <2>1. /\ token' = token \/ (token' = token + 1 /\ token' \in 0..MaxToken)
        /\ receipts' \subseteq receipts
        /\ call'[t] = call[t]
    OBVIOUS
  <2>2. \A j \in DOMAIN work'[t] : work'[t][j].token # 0 =>
            token' = token + 1 /\ work'[t][j].token = token + 1
    BY <1>2
  <2>3. \A c \in claims' :
            \/ \E d \in claims : c.token = d.token /\ c.tx \in {d.tx, None}
            \/ token' = token + 1 /\ c.token = token + 1 /\ c.tx = t
    OBVIOUS
  <2> QED BY <2>1, <2>2, <2>3 DEF TokensMove
<1> QED BY <1>3, <1>4, <1>5, CallsStep

\* The receipt of a live lease is presented.
LEMMA ClaimRefines ==
  ASSUME Inv, Inv', NEW t \in Session, OthersKept(t), rows' = rows, clock' = clock, receipts' \subseteq receipts,
         NEW k \in Key, rows[k].until > clock,
         ~Claims(t, k), Claims(t, k)', \A j \in Key \ {k} : Claims(t, j)' <=> Claims(t, j),
         t \in Library => /\ call'[t] = call[t] /\ CallStatus(t)' = CallStatus(t) /\ reply'[t] = reply[t]
                          /\ call[t].kind = "complete" /\ call[t].key = k /\ call[t].token = rows[k].token,
         t \notin Library => [key |-> k, token |-> rows[k].token] \in receipts
  PROVE  Shared!Next
<1> DEFINE S == [j \in Key |-> SubjectOf(rows[j])]
           C == [j \in Key |-> Claimant(j)]
           D == [j \in Key |-> Claimant(j)']
<1>1. [j \in Key |-> SubjectOf(rows'[j])] = S
  OBVIOUS
<1>2. C[k] = None /\ D = [C EXCEPT ![k] = t] /\ D[k] = t
  BY ClaimMade
<1>3. /\ [u \in Library |-> call'[u]] = [u \in Library |-> call[u]]
      /\ [u \in Library |-> CallStatus(u)'] = [u \in Library |-> CallStatus(u)]
      /\ [u \in Library |-> reply'[u]] = [u \in Library |-> reply[u]]
  <2>1. \A u \in Library : call'[u] = call[u] /\ CallStatus(u)' = CallStatus(u) /\ reply'[u] = reply[u]
    BY OthersSeen
  <2> QED BY <2>1
<1>4. RowOK(rows[k])
  BY DEF Inv, SharedOK, RowOK
<1>5. S[k].until > clock /\ S[k].holder = rows[k].token
  BY <1>4, SubjectFields
<1>6. IF t \in Library
      THEN /\ [u \in Library |-> call[u]][t].kind = "complete" /\ [u \in Library |-> call[u]][t].key = k
           /\ [u \in Library |-> call[u]][t].token = S[k].holder
      ELSE [key |-> k, token |-> S[k].holder] \in receipts
  BY <1>5
<1>7. Shared!Claim(k, t)
  BY <1>1, <1>2, <1>3, <1>5, <1>6, Zenon DEF Shared!Claim
<1>8. Shared!Claim(k, D[k])
  BY <1>2, <1>7
<1> QED BY <1>8 DEF Shared!Next

\* complete presents its receipt: the claim, or a receipt that is stale.
LEMMA CompleteRefines ==
  ASSUME Inv, CallsInv, NEW t \in Library, Complete(t)
  PROVE  CallsInv' /\ Shared!Next
<1>0. t \in Session /\ t \notin Host
  BY PgAttemptsAssumption DEF Session
<1>1. Inv' /\ KeepsOthers(t) /\ OthersKept(t) /\ Shape /\ CallOK(t) /\ AnswerOK(t) /\ LocksOK(t)
  BY <1>0, CompleteInv, SessionFacts, TransactionFacts, KeptIsOthersKept DEF Inv
<1>k. PICK k : k = call[t].key
  OBVIOUS
<1> DEFINE row == View(t)[k]
           new == CompletedRow(k, row, call[t].success)
<1>2. /\ pc[t] = "complete" /\ pc'[t] = (IF Waiting(t) THEN "ready" ELSE "orphan")
      /\ call' = call /\ reply' = reply
      /\ rows' = rows /\ clock' = clock /\ token' = token /\ receipts' = receipts /\ claims' = claims
      /\ TakeAll(t, IF row.stored THEN {Row(k)} ELSE {})
      /\ IF row.stored /\ row.token = call[t].token /\ row.until > clock
         THEN Write(t, k, new) ELSE work' = work
  BY <1>0, <1>1, <1>k DEF Complete, Then, Shape, CompletionStatement, Live
<1>3. /\ work[t] = Nothing /\ DOMAIN work[t] = {} /\ \A l \in Locks : holder[l] # t
      /\ k \in Key /\ call[t].kind = "complete"
  BY <1>1, <1>2, <1>k DEF LocksOK, Nothing, CallOK
<1>4. row = rows[k] /\ RowOK(row) /\ row \in RowType /\ HistoryOK(k, row)
  <2>1. row = rows[k]
    BY <1>0, <1>3 DEF View
  <2> QED BY <1>3, <2>1 DEF Inv, SharedOK, RowOK, CallsInv
<1>5. AnswerOK(t)'
  BY <1>1, <1>2, <1>3 DEF AnswerOK
<1>6. \A j \in Key : holder'[Row(j)] = t => j = k
  <2>1. TakeAll(t, IF row.stored THEN {Row(k)} ELSE {}) /\ k \in Key
    BY <1>2, <1>3
  <2> HIDE DEF row
  <2>2. \A j \in Key : holder'[Row(j)] = t => holder[Row(j)] = t \/ j = k
    BY <2>1, LocksItsRow
  <2> QED BY <1>3, <2>2, LockFacts
<1>7. ~Admitting(t)' /\ CallStatus(t)' = CallStatus(t) /\ clock \in Nat
  BY <1>2, <1>3, PgAttemptsAssumption DEF Admitting, CallStatus, Waiting, Inv, SharedOK
<1>c. call'[t].key = k /\ call[t].key = k
  BY <1>2, <1>k
<1> HIDE DEF row, new
<1>8. CASE row.stored /\ row.token = call[t].token /\ row.until > clock
  <2>1. Write(t, k, new)
    BY <1>2, <1>8
  <2>2. DOMAIN work'[t] = {k}
    BY <1>0, <1>2, <1>3, <2>1, WriteFacts
  <2>3. /\ new.token = 0 /\ HistoryOK(k, new)
    BY <1>3, <1>4, <1>8, CompletedFields DEF new
  <2>4. ClaimFits(t, k, new)
    <3>1. rows[k].until # 0
      BY <1>4, <1>7, <1>8
    <3> QED BY <1>0, <1>3, <1>4, <1>8, <3>1, OutcomeFits DEF new
  <2>5. ProgressOK(t)'
    BY <1>0, <1>2, <1>3, <1>6, <1>7, <1>c, <2>2 DEF ProgressOK, Row
  <2>6. CallsInv'
    BY <1>0, <1>1, <1>2, <1>3, <1>5, <1>7, <2>1, <2>3, <2>4, <2>5, WriteOne
  <2>7. ~Claims(t, k) /\ Claims(t, k)' /\ \A j \in Key \ {k} : Claims(t, j)' <=> Claims(t, j)
    BY <1>2, <1>3, <2>2 DEF Claims
  <2>8. call[t].key = k /\ call[t].token = rows[k].token /\ rows[k].until > clock
    BY <1>4, <1>8, <1>c
  <2>9. Shared!Next
    BY <1>0, <1>1, <1>2, <1>3, <1>7, <2>7, <2>8, ClaimRefines
  <2> QED BY <2>6, <2>9
<1>9. CASE ~(row.stored /\ row.token = call[t].token /\ row.until > clock)
  <2>1. work' = work
    BY <1>2, <1>9
  <2>2. rows[k].token # call[t].token \/ rows[k].until <= clock
    <3>1. ~row.stored => row.until = 0
      BY <1>4 DEF HistoryOK, NoRow
    <3>2. row.until \in Nat
      BY <1>4, RowFields
    <3> QED BY <1>4, <1>7, <1>9, <3>1, <3>2
  <2>3. ProgressOK(t)'
    BY <1>0, <1>2, <1>3, <1>6, <1>7, <1>c, <2>1, <2>2 DEF ProgressOK, Row
  <2>4. CallsInv'
    BY <1>0, <1>1, <1>2, <1>3, <1>5, <2>1, <2>3, EmptyStep
  <2>5. \A j \in Key : Claims(t, j)' <=> Claims(t, j)
    BY <1>2, <2>1 DEF Claims
  <2>6. Shared!Next
    BY <1>0, <1>1, <1>2, <1>7, <2>5, QuietRefines
  <2> QED BY <2>4, <2>6
<1> QED BY <1>8, <1>9

\* What stays true of a host while it works.
LEMMA HostSteps ==
  ASSUME Inv, CallsInv, NEW h \in Host, pc[h] = "host", pc' = pc, call' = call, reply' = reply,
         \A i, j \in Key : holder'[Row(i)] = h /\ holder'[Row(j)] = h => i = j
  PROVE  /\ h \in Session /\ h \notin Library /\ ~Admitting(h)' /\ AnswerOK(h)' /\ ProgressOK(h)'
         /\ call'[h].kind = "none"
<1>1. h \in Session /\ h \notin Library
  BY PgAttemptsAssumption DEF Session
<1>2. CallOK(h) /\ AnswerOK(h)
  BY <1>1, SessionFacts, TransactionFacts
<1>3. call'[h].kind = "none" /\ pc'[h] = "host" /\ ~Admitting(h)'
  BY <1>2 DEF CallOK, NoCall, Admitting
<1>4. AnswerOK(h)'
  BY <1>2 DEF AnswerOK
<1>5. ProgressOK(h)'
  BY <1>3 DEF ProgressOK, Row
<1> QED BY <1>1, <1>3, <1>4, <1>5

\* A receipt is its key and its token.
LEMMA ReceiptFields ==
  ASSUME Inv, NEW r \in receipts
  PROVE  r.key \in Key /\ r.token \in 1..MaxToken /\ r = [key |-> r.key, token |-> r.token]
BY DEF Inv, SharedOK

\* complete_in presents its receipt in a transaction of the application.
LEMMA CompleteInRefines ==
  ASSUME Inv, CallsInv, NEW h \in Host, NEW r \in receipts, NEW success \in BOOLEAN,
         CompleteIn(h, r, success)
  PROVE  CallsInv' /\ Shared!Next
<1> DEFINE k == r.key
           row == View(h)[k]
           new == CompletedRow(k, row, success)
<1>1. Inv' /\ KeepsOthers(h) /\ OthersKept(h)
  BY CompleteInInv, KeptIsOthersKept
<1>2. /\ pc[h] = "host" /\ pc' = pc /\ call' = call /\ reply' = reply /\ Holds(h) = {}
      /\ rows' = rows /\ clock' = clock /\ token' = token /\ receipts' \subseteq receipts /\ claims' = claims
      /\ TakeAll(h, IF row.stored THEN {Row(k)} ELSE {})
      /\ IF row.stored /\ row.token = r.token /\ row.until > clock
         THEN Write(h, k, new) ELSE work' = work
  BY DEF CompleteIn, CompletionStatement, Live
<1>3. h \in Session /\ k \in Key
  BY ReceiptFields DEF Session
<1>4. DOMAIN work[h] = {} /\ row = rows[k] /\ \A l \in Locks : holder[l] # h
  BY <1>2, <1>3, NoLocksNoWork
<1>5. \A j \in Key : holder'[Row(j)] = h => j = k
  BY <1>2, <1>3, <1>4, LocksItsRow, LockFacts
<1>6. h \notin Library /\ ~Admitting(h)' /\ AnswerOK(h)' /\ ProgressOK(h)'
  BY <1>2, <1>5, HostSteps
<1>7. RowOK(row) /\ row \in RowType /\ clock \in Nat
  BY <1>3, <1>4, PgAttemptsAssumption DEF Inv, SharedOK, RowOK
<1> HIDE DEF k, row, new
<1>8. CASE row.stored /\ row.token = r.token /\ row.until > clock
  <2>1. Write(h, k, new)
    BY <1>2, <1>8
  <2>2. DOMAIN work'[h] = {k}
    BY <1>2, <1>3, <1>4, <2>1, WriteFacts
  <2>3. new.token = 0 /\ HistoryOK(k, new)
    BY <1>3, <1>7, <1>8, CompletedFields DEF new
  <2>4. ClaimFits(h, k, new)
    <3>1. rows[k].until # 0
      BY <1>4, <1>7, <1>8
    <3> QED BY <1>3, <1>4, <1>6, <1>7, <1>8, <3>1, OutcomeFits DEF new
  <2>5. CallsInv'
    BY <1>1, <1>2, <1>3, <1>4, <1>6, <2>1, <2>3, <2>4, WriteOne
  <2>6. ~Claims(h, k) /\ Claims(h, k)' /\ \A j \in Key \ {k} : Claims(h, j)' <=> Claims(h, j)
    BY <1>2, <1>4, <2>2 DEF Claims
  <2>7. [key |-> k, token |-> rows[k].token] \in receipts /\ rows[k].until > clock
    BY <1>4, <1>8, ReceiptFields DEF k
  <2>8. Shared!Next
    BY <1>1, <1>2, <1>3, <1>6, <2>6, <2>7, ClaimRefines
  <2> QED BY <2>5, <2>8
<1>9. CASE ~(row.stored /\ row.token = r.token /\ row.until > clock)
  <2>1. work' = work
    BY <1>2, <1>9
  <2>2. CallsInv'
    BY <1>1, <1>2, <1>3, <1>4, <1>6, <2>1, EmptyStep
  <2>3. \A j \in Key : Claims(h, j)' <=> Claims(h, j)
    BY <1>2, <2>1 DEF Claims
  <2>4. Shared!Next
    BY <1>1, <1>2, <1>3, <1>6, <2>3, QuietRefines
  <2> QED BY <2>2, <2>4
<1> QED BY <1>8, <1>9

\* claim_in presents its receipt and gives the lease a token of its own.
LEMMA ClaimInRefines ==
  ASSUME Inv, CallsInv, NEW h \in Host, NEW r \in receipts, ClaimIn(h, r)
  PROVE  CallsInv' /\ Shared!Next
<1> DEFINE k == r.key
           row == rows[k]
           new == [row EXCEPT !.token = token + 1]
           claim == [key |-> k, token |-> token + 1, tx |-> h]
<1>1. Inv' /\ KeepsOthers(h) /\ OthersKept(h)
  BY ClaimInInv, KeptIsOthersKept
<1>2. /\ pc[h] = "host" /\ pc' = pc /\ call' = call /\ reply' = reply /\ Holds(h) = {}
      /\ rows' = rows /\ clock' = clock /\ receipts' \subseteq receipts
      /\ TakeAll(h, IF row.stored THEN {Row(k)} ELSE {})
      /\ \/ /\ row.stored /\ row.token = r.token /\ row.until > clock /\ token < MaxToken
            /\ token' = token + 1 /\ Write(h, k, new) /\ claims' = claims \cup {claim}
         \/ token' = token /\ work' = work /\ claims' = claims
  BY DEF ClaimIn, Live
<1>3. h \in Session /\ k \in Key
  BY ReceiptFields DEF Session
<1>4. DOMAIN work[h] = {} /\ \A l \in Locks : holder[l] # h
  BY <1>2, <1>3, NoLocksNoWork
<1>5. \A j \in Key : holder'[Row(j)] = h => j = k
  BY <1>2, <1>3, <1>4, LocksItsRow, LockFacts
<1>6. h \notin Library /\ ~Admitting(h)' /\ AnswerOK(h)' /\ ProgressOK(h)'
  BY <1>2, <1>5, HostSteps
<1>7. RowOK(row) /\ row \in RowType /\ clock \in Nat /\ token \in Nat /\ HistoryOK(k, row)
  BY <1>3, <1>4, PgAttemptsAssumption DEF Inv, SharedOK, RowOK, CallsInv
<1>c. claim.token = token + 1 /\ claim.tx = h /\ row = rows[k]
  OBVIOUS
<1> HIDE DEF k, row, claim
<1>8. CASE /\ row.stored /\ row.token = r.token /\ row.until > clock /\ token < MaxToken
           /\ token' = token + 1 /\ Write(h, k, new) /\ claims' = claims \cup {claim}
  <2>1. /\ new.stored = row.stored /\ new.until = row.until /\ new.failures = row.failures
        /\ new.token = token + 1 /\ new.lastFailure = row.lastFailure
    BY <1>7 DEF RowType
  <2> HIDE DEF new
  <2>2. DOMAIN work'[h] = {k}
    BY <1>2, <1>3, <1>4, <1>8, WriteFacts
  <2>3. row.until # 0 /\ token + 1 # 0
    BY <1>7, <1>8
  <2>4. HistoryOK(k, new)
    BY <1>7, <1>8, <2>1, <2>3 DEF HistoryOK
  <2>5. ClaimFits(h, k, new)
    BY <1>c, <2>1, <2>3 DEF ClaimFits
  <2>6. token' \in 0..MaxToken
    BY <1>7, <1>8, PgAttemptsAssumption
  <2>7. \A c \in claims' : c \in claims \/ (c.token = token + 1 /\ c.tx = h)
    BY <1>8, <1>c
  <2>8. CallsInv'
    BY <1>1, <1>2, <1>3, <1>4, <1>6, <1>8, <2>1, <2>4, <2>5, <2>6, <2>7, WriteOne
  <2>9. ~Claims(h, k) /\ Claims(h, k)' /\ \A j \in Key \ {k} : Claims(h, j)' <=> Claims(h, j)
    BY <1>2, <1>4, <2>2 DEF Claims
  <2>10. [key |-> k, token |-> rows[k].token] \in receipts /\ rows[k].until > clock
    BY <1>8, <1>c, ReceiptFields DEF k
  <2>11. Shared!Next
    BY <1>1, <1>2, <1>3, <1>6, <2>9, <2>10, ClaimRefines
  <2> QED BY <2>8, <2>11
<1>9. CASE token' = token /\ work' = work /\ claims' = claims
  <2>1. CallsInv'
    BY <1>1, <1>2, <1>3, <1>4, <1>6, <1>9, EmptyStep
  <2>2. \A j \in Key : Claims(h, j)' <=> Claims(h, j)
    BY <1>2, <1>9 DEF Claims
  <2>3. Shared!Next
    BY <1>1, <1>2, <1>3, <1>6, <2>2, QuietRefines
  <2> QED BY <2>1, <2>3
<1> QED BY <1>2, <1>8, <1>9

\* finish_in records the outcome of its own claim, or nothing.
LEMMA FinishInRefines ==
  ASSUME Inv, CallsInv, NEW h \in Host, NEW c \in claims, NEW success \in BOOLEAN,
         FinishIn(h, c, success)
  PROVE  CallsInv' /\ Shared!Next
<1> DEFINE k == c.key
           row == View(h)[k]
           new == CompletedRow(k, row, success)
<1>1. Inv' /\ KeepsOthers(h) /\ OthersKept(h)
  BY FinishInInv, KeptIsOthersKept
<1>2. /\ pc[h] = "host" /\ pc' = pc /\ call' = call /\ reply' = reply /\ Holds(h) \subseteq {Row(k)}
      /\ rows' = rows /\ clock' = clock /\ token' = token /\ receipts' = receipts /\ claims' \subseteq claims
      /\ TakeAll(h, IF row.stored THEN {Row(k)} ELSE {})
      /\ IF row.stored /\ row.token = c.token /\ c.tx = h THEN Write(h, k, new) ELSE work' = work
  BY DEF FinishIn, CompletionStatement, SameTransaction
<1>3. h \in Session /\ k \in Key /\ c.token # 0
  BY DEF Session, Inv, SharedOK
<1>4. \A j \in Key : holder[Row(j)] = h => j = k
  BY <1>2, <1>3, LockFacts DEF Holds
<1>5. \A j \in Key : holder'[Row(j)] = h => j = k
  BY <1>2, <1>3, <1>4, LocksItsRow
<1>6. h \notin Library /\ ~Admitting(h)' /\ AnswerOK(h)' /\ ProgressOK(h)'
  BY <1>2, <1>5, HostSteps
<1>7. /\ WorkOK(h) /\ CallOK(h) /\ ~Admitting(h) /\ ClaimOK(h)
  <2>1. CallOK(h) /\ WorkOK(h)
    BY <1>3, SessionFacts
  <2>2. ~Admitting(h)
    BY <2>1 DEF CallOK, NoCall, Admitting
  <2> QED BY <1>3, <2>1, <2>2, TransactionFacts
<1>8. DOMAIN work[h] \subseteq {k}
  BY <1>4, <1>7 DEF WorkOK
<1>9. row = IF k \in DOMAIN work[h] THEN work[h][k] ELSE rows[k]
  BY <1>3 DEF View
<1>10. RowOK(row) /\ row \in RowType
  BY <1>3, ViewFacts DEF RowOK
<1> HIDE DEF k, row, new
<1>11. CASE row.stored /\ row.token = c.token /\ c.tx = h
  <2>1. Write(h, k, new)
    BY <1>2, <1>11
  <2>2. Fresh(h, c.token)
    BY <1>3, <1>11, PgAttemptsAssumption DEF CallsInv
  <2>3. k \in DOMAIN work[h] /\ work[h][k] = row
    BY <1>3, <1>9, <1>11, <2>2 DEF Fresh
  <2>4. rows[k].until # 0 /\ row.until # 0
    BY <1>3, <1>7, <1>10, <1>11, <2>3 DEF ClaimOK, RowOK
  <2>5. row.failures = rows[k].failures
    BY <1>7, <2>3, <2>4 DEF ClaimOK
  <2>6. new.token = 0 /\ HistoryOK(k, new)
    BY <1>3, <1>10, <1>11, CompletedFields DEF new
  <2>7. ClaimFits(h, k, new)
    BY <1>3, <1>6, <1>10, <1>11, <2>4, <2>5, OutcomeFits DEF new
  <2>8. CallsInv'
    BY <1>1, <1>2, <1>3, <1>6, <1>8, <2>1, <2>6, <2>7, WriteOne
  <2>9. DOMAIN work'[h] = DOMAIN work[h] \cup {k}
    BY <1>2, <1>3, <2>1, WriteFacts
  <2>10. \A j \in Key : Claims(h, j)' <=> Claims(h, j)
    BY <1>2, <2>3, <2>9 DEF Claims
  <2>11. Shared!Next
    BY <1>1, <1>2, <1>3, <1>6, <2>10, QuietRefines
  <2> QED BY <2>8, <2>11
<1>12. CASE ~(row.stored /\ row.token = c.token /\ c.tx = h)
  <2>1. work' = work
    BY <1>2, <1>12
  <2>2. (\A j \in DOMAIN work[h] : HistoryOK(j, work[h][j]))' /\ ClaimOK(h)'
    BY <1>2, <1>3, <1>7, <2>1, TransactionFacts DEF ClaimOK, HistoryOK
  <2>3. TokensMove(h)
    BY <1>2, <2>1 DEF TokensMove
  <2>4. CallsInv'
    BY <1>1, <1>2, <1>3, <1>6, <2>2, <2>3, CallsStep
  <2>5. \A j \in Key : Claims(h, j)' <=> Claims(h, j)
    BY <1>2, <2>1 DEF Claims
  <2>6. Shared!Next
    BY <1>1, <1>2, <1>3, <1>6, <2>5, QuietRefines
  <2> QED BY <2>4, <2>6
<1> QED BY <1>11, <1>12

\* Time passes: what was due stays due, and what has expired stays expired.
LEMMA TickRefines ==
  ASSUME Inv, CallsInv, Tick
  PROVE  CallsInv' /\ Shared!Next
<1>1. /\ clock' = clock + 1 /\ rows' = rows /\ holder' = holder /\ pc' = pc /\ call' = call
      /\ work' = work /\ token' = token /\ receipts' = receipts /\ claims' = claims /\ reply' = reply
  BY DEF Tick
<1>2. clock \in Nat /\ \A k \in Key : rows[k] \in RowType
  BY PgAttemptsAssumption DEF Inv, SharedOK
<1>3. ASSUME NEW k \in Key, NEW row \in RowType, HistoryOK(k, row) PROVE HistoryOK(k, row)'
  <2>1. LeasePeriod[k] \in Nat /\ row.until \in Nat /\ row.lastFailure \in Nat
    BY AttemptPolicyAssumption DEF RowType
  <2> QED BY <1>1, <1>2, <1>3, <2>1 DEF HistoryOK
<1>4. ASSUME NEW t \in Session PROVE TransactionOK(t)'
  <2>1. /\ AnswerOK(t) /\ ProgressOK(t) /\ TokensOK(t)
        /\ \A k \in DOMAIN work[t] : HistoryOK(k, work[t][k])
        /\ Admitting(t) => GrantOK(t)
        /\ ~Admitting(t) => ClaimOK(t)
    BY TransactionFacts
  <2>2. Admitting(t)' <=> Admitting(t)
    BY <1>1 DEF Admitting
  <2>3. AnswerOK(t)'
    BY <1>1, <2>1 DEF AnswerOK
  <2>4. \A n \in Nat : n <= clock => n <= clock + 1
    BY <1>2
  <2>5. \A k \in DOMAIN work[t] : k \in Key /\ work[t][k] \in RowType
    BY SessionFacts DEF WorkOK, RowOK
  <2>6. ProgressOK(t)'
    <3>1. call[t].kind = "complete" => call[t].key \in Key
      BY SessionFacts DEF CallOK
    <3>2. \A k \in Key : rows[k].until \in Nat
      BY <1>2 DEF RowType
    <3>3. call[t].kind = "complete" /\ rows[call[t].key].until <= clock => rows[call[t].key].until <= clock'
      BY <1>1, <2>4, <3>1, <3>2
    <3> QED BY <1>1, <2>1, <2>2, <3>3 DEF ProgressOK
  <2>7. TokensOK(t)'
    BY <1>1, <2>1 DEF TokensOK, Fresh
  <2>8. (\A k \in DOMAIN work[t] : HistoryOK(k, work[t][k]))'
    BY <1>1, <1>3, <2>1, <2>5
  <2>9. Admitting(t)' => GrantOK(t)'
    <3>1. ASSUME NEW k \in Key PROVE Expiry(k)' = Expiry(k) /\ Expiry(k) \in Nat
      BY <1>1, <1>2, AttemptPolicyAssumption DEF Expiry, RowType
    <3>2. ASSUME NEW k \in DOMAIN work[t], work[t][k].stored, Admitting(t)
          PROVE  Due(k, rows[k], work[t][k])'
      <4>1. Due(k, rows[k], work[t][k])
        BY <2>1, <3>2 DEF GrantOK
      <4>2. \A at \in 0..clock : at \in 0..(clock + 1)
        BY <1>2
      <4> QED BY <1>1, <4>1, <4>2 DEF Due
    <3> QED BY <1>1, <2>1, <2>2, <2>4, <2>5, <3>1, <3>2 DEF GrantOK
  <2>10. ~Admitting(t)' => ClaimOK(t)'
    BY <1>1, <2>1, <2>2 DEF ClaimOK
  <2> QED BY <2>3, <2>6, <2>7, <2>8, <2>9, <2>10 DEF TransactionOK
<1>5. \A k \in Key : HistoryOK(k, rows[k])'
  BY <1>1, <1>2, <1>3 DEF CallsInv
<1>6. CallsInv'
  BY <1>1, <1>4, <1>5 DEF CallsInv, Fresh
<1>7. [k \in Key |-> SubjectOf(rows'[k])] = [k \in Key |-> SubjectOf(rows[k])]
  BY <1>1
<1>8. \A k \in Key : Claimant(k)' = Claimant(k)
  BY <1>1, ClaimantKept DEF Claims
<1>9. [k \in Key |-> Claimant(k)'] = [k \in Key |-> Claimant(k)]
  BY <1>8
<1>10. [u \in Library |-> CallStatus(u)'] = [u \in Library |-> CallStatus(u)]
  BY <1>1 DEF CallStatus, Waiting
<1>11. /\ [u \in Library |-> call'[u]] = [u \in Library |-> call[u]]
       /\ [u \in Library |-> reply'[u]] = [u \in Library |-> reply[u]]
  BY <1>1
<1>12. clock' > clock
  BY <1>1, <1>2
<1>13. Shared!Pass
  BY <1>1, <1>7, <1>9, <1>10, <1>11, <1>12, Zenon DEF Shared!Pass
<1> QED BY <1>6, <1>13 DEF Shared!Next

----------------------------------------------------------------------------
(* The commit                                                              *)

\* The rows after a commit, and what the client of the transaction hears.
LEMMA CommitFacts ==
  ASSUME Inv, CallsInv, NEW t \in Session, ServerCommit(t)
  PROVE  /\ Inv' /\ OthersKept(t) /\ pc[t] = "committing" /\ EndTransaction(t)
         /\ clock' = clock /\ call' = call /\ token' = token
         /\ pc'[t] = "idle" /\ DOMAIN work'[t] = {}
         /\ \A l \in Locks : holder'[l] # t
         /\ \A u \in Session \ {t}, l \in Locks : holder'[l] = u <=> holder[l] = u
         /\ \A k \in Key : rows'[k] = IF k \in DOMAIN work[t] THEN work[t][k] ELSE rows[k]
         /\ \/ reply[t].outcome # "pending" /\ reply'[t] = reply[t] /\ receipts' = receipts
            \/ /\ t \in Library /\ reply[t].outcome = "pending" /\ reply'[t] = Confirmed(t)
               /\ receipts' = IF call[t].kind # "admit" THEN receipts
                              ELSE receipts \cup {[key |-> call[t].key, token |-> work[t][call[t].key].token]}
            \/ /\ t \in Library /\ reply[t].outcome = "pending" /\ reply'[t] = Reply("unknown", 0)
               /\ receipts' = receipts
         /\ reply'[t].outcome # "pending"
<1>1. CallOK(t) /\ Shape /\ AnswerOK(t)
  BY SessionFacts, TransactionFacts
<1>2. /\ pc[t] = "committing" /\ rows' = View(t) /\ EndTransaction(t)
      /\ clock' = clock /\ call' = call /\ token' = token
  BY DEF ServerCommit
<1>3. (Waiting(t) <=> reply[t].outcome = "pending") /\ (Waiting(t) => t \in Library)
  BY <1>1 DEF AnswerOK, CallOK, Waiting, Pending, Reply, Session
<1>4. /\ \/ ~Waiting(t) /\ reply'[t] = reply[t] /\ receipts' = receipts
         \/ /\ Waiting(t) /\ reply'[t] = Confirmed(t)
            /\ receipts' = IF call[t].kind # "admit" THEN receipts
                           ELSE receipts \cup {[key |-> call[t].key, token |-> work[t][call[t].key].token]}
         \/ /\ Waiting(t) /\ reply'[t] = Reply("unknown", 0)
            /\ receipts' = receipts
      /\ \A u \in Session \ {t} : reply'[u] = reply[u]
  BY <1>1 DEF ServerCommit, Shape
<1>5. reply'[t].outcome # "pending"
  BY <1>3, <1>4, ConfirmedOutcome DEF Reply
<1>6. /\ pc'[t] = "idle" /\ DOMAIN work'[t] = {}
      /\ \A u \in Session \ {t} : pc'[u] = pc[u] /\ work'[u] = work[u]
  BY <1>1, <1>2 DEF EndTransaction, Shape, Nothing
<1>7. OthersKept(t)
  BY <1>2, <1>4, <1>6 DEF OthersKept
<1>8. /\ \A l \in Locks : holder'[l] # t
      /\ \A u \in Session \ {t}, l \in Locks : holder'[l] = u <=> holder[l] = u
  BY <1>2, ReleaseFacts DEF EndTransaction
<1>9. \A k \in Key : rows'[k] = IF k \in DOMAIN work[t] THEN work[t][k] ELSE rows[k]
  BY <1>2 DEF View
<1>10. Inv'
  BY ServerCommitInv
<1> QED BY <1>2, <1>3, <1>4, <1>5, <1>6, <1>7, <1>8, <1>9, <1>10

\* The tokens of the others stay their own when t's become visible.
LEMMA CommitTokens ==
  ASSUME Inv, CallsInv, NEW t \in Session, ServerCommit(t)
  PROVE  /\ \A u \in Session \ {t} : TokensOK(u)'
         /\ \A k \in Key : rows'[k].token <= token'
         /\ \A r \in receipts' : r.token <= token'
         /\ \A c \in claims' : c.token <= token' /\ (c.tx # None => Fresh(c.tx, c.token)')
<1>1. /\ OthersKept(t) /\ EndTransaction(t) /\ pc[t] = "committing"
      /\ clock' = clock /\ call' = call /\ token' = token /\ DOMAIN work'[t] = {}
      /\ \A k \in Key : rows'[k] = IF k \in DOMAIN work[t] THEN work[t][k] ELSE rows[k]
      /\ \/ receipts' = receipts
         \/ /\ reply[t].outcome = "pending" /\ call[t].kind = "admit"
            /\ receipts' = receipts \cup {[key |-> call[t].key, token |-> work[t][call[t].key].token]}
  BY CommitFacts
<1>2. \A u \in Session \ {t} : work'[u] = work[u]
  BY <1>1 DEF OthersKept
<1>3. \A k \in DOMAIN work[t] : work[t][k].token \in Nat /\ work[t][k].token <= token
  BY TransactionFacts
<1>4. \A k \in Key : rows'[k].token <= token'
  BY <1>1, <1>3 DEF CallsInv
<1>5. \A r \in receipts' : r \in receipts \/ \E k \in DOMAIN work[t] : r.token = work[t][k].token
  <2>1. ASSUME reply[t].outcome = "pending", call[t].kind = "admit" PROVE call[t].key \in DOMAIN work[t]
    <3>1. ProgressOK(t)
      BY TransactionFacts
    <3> QED BY <1>1, <2>1, <3>1 DEF ProgressOK, Admitting
  <2> QED BY <1>1, <2>1
<1>6. \A r \in receipts' : r.token <= token'
  BY <1>1, <1>3, <1>5 DEF CallsInv
<1>7. ASSUME NEW u \in Session, u # t, NEW n, Fresh(u, n) PROVE Fresh(u, n)'
  <2>1. \A k \in Key : rows'[k].token # n
    BY <1>1, <1>7 DEF Fresh
  <2>2. \A v \in Session \ {u} : \A k \in DOMAIN work'[v] : work'[v][k].token # n
    BY <1>1, <1>2, <1>7 DEF Fresh
  <2> QED BY <2>1, <2>2 DEF Fresh
<1>8. ASSUME NEW u \in Session, u # t PROVE TokensOK(u)'
  <2>1. TokensOK(u)
    BY TransactionFacts
  <2>2. ASSUME NEW k \in DOMAIN work[u], NEW n, n = work[u][k].token, n # 0
        PROVE  /\ n <= token' /\ Fresh(u, n)' /\ \A r \in receipts' : r.token # n
               /\ \A v \in Library : call'[v].kind = "complete" => call'[v].token # n
    <3>1. /\ n <= token /\ Fresh(u, n) /\ \A r \in receipts : r.token # n
          /\ \A v \in Library : call[v].kind = "complete" => call[v].token # n
      BY <2>1, <2>2 DEF TokensOK
    <3>2. \A r \in receipts' : r.token # n
      BY <1>5, <1>8, <3>1 DEF Fresh
    <3> QED BY <1>1, <1>7, <1>8, <3>1, <3>2
  <2>3. work'[u] = work[u]
    BY <1>2, <1>8
  <2> QED BY <2>2, <2>3 DEF TokensOK, Fresh
<1>9. ASSUME NEW c \in claims' PROVE c.token <= token' /\ (c.tx # None => Fresh(c.tx, c.token)')
  <2>1. PICK d \in claims : c.token = d.token /\ c.tx \in {d.tx, None}
    BY <1>1, EndedClaims
  <2>2. c.tx # t
    BY <1>1, EndedClaims
  <2>3. d.token <= token /\ (d.tx # None => Fresh(d.tx, d.token)) /\ d.tx \in Session \cup {None}
    BY DEF CallsInv, Inv, SharedOK, Session
  <2> QED BY <1>1, <1>7, <2>1, <2>2, <2>3
<1> QED BY <1>4, <1>6, <1>8, <1>9

\* The commit of t keeps the promise to everyone.
LEMMA CommitCalls ==
  ASSUME Inv, CallsInv, NEW t \in Session, ServerCommit(t)
  PROVE  CallsInv'
<1>1. /\ Inv' /\ OthersKept(t) /\ clock' = clock /\ call' = call /\ token' = token
      /\ pc'[t] = "idle" /\ DOMAIN work'[t] = {}
      /\ \A l \in Locks : holder'[l] # t
      /\ \A u \in Session \ {t}, l \in Locks : holder'[l] = u <=> holder[l] = u
      /\ \A k \in Key : rows'[k] = IF k \in DOMAIN work[t] THEN work[t][k] ELSE rows[k]
      /\ reply'[t].outcome # "pending"
  BY CommitFacts
<1>2. \A k \in Key : HistoryOK(k, rows'[k])
  BY <1>1, TransactionFacts DEF CallsInv
<1>3. \A k \in Key : HistoryOK(k, rows[k])'
  BY <1>1, <1>2 DEF HistoryOK
<1>4. ASSUME NEW u \in Session, u # t PROVE TransactionOK(u)'
  <2>1. /\ AnswerOK(u) /\ ProgressOK(u)
        /\ \A k \in DOMAIN work[u] : HistoryOK(k, work[u][k])
        /\ Admitting(u) => GrantOK(u)
        /\ ~Admitting(u) => ClaimOK(u)
        /\ WorkOK(u) /\ CallOK(u)
    BY SessionFacts, TransactionFacts
  <2>2. pc'[u] = pc[u] /\ call'[u] = call[u] /\ work'[u] = work[u] /\ reply'[u] = reply[u]
    BY <1>1, <1>4 DEF OthersKept
  <2>3. Admitting(u)' <=> Admitting(u)
    BY <2>2 DEF Admitting
  <2>4. \A k \in DOMAIN work[u] : k \in Key /\ rows'[k] = rows[k]
    BY <1>1, <1>4, <2>1, OthersRows DEF WorkOK
  <2>5. AnswerOK(u)'
    BY <2>1, <2>2 DEF AnswerOK
  <2>6. \A k \in Key : holder'[Row(k)] = u <=> holder[Row(k)] = u
    BY <1>1, <1>4, LockFacts
  <2>7. ProgressOK(u)'
    <3>1. ASSUME call[u].kind = "complete", rows[call[u].key].token # call[u].token \/ rows[call[u].key].until <= clock
          PROVE  rows'[call[u].key].token # call[u].token \/ rows'[call[u].key].until <= clock
      <4>1. call[u].key \in Key /\ u \in Library
        BY <1>4, <2>1, <3>1 DEF CallOK, NoCall, Session
      <4>2. call[u].token # 0
        BY <3>1, <4>1 DEF CallsInv
      <4>3. \A k \in DOMAIN work[t] : work[t][k].token # call[u].token
        BY <3>1, <4>1, <4>2, TransactionFacts DEF TokensOK
      <4> QED BY <1>1, <3>1, <4>1, <4>3
    <3> QED BY <1>1, <2>1, <2>2, <2>3, <2>6, <3>1 DEF ProgressOK
  <2>8. (\A k \in DOMAIN work[u] : HistoryOK(k, work[u][k]))'
    BY <1>1, <2>1, <2>2 DEF HistoryOK
  <2>9. Admitting(u)' => GrantOK(u)'
    <3>1. \A k \in DOMAIN work[u] : Due(k, rows[k], work[u][k])' <=> Due(k, rows[k], work[u][k])
      BY <1>1, <2>2, <2>4 DEF Due
    <3>2. \A k \in DOMAIN work[u] : Expiry(k)' = Expiry(k)
      BY <2>4 DEF Expiry
    <3> QED BY <1>1, <2>1, <2>2, <2>3, <2>4, <3>1, <3>2 DEF GrantOK
  <2>10. ~Admitting(u)' => ClaimOK(u)'
    BY <2>1, <2>2, <2>3, <2>4 DEF ClaimOK
  <2>11. TokensOK(u)'
    BY <1>4, CommitTokens
  <2> QED BY <2>5, <2>7, <2>8, <2>9, <2>10, <2>11 DEF TransactionOK
<1>5. TransactionOK(t)'
  <2>1. AnswerOK(t)'
    BY <1>1 DEF AnswerOK
  <2>2. \A k \in Key : holder'[Row(k)] # t
    BY <1>1, LockFacts
  <2>3. ProgressOK(t)'
    BY <1>1, <2>2 DEF ProgressOK, Admitting, Row
  <2>4. TokensOK(t)' /\ GrantOK(t)' /\ ClaimOK(t)' /\ (\A k \in DOMAIN work[t] : HistoryOK(k, work[t][k]))'
    BY <1>1 DEF TokensOK, GrantOK, ClaimOK
  <2> QED BY <2>1, <2>3, <2>4 DEF TransactionOK
<1>6. \A u \in Library : call'[u].kind = "complete" => call'[u].token \in 1..token'
  BY <1>1 DEF CallsInv
<1> QED BY <1>3, <1>4, <1>5, <1>6, CommitTokens DEF CallsInv

\* A lease under another token.
LEMMA Retoken ==
  ASSUME NEW n, NEW until, NEW r, NEW q
  PROVE  [Shared!Leased(n, until, r) EXCEPT !.holder = q] = Shared!Leased(n, until, q)
BY DEF Shared!Leased

\* The claim of a transaction that commits is over: in an outcome, or stranded.
LEMMA CommitClaim ==
  ASSUME Inv, CallsInv, NEW t \in Session, ServerCommit(t), NEW k \in Key, Claims(t, k)
  PROVE  LET S == [j \in Key |-> SubjectOf(rows[j])]
             T == [j \in Key |-> SubjectOf(rows'[j])]
         IN  /\ Claimant(k) = t
             /\ Shared!Unclaim(k)
             /\ \/ /\ t \in Host
                   /\ \E r \in 1..MaxToken :
                        T[k] = [S[k] EXCEPT !.holder = r] /\ [key |-> k, token |-> r] \notin receipts
                \/ (t \in Library => call[t].success) /\ T[k] = Shared!Clear
                \/ /\ t \in Library => ~call[t].success
                   /\ \E at \in (S[k].until - LeasePeriod[k])..clock :
                        T[k] = Shared!Failed(S[k].failures + 1, at)
<1> DEFINE S == [j \in Key |-> SubjectOf(rows[j])]
           T == [j \in Key |-> SubjectOf(rows'[j])]
           C == [j \in Key |-> Claimant(j)]
           D == [j \in Key |-> Claimant(j)']
<1>1. /\ Inv' /\ OthersKept(t) /\ DOMAIN work'[t] = {} /\ pc[t] = "committing"
      /\ \A j \in Key : rows'[j] = IF j \in DOMAIN work[t] THEN work[t][j] ELSE rows[j]
  BY CommitFacts
<1>2. k \in DOMAIN work[t] /\ ~Admitting(t)
  BY ClaimsFacts
<1>3. \A j \in Key \ {k} : ~Claims(t, j) /\ j \notin DOMAIN work[t]
  BY <1>2, OneClaim, ClaimsFacts
<1>4. \A j \in Key : ~Claims(t, j)'
  BY <1>1, NoWorkNoClaim
<1>5. Claimant(k) = t /\ D = [C EXCEPT ![k] = None]
  BY <1>1, <1>3, <1>4, ClaimEnded
<1>6. C[k] # None
  BY <1>5, LockFacts
<1>7. \A j \in Key \ {k} : T[j] = S[j]
  BY <1>1, <1>3
<1>8. Shared!Unclaim(k)
  BY <1>5, <1>6, <1>7 DEF Shared!Unclaim
<1> DEFINE old == rows[k]
           new == work[t][k]
<1>9. /\ RowOK(old) /\ RowOK(new) /\ HistoryOK(k, new) /\ TokensOK(t) /\ ClaimOK(t) /\ new.stored
  BY <1>2, SessionFacts, TransactionFacts DEF Inv, SharedOK, RowOK, WorkOK
<1>10. S[k] = SubjectOf(old) /\ T[k] = SubjectOf(new)
  BY <1>1, <1>2
<1>11. /\ old.until # 0
       /\ \/ t \in Host /\ new.token # 0 /\ new.until = old.until /\ new.failures = old.failures
          \/ (t \in Library => call[t].success) /\ new.until = 0 /\ new.failures = 0
          \/ /\ t \in Library => ~call[t].success
             /\ new.until = 0 /\ new.failures = old.failures + 1
             /\ old.until <= new.lastFailure + LeasePeriod[k]
  BY <1>2, <1>9 DEF ClaimOK
<1>12. \A r \in receipts : new.token # 0 => r.token # new.token
  BY <1>2, <1>9 DEF TokensOK
<1>13. clock \in Nat /\ LeasePeriod[k] \in Nat /\ MaxToken \in Nat
  BY PgAttemptsAssumption, AttemptPolicyAssumption DEF Inv, SharedOK
<1>14. SubjectOf(old) = Shared!Leased(old.failures, old.until, old.token)
  BY <1>11, LeasedSubject
<1>15. /\ old.failures \in Nat /\ old.until \in Nat /\ new.failures \in Nat /\ new.until \in Nat
       /\ new.lastFailure \in Nat /\ new.token \in 0..MaxToken
  BY <1>9, RowFields
<1>16. S[k].until = old.until /\ S[k].failures = old.failures
  BY <1>10, <1>14 DEF Shared!Leased
<1>17. new.lastFailure <= clock
  BY <1>9 DEF HistoryOK
<1> HIDE DEF S, T, old, new
<1>18. CASE t \in Host /\ new.token # 0 /\ new.until = old.until /\ new.failures = old.failures
  <2>1. SubjectOf(new) = Shared!Leased(new.failures, new.until, new.token)
    BY <1>11, <1>18, LeasedSubject
  <2>2. T[k] = [S[k] EXCEPT !.holder = new.token]
    BY <1>10, <1>14, <1>18, <2>1, Retoken
  <2>3. new.token \in 1..MaxToken
    BY <1>13, <1>15, <1>18
  <2>4. [key |-> k, token |-> new.token] \notin receipts
    BY <1>12, <1>18
  <2>5. \E r \in 1..MaxToken : T[k] = [S[k] EXCEPT !.holder = r] /\ [key |-> k, token |-> r] \notin receipts
    BY <2>2, <2>3, <2>4
  <2> QED BY <1>5, <1>8, <1>18, <2>5 DEF S, T
<1>19. CASE (t \in Library => call[t].success) /\ new.until = 0 /\ new.failures = 0
  <2>1. T[k] = Shared!Clear
    BY <1>9, <1>10, <1>19, SubjectFields
  <2> QED BY <1>5, <1>8, <1>19, <2>1 DEF S, T
<1>20. CASE /\ t \in Library => ~call[t].success
            /\ new.until = 0 /\ new.failures = old.failures + 1
            /\ old.until <= new.lastFailure + LeasePeriod[k]
  <2>1. SubjectOf(new) = Shared!Failed(new.failures, new.lastFailure)
    BY <1>9, <1>15, <1>20, SubjectFields
  <2>2. T[k] = Shared!Failed(S[k].failures + 1, new.lastFailure)
    BY <1>10, <1>16, <1>20, <2>1
  <2>3. new.lastFailure \in (S[k].until - LeasePeriod[k])..clock
    BY <1>13, <1>15, <1>16, <1>17, <1>20
  <2>4. \E at \in (S[k].until - LeasePeriod[k])..clock : T[k] = Shared!Failed(S[k].failures + 1, at)
    BY <2>2, <2>3
  <2> QED BY <1>5, <1>8, <1>20, <2>4 DEF S, T
<1> QED BY <1>11, <1>18, <1>19, <1>20

\* A transaction that has written nothing leaves the table as it is.
LEMMA NothingToCommit ==
  ASSUME Inv, CallsInv, NEW t \in Session, ServerCommit(t), DOMAIN work[t] = {}
  PROVE  rows' = rows
<1>1. rows' = View(t) /\ rows \in [Key -> RowType]
  BY DEF ServerCommit, Inv, SharedOK
<1>2. rows' = [k \in Key |-> rows[k]]
  BY <1>1 DEF View
<1> QED BY <1>1, <1>2

\* The application commits: a claim is stranded or has its outcome.
LEMMA HostCommitRefines ==
  ASSUME Inv, CallsInv, NEW t \in Host, ServerCommit(t)
  PROVE  Shared!Next
<1>0. t \in Session /\ t \notin Library
  BY PgAttemptsAssumption DEF Session
<1>1. /\ Inv' /\ OthersKept(t) /\ clock' = clock /\ DOMAIN work'[t] = {} /\ receipts' = receipts
      /\ \A j \in Key : rows'[j] = IF j \in DOMAIN work[t] THEN work[t][j] ELSE rows[j]
  BY <1>0, CommitFacts
<1>2. WorkOK(t)
  BY <1>0, SessionFacts
<1>3. CASE DOMAIN work[t] = {}
  <2>1. rows' = rows
    BY <1>0, <1>3, NothingToCommit
  <2>2. \A k \in Key : Claims(t, k)' <=> Claims(t, k)
    BY <1>0, <1>1, <1>3, NoWorkNoClaim
  <2> QED BY <1>0, <1>1, <2>1, <2>2, QuietRefines
<1>4. ASSUME NEW k \in DOMAIN work[t] PROVE Shared!Next
  <2>1. k \in Key /\ Claims(t, k)
    BY <1>2 DEF WorkOK, Claims
  <2> DEFINE S == [j \in Key |-> SubjectOf(rows[j])]
             T == [j \in Key |-> SubjectOf(rows'[j])]
  <2>2. /\ Claimant(k) = t
        /\ Shared!Unclaim(k)
        /\ \/ \E r \in 1..MaxToken :
                T[k] = [S[k] EXCEPT !.holder = r] /\ [key |-> k, token |-> r] \notin receipts
           \/ T[k] = Shared!Clear
           \/ \E at \in (S[k].until - LeasePeriod[k])..clock : T[k] = Shared!Failed(S[k].failures + 1, at)
    BY <1>0, <2>1, CommitClaim
  <2>3. /\ [u \in Library |-> call'[u]] = [u \in Library |-> call[u]]
        /\ [u \in Library |-> CallStatus(u)'] = [u \in Library |-> CallStatus(u)]
        /\ [u \in Library |-> reply'[u]] = [u \in Library |-> reply[u]]
    <3>1. \A u \in Library : call'[u] = call[u] /\ CallStatus(u)' = CallStatus(u) /\ reply'[u] = reply[u]
      BY <1>0, <1>1, OthersSeen
    <3> QED BY <3>1
  <2>4. [j \in Key |-> Claimant(j)][k] \notin Library
    BY <1>0, <2>1, <2>2
  <2>5. Shared!Strand(k) \/ Shared!Apply(k, TRUE) \/ Shared!Apply(k, FALSE)
    BY <2>2, Zenon DEF Shared!Strand, Shared!Apply
  <2>6. Shared!EndClaim(k)
    BY <1>1, <2>3, <2>4, <2>5 DEF Shared!EndClaim
  <2> QED BY <2>1, <2>6 DEF Shared!Next
<1> QED BY <1>3, <1>4

\* What callers see of a client whose transaction commits.
LEMMA CommitStatus ==
  ASSUME Inv, CallsInv, NEW t \in Library, ServerCommit(t)
  PROVE  /\ CallStatus(t)' = "idle"
         /\ reply[t].outcome \in {"pending", "unknown"} => CallStatus(t) = "open"
         /\ reply[t].outcome \notin {"pending", "unknown"} => CallStatus(t) = "idle"
<1>0. t \in Session
  BY DEF Session
<1>1. AnswerOK(t) /\ pc[t] = "committing" /\ pc'[t] = "idle"
  BY <1>0, CommitFacts, TransactionFacts
<1> QED BY <1>1 DEF CallStatus, Waiting, AnswerOK, Pending, Reply

\* The commit of a completion.
LEMMA CompletionCommitRefines ==
  ASSUME Inv, CallsInv, NEW t \in Library, ServerCommit(t), call[t].kind = "complete"
  PROVE  Shared!Next
<1>0. t \in Session /\ t \notin Host
  BY PgAttemptsAssumption DEF Session
<1>1. /\ Inv' /\ OthersKept(t) /\ clock' = clock /\ call' = call /\ DOMAIN work'[t] = {}
      /\ pc[t] = "committing" /\ receipts' = receipts
      /\ \/ reply[t].outcome # "pending" /\ reply'[t] = reply[t]
         \/ reply[t].outcome = "pending" /\ reply'[t] = Confirmed(t)
         \/ reply[t].outcome = "pending" /\ reply'[t] = Reply("unknown", 0)
  BY <1>0, CommitFacts
<1>2. WorkOK(t) /\ AnswerOK(t) /\ ProgressOK(t) /\ CallOK(t)
  BY <1>0, SessionFacts, TransactionFacts
<1>3. reply[t].outcome \in {"pending", "unknown"} /\ call[t].key \in Key
  BY <1>1, <1>2 DEF AnswerOK, CallOK
<1>4. CallStatus(t)' = "idle" /\ CallStatus(t) = "open"
  BY <1>3, CommitStatus
<1>5. CASE DOMAIN work[t] = {}
  <2>1. rows' = rows
    BY <1>0, <1>5, NothingToCommit
  <2>2. [k \in Key |-> Claimant(k)'] = [k \in Key |-> Claimant(k)]
    BY <1>0, <1>1, <1>5, NoWorkNoClaim, ClaimsStay
  <2>3. /\ work[t] = Nothing
        /\ rows[call[t].key].token # call[t].token \/ rows[call[t].key].until <= clock
    BY <1>1, <1>2, <1>5 DEF ProgressOK
  <2>4. CASE reply'[t].outcome = "unknown"
    BY <1>1, <1>3, <1>4, <2>1, <2>2, <2>4, GiveUpRefines
  <2>5. CASE reply[t].outcome = "pending" /\ reply'[t] = Confirmed(t)
    <3>1. reply'[t].outcome = "stale"
      BY <2>3, <2>5 DEF Confirmed, Reply
    <3>2. [k \in Key |-> SubjectOf(rows'[k])] = [k \in Key |-> SubjectOf(rows[k])]
      BY <2>1
    <3>3. [u \in Library |-> call'[u]] = [u \in Library |-> call[u]]
      BY <1>1
    <3> DEFINE k == [u \in Library |-> call[u]][t].key
    <3>4. k = call[t].key
      OBVIOUS
    <3>5. RowOK(rows[call[t].key])
      BY <1>3 DEF Inv, SharedOK, RowOK
    <3>6. /\ [j \in Key |-> SubjectOf(rows[j])][k].holder = rows[call[t].key].token
          /\ [j \in Key |-> SubjectOf(rows[j])][k].until = rows[call[t].key].until
      BY <1>3, <3>4, <3>5, SubjectFields
    <3>7. \/ [j \in Key |-> SubjectOf(rows[j])][k].holder # [u \in Library |-> call[u]][t].token
          \/ [j \in Key |-> SubjectOf(rows[j])][k].until <= clock
      BY <2>3, <3>6
    <3>8. /\ [u \in Library |-> CallStatus(u)][t] = "open"
          /\ [u \in Library |-> CallStatus(u)'][t] = "idle"
          /\ [u \in Library |-> reply[u]][t].outcome = "pending"
          /\ [u \in Library |-> reply'[u]][t].outcome = "stale"
          /\ [u \in Library |-> call[u]][t].kind = "complete"
      BY <1>4, <2>5, <3>1
    <3>9. Shared!Stale(t)
      BY <1>1, <2>2, <3>2, <3>3, <3>7, <3>8, Zenon DEF Shared!Stale, Shared!Waiting
    <3> QED BY <1>1, <3>9, ClientStep
  <2> QED BY <1>1, <1>3, <2>4, <2>5 DEF Reply
<1>6. ASSUME NEW j \in DOMAIN work[t] PROVE Shared!Next
  <2>0. PICK k : k = call[t].key
    OBVIOUS
  <2>1. j = k /\ k \in Key /\ Claims(t, k)
    <3>1. j \in Key /\ Claims(t, j)
      BY <1>2, <1>6 DEF WorkOK, Claims
    <3> QED BY <2>0, <3>1, OwnClaim
  <2> DEFINE S == [i \in Key |-> SubjectOf(rows[i])]
             T == [i \in Key |-> SubjectOf(rows'[i])]
             L == [u \in Library |-> call[u]]
  <2>2. /\ Claimant(k) = t
        /\ Shared!Unclaim(k)
        /\ \/ call[t].success /\ T[k] = Shared!Clear
           \/ /\ ~call[t].success
              /\ \E at \in (S[k].until - LeasePeriod[k])..clock : T[k] = Shared!Failed(S[k].failures + 1, at)
    BY <1>0, <2>1, CommitClaim
  <2>3. L[t].key = k /\ L[t].kind = "complete" /\ L[t].success = call[t].success
    BY <2>0
  <2>4. Shared!Apply(k, L[t].success)
    BY <2>2, <2>3, Zenon DEF Shared!Apply
  <2>5. Shared!Apply(L[t].key, L[t].success)
    BY <2>3, <2>4
  <2>6. work[t] # Nothing
    BY <1>6 DEF Nothing
  <2>7. \/ reply[t].outcome = "pending" /\ reply'[t].outcome = (IF L[t].success THEN "succeeded" ELSE "failed")
        \/ reply'[t].outcome = "unknown"
    <3>1. CASE reply[t].outcome = "pending" /\ reply'[t] = Confirmed(t)
      <4>1. Confirmed(t) = Reply(IF call[t].success THEN "succeeded" ELSE "failed", 0)
        BY <2>6 DEF Confirmed
      <4>2. Confirmed(t).outcome = (IF call[t].success THEN "succeeded" ELSE "failed")
        BY <4>1 DEF Reply
      <4> QED BY <2>3, <3>1, <4>2
    <3> QED BY <1>1, <1>3, <3>1 DEF Reply
  <2>8. /\ [u \in Library |-> CallStatus(u)][t] = "open"
        /\ [u \in Library |-> CallStatus(u)'][t] = "idle"
        /\ [i \in Key |-> Claimant(i)][L[t].key] = t
        /\ [u \in Library |-> call'[u]] = L
        /\ \/ /\ [u \in Library |-> reply[u]][t].outcome = "pending"
              /\ [u \in Library |-> reply'[u]][t].outcome = (IF L[t].success THEN "succeeded" ELSE "failed")
           \/ [u \in Library |-> reply'[u]][t].outcome = "unknown"
    BY <1>1, <1>4, <2>1, <2>2, <2>3, <2>7
  <2>9. Shared!Complete(t)
    BY <1>1, <2>3, <2>5, <2>8, Zenon DEF Shared!Complete, Shared!Waiting
  <2> QED BY <1>1, <2>9, ClientStep
<1> QED BY <1>5, <1>6

\* The rows an admission has cleaned up are forgotten, not lost.
LEMMA CleanupForgets ==
  ASSUME Inv, CallsInv, NEW t \in Library, ServerCommit(t), call[t].kind = "admit",
         NEW j \in Key, j \in DOMAIN work[t] => ~work[t][j].stored
  PROVE  \/ [i \in Key |-> SubjectOf(rows'[i])][j] = [i \in Key |-> SubjectOf(rows[i])][j]
         \/ Shared!Forgotten(j)
<1>0. t \in Session
  BY DEF Session
<1>1. /\ pc[t] = "committing"
      /\ \A k \in Key : rows'[k] = IF k \in DOMAIN work[t] THEN work[t][k] ELSE rows[k]
  BY <1>0, CommitFacts
<1>2. Admitting(t)
  BY <1>1 DEF Admitting
<1>3. CASE j \notin DOMAIN work[t]
  BY <1>1, <1>3
<1>4. CASE j \in DOMAIN work[t]
  <2>1. WorkOK(t) /\ GrantOK(t) /\ HistoryOK(j, work[t][j])
    BY <1>0, <1>2, <1>4, SessionFacts, TransactionFacts
  <2>2. work[t][j] = NoRow /\ holder[Row(j)] = t /\ rows[j].stored /\ Expiry(j) <= clock
    BY <1>4, <2>1 DEF HistoryOK, WorkOK, GrantOK
  <2>3. SubjectOf(rows'[j]) = Shared!Clear
    BY <1>1, <1>4, <2>2, NoRowClear
  <2>4. Claimant(j) = None
    BY <1>0, <1>2, <2>2, Unclaimed
  <2>5. Shared!AtTime(j, SubjectOf(rows[j]), clock) = Shared!Clear
    BY <2>2, ExpiredIsClear
  <2>6. /\ [i \in Key |-> SubjectOf(rows'[i])][j] = Shared!Clear
        /\ [i \in Key |-> Claimant(i)][j] = None
        /\ Shared!AtTime(j, [i \in Key |-> SubjectOf(rows[i])][j], clock) = Shared!Clear
    BY <2>3, <2>4, <2>5
  <2>7. Shared!Forgotten(j)
    BY <2>6, Zenon DEF Shared!Forgotten, Shared!Seen
  <2> QED BY <2>7
<1> QED BY <1>3, <1>4

\* The commit of an admission: the lease it was due, or the cleanup of a denied call.
LEMMA AdmissionCommitRefines ==
  ASSUME Inv, CallsInv, NEW t \in Library, ServerCommit(t), call[t].kind = "admit"
  PROVE  Shared!Next
<1>0. t \in Session /\ t \notin Host
  BY PgAttemptsAssumption DEF Session
<1>1. /\ Inv' /\ OthersKept(t) /\ clock' = clock /\ call' = call
      /\ pc[t] = "committing"
      /\ \A k \in Key : rows'[k] = IF k \in DOMAIN work[t] THEN work[t][k] ELSE rows[k]
      /\ \/ reply[t].outcome # "pending" /\ reply'[t] = reply[t] /\ receipts' = receipts
         \/ /\ reply[t].outcome = "pending" /\ reply'[t] = Confirmed(t)
            /\ receipts' = receipts \cup {[key |-> call[t].key, token |-> work[t][call[t].key].token]}
         \/ /\ reply[t].outcome = "pending" /\ reply'[t] = Reply("unknown", 0)
            /\ receipts' = receipts
  BY <1>0, CommitFacts
<1>2. Admitting(t)
  BY <1>1 DEF Admitting
<1>3. /\ WorkOK(t) /\ AnswerOK(t) /\ ProgressOK(t) /\ CallOK(t) /\ GrantOK(t)
  BY <1>0, <1>2, SessionFacts, TransactionFacts
<1>4. reply[t].outcome \in {"pending", "unknown", "storage_capacity"} /\ call[t].key \in Key
  BY <1>1, <1>3 DEF AnswerOK, CallOK
<1>5. [k \in Key |-> Claimant(k)'] = [k \in Key |-> Claimant(k)]
  <2>1. \A k \in Key : Claims(t, k)' <=> Claims(t, k)
    BY <1>0, <1>1 DEF Claims
  <2> QED BY <1>0, <1>1, <2>1, ClaimsStay
<1>6. [u \in Library |-> call'[u]] = [u \in Library |-> call[u]]
  BY <1>1
<1>7. CASE reply[t].outcome = "storage_capacity"
  <2>1. \A k \in DOMAIN work[t] : ~work[t][k].stored
    BY <1>1, <1>2, <1>3, <1>7 DEF ProgressOK
  <2>2. \A k \in Key : \/ [i \in Key |-> SubjectOf(rows'[i])][k] = [i \in Key |-> SubjectOf(rows[i])][k]
                       \/ Shared!Forgotten(k)
    BY <2>1, CleanupForgets
  <2>3. CallStatus(t)' = CallStatus(t)
    BY <1>7, CommitStatus
  <2>4. \A u \in Library : CallStatus(u)' = CallStatus(u) /\ reply'[u] = reply[u]
    BY <1>0, <1>1, <1>7, <2>3, OthersSeen
  <2>5. /\ [u \in Library |-> CallStatus(u)'] = [u \in Library |-> CallStatus(u)]
        /\ [u \in Library |-> reply'[u]] = [u \in Library |-> reply[u]]
    BY <2>4
  <2>6. receipts' = receipts
    BY <1>1, <1>7
  <2>7. Shared!Forget
    BY <1>1, <1>5, <1>6, <2>2, <2>5, <2>6, Zenon DEF Shared!Forget
  <2> QED BY <2>7 DEF Shared!Next
<1>8. CASE reply[t].outcome \in {"pending", "unknown"}
  <2>0. PICK k : k = call[t].key
    OBVIOUS
  <2>1. k \in Key /\ k \in DOMAIN work[t] /\ work[t][k].stored
    BY <1>1, <1>2, <1>3, <1>4, <1>8, <2>0 DEF ProgressOK
  <2>2. PICK new : new = work[t][k]
    OBVIOUS
  <2>3. Due(k, rows[k], new) /\ RowOK(new) /\ holder[Row(k)] = t
    BY <1>3, <2>1, <2>2 DEF GrantOK, WorkOK
  <2>4. PICK at \in 0..clock :
            LET s == Shared!AtTime(k, SubjectOf(rows[k]), at)
            IN  /\ s.until = 0 /\ at >= Shared!Backoff(k, s)
                /\ SubjectOf(new) = Shared!Leased(s.failures, at + LeasePeriod[k], new.token)
    BY <2>3 DEF Due
  <2>5. PICK s : s = Shared!AtTime(k, SubjectOf(rows[k]), at)
    OBVIOUS
  <2>6. /\ s.until = 0 /\ at >= Shared!Backoff(k, s)
        /\ SubjectOf(new) = Shared!Leased(s.failures, at + LeasePeriod[k], new.token)
    BY <2>4, <2>5
  <2>7. new.token \in 1..MaxToken
    <3>1. new.until = at + LeasePeriod[k]
      BY <2>3, <2>6, SubjectFields DEF Shared!Leased
    <3>2. at \in Nat /\ LeasePeriod[k] \in Nat \ {0} /\ MaxToken \in Nat
      BY <2>1, <2>4, PgAttemptsAssumption, AttemptPolicyAssumption DEF Inv, SharedOK
    <3>3. new.until # 0
      BY <3>1, <3>2
    <3> QED BY <2>3, <3>2, <3>3, RowFields
  <2>8. Claimant(k) = None
    BY <1>0, <1>2, <2>1, <2>3, Unclaimed
  <2> DEFINE S == [i \in Key |-> SubjectOf(rows[i])]
             T == [i \in Key |-> SubjectOf(rows'[i])]
             L == [u \in Library |-> call[u]]
  <2>9. L[t].key = k /\ L[t].kind = "admit"
    BY <2>0
  <2>10. /\ Shared!Seen(k, at) = s
         /\ T[k] = Shared!Leased(s.failures, at + LeasePeriod[k], new.token)
         /\ [i \in Key |-> Claimant(i)][k] = None
    BY <1>1, <2>1, <2>2, <2>5, <2>6, <2>8 DEF Shared!Seen
  <2>11. \A j \in Key \ {k} : T[j] = S[j] \/ Shared!Forgotten(j)
    <3>1. \A j \in Key \ {k} : j \in DOMAIN work[t] => ~work[t][j].stored
      BY <1>3, <2>0 DEF GrantOK
    <3> QED BY <3>1, CleanupForgets
  <2>12. Shared!OnlyChanges(k)
    BY <2>11, Zenon DEF Shared!OnlyChanges
  <2>13. CallStatus(t)' = "idle" /\ CallStatus(t) = "open"
    BY <1>8, CommitStatus
  <2>14. \/ /\ reply[t].outcome = "pending" /\ reply'[t].outcome = "admitted"
            /\ receipts' = receipts \cup {[key |-> k, token |-> new.token]}
         \/ reply'[t].outcome = "unknown" /\ receipts' = receipts
    <3>1. Confirmed(t) = Reply("admitted", 0)
      BY DEF Confirmed
    <3>2. Reply("admitted", 0).outcome = "admitted" /\ Reply("unknown", 0).outcome = "unknown"
      BY DEF Reply
    <3> QED BY <1>1, <1>8, <2>0, <2>2, <3>1, <3>2
  <2>15. /\ [u \in Library |-> CallStatus(u)][t] = "open"
         /\ [u \in Library |-> CallStatus(u)'][t] = "idle"
         /\ \/ /\ [u \in Library |-> reply[u]][t].outcome = "pending"
               /\ [u \in Library |-> reply'[u]][t].outcome = "admitted"
               /\ receipts' = receipts \cup {[key |-> k, token |-> new.token]}
            \/ [u \in Library |-> reply'[u]][t].outcome = "unknown" /\ receipts' = receipts
    BY <2>13, <2>14
  <2>16. Shared!Seen(k, at).until = 0 /\ at >= Shared!Backoff(k, Shared!Seen(k, at))
         /\ T[k] = Shared!Leased(Shared!Seen(k, at).failures, at + LeasePeriod[k], new.token)
    BY <2>6, <2>10
  <2>17. Shared!Grant(t)
    BY <1>1, <1>5, <1>6, <2>4, <2>7, <2>9, <2>10, <2>12, <2>15, <2>16, Zenon
       DEF Shared!Grant, Shared!Waiting
  <2> QED BY <1>1, <2>17, ClientStep
<1> QED BY <1>4, <1>7, <1>8

\* The commit of any transaction.
LEMMA ServerCommitRefines ==
  ASSUME Inv, CallsInv, NEW t \in Session, ServerCommit(t)
  PROVE  CallsInv' /\ Shared!Next
<1>1. CallsInv'
  BY CommitCalls
<1>2. t \in Library => call[t].kind \in {"admit", "complete"}
  BY SessionFacts DEF ServerCommit, CallOK
<1>3. Shared!Next
  BY <1>2, HostCommitRefines, CompletionCommitRefines, AdmissionCommitRefines DEF Session
<1> QED BY <1>1, <1>3

----------------------------------------------------------------------------
(* The refinement                                                          *)

\* Initially nothing is stored, called or claimed.
LEMMA InitRefines == Init => CallsInv /\ Shared!Init
<1> SUFFICES ASSUME Init PROVE CallsInv /\ Shared!Init
  OBVIOUS
<1>1. /\ rows = [k \in Key |-> NoRow] /\ clock = 0 /\ token = 0 /\ receipts = {} /\ claims = {}
      /\ \A t \in Session : /\ pc[t] = "idle" /\ call[t] = NoCall /\ work[t] = Nothing
                            /\ reply[t] = Reply("none", 0)
  BY DEF Init
<1>2. \A t \in Session : DOMAIN work[t] = {} /\ call[t].kind = "none" /\ reply[t].outcome = "none"
  BY <1>1 DEF Nothing, NoCall, Reply
<1>3. \A k \in Key : holder[Row(k)] = None
  BY LockFacts DEF Init
<1>4. Inv
  BY InitInv
<1>5. ASSUME NEW t \in Session PROVE TransactionOK(t)
  <2>1. AnswerOK(t)
    BY <1>1, <1>2, <1>5 DEF AnswerOK
  <2>2. ProgressOK(t)
    <3>1. \A k \in Key : holder[Row(k)] # t
      BY <1>3, <1>5, LockFacts
    <3> QED BY <1>1, <1>2, <1>5, <3>1 DEF ProgressOK, Admitting
  <2>3. TokensOK(t) /\ GrantOK(t) /\ ClaimOK(t) /\ \A k \in DOMAIN work[t] : HistoryOK(k, work[t][k])
    BY <1>2, <1>5 DEF TokensOK, GrantOK, ClaimOK
  <2> QED BY <2>1, <2>2, <2>3 DEF TransactionOK
<1>6. \A k \in Key : HistoryOK(k, rows[k]) /\ rows[k].token <= token
  <2>1. NoRow.stored = FALSE /\ NoRow.until = 0 /\ NoRow.token = 0
    BY DEF NoRow
  <2>2. ASSUME NEW k \in Key PROVE HistoryOK(k, NoRow)
    BY <2>1 DEF HistoryOK
  <2>3. \A k \in Key : rows[k] = NoRow
    BY <1>1
  <2>4. 0 <= 0
    OBVIOUS
  <2> QED BY <1>1, <2>1, <2>2, <2>3, <2>4, Zenon
<1>7. Library \subseteq Session
  BY DEF Session
<1>8. CallsInv
  BY <1>1, <1>2, <1>5, <1>6, <1>7 DEF CallsInv
<1>9. [k \in Key |-> SubjectOf(rows[k])] = [k \in Key |-> Shared!Clear]
  BY <1>1, NoRowClear
<1>10. [k \in Key |-> Claimant(k)] = [k \in Key |-> None]
  <2>1. \A t \in Session, k \in Key : ~Claims(t, k)
    BY <1>2 DEF Claims
  <2>2. \A k \in Key : Claimant(k) = None
    BY <1>4, <2>1, ClaimantFacts
  <2> QED BY <2>2
<1>11. [t \in Library |-> CallStatus(t)] = [t \in Library |-> "idle"]
  <2>1. \A t \in Library : CallStatus(t) = "idle"
    BY <1>1, <1>7 DEF CallStatus
  <2> QED BY <2>1
<1>12. \A t \in Library : [u \in Library |-> reply[u]][t].outcome # "pending"
  BY <1>2, <1>7
<1>13. Shared!Init
  BY <1>1, <1>9, <1>10, <1>11, <1>12, Zenon DEF Shared!Init, Shared!Waiting
<1> QED BY <1>8, <1>13

\* Where nothing happens, nothing is seen to happen.
LEMMA StutterRefines ==
  ASSUME CallsInv, UNCHANGED vars
  PROVE  CallsInv' /\ UNCHANGED Shared!vars
<1>1. /\ clock' = clock /\ rows' = rows /\ holder' = holder /\ pc' = pc /\ call' = call
      /\ work' = work /\ token' = token /\ receipts' = receipts /\ claims' = claims /\ reply' = reply
  BY DEF vars
<1>2. \A k \in Key : Expiry(k)' = Expiry(k)
  BY <1>1 DEF Expiry
<1>3. ASSUME NEW t \in Session PROVE TransactionOK(t)'
  <2>1. TransactionOK(t)
    BY DEF CallsInv
  <2>2. AnswerOK(t)' /\ ProgressOK(t)' /\ TokensOK(t)' /\ (Admitting(t)' <=> Admitting(t))
    BY <1>1, <2>1 DEF TransactionOK, AnswerOK, ProgressOK, TokensOK, Admitting, Fresh
  <2>3. (\A k \in DOMAIN work[t] : HistoryOK(k, work[t][k]))'
    BY <1>1, <2>1 DEF TransactionOK, HistoryOK
  <2>4. Admitting(t)' => GrantOK(t)'
    <3>1. \A k \in DOMAIN work[t] : Due(k, rows[k], work[t][k])' <=> Due(k, rows[k], work[t][k])
      BY <1>1 DEF Due
    <3>2. \A k \in DOMAIN work[t] : Expiry(k)' = Expiry(k)
      BY <1>1 DEF Expiry
    <3> QED BY <1>1, <2>1, <2>2, <3>1, <3>2 DEF TransactionOK, GrantOK
  <2>5. ~Admitting(t)' => ClaimOK(t)'
    BY <1>1, <2>1, <2>2 DEF TransactionOK, ClaimOK
  <2> QED BY <2>2, <2>3, <2>4, <2>5 DEF TransactionOK
<1>4. \A k \in Key : HistoryOK(k, rows[k])'
  BY <1>1 DEF CallsInv, HistoryOK
<1>5. CallsInv'
  BY <1>1, <1>3, <1>4 DEF CallsInv, Fresh
<1>6. [k \in Key |-> SubjectOf(rows'[k])] = [k \in Key |-> SubjectOf(rows[k])]
  BY <1>1
<1>7. [k \in Key |-> Claimant(k)'] = [k \in Key |-> Claimant(k)]
  <2>1. \A k \in Key : Claimant(k)' = Claimant(k)
    BY <1>1, ClaimantKept DEF Claims
  <2> QED BY <2>1
<1>8. [u \in Library |-> CallStatus(u)'] = [u \in Library |-> CallStatus(u)]
  BY <1>1 DEF CallStatus, Waiting
<1>9. /\ [u \in Library |-> call'[u]] = [u \in Library |-> call[u]]
      /\ [u \in Library |-> reply'[u]] = [u \in Library |-> reply[u]]
  BY <1>1
<1>10. UNCHANGED Shared!vars
  BY <1>1, <1>6, <1>7, <1>8, <1>9, Zenon DEF Shared!vars
<1> QED BY <1>5, <1>10

\* Every step is a step of the promise, or invisible.
LEMMA NextRefines ==
  Inv /\ CallsInv /\ [Next]_vars => CallsInv' /\ [Shared!Next]_Shared!vars
<1> SUFFICES ASSUME Inv, CallsInv, [Next]_vars PROVE CallsInv' /\ [Shared!Next]_Shared!vars
  OBVIOUS
<1>1. CASE Tick
  BY <1>1, TickRefines
<1>2. ASSUME NEW t \in Library,
             \/ \E k \in Key : BeginAdmit(t, k)
             \/ LockShard(t) \/ CleanupShard(t) \/ LockRow(t) \/ Decide(t)
             \/ \E r \in receipts, success \in BOOLEAN : BeginComplete(t, r, success)
             \/ Complete(t)
             \/ Abandon(t) \/ LoseConfirmation(t)
      PROVE  CallsInv' /\ Shared!Next
  BY <1>2, BeginAdmitRefines, LockShardRefines, CleanupShardRefines, LockRowRefines, DecideRefines,
     BeginCompleteRefines, CompleteRefines, AbandonRefines, LoseConfirmationRefines
<1>3. ASSUME NEW h \in Host,
             \/ BeginHost(h) \/ RollbackToSavepoint(h)
             \/ \E r \in receipts : ClaimIn(h, r)
             \/ \E r \in receipts, success \in BOOLEAN : CompleteIn(h, r, success)
             \/ \E c \in claims, success \in BOOLEAN : FinishIn(h, c, success)
      PROVE  CallsInv' /\ Shared!Next
  BY <1>3, BeginHostRefines, RollbackToSavepointRefines, ClaimInRefines, CompleteInRefines,
     FinishInRefines
<1>4. ASSUME NEW t \in Session, SendCommit(t) \/ ServerCommit(t) \/ FailCommit(t) \/ Rollback(t)
      PROVE  CallsInv' /\ Shared!Next
  BY <1>4, SendCommitRefines, ServerCommitRefines, FailCommitRefines, RollbackRefines
<1>5. CASE UNCHANGED vars
  BY <1>5, StutterRefines
<1> QED BY <1>1, <1>2, <1>3, <1>4, <1>5 DEF Next

\* The transactions of the replicas and of the application implement the shared
\* throttle: one lease at a time, granted when the previous one is over and its backoff
\* served, completed only by its own receipt while it lives or by the transaction that
\* claimed it then; denials exact, "stale" and "not consumed" final, cleanup invisible.
THEOREM Refinement == Spec => ImplementsSharedThrottle
<1>1. Init => CallsInv /\ Shared!Init
  BY InitRefines
<1>2. Inv /\ CallsInv /\ [Next]_vars => CallsInv' /\ [Shared!Next]_Shared!vars
  BY NextRefines
<1> QED BY <1>1, <1>2, Invariance, PTL DEF Spec, ImplementsSharedThrottle, Shared!Spec

=============================================================================
