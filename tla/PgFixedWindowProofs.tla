------------------------ MODULE PgFixedWindowProofs ------------------------
(***************************************************************************)
(* Proofs about PgFixedWindow, for every number of sessions and counters,  *)
(* every assignment of keys to locks and shards and every mix of calls:    *)
(* the capacity ledger stays exact, no shard outgrows the largest bound,   *)
(* the storage protocol is never found broken, and no transactions wait    *)
(* for each other in a cycle.                                              *)
(***************************************************************************)
EXTENDS PgFixedWindow, FiniteSetTheorems, TLAPS

----------------------------------------------------------------------------
(* Numbers and sets                                                        *)

\* A nonempty finite set of naturals has a maximum, and Max chooses it.
LEMMA MaxOfFinite ==
  ASSUME NEW S \in SUBSET Nat, IsFiniteSet(S), S # {}
  PROVE  Max(S) \in S /\ \A y \in S : y <= Max(S)
<1> DEFINE HasMax(A) == \E x \in A : \A y \in A : y <= x
<1> DEFINE Bad == {A \in SUBSET S : A # {} /\ ~HasMax(A)}
<1>1. Bad = {}
  <2> SUFFICES ASSUME Bad # {} PROVE FALSE
    OBVIOUS
  <2>1. IsWellFoundedOn(StrictSubsetOrdering(S), SUBSET S)
    BY FS_StrictSubsetOrderingWellFounded, FS_FiniteSubsetsOfFinite
  <2>2. PICK A \in Bad : \A B \in Bad : ~(<<B, A>> \in StrictSubsetOrdering(S))
    <3>1. Bad \subseteq SUBSET S
      OBVIOUS
    <3> HIDE DEF Bad
    <3> QED BY <2>1, <3>1, WFMin
  <2>3. PICK x \in A : TRUE
    BY <2>2
  <2> DEFINE B == A \ {x}
  <2>4. B # A /\ B \subseteq A /\ B \in SUBSET S /\ A \in SUBSET S
    BY <2>2, <2>3
  <2>5. <<B, A>> \in StrictSubsetOrdering(S)
    BY <2>4 DEF StrictSubsetOrdering
  <2>6. B = {} \/ HasMax(B)
    BY <2>2, <2>4, <2>5
  <2>7. HasMax(A)
    <3>1. A \subseteq Nat
      BY <2>2
    <3>2. CASE B = {}
      <4>1. A = {x}
        BY <2>3, <3>2
      <4> QED BY <4>1, <3>1
    <3>3. CASE HasMax(B)
      <4>1. PICK m \in B : \A y \in B : y <= m
        BY <3>3
      <4>2. CASE x <= m
        BY <4>1, <4>2, <2>3
      <4>3. CASE ~(x <= m)
        <5>1. \A y \in A : y <= x
          BY <4>1, <4>3, <2>3, <3>1
        <5> QED BY <5>1, <2>3
      <4> QED BY <4>2, <4>3
    <3> QED BY <2>6, <3>2, <3>3
  <2> QED BY <2>2, <2>7
<1>2. HasMax(S)
  BY <1>1
<1>3. PICK x \in S : \A y \in S : y <= x
  BY <1>2
<1>4. \A y \in S : x >= y
  BY <1>3
<1>5. Max(S) \in S /\ \A y \in S : Max(S) >= y
  BY <1>4 DEF Max
<1> QED BY <1>5

\* A nonempty set of naturals has a minimum, and Min chooses it.
LEMMA MinOfNaturals ==
  ASSUME NEW S \in SUBSET Nat, S # {}
  PROVE  Min(S) \in S /\ \A y \in S : Min(S) <= y
<1> DEFINE Less(x, y) == <<x, y>> \in OpToRel(<, Nat)
<1>1. PICK n \in S : \A m \in S : ~Less(m, n)
  BY NatLessThanWellFounded, WFMin
<1>2. \A x, y \in Nat : x < y => Less(x, y)
  BY DEF OpToRel
<1> HIDE DEF Less
<1>3. \A y \in S : n <= y
  BY <1>1, <1>2
<1> QED BY <1>3 DEF Min

\* Nonempty finite sets have no infinite ascent in a lexicographic order of two naturals.
LEMMA NoEndlessAscent ==
  ASSUME NEW S, IsFiniteSet(S), S # {}, NEW major \in [S -> Nat], NEW minor \in [S -> Nat],
         \A t \in S : \E u \in S : major[t] < major[u] \/ (major[t] = major[u] /\ minor[t] < minor[u])
  PROVE  FALSE
<1> DEFINE A == {major[t] : t \in S}
<1>1. A \in SUBSET Nat /\ A # {} /\ IsFiniteSet(A)
  <2>1. major \in Surjection(S, A)
    BY DEF Surjection
  <2> QED BY <2>1, FS_Surjection
<1>2. PICK a \in A : \A y \in A : y <= a
  BY <1>1, MaxOfFinite
<1> DEFINE T == {t \in S : major[t] = a}
<1>3. IsFiniteSet(T) /\ T # {} /\ T \subseteq S
  BY <1>2, FS_Subset
<1> DEFINE f == [t \in T |-> minor[t]]
<1> DEFINE B == {f[t] : t \in T}
<1>4. f \in [T -> Nat]
  BY <1>3
<1>5. B \in SUBSET Nat /\ B # {} /\ IsFiniteSet(B)
  <2>1. f \in Surjection(T, B)
    BY DEF Surjection
  <2>2. IsFiniteSet(B)
    <3> HIDE DEF B, f, T
    <3> QED BY <1>3, <2>1, FS_Surjection
  <2> QED BY <1>3, <1>4, <2>2
<1>6. PICK b \in B : \A y \in B : y <= b
  <2> HIDE DEF B
  <2> QED BY <1>5, MaxOfFinite
<1>7. PICK t \in T : minor[t] = b
  BY <1>6
<1>8. PICK u \in S : major[t] < major[u] \/ (major[t] = major[u] /\ minor[t] < minor[u])
  BY <1>3, <1>7
<1>9. major[u] \in A /\ major[u] <= a /\ major[t] = a /\ major[u] \in Nat /\ a \in Nat
  BY <1>1, <1>2, <1>7
<1>10. major[u] = a /\ minor[t] < minor[u] /\ u \in T
  BY <1>8, <1>9
<1>11. minor[u] \in B /\ minor[u] <= b
  BY <1>6, <1>10
<1> QED BY <1>3, <1>7, <1>10, <1>11

----------------------------------------------------------------------------
(* The inductive invariant                                                 *)

Keys(t) == KeysOf(op[t].checks)

\* The lock order: advisory ids, then rows by key, then ledger rows by shard.
Level(l) == CASE l[1] = "advisory" -> 0 [] l[1] = "row" -> 1 [] OTHER -> 2

Below(l, m) == Level(l) < Level(m) \/ (Level(l) = Level(m) /\ l[2] < m[2])

\* The kinds of lock a transaction may hold, and the kind it takes, by phase.
HeldLevels(phase) == CASE phase = "advisory" -> {0} [] phase = "rows" -> {0, 1} [] OTHER -> {0, 1, 2}

WantedLevels(phase) ==
    CASE phase = "advisory" -> {0} [] phase = "rows" -> {1} [] phase = "ledger" -> {2} [] OTHER -> {}

\* Locks are taken in order, and only for the rows a transaction is about.
LocksOK(t) ==
    /\ \A m \in wanted[t] :
        m \in Locks /\ Level(m) \in WantedLevels(pc[t]) /\ (m[1] = "row" => m[2] \in Keys(t))
    /\ \A l \in Locks : holder[l] = t =>
        /\ pc[t] \notin {"idle", "committed", "scan"}
        /\ Level(l) \in HeldLevels(pc[t])
        /\ l[1] = "row" => l[2] \in IF CheckOp(op[t]) THEN Keys(t) ELSE DOMAIN writes[t]
        /\ \A m \in wanted[t] : Below(l, m)

Owns(t, l) == holder[l] = t

WillOwn(t, l) == l \in wanted[t] \/ holder[l] = t

\* An admission holds what protects each thing it has read.
CheckOK(t) ==
    /\ pc[t] = "advisory" => \A k \in Keys(t) : WillOwn(t, <<"advisory", LockId[k]>>)
    /\ pc[t] # "advisory" => \A k \in Keys(t) : Owns(t, <<"advisory", LockId[k]>>)
    /\ pc[t] = "rows" => \A k \in Keys(t) : Exists(k) => WillOwn(t, <<"row", k>>)
    /\ pc[t] \in {"ledger", "upsert"} => \A k \in Keys(t) : Exists(k) => Owns(t, <<"row", k>>)
    /\ pc[t] = "ledger" => \A k \in MissingKeys(t) : WillOwn(t, <<"ledger", Shard[k]>>)
    /\ pc[t] \in {"upsert", "ready", "committing"} =>
            \A k \in MissingKeys(t) : Owns(t, <<"ledger", Shard[k]>>)
    /\ pc[t] \in {"advisory", "rows", "ledger", "upsert"} => writes[t] = Nothing /\ counts[t] = Nothing
    /\ pc[t] = "upsert" =>
            /\ Unreturned(op[t].checks, at[t]) = {}
            /\ \A s \in ShardsOf(MissingKeys(t)) : ledger[s] + InShard(MissingKeys(t), s) <= MaxRows[t]
    /\ pc[t] \in {"ready", "committing"} =>
            /\ DOMAIN writes[t] = Keys(t)
            /\ \A k \in Keys(t) : writes[t][k] # NoRow /\ Owns(t, <<"row", k>>)
            /\ DOMAIN counts[t] = ShardsOf(MissingKeys(t))
            /\ \A s \in ShardsOf(MissingKeys(t)) :
                  /\ counts[t][s] = ledger[s] + InShard(MissingKeys(t), s)
                  /\ counts[t][s] <= MaxRows[t]

\* A cleanup holds the rows it deletes, and they are there.
CleanupOK(t) ==
    /\ \A k \in DOMAIN writes[t] :
            /\ k \in Key /\ Exists(k) /\ writes[t][k] = NoRow
            /\ Owns(t, <<"row", k>>)
            /\ pc[t] = "ledger" => WillOwn(t, <<"ledger", Shard[k]>>)
            /\ pc[t] # "ledger" => Owns(t, <<"ledger", Shard[k]>>)
    /\ pc[t] = "ledger" => counts[t] = Nothing
    /\ pc[t] # "ledger" =>
            /\ DOMAIN counts[t] = ShardsOf(DOMAIN writes[t])
            /\ \A s \in DOMAIN counts[t] : counts[t][s] = ledger[s] - InShard(DOMAIN writes[t], s)

SessionOK(t) ==
    /\ LocksOK(t)
    /\ pc[t] \in {"idle", "committed", "scan"} => writes[t] = Nothing /\ counts[t] = Nothing
    /\ pc[t] \in {"advisory", "rows", "upsert"} => CheckOp(op[t])
    /\ pc[t] = "scan" => ~CheckOp(op[t])
    /\ CheckOp(op[t]) /\ pc[t] \notin {"idle", "committed", "scan"} => CheckOK(t)
    /\ ~CheckOp(op[t]) /\ pc[t] \in {"ledger", "ready", "committing"} => CleanupOK(t)

SessionsInv == \A t \in Session : SessionOK(t)

\* Which functions the session-indexed variables are.
Shape ==
    /\ op \in [Session -> Operation \cup {[kind |-> "cleanup", checks |-> <<>>]}]
    /\ DOMAIN writes = Session /\ DOMAIN counts = Session /\ DOMAIN reply = Session

Inv == TypeOK /\ Shape /\ LedgerExact /\ RowsBounded /\ ProtocolHolds /\ SessionsInv

----------------------------------------------------------------------------
(* Locks and sets of keys                                                  *)

\* Locks of distinct rows, shards and ledgers are distinct.
LEMMA LockFacts ==
  /\ \A k \in Key : /\ <<"advisory", LockId[k]>> \in Locks
                    /\ <<"row", k>> \in Locks
                    /\ <<"ledger", Shard[k]>> \in Locks
  /\ \A l \in Locks : /\ l = <<l[1], l[2]>> /\ l[2] \in Nat
                      /\ \/ l[1] = "advisory" /\ Level(l) = 0
                         \/ l[1] = "row" /\ l[2] \in Key /\ Level(l) = 1
                         \/ l[1] = "ledger" /\ l[2] \in Shards /\ Level(l) = 2
  /\ Shards \subseteq Nat
<1>1. /\ \A k \in Key : /\ <<"advisory", LockId[k]>> \in Locks
                        /\ <<"row", k>> \in Locks
                        /\ <<"ledger", Shard[k]>> \in Locks
  BY DEF Locks, Shards
<1>2. Shards \subseteq Nat
  BY PgFixedWindowAssumption DEF Shards
<1>3. ASSUME NEW l \in Locks
      PROVE  /\ l = <<l[1], l[2]>> /\ l[2] \in Nat
             /\ \/ l[1] = "advisory" /\ Level(l) = 0
                \/ l[1] = "row" /\ l[2] \in Key /\ Level(l) = 1
                \/ l[1] = "ledger" /\ l[2] \in Shards /\ Level(l) = 2
  <2>1. CASE l \in {"advisory"} \X {LockId[k] : k \in Key}
    BY <2>1, PgFixedWindowAssumption DEF Level
  <2>2. CASE l \in {"row"} \X Key
    BY <2>2, PgFixedWindowAssumption DEF Level
  <2>3. CASE l \in {"ledger"} \X Shards
    BY <1>2, <2>3 DEF Level
  <2> QED BY <1>3, <2>1, <2>2, <2>3 DEF Locks
<1> QED BY <1>1, <1>2, <1>3

\* A call's checks are a sequence of checks of counters it may charge.
LEMMA OperationFacts ==
  ASSUME Inv, NEW t \in Session
  PROVE  /\ op[t].checks \in Seq([key : Key, cost : Nat, mode : QuotaMode])
         /\ DOMAIN op[t].checks = 1..Len(op[t].checks) /\ Len(op[t].checks) \in Nat
         /\ \A j \in DOMAIN op[t].checks :
               /\ op[t].checks[j].key \in Keys(t) /\ op[t].checks[j].key \in Key
               /\ op[t].checks[j].cost \in 1..Limit[op[t].checks[j].key]
         /\ Keys(t) \subseteq Key
         /\ \A k \in Keys(t) : \E j \in DOMAIN op[t].checks : op[t].checks[j].key = k
<1> DEFINE c == op[t].checks
<1> DEFINE Item == [key : Key, cost : Nat, mode : QuotaMode]
<1>1. op[t] \in Operation \/ op[t] = [kind |-> "cleanup", checks |-> <<>>]
  BY DEF Inv, Shape
<1>2. c \in Seq(Item) /\ \A j \in DOMAIN c : c[j].cost \in 1..Limit[c[j].key]
  <2>1. CASE op[t] \in Operation
    BY <2>1, PgFixedWindowAssumption DEF ValidCost
  <2>2. CASE op[t] = [kind |-> "cleanup", checks |-> <<>>]
    <3>1. c = <<>>
      BY <2>2
    <3> HIDE DEF c
    <3>2. DOMAIN c = {}
      BY <3>1
    <3> QED BY <3>1, <3>2
  <2> QED BY <1>1, <2>1, <2>2
<1> HIDE DEF c, Item
<1>3. DOMAIN c = 1..Len(c) /\ Len(c) \in Nat /\ \A j \in DOMAIN c : c[j] \in Item
  BY <1>2
<1>4. \A j \in DOMAIN c : c[j].key \in Key
  BY <1>3 DEF Item
<1>5. Keys(t) = {c[j].key : j \in DOMAIN c}
  BY DEF Keys, KeysOf, c
<1> QED BY <1>2, <1>3, <1>4, <1>5 DEF c, Item

\* Any set of counters is finite, and so is its part in a shard.
LEMMA KeySets ==
  ASSUME NEW K \in SUBSET Key, NEW s
  PROVE  /\ IsFiniteSet(K) /\ IsFiniteSet({k \in K : Shard[k] = s})
         /\ InShard(K, s) = Cardinality({k \in K : Shard[k] = s}) /\ InShard(K, s) \in Nat
         /\ ShardsOf(K) = {Shard[k] : k \in K} /\ ShardsOf(K) \subseteq Shards
         /\ s \notin ShardsOf(K) => {k \in K : Shard[k] = s} = {}
<1>1. IsFiniteSet(K) /\ IsFiniteSet({k \in K : Shard[k] = s})
  BY FS_Subset, PgFixedWindowAssumption
<1> QED BY <1>1, FS_CardinalityType DEF InShard, ShardsOf, Shards

----------------------------------------------------------------------------
(* A session is not disturbed by what does not concern it                  *)

\* A session that neither moves nor loses a lock keeps its part of the invariant.
LEMMA Undisturbed ==
  ASSUME Inv, NEW u \in Session, rows' = rows, ledger' = ledger,
         pc'[u] = pc[u], op'[u] = op[u], wanted'[u] = wanted[u], at'[u] = at[u],
         writes'[u] = writes[u], counts'[u] = counts[u],
         \A l \in Locks : holder'[l] = u <=> holder[l] = u
  PROVE  SessionOK(u)'
<1>1. SessionOK(u)
  BY DEF Inv, SessionsInv
<1>2. Keys(u)' = Keys(u) /\ (\A k : Exists(k)' <=> Exists(k)) /\ MissingKeys(u)' = MissingKeys(u)
  BY DEF Keys, KeysOf, Exists, MissingKeys
<1>3. LocksOK(u)'
  BY <1>1, <1>2 DEF SessionOK, LocksOK
<1>4. Keys(u) \subseteq Key /\ MissingKeys(u) \subseteq Keys(u)
  BY OperationFacts DEF MissingKeys, Keys
<1>5. ASSUME CheckOK(u) PROVE CheckOK(u)'
  <2>1. /\ \A k \in Keys(u) : /\ Owns(u, <<"advisory", LockId[k]>>)' <=> Owns(u, <<"advisory", LockId[k]>>)
                              /\ Owns(u, <<"row", k>>)' <=> Owns(u, <<"row", k>>)
                              /\ Owns(u, <<"ledger", Shard[k]>>)' <=> Owns(u, <<"ledger", Shard[k]>>)
                              /\ WillOwn(u, <<"advisory", LockId[k]>>)' <=> WillOwn(u, <<"advisory", LockId[k]>>)
                              /\ WillOwn(u, <<"row", k>>)' <=> WillOwn(u, <<"row", k>>)
                              /\ WillOwn(u, <<"ledger", Shard[k]>>)' <=> WillOwn(u, <<"ledger", Shard[k]>>)
    BY <1>4, LockFacts DEF Owns, WillOwn
  <2>2. Unreturned(op[u].checks, at[u])' = Unreturned(op[u].checks, at[u])
    BY DEF Unreturned, QuotaDenied, Exists
  <2> QED BY <1>2, <1>4, <1>5, <2>1, <2>2 DEF CheckOK
<1>6. ASSUME CleanupOK(u) PROVE CleanupOK(u)'
  <2>1. \A k \in Key : /\ Owns(u, <<"row", k>>)' <=> Owns(u, <<"row", k>>)
                       /\ Owns(u, <<"ledger", Shard[k]>>)' <=> Owns(u, <<"ledger", Shard[k]>>)
                       /\ WillOwn(u, <<"ledger", Shard[k]>>)' <=> WillOwn(u, <<"ledger", Shard[k]>>)
    BY LockFacts DEF Owns, WillOwn
  <2> QED BY <1>2, <1>6, <2>1 DEF CleanupOK
<1> QED BY <1>1, <1>3, <1>5, <1>6 DEF SessionOK, CheckOp

----------------------------------------------------------------------------
(* Steps that commit nothing                                               *)

AnyOperation == Operation \cup {[kind |-> "cleanup", checks |-> <<>>]}

Fine == Outcome \ {"storage_invariant", "check_violation"}

\* The new value of every variable is well typed, and only session t's part of it is new.
StepType(t) ==
    /\ pc' \in [Session -> Phase] /\ op' \in [Session -> AnyOperation]
    /\ wanted' \in [Session -> SUBSET Locks] /\ at' \in [Session -> 0..MaxTime]
    /\ DOMAIN writes' = Session /\ DOMAIN counts' = Session /\ DOMAIN reply' = Session
    /\ \A u \in Session \ {t} :
        /\ pc'[u] = pc[u] /\ op'[u] = op[u] /\ wanted'[u] = wanted[u] /\ at'[u] = at[u]
        /\ writes'[u] = writes[u] /\ counts'[u] = counts[u] /\ reply'[u] = reply[u]
    /\ \A k \in DOMAIN writes'[t] : k \in Key /\ writes'[t][k] \in RowType(k)
    /\ \A s \in DOMAIN counts'[t] : s \in Shards /\ counts'[t][s] \in Nat
    /\ reply'[t].outcome \in Fine

\* Locks change hands only between session t and nobody.
StepLocks(t) ==
    /\ holder' \in [Locks -> Session \cup {None}]
    /\ \A l \in Locks : \/ holder'[l] = holder[l]
                        \/ holder'[l] = t /\ holder[l] = None
                        \/ holder[l] = t /\ holder'[l] = None

\* A step of t that leaves the stored rows alone preserves the invariant.
LEMMA StepInv ==
  ASSUME Inv, NEW t \in Session, UNCHANGED <<rows, ledger, clock, touched>>,
         StepType(t), StepLocks(t), SessionOK(t)'
  PROVE  Inv'
<1>1. TypeOK'
  <2>1. \A u \in Session : \A k \in DOMAIN writes'[u] : k \in Key /\ writes'[u][k] \in RowType(k)
    BY DEF Inv, TypeOK, StepType
  <2>2. \A u \in Session : \A s \in DOMAIN counts'[u] : s \in Shards /\ counts'[u][s] \in Nat
    BY DEF Inv, TypeOK, StepType
  <2>3. \A u \in Session : reply'[u].outcome \in Outcome
    BY DEF Inv, TypeOK, StepType, Fine
  <2> QED BY <2>1, <2>2, <2>3 DEF Inv, TypeOK, StepType, StepLocks, AnyOperation
<1>2. Shape'
  BY DEF Shape, StepType, AnyOperation
<1>3. LedgerExact'
  BY DEF Inv, LedgerExact, RowsIn, Exists
<1>4. RowsBounded'
  BY DEF Inv, RowsBounded, RowsIn, Exists
<1>5. ProtocolHolds'
  BY DEF Inv, ProtocolHolds, StepType, Fine
<1>6. SessionsInv'
  <2> SUFFICES ASSUME NEW u \in Session PROVE SessionOK(u)'
    BY DEF SessionsInv
  <2>1. CASE u = t
    BY <2>1
  <2>2. CASE u # t
    <3>1. \A l \in Locks : holder'[l] = u <=> holder[l] = u
      BY <2>2, PgFixedWindowAssumption DEF StepLocks
    <3> QED BY <2>2, <3>1, Undisturbed DEF StepType
  <2> QED BY <2>1, <2>2
<1> QED BY <1>1, <1>2, <1>3, <1>4, <1>5, <1>6 DEF Inv

\* The types before a step, in the form the steps need them.
LEMMA Typed ==
  ASSUME Inv, NEW t \in Session
  PROVE  /\ pc \in [Session -> Phase] /\ op \in [Session -> AnyOperation]
         /\ wanted \in [Session -> SUBSET Locks] /\ at \in [Session -> 0..MaxTime]
         /\ DOMAIN writes = Session /\ DOMAIN counts = Session /\ DOMAIN reply = Session
         /\ \A k \in DOMAIN writes[t] : k \in Key /\ writes[t][k] \in RowType(k)
         /\ \A s \in DOMAIN counts[t] : s \in Shards /\ counts[t][s] \in Nat
         /\ reply[t].outcome \in Fine
         /\ holder \in [Locks -> Session \cup {None}]
         /\ clock \in 0..MaxTime
         /\ SessionOK(t)
BY DEF Inv, TypeOK, Shape, ProtocolHolds, SessionsInv, AnyOperation, Fine

\* BeginCheck preserves the invariant.
LEMMA BeginCheckInv ==
  ASSUME Inv, NEW t \in Session, BeginCheck(t)
  PROVE  Inv'
<1>1. UNCHANGED <<rows, ledger, clock, touched>> /\ UNCHANGED <<holder, at, writes, counts>> /\ pc[t] = "idle"
  BY DEF BeginCheck
<1>2. PICK o \in Operation :
        /\ CheckOp(o)
        /\ op' = [op EXCEPT ![t] = o]
        /\ \/ /\ pc' = [pc EXCEPT ![t] = "advisory"]
              /\ wanted' = [wanted EXCEPT ![t] = AdvisoryLocks(o.checks)]
              /\ reply' = [reply EXCEPT ![t] = Pending]
           \/ reply' = [reply EXCEPT ![t] = Reply("invalid", 0, 0)] /\ UNCHANGED <<pc, wanted>>
  BY DEF BeginCheck
<1>3. SessionOK(t)
  BY Typed
<1>4. (\A l \in Locks : holder[l] # t) /\ writes[t] = Nothing /\ counts[t] = Nothing /\ wanted[t] = {}
  BY <1>1, <1>3 DEF SessionOK, LocksOK, WantedLevels
<1>5. KeysOf(o.checks) \subseteq Key
  <2>1. o.checks \in Seq([key : Key, cost : Nat, mode : QuotaMode])
    BY PgFixedWindowAssumption
  <2>2. \A j \in DOMAIN o.checks : o.checks[j] \in [key : Key, cost : Nat, mode : QuotaMode]
    <3> DEFINE Item == [key : Key, cost : Nat, mode : QuotaMode]
    <3> HIDE DEF Item
    <3>1. o.checks \in Seq(Item)
      BY <2>1 DEF Item
    <3>2. \A j \in DOMAIN o.checks : o.checks[j] \in Item
      BY <3>1
    <3> QED BY <3>2 DEF Item
  <2> QED BY <2>2 DEF KeysOf
<1>6. AdvisoryLocks(o.checks) \subseteq Locks
  BY <1>5, LockFacts DEF AdvisoryLocks
<1>7. StepLocks(t)
  BY <1>1, Typed DEF StepLocks
<1>8. CASE /\ pc' = [pc EXCEPT ![t] = "advisory"]
           /\ wanted' = [wanted EXCEPT ![t] = AdvisoryLocks(o.checks)]
           /\ reply' = [reply EXCEPT ![t] = Pending]
  <2>1. /\ pc'[t] = "advisory" /\ op'[t] = o /\ wanted'[t] = AdvisoryLocks(o.checks)
        /\ reply'[t] = Pending
    BY <1>2, <1>8, Typed
  <2>2. StepType(t)
    BY <1>1, <1>2, <1>6, <1>8, <2>1, Typed
       DEF StepType, Phase, BeforeCommit, AnyOperation, Pending, Reply, Fine, Outcome
  <2>3. SessionOK(t)'
    <3>1. LocksOK(t)'
      <4>1. \A m \in AdvisoryLocks(o.checks) : m \in Locks /\ Level(m) = 0 /\ m[1] # "row"
        BY <1>6 DEF AdvisoryLocks, Level
      <4> QED BY <1>1, <1>4, <2>1, <4>1 DEF LocksOK, WantedLevels
    <3>2. CheckOK(t)'
      BY <1>1, <1>4, <2>1 DEF CheckOK, Keys, WillOwn, AdvisoryLocks
    <3> QED BY <1>1, <1>2, <2>1, <3>1, <3>2 DEF SessionOK
  <2> QED BY <1>1, <1>7, <2>2, <2>3, StepInv
<1>9. CASE reply' = [reply EXCEPT ![t] = Reply("invalid", 0, 0)] /\ UNCHANGED <<pc, wanted>>
  <2>1. pc'[t] = "idle" /\ op'[t] = o /\ wanted'[t] = {} /\ reply'[t].outcome = "invalid"
    BY <1>1, <1>2, <1>4, <1>9, Typed DEF Reply
  <2>2. StepType(t)
    BY <1>1, <1>2, <1>9, <2>1, Typed DEF StepType, AnyOperation, Fine, Outcome
  <2>3. SessionOK(t)'
    BY <1>1, <1>4, <2>1 DEF SessionOK, LocksOK
  <2> QED BY <1>1, <1>7, <2>2, <2>3, StepInv
<1> QED BY <1>2, <1>8, <1>9

\* BeginCleanup preserves the invariant.
LEMMA BeginCleanupInv ==
  ASSUME Inv, NEW t \in Session, BeginCleanup(t)
  PROVE  Inv'
<1>1. /\ UNCHANGED <<rows, ledger, clock, touched>> /\ UNCHANGED <<holder, wanted, at, writes, counts>>
      /\ pc[t] = "idle" /\ pc' = [pc EXCEPT ![t] = "scan"] /\ reply' = [reply EXCEPT ![t] = Pending]
  BY DEF BeginCleanup
<1>2. PICK o \in Operation : ~CheckOp(o) /\ op' = [op EXCEPT ![t] = o]
  BY DEF BeginCleanup
<1>3. SessionOK(t)
  BY Typed
<1>4. (\A l \in Locks : holder[l] # t) /\ writes[t] = Nothing /\ counts[t] = Nothing /\ wanted[t] = {}
  BY <1>1, <1>3 DEF SessionOK, LocksOK, WantedLevels
<1>5. pc'[t] = "scan" /\ op'[t] = o /\ wanted'[t] = {} /\ reply'[t] = Pending
  BY <1>1, <1>2, <1>4, Typed
<1>6. StepLocks(t)
  BY <1>1, Typed DEF StepLocks
<1>7. StepType(t)
  BY <1>1, <1>2, <1>5, Typed
     DEF StepType, Phase, BeforeCommit, AnyOperation, Pending, Reply, Fine, Outcome
<1>8. SessionOK(t)'
  BY <1>1, <1>2, <1>4, <1>5 DEF SessionOK, LocksOK
<1> QED BY <1>1, <1>6, <1>7, <1>8, StepInv

\* Taking the next lock keeps the locks in order.
LEMMA AcquireInv ==
  ASSUME Inv, NEW t \in Session, Acquire(t)
  PROVE  Inv'
<1>1. UNCHANGED <<rows, ledger, clock, touched>> /\ UNCHANGED <<pc, op, at, writes, counts, reply>>
  BY DEF Acquire
<1>2. PICK l \in Locks :
        /\ NextLock(t, l) /\ Free(t, l)
        /\ wanted' = [wanted EXCEPT ![t] = @ \ {l}]
        /\ \/ l[1] = "row" /\ ~Exists(l[2]) /\ holder' = holder
           \/ ~(l[1] = "row" /\ ~Exists(l[2])) /\ holder' = [holder EXCEPT ![l] = t]
  BY DEF Acquire
<1>3. SessionOK(t) /\ LocksOK(t)
  BY Typed DEF SessionOK
<1>4. wanted'[t] = wanted[t] \ {l} /\ l \in wanted[t] /\ holder[l] \in {t, None}
  BY <1>2, Typed DEF NextLock, Free
<1>5. StepLocks(t)
  BY <1>2, <1>4, Typed DEF StepLocks
<1>6. StepType(t)
  BY <1>1, <1>2, Typed DEF StepType
<1>7. \A m \in Locks : holder'[m] = t => holder[m] = t \/ m = l
  BY <1>2, Typed
<1>8. \A m \in Locks : holder[m] = t => holder'[m] = t
  BY <1>2, Typed
<1>9. pc[t] \in {"advisory", "rows", "ledger"} /\ Level(l) \in WantedLevels(pc[t])
  BY <1>3, <1>4 DEF LocksOK, WantedLevels
<1>10. holder'[l] = t \/ (l[1] = "row" /\ ~Exists(l[2]))
  BY <1>2, Typed
\* A lock on a row that is gone is not needed any more.
<1>11. \A m \in Locks : WillOwn(t, m) => WillOwn(t, m)' \/ (m = l /\ l[1] = "row" /\ ~Exists(l[2]))
  BY <1>4, <1>8, <1>10 DEF WillOwn
<1>12. LocksOK(t)'
  <2>1. \A m \in wanted'[t] : /\ m \in Locks /\ Level(m) \in WantedLevels(pc[t]) /\ m # l
                              /\ m[1] = "row" => m[2] \in Keys(t)
    BY <1>3, <1>4 DEF LocksOK
  <2>2. \A m \in wanted'[t] : Below(l, m)
    <3> SUFFICES ASSUME NEW m \in wanted'[t] PROVE Below(l, m)
      OBVIOUS
    <3>1. Level(m) = Level(l)
      BY <1>9, <2>1 DEF WantedLevels
    <3>2. l[2] <= m[2] /\ m # l /\ m \in Locks
      BY <1>2, <1>4, <2>1 DEF NextLock
    <3>3. l[2] # m[2]
      <4>1. l[1] = m[1]
        BY <3>1, <3>2, LockFacts
      <4> QED BY <3>2, <4>1, LockFacts
    <3>4. l[2] \in Nat /\ m[2] \in Nat
      BY <3>2, LockFacts
    <3>5. l[2] < m[2]
      BY <3>2, <3>3, <3>4
    <3> QED BY <3>1, <3>5 DEF Below
  <2>3. /\ Level(l) \in HeldLevels(pc[t])
        /\ l[1] = "row" => l[2] \in IF CheckOp(op[t]) THEN Keys(t) ELSE DOMAIN writes[t]
    <3>1. Level(l) \in HeldLevels(pc[t])
      BY <1>9 DEF WantedLevels, HeldLevels
    <3>2. ASSUME l[1] = "row" PROVE CheckOp(op[t]) /\ l[2] \in Keys(t)
      <4>1. Level(l) = 1
        BY <3>2, LockFacts
      <4>2. pc[t] = "rows"
        BY <1>9, <4>1 DEF WantedLevels
      <4> QED BY <1>3, <1>4, <3>2, <4>2 DEF SessionOK, LocksOK
    <3> QED BY <3>1, <3>2
  <2>4. \A m \in Locks : holder'[m] = t =>
          /\ pc[t] \notin {"idle", "committed", "scan"} /\ Level(m) \in HeldLevels(pc[t])
          /\ m[1] = "row" => m[2] \in IF CheckOp(op[t]) THEN Keys(t) ELSE DOMAIN writes[t]
          /\ \A n \in wanted'[t] : Below(m, n)
    BY <1>3, <1>4, <1>7, <1>9, <2>2, <2>3 DEF LocksOK
  <2> QED BY <1>1, <2>1, <2>4 DEF LocksOK, Keys
<1>13. Keys(t)' = Keys(t) /\ (\A k : Exists(k)' <=> Exists(k)) /\ MissingKeys(t)' = MissingKeys(t)
       /\ Keys(t) \subseteq Key /\ MissingKeys(t) \subseteq Keys(t)
  <2>1. Keys(t) \subseteq Key
    BY OperationFacts
  <2> QED BY <1>1, <2>1 DEF Keys, Exists, MissingKeys
<1>14. ASSUME CheckOp(op[t]) PROVE CheckOK(t)'
  <2>1. CheckOK(t)
    BY <1>3, <1>9, <1>14 DEF SessionOK
  <2>2. \A m \in Locks : Owns(t, m) => Owns(t, m)'
    BY <1>8 DEF Owns
  <2>3. pc[t] = "advisory" => \A k \in Keys(t) : WillOwn(t, <<"advisory", LockId[k]>>)'
    <3> SUFFICES ASSUME pc[t] = "advisory", NEW k \in Keys(t) PROVE WillOwn(t, <<"advisory", LockId[k]>>)'
      OBVIOUS
    <3>1. <<"advisory", LockId[k]>> \in Locks /\ WillOwn(t, <<"advisory", LockId[k]>>)
      BY <1>13, <2>1, LockFacts DEF CheckOK
    <3> QED BY <1>11, <3>1
  <2>4. pc[t] = "rows" => \A k \in Keys(t) : Exists(k) => WillOwn(t, <<"row", k>>)'
    <3> SUFFICES ASSUME pc[t] = "rows", NEW k \in Keys(t), Exists(k) PROVE WillOwn(t, <<"row", k>>)'
      OBVIOUS
    <3>1. <<"row", k>> \in Locks /\ WillOwn(t, <<"row", k>>)
      BY <1>13, <2>1, LockFacts DEF CheckOK
    <3> QED BY <1>11, <3>1
  <2>5. pc[t] = "ledger" => \A k \in MissingKeys(t) : WillOwn(t, <<"ledger", Shard[k]>>)'
    <3> SUFFICES ASSUME pc[t] = "ledger", NEW k \in MissingKeys(t) PROVE WillOwn(t, <<"ledger", Shard[k]>>)'
      OBVIOUS
    <3>1. <<"ledger", Shard[k]>> \in Locks /\ WillOwn(t, <<"ledger", Shard[k]>>)
      BY <1>13, <2>1, LockFacts DEF CheckOK
    <3> QED BY <1>11, <3>1
  <2>6. \A k \in Key : Owns(t, <<"advisory", LockId[k]>>) => Owns(t, <<"advisory", LockId[k]>>)'
    BY <2>2, LockFacts
  <2>7. \A k \in Key : Owns(t, <<"row", k>>) => Owns(t, <<"row", k>>)'
    BY <2>2, LockFacts
  <2> QED BY <1>1, <1>9, <1>13, <2>1, <2>3, <2>4, <2>5, <2>6, <2>7 DEF CheckOK
<1>15. ASSUME ~CheckOp(op[t]), pc[t] = "ledger" PROVE CleanupOK(t)'
  <2>1. CleanupOK(t)
    BY <1>3, <1>15 DEF SessionOK
  <2>2. ASSUME NEW k \in DOMAIN writes[t]
        PROVE  Owns(t, <<"row", k>>)' /\ WillOwn(t, <<"ledger", Shard[k]>>)'
    <3>1. k \in Key /\ Owns(t, <<"row", k>>) /\ WillOwn(t, <<"ledger", Shard[k]>>)
      BY <1>15, <2>1, <2>2 DEF CleanupOK
    <3>2. <<"row", k>> \in Locks /\ <<"ledger", Shard[k]>> \in Locks
      BY <3>1, LockFacts
    <3>3. Owns(t, <<"row", k>>)'
      BY <1>8, <3>1, <3>2 DEF Owns
    <3>4. WillOwn(t, <<"ledger", Shard[k]>>)'
      BY <1>11, <3>1, <3>2
    <3> QED BY <3>3, <3>4
  <2> QED BY <1>1, <1>13, <1>15, <2>1, <2>2 DEF CleanupOK
<1>16. SessionOK(t)'
  BY <1>1, <1>3, <1>9, <1>12, <1>14, <1>15 DEF SessionOK
<1> QED BY <1>1, <1>5, <1>6, <1>16, StepInv

\* StartRowLocks preserves the invariant.
LEMMA StartRowLocksInv ==
  ASSUME Inv, NEW t \in Session, StartRowLocks(t)
  PROVE  Inv'
<1> DEFINE w == {<<"row", k>> : k \in {h \in Keys(t) : Exists(h)}}
<1>1. /\ UNCHANGED <<rows, ledger, clock, touched>> /\ UNCHANGED <<holder, op, at, writes, counts, reply>>
      /\ pc[t] = "advisory" /\ wanted[t] = {} /\ pc' = [pc EXCEPT ![t] = "rows"]
      /\ wanted' = [wanted EXCEPT ![t] = w]
  BY DEF StartRowLocks, Keys
<1>2. SessionOK(t) /\ LocksOK(t) /\ CheckOp(op[t]) /\ CheckOK(t)
  BY <1>1, Typed DEF SessionOK
<1>3. pc'[t] = "rows" /\ wanted'[t] = w
  BY <1>1, Typed
<1>4. Keys(t) \subseteq Key
  BY OperationFacts
<1>5. \A m \in w : m \in Locks /\ m[1] = "row" /\ Level(m) = 1 /\ m[2] \in Keys(t)
  <2> SUFFICES ASSUME NEW m \in w PROVE m \in Locks /\ m[1] = "row" /\ Level(m) = 1 /\ m[2] \in Keys(t)
    OBVIOUS
  <2>1. PICK k \in Keys(t) : m = <<"row", k>>
    OBVIOUS
  <2>2. m \in Locks /\ m[1] = "row" /\ m[2] = k
    BY <1>4, <2>1, LockFacts
  <2> QED BY <2>2, LockFacts
<1>6. Keys(t)' = Keys(t) /\ \A k : Exists(k)' <=> Exists(k)
  BY <1>1 DEF Keys, Exists
<1>7. \A k \in Keys(t) : Exists(k) => <<"row", k>> \in w
  OBVIOUS
<1> HIDE DEF w
<1>8. StepLocks(t)
  BY <1>1, Typed DEF StepLocks
<1>9. StepType(t)
  <2>1. w \in SUBSET Locks
    BY <1>5
  <2> QED BY <1>1, <2>1, Typed DEF StepType, Phase, BeforeCommit
<1>10. LocksOK(t)'
  <2>1. \A l \in Locks : holder[l] = t => Level(l) = 0
    BY <1>1, <1>2 DEF LocksOK, HeldLevels
  <2>2. \A l \in Locks : holder[l] = t => \A m \in w : Below(l, m)
    BY <1>5, <2>1 DEF Below
  <2>3. \A l \in Locks : holder[l] = t => l[1] # "row"
    BY <2>1, LockFacts
  <2> QED BY <1>1, <1>3, <1>5, <1>6, <2>1, <2>2, <2>3 DEF LocksOK, WantedLevels, HeldLevels
<1>11. CheckOK(t)'
  <2>1. \A k \in Keys(t) : Owns(t, <<"advisory", LockId[k]>>)'
    BY <1>1, <1>2 DEF CheckOK, WillOwn, Owns
  <2>2. \A k \in Keys(t) : Exists(k) => WillOwn(t, <<"row", k>>)'
    BY <1>3, <1>7 DEF WillOwn
  <2> QED BY <1>1, <1>2, <1>3, <1>6, <2>1, <2>2 DEF CheckOK
<1>12. SessionOK(t)'
  BY <1>1, <1>2, <1>3, <1>10, <1>11 DEF SessionOK
<1> QED BY <1>1, <1>8, <1>9, <1>12, StepInv

\* StartLedgerLocks preserves the invariant.
LEMMA StartLedgerLocksInv ==
  ASSUME Inv, NEW t \in Session, StartLedgerLocks(t)
  PROVE  Inv'
<1> DEFINE w == {<<"ledger", Shard[k]>> : k \in MissingKeys(t)}
<1>1. /\ UNCHANGED <<rows, ledger, clock, touched>> /\ UNCHANGED <<holder, op, at, writes, counts, reply>>
      /\ pc[t] = "rows" /\ wanted[t] = {} /\ pc' = [pc EXCEPT ![t] = "ledger"]
      /\ wanted' = [wanted EXCEPT ![t] = w]
  BY DEF StartLedgerLocks, LedgerLocks
<1>2. SessionOK(t) /\ LocksOK(t) /\ CheckOp(op[t]) /\ CheckOK(t)
  BY <1>1, Typed DEF SessionOK
<1>3. pc'[t] = "ledger" /\ wanted'[t] = w
  BY <1>1, Typed
<1>4. Keys(t) \subseteq Key /\ MissingKeys(t) \subseteq Keys(t)
  BY OperationFacts DEF MissingKeys, Keys
<1>5. \A m \in w : m \in Locks /\ m[1] = "ledger" /\ Level(m) = 2
  BY <1>4, LockFacts DEF Level
<1>6. Keys(t)' = Keys(t) /\ (\A k : Exists(k)' <=> Exists(k)) /\ MissingKeys(t)' = MissingKeys(t)
  BY <1>1 DEF Keys, Exists, MissingKeys
<1>7. \A k \in MissingKeys(t) : <<"ledger", Shard[k]>> \in w
  OBVIOUS
<1> HIDE DEF w
<1>8. StepLocks(t)
  BY <1>1, Typed DEF StepLocks
<1>9. StepType(t)
  <2>1. w \in SUBSET Locks
    BY <1>5
  <2> QED BY <1>1, <2>1, Typed DEF StepType, Phase, BeforeCommit
<1>10. LocksOK(t)'
  <2>1. \A l \in Locks : holder[l] = t => Level(l) \in {0, 1} /\ (l[1] = "row" => l[2] \in Keys(t))
    BY <1>1, <1>2 DEF LocksOK, HeldLevels
  <2>2. \A l \in Locks : holder[l] = t => \A m \in w : Below(l, m)
    BY <1>5, <2>1 DEF Below
  <2> QED BY <1>1, <1>2, <1>3, <1>5, <1>6, <2>1, <2>2 DEF LocksOK, WantedLevels, HeldLevels
<1>11. CheckOK(t)'
  <2>1. \A k \in Keys(t) : Owns(t, <<"advisory", LockId[k]>>)'
    BY <1>1, <1>2 DEF CheckOK, Owns
  <2>2. \A k \in Keys(t) : Exists(k) => Owns(t, <<"row", k>>)'
    BY <1>1, <1>2 DEF CheckOK, WillOwn, Owns
  <2>3. \A k \in MissingKeys(t) : WillOwn(t, <<"ledger", Shard[k]>>)'
    BY <1>3, <1>7 DEF WillOwn
  <2> QED BY <1>1, <1>2, <1>3, <1>6, <2>1, <2>2, <2>3 DEF CheckOK
<1>12. SessionOK(t)'
  BY <1>1, <1>2, <1>3, <1>10, <1>11 DEF SessionOK
<1> QED BY <1>1, <1>8, <1>9, <1>12, StepInv

\* first_capacity_denial is right about the whole batch: when no check is denied, the
\* rows the batch will insert fit, although each check counts only the ones before it.
LEMMA CapacityLemma ==
  ASSUME Inv, NEW t \in Session, \A j \in DOMAIN op[t].checks : ~CapacityDenied(t, j),
         NEW s \in ShardsOf(MissingKeys(t))
  PROVE  ledger[s] + InShard(MissingKeys(t), s) <= MaxRows[t]
<1> DEFINE c == op[t].checks
<1> DEFINE new(h) == ~Exists(c[h].key) /\ Shard[c[h].key] = s
<1> DEFINE N == {h \in DOMAIN c : new(h)}
<1>1. DOMAIN c = 1..Len(c) /\ Len(c) \in Nat /\ Keys(t) \subseteq Key
      /\ \A k \in Keys(t) : \E j \in DOMAIN c : c[j].key = k
  BY OperationFacts
<1>2. MissingKeys(t) = {k \in Keys(t) : ~Exists(k)}
  BY DEF MissingKeys, Keys
<1>3. N \in SUBSET Nat /\ IsFiniteSet(N) /\ IsFiniteSet(DOMAIN c)
  <2>1. IsFiniteSet(DOMAIN c) /\ DOMAIN c \subseteq Nat
    BY <1>1, FS_Interval
  <2> QED BY <2>1, FS_Subset
<1>4. N # {}
  <2>1. PICK k \in MissingKeys(t) : Shard[k] = s
    BY DEF ShardsOf
  <2>2. PICK j \in DOMAIN c : c[j].key = k
    BY <1>1, <1>2, <2>1
  <2> QED BY <1>2, <2>1, <2>2
<1>5. PICK j \in N : \A h \in N : h <= j
  <2> HIDE DEF N
  <2> QED BY <1>3, <1>4, MaxOfFinite
<1> DEFINE B == {h \in 1..(j - 1) : new(h)}
<1>6. j \in 1..Len(c) /\ new(j)
  BY <1>1, <1>5
<1>7. ledger[s] + Cardinality(B) + 1 <= MaxRows[t]
  <2>1. ~(ledger[s] + Cardinality(B) + 1 > MaxRows[t])
    BY <1>5, <1>6 DEF CapacityDenied
  <2>2. IsFiniteSet(B)
    <3>1. IsFiniteSet(1..(j - 1))
      BY <1>6, FS_Interval
    <3> QED BY <3>1, FS_Subset
  <2>3. Cardinality(B) \in Nat
    BY <2>2, FS_CardinalityType
  <2>4. ledger[s] \in Nat /\ MaxRows[t] \in Nat
    <3>1. s \in Shards
      BY <1>1, <1>2, KeySets
    <3> QED BY <3>1, PgFixedWindowAssumption DEF Inv, TypeOK
  <2> HIDE DEF B
  <2> QED BY <2>1, <2>3, <2>4
<1>8. N = B \cup {j} /\ j \notin B
  <2>1. \A h \in N : h \in B \/ h = j
    <3> SUFFICES ASSUME NEW h \in N PROVE h \in B \/ h = j
      OBVIOUS
    <3>1. h \in 1..Len(c) /\ h <= j /\ new(h)
      BY <1>1, <1>5
    <3> QED BY <1>6, <3>1
  <2>2. \A h \in B : h \in N
    BY <1>1, <1>6
  <2>3. j \notin B
    BY <1>6
  <2> QED BY <1>5, <2>1, <2>2, <2>3
<1>9. Cardinality(N) = Cardinality(B) + 1 /\ Cardinality(B) \in Nat /\ Cardinality(N) \in Nat
  <2>1. IsFiniteSet(B)
    BY <1>3, <1>8, FS_Subset
  <2> HIDE DEF B, N
  <2> QED BY <1>3, <1>8, <2>1, FS_AddElement, FS_CardinalityType
<1>10. InShard(MissingKeys(t), s) <= Cardinality(N)
  <2> DEFINE f == [h \in N |-> c[h].key]
  <2> DEFINE K == {k \in MissingKeys(t) : Shard[k] = s}
  <2>1. f \in Surjection(N, K)
    <3>1. \A h \in N : c[h].key \in K
      BY <1>1, <1>2, OperationFacts
    <3>2. \A k \in K : \E h \in N : c[h].key = k
      BY <1>1, <1>2
    <3> HIDE DEF N, K
    <3> QED BY <3>1, <3>2 DEF Surjection
  <2>2. Cardinality(K) <= Cardinality(N)
    <3> HIDE DEF f, N, K
    <3> QED BY <1>3, <2>1, FS_Surjection
  <2> QED BY <2>2 DEF InShard
<1>11. ledger[s] \in Nat /\ MaxRows[t] \in Nat /\ InShard(MissingKeys(t), s) \in Nat
  <2>1. s \in Shards /\ InShard(MissingKeys(t), s) \in Nat
    BY <1>1, <1>2, KeySets
  <2> QED BY <2>1, PgFixedWindowAssumption DEF Inv, TypeOK
<1> HIDE DEF B, N
<1> QED BY <1>7, <1>9, <1>10, <1>11

\* A step of t that keeps its locks, phase and reading and only answers its client.
LEMMA ReplyInv ==
  ASSUME Inv, NEW t \in Session, UNCHANGED <<rows, ledger, clock, touched>>,
         UNCHANGED <<holder, op, wanted, writes, counts, pc>>,
         at' \in [Session -> 0..MaxTime], \A u \in Session \ {t} : at'[u] = at[u],
         pc[t] # "upsert" \/ at' = at,
         NEW r, reply' = [reply EXCEPT ![t] = r], r.outcome \in Fine
  PROVE  Inv'
<1>1. SessionOK(t)
  BY Typed
<1>2. StepLocks(t)
  BY Typed DEF StepLocks
<1>3. StepType(t)
  BY Typed DEF StepType
<1>4. Keys(t)' = Keys(t) /\ (\A k : Exists(k)' <=> Exists(k)) /\ MissingKeys(t)' = MissingKeys(t)
  BY DEF Keys, Exists, MissingKeys
<1>5. LocksOK(t)'
  BY <1>1, <1>4 DEF SessionOK, LocksOK
<1>6. ASSUME CheckOK(t) PROVE CheckOK(t)'
  <2>1. \A l : (Owns(t, l)' <=> Owns(t, l)) /\ (WillOwn(t, l)' <=> WillOwn(t, l))
    BY DEF Owns, WillOwn
  <2>2. pc[t] = "upsert" => Unreturned(op[t].checks, at[t])' = Unreturned(op[t].checks, at[t])
    BY DEF Unreturned, QuotaDenied, Exists
  <2> QED BY <1>4, <1>6, <2>1, <2>2 DEF CheckOK
<1>7. ASSUME CleanupOK(t) PROVE CleanupOK(t)'
  <2>1. \A l : (Owns(t, l)' <=> Owns(t, l)) /\ (WillOwn(t, l)' <=> WillOwn(t, l))
    BY DEF Owns, WillOwn
  <2> QED BY <1>4, <1>7, <2>1 DEF CleanupOK
<1>8. SessionOK(t)'
  BY <1>1, <1>5, <1>6, <1>7 DEF SessionOK
<1> QED BY <1>2, <1>3, <1>8, StepInv

\* When no check is the first to be denied, none is denied.
LEMMA FirstDeniedZero ==
  ASSUME Inv, NEW t \in Session, NEW now, FirstDenied(t, now) = 0
  PROVE  \A j \in DOMAIN op[t].checks : ~CapacityDenied(t, j) /\ ~QuotaDenied(op[t].checks[j], now)
<1> DEFINE D == {j \in DOMAIN op[t].checks : CapacityDenied(t, j) \/ QuotaDenied(op[t].checks[j], now)}
<1>1. DOMAIN op[t].checks \subseteq Nat \ {0}
  BY OperationFacts
<1>2. D # {} => Min(D) \in D
  <2>1. D \in SUBSET Nat
    BY <1>1
  <2> HIDE DEF D
  <2> QED BY <2>1, MinOfNaturals
<1>3. FirstDenied(t, now) = IF D = {} THEN 0 ELSE Min(D)
  BY DEF FirstDenied
<1>4. D = {}
  <2> SUFFICES ASSUME D # {} PROVE FALSE
    OBVIOUS
  <2>1. Min(D) = 0 /\ Min(D) \in D
    BY <1>2, <1>3
  <2> QED BY <1>1, <2>1
<1> QED BY <1>4

\* Preflight preserves the invariant.
LEMMA PreflightInv ==
  ASSUME Inv, NEW t \in Session, Preflight(t)
  PROVE  Inv'
<1> DEFINE j == FirstDenied(t, clock)
<1>1. /\ UNCHANGED <<rows, ledger, clock, touched>> /\ UNCHANGED <<holder, op, wanted, writes, counts>>
      /\ pc[t] = "ledger" /\ wanted[t] = {} /\ CheckOp(op[t]) /\ at' = [at EXCEPT ![t] = clock]
      /\ \/ reply' = [reply EXCEPT ![t] = Denial(t, j, clock)] /\ UNCHANGED pc
         \/ j = 0 /\ pc' = [pc EXCEPT ![t] = "upsert"] /\ UNCHANGED reply
  BY DEF Preflight
<1>2. at' \in [Session -> 0..MaxTime] /\ at'[t] = clock /\ \A u \in Session \ {t} : at'[u] = at[u]
  BY <1>1, Typed
<1> HIDE DEF j
<1>3. CASE reply' = [reply EXCEPT ![t] = Denial(t, j, clock)] /\ UNCHANGED pc
  <2>1. Denial(t, j, clock).outcome \in {"shadow_denied", "quota_denied", "capacity_denied"}
    BY DEF Denial, Reply
  <2>2. Denial(t, j, clock).outcome \in Fine
    BY <2>1 DEF Fine, Outcome
  <2> QED BY <1>1, <1>2, <1>3, <2>2, ReplyInv
<1>4. CASE j = 0 /\ pc' = [pc EXCEPT ![t] = "upsert"] /\ UNCHANGED reply
  <2>1. SessionOK(t) /\ LocksOK(t) /\ CheckOK(t)
    BY <1>1, Typed DEF SessionOK
  <2>2. pc'[t] = "upsert"
    BY <1>4, Typed
  <2>3. StepLocks(t)
    BY <1>1, Typed DEF StepLocks
  <2>4. StepType(t)
    BY <1>1, <1>2, <1>4, Typed DEF StepType, Phase, BeforeCommit
  <2>5. Keys(t)' = Keys(t) /\ (\A k : Exists(k)' <=> Exists(k)) /\ MissingKeys(t)' = MissingKeys(t)
    BY <1>1 DEF Keys, Exists, MissingKeys
  <2>6. LocksOK(t)'
    <3>1. HeldLevels("upsert") = HeldLevels("ledger")
      BY DEF HeldLevels
    <3> QED BY <1>1, <2>1, <2>2, <2>5, <3>1 DEF LocksOK
  <2>7. \A i \in DOMAIN op[t].checks : ~CapacityDenied(t, i) /\ ~QuotaDenied(op[t].checks[i], clock)
    BY <1>4, FirstDeniedZero DEF j
  <2>8. Unreturned(op[t].checks, at[t])' = {}
    BY <1>1, <1>2, <2>7 DEF Unreturned, QuotaDenied, Exists
  <2>9. \A s \in ShardsOf(MissingKeys(t)) : ledger[s] + InShard(MissingKeys(t), s) <= MaxRows[t]
    BY <2>7, CapacityLemma
  <2>10. CheckOK(t)'
    <3>1. \A k \in Keys(t) : Owns(t, <<"advisory", LockId[k]>>)'
      BY <1>1, <2>1 DEF CheckOK, Owns
    <3>2. \A k \in Keys(t) : Exists(k) => Owns(t, <<"row", k>>)'
      BY <1>1, <2>1 DEF CheckOK, Owns
    <3>3. \A k \in MissingKeys(t) : Owns(t, <<"ledger", Shard[k]>>)'
      BY <1>1, <2>1 DEF CheckOK, WillOwn, Owns
    <3>4. writes'[t] = Nothing /\ counts'[t] = Nothing
      BY <1>1, <2>1 DEF CheckOK
    <3> QED BY <1>1, <2>2, <2>5, <2>8, <2>9, <3>1, <3>2, <3>3, <3>4 DEF CheckOK
  <2>11. SessionOK(t)'
    BY <1>1, <2>2, <2>6, <2>10 DEF SessionOK
  <2> QED BY <1>1, <2>3, <2>4, <2>11, StepInv
<1> QED BY <1>1, <1>3, <1>4

\* The row an admitted check leaves is a row of its policy: the sum stays in the limit.
LEMMA UpsertedType ==
  ASSUME Inv, NEW t \in Session, NEW j \in DOMAIN op[t].checks, NEW now \in 0..MaxTime,
         ~QuotaDenied(op[t].checks[j], now)
  PROVE  /\ Upserted(op[t].checks[j], now) \in RowType(op[t].checks[j].key)
         /\ Upserted(op[t].checks[j], now) # NoRow
<1> DEFINE c == op[t].checks[j]
<1> DEFINE k == c.key
<1>1. k \in Key /\ c.cost \in 1..Limit[k]
  BY OperationFacts
<1>2. Limit[k] \in Nat \ {0} /\ Window[k] \in Nat \ {0} /\ MaxTime \in Nat
  BY <1>1, PgFixedWindowAssumption
<1>3. rows[k] \in RowType(k)
  BY <1>1 DEF Inv, TypeOK
<1>4. CASE Exists(k) /\ rows[k].expires > now
  <2>1. rows[k] \in [used : 1..Limit[k], expires : 1..(MaxTime + Window[k])]
    BY <1>3, <1>4 DEF RowType, Exists
  <2>2. ~(rows[k].used > Limit[k] - c.cost)
    BY <1>4 DEF QuotaDenied
  <2>3. Upserted(c, now) = [rows[k] EXCEPT !.used = @ + c.cost]
    BY <1>4 DEF Upserted
  <2>4. rows[k].used + c.cost \in 1..Limit[k]
    BY <1>1, <1>2, <2>1, <2>2
  <2> HIDE DEF c, k
  <2>5. Upserted(c, now) = [used |-> rows[k].used + c.cost, expires |-> rows[k].expires]
    BY <2>1, <2>3
  <2> QED BY <2>1, <2>4, <2>5 DEF RowType, NoRow, c, k
<1>5. CASE ~(Exists(k) /\ rows[k].expires > now)
  <2>1. Upserted(c, now) = [used |-> c.cost, expires |-> now + Window[k]]
    BY <1>5 DEF Upserted
  <2>2. now + Window[k] \in 1..(MaxTime + Window[k])
    BY <1>2
  <2> HIDE DEF c, k
  <2> QED BY <1>1, <2>1, <2>2 DEF RowType, NoRow, c, k
<1> QED BY <1>4, <1>5

\* The check a batch makes of one of its keys.
LEMMA CheckOfFact ==
  ASSUME Inv, NEW t \in Session, NEW k \in Keys(t)
  PROVE  \E j \in DOMAIN op[t].checks : CheckOf(op[t].checks, k) = op[t].checks[j] /\ op[t].checks[j].key = k
<1>1. \E j \in DOMAIN op[t].checks : op[t].checks[j].key = k
  BY OperationFacts
<1> QED BY <1>1 DEF CheckOf

\* Upsert preserves the invariant.
LEMMA UpsertInv ==
  ASSUME Inv, NEW t \in Session, Upsert(t)
  PROVE  Inv'
<1> DEFINE checks == op[t].checks
<1> DEFINE M == MissingKeys(t)
<1> DEFINE after == CountsAfter(M, 1)
<1> DEFINE w == [k \in Keys(t) |-> Upserted(CheckOf(checks, k), at[t])]
<1>1. /\ UNCHANGED <<rows, ledger, clock, touched>> /\ UNCHANGED <<op, wanted, at>>
      /\ pc[t] = "upsert" /\ (\A l \in UpsertLocks(t) : Free(t, l)) /\ TakeAll(t, UpsertLocks(t))
  BY DEF Upsert
<1>2. SessionOK(t) /\ LocksOK(t) /\ CheckOp(op[t]) /\ CheckOK(t)
  BY <1>1, Typed DEF SessionOK
<1>3. Keys(t) \subseteq Key /\ M \subseteq Keys(t) /\ M \in SUBSET Key
  BY OperationFacts DEF MissingKeys, Keys
<1>4. DOMAIN after = ShardsOf(M) /\ \A s \in ShardsOf(M) : after[s] = ledger[s] + InShard(M, s)
  <2>1. \A s : InShard(M, s) \in Nat
    BY <1>3, KeySets
  <2> HIDE DEF M
  <2> QED BY <2>1 DEF CountsAfter
<1>5. \A s \in ShardsOf(M) : s \in Shards /\ after[s] \in Nat /\ after[s] <= MaxRows[t] /\ after[s] <= HardMax
  <2> SUFFICES ASSUME NEW s \in ShardsOf(M)
               PROVE  s \in Shards /\ after[s] \in Nat /\ after[s] <= MaxRows[t] /\ after[s] <= HardMax
    OBVIOUS
  <2>1. s \in Shards /\ InShard(M, s) \in Nat
    BY <1>3, KeySets
  <2>2. ledger[s] \in Nat /\ MaxRows[t] \in 1..HardMax /\ HardMax \in Nat
    BY <2>1, PgFixedWindowAssumption DEF Inv, TypeOK
  <2>3. ledger[s] + InShard(M, s) <= MaxRows[t]
    BY <1>1, <1>2 DEF CheckOK
  <2> HIDE DEF after
  <2> QED BY <1>4, <2>1, <2>2, <2>3
<1>6. Unreturned(checks, at[t]) = {}
  BY <1>1, <1>2 DEF CheckOK
<1>7. /\ writes' = [writes EXCEPT ![t] = w] /\ counts' = [counts EXCEPT ![t] = after]
      /\ pc' = [pc EXCEPT ![t] = "ready"] /\ reply' = reply
  <2>1. ~(\E s \in DOMAIN after : after[s] > HardMax)
    <3>1. \A s \in ShardsOf(M) : after[s] \in Nat /\ after[s] <= HardMax /\ HardMax \in Nat
      BY <1>5, PgFixedWindowAssumption
    <3> HIDE DEF after, M
    <3> QED BY <1>4, <3>1
  <2> QED BY <1>6, <2>1 DEF Upsert, Keys
<1>8. \A k \in Keys(t) : w[k] \in RowType(k) /\ w[k] # NoRow
  <2> SUFFICES ASSUME NEW k \in Keys(t) PROVE w[k] \in RowType(k) /\ w[k] # NoRow
    OBVIOUS
  <2>1. PICK j \in DOMAIN checks : CheckOf(checks, k) = checks[j] /\ checks[j].key = k
    BY CheckOfFact
  <2>2. ~QuotaDenied(checks[j], at[t])
    BY <1>6 DEF Unreturned
  <2>3. at[t] \in 0..MaxTime
    BY Typed
  <2> QED BY <2>1, <2>2, <2>3, UpsertedType
<1>9. DOMAIN w = Keys(t)
  OBVIOUS
<1>10. pc'[t] = "ready" /\ writes'[t] = w /\ counts'[t] = after
  BY <1>7, Typed
<1> HIDE DEF w, after, M, checks
<1>11. UpsertLocks(t) = {<<"row", k>> : k \in Keys(t)} \cup {<<"ledger", s>> : s \in ShardsOf(M)}
  BY DEF UpsertLocks, Keys, M
<1>12. \A l \in Locks : /\ holder'[l] = IF l \in UpsertLocks(t) THEN t ELSE holder[l]
                        /\ l \in UpsertLocks(t) => holder[l] \in {t, None}
  BY <1>1 DEF TakeAll, Free
<1>13. StepLocks(t)
  <2>1. holder' \in [Locks -> Session \cup {None}]
    BY <1>1, Typed DEF TakeAll
  <2> QED BY <1>12, <2>1 DEF StepLocks
<1>14. StepType(t)
  BY <1>1, <1>3, <1>4, <1>5, <1>7, <1>8, <1>9, <1>10, Typed DEF StepType, Phase, BeforeCommit
<1>15. Keys(t)' = Keys(t) /\ (\A k : Exists(k)' <=> Exists(k)) /\ MissingKeys(t)' = M
  BY <1>1 DEF Keys, Exists, MissingKeys, M
<1>16. wanted[t] = {}
  BY <1>1, <1>2 DEF LocksOK, WantedLevels
<1>17. LocksOK(t)'
  <2>1. \A l \in Locks : l \in UpsertLocks(t) => (l[1] = "row" => l[2] \in Keys(t))
    BY <1>11
  <2>2. \A l \in Locks : Level(l) \in {0, 1, 2}
    BY LockFacts
  <2>3. \A l \in Locks : holder[l] = t => (l[1] = "row" => l[2] \in Keys(t))
    BY <1>2 DEF LocksOK
  <2>4. \A l \in Locks : holder'[l] = t => (l[1] = "row" => l[2] \in Keys(t))
    BY <1>12, <2>1, <2>3
  <2>5. HeldLevels("ready") = {0, 1, 2}
    BY DEF HeldLevels
  <2> QED BY <1>1, <1>2, <1>10, <1>15, <1>16, <2>2, <2>4, <2>5 DEF LocksOK
<1>18. CheckOK(t)'
  <2>1. \A k \in Keys(t) : Owns(t, <<"advisory", LockId[k]>>)'
    <3> SUFFICES ASSUME NEW k \in Keys(t) PROVE Owns(t, <<"advisory", LockId[k]>>)'
      OBVIOUS
    <3>1. <<"advisory", LockId[k]>> \in Locks /\ Owns(t, <<"advisory", LockId[k]>>)
      BY <1>1, <1>2, <1>3, LockFacts DEF CheckOK
    <3> QED BY <1>12, <3>1 DEF Owns
  <2>2. \A k \in Keys(t) : Owns(t, <<"row", k>>)'
    <3> SUFFICES ASSUME NEW k \in Keys(t) PROVE Owns(t, <<"row", k>>)'
      OBVIOUS
    <3>1. <<"row", k>> \in Locks /\ <<"row", k>> \in UpsertLocks(t)
      BY <1>3, <1>11, LockFacts
    <3> QED BY <1>12, <3>1 DEF Owns
  <2>3. \A k \in M : Owns(t, <<"ledger", Shard[k]>>)'
    <3> SUFFICES ASSUME NEW k \in M PROVE Owns(t, <<"ledger", Shard[k]>>)'
      OBVIOUS
    <3>1. <<"ledger", Shard[k]>> \in Locks /\ <<"ledger", Shard[k]>> \in UpsertLocks(t)
      BY <1>3, <1>11, LockFacts DEF ShardsOf
    <3> QED BY <1>12, <3>1 DEF Owns
  <2> QED BY <1>1, <1>4, <1>5, <1>8, <1>9, <1>10, <1>15, <2>1, <2>2, <2>3 DEF CheckOK
<1>19. SessionOK(t)'
  BY <1>1, <1>2, <1>10, <1>17, <1>18 DEF SessionOK
<1> QED BY <1>1, <1>13, <1>14, <1>19, StepInv

\* Scan preserves the invariant.
LEMMA ScanInv ==
  ASSUME Inv, NEW t \in Session, Scan(t)
  PROVE  Inv'
<1>1. /\ UNCHANGED <<rows, ledger, clock, touched>> /\ UNCHANGED <<op, counts, reply>>
      /\ pc[t] = "scan" /\ pc' = [pc EXCEPT ![t] = "ledger"] /\ at' = [at EXCEPT ![t] = clock]
  BY DEF Scan
<1>2. PICK S \in SUBSET {k \in Key : Reapable(k)} :
        /\ TakeAll(t, {<<"row", k>> : k \in S})
        /\ wanted' = [wanted EXCEPT ![t] = {<<"ledger", Shard[k]>> : k \in S}]
        /\ writes' = [writes EXCEPT ![t] = [k \in S |-> NoRow]]
  BY DEF Scan
<1> DEFINE w == {<<"ledger", Shard[k]>> : k \in S}
<1> DEFINE ls == {<<"row", k>> : k \in S}
<1>3. SessionOK(t) /\ ~CheckOp(op[t]) /\ counts[t] = Nothing /\ \A l \in Locks : holder[l] # t
  BY <1>1, Typed DEF SessionOK, LocksOK
<1>4. /\ pc'[t] = "ledger" /\ wanted'[t] = w /\ writes'[t] = [k \in S |-> NoRow] /\ counts'[t] = Nothing
      /\ at' \in [Session -> 0..MaxTime] /\ \A u \in Session \ {t} : at'[u] = at[u]
  BY <1>1, <1>2, <1>3, Typed
<1>5. \A k \in S : k \in Key /\ Exists(k) /\ holder[<<"row", k>>] = None
  BY DEF Reapable
<1>6. \A m \in w : m \in Locks /\ m[1] = "ledger" /\ Level(m) = 2
  BY <1>5, LockFacts DEF Level
<1>7. \A l \in ls : l \in Locks /\ l[1] = "row" /\ Level(l) = 1 /\ l[2] \in S /\ holder[l] = None
  <2> SUFFICES ASSUME NEW l \in ls
               PROVE  l \in Locks /\ l[1] = "row" /\ Level(l) = 1 /\ l[2] \in S /\ holder[l] = None
    OBVIOUS
  <2>1. PICK k \in S : l = <<"row", k>>
    OBVIOUS
  <2>2. l \in Locks /\ l[1] = "row" /\ l[2] = k
    BY <1>5, <2>1, LockFacts
  <2> QED BY <1>5, <2>1, <2>2, LockFacts
<1>8. \A k \in S : <<"ledger", Shard[k]>> \in w /\ <<"row", k>> \in ls /\ <<"row", k>> \in Locks
  BY <1>5, LockFacts
<1>9. \A l \in Locks : holder'[l] = IF l \in ls THEN t ELSE holder[l]
  BY <1>2 DEF TakeAll
<1> HIDE DEF w, ls
<1>10. StepLocks(t)
  <2>1. holder' \in [Locks -> Session \cup {None}]
    BY <1>2, Typed DEF TakeAll
  <2> QED BY <1>7, <1>9, <2>1 DEF StepLocks
<1>11. StepType(t)
  <2>1. w \in SUBSET Locks /\ wanted' = [wanted EXCEPT ![t] = w]
    BY <1>2, <1>6 DEF w
  <2>2. \A k \in DOMAIN writes'[t] : k \in Key /\ writes'[t][k] \in RowType(k)
    BY <1>4, <1>5 DEF RowType
  <2>3. \A s \in DOMAIN counts'[t] : s \in Shards /\ counts'[t][s] \in Nat
    BY <1>1, Typed
  <2> QED BY <1>1, <1>2, <1>4, <2>1, <2>2, <2>3, Typed DEF StepType, Phase, BeforeCommit
<1>12. LocksOK(t)'
  <2>1. \A l \in Locks : holder'[l] = t => l \in ls
    BY <1>3, <1>9
  <2>2. \A l \in Locks : holder'[l] = t => Level(l) = 1 /\ l[2] \in S
    BY <1>7, <2>1
  <2>3. \A l \in Locks : holder'[l] = t => \A m \in w : Below(l, m)
    BY <1>6, <2>2 DEF Below
  <2>4. ~CheckOp(op[t])' /\ HeldLevels("ledger") = {0, 1, 2} /\ WantedLevels("ledger") = {2}
    BY <1>1, <1>3 DEF HeldLevels, WantedLevels, CheckOp
  <2>5. DOMAIN writes'[t] = S
    BY <1>4
  <2> QED BY <1>4, <1>6, <2>2, <2>3, <2>4, <2>5 DEF LocksOK
<1>13. CleanupOK(t)'
  <2>1. \A k \in S : Exists(k)' /\ writes'[t][k] = NoRow
    BY <1>1, <1>4, <1>5 DEF Exists
  <2>2. \A k \in S : Owns(t, <<"row", k>>)' /\ WillOwn(t, <<"ledger", Shard[k]>>)'
    BY <1>4, <1>8, <1>9 DEF Owns, WillOwn
  <2>3. DOMAIN writes'[t] = S
    BY <1>4
  <2> QED BY <1>4, <1>5, <2>1, <2>2, <2>3 DEF CleanupOK
<1>14. SessionOK(t)'
  BY <1>1, <1>3, <1>4, <1>12, <1>13 DEF SessionOK
<1> QED BY <1>1, <1>10, <1>11, <1>14, StepInv

\* The ledger is never short of the rows a cleanup deletes.
LEMMA DeleteExpiredInv ==
  ASSUME Inv, NEW t \in Session, DeleteExpired(t)
  PROVE  Inv'
<1> DEFINE D == DOMAIN writes[t]
<1> DEFINE after == CountsAfter(D, -1)
<1> DEFINE ls == {<<"ledger", s>> : s \in DOMAIN after}
<1>1. /\ UNCHANGED <<rows, ledger, clock, touched>> /\ UNCHANGED <<op, wanted, at, writes>>
      /\ pc[t] = "ledger" /\ wanted[t] = {} /\ ~CheckOp(op[t])
      /\ (\A l \in ls : Free(t, l)) /\ TakeAll(t, ls) /\ pc' = [pc EXCEPT ![t] = "ready"]
  BY DEF DeleteExpired
<1>2. SessionOK(t) /\ LocksOK(t) /\ CleanupOK(t)
  BY <1>1, Typed DEF SessionOK
<1>3. D \in SUBSET Key /\ \A k \in D : Exists(k)
  BY <1>2 DEF CleanupOK
<1>4. DOMAIN after = ShardsOf(D) /\ \A s \in ShardsOf(D) : after[s] = ledger[s] - InShard(D, s)
  <2>1. \A s \in ShardsOf(D) : InShard(D, s) \in Nat /\ ledger[s] \in Nat
    <3>1. \A s \in ShardsOf(D) : s \in Shards
      BY <1>3, KeySets
    <3> HIDE DEF D
    <3> QED BY <1>3, <3>1, KeySets DEF Inv, TypeOK
  <2> HIDE DEF D
  <2>2. \A s \in ShardsOf(D) : (-1) * InShard(D, s) = -InShard(D, s)
    BY <2>1
  <2> QED BY <2>1, <2>2 DEF CountsAfter
<1>5. \A s \in ShardsOf(D) : s \in Shards /\ after[s] \in Nat
  <2> SUFFICES ASSUME NEW s \in ShardsOf(D) PROVE s \in Shards /\ after[s] \in Nat
    OBVIOUS
  <2> HIDE DEF D
  <2>1. s \in Shards /\ InShard(D, s) \in Nat /\ InShard(D, s) = Cardinality({k \in D : Shard[k] = s})
    BY <1>3, KeySets
  <2>2. ledger[s] = Cardinality(RowsIn(s)) /\ ledger[s] \in Nat
    BY <2>1 DEF Inv, LedgerExact, TypeOK
  <2>3. {k \in D : Shard[k] = s} \subseteq RowsIn(s)
    BY <1>3 DEF RowsIn
  <2>4. IsFiniteSet(RowsIn(s))
    BY FS_Subset, PgFixedWindowAssumption DEF RowsIn
  <2>5. Cardinality({k \in D : Shard[k] = s}) <= Cardinality(RowsIn(s))
    BY <2>3, <2>4, FS_Subset
  <2>6. InShard(D, s) <= ledger[s]
    BY <2>1, <2>2, <2>5
  <2> HIDE DEF after
  <2> QED BY <1>4, <2>1, <2>2, <2>6
<1>6. counts' = [counts EXCEPT ![t] = after] /\ reply' = reply
  <2>1. ~(\E s \in DOMAIN after : after[s] < 0)
    <3> HIDE DEF after, D
    <3> QED BY <1>4, <1>5
  <2> QED BY <2>1 DEF DeleteExpired
<1>7. ls = {<<"ledger", s>> : s \in ShardsOf(D)}
  <2> HIDE DEF after, D
  <2> QED BY <1>4
<1>8. pc'[t] = "ready" /\ counts'[t] = after /\ wanted'[t] = {} /\ writes'[t] = writes[t]
  BY <1>1, <1>6, Typed
<1> HIDE DEF after, ls
<1>9. \A l \in Locks : /\ holder'[l] = IF l \in ls THEN t ELSE holder[l]
                       /\ l \in ls => holder[l] \in {t, None}
  BY <1>1 DEF TakeAll, Free
<1>10. StepLocks(t)
  <2>1. holder' \in [Locks -> Session \cup {None}]
    BY <1>1, Typed DEF TakeAll
  <2> QED BY <1>9, <2>1 DEF StepLocks
<1>11. StepType(t)
  BY <1>1, <1>4, <1>5, <1>6, <1>8, Typed DEF StepType, Phase, BeforeCommit
<1>12. LocksOK(t)'
  <2>1. \A l \in Locks : Level(l) \in {0, 1, 2}
    BY LockFacts
  <2>2. \A l \in ls : l[1] = "ledger"
    BY <1>7
  <2>3. \A l \in Locks : holder'[l] = t => (l[1] = "row" => l[2] \in D)
    BY <1>1, <1>2, <1>9, <2>2 DEF LocksOK
  <2>4. ~CheckOp(op[t])' /\ HeldLevels("ready") = {0, 1, 2}
    BY <1>1 DEF HeldLevels, CheckOp
  <2> QED BY <1>1, <1>8, <2>1, <2>3, <2>4 DEF LocksOK
<1>13. CleanupOK(t)'
  <2>1. \A k \in D : Owns(t, <<"row", k>>)' /\ Owns(t, <<"ledger", Shard[k]>>)'
    <3> SUFFICES ASSUME NEW k \in D PROVE Owns(t, <<"row", k>>)' /\ Owns(t, <<"ledger", Shard[k]>>)'
      OBVIOUS
    <3>1. <<"row", k>> \in Locks /\ <<"ledger", Shard[k]>> \in Locks
      BY <1>3, LockFacts
    <3>2. <<"ledger", Shard[k]>> \in ls
      BY <1>7 DEF ShardsOf
    <3>3. Owns(t, <<"row", k>>)
      BY <1>2 DEF CleanupOK
    <3> QED BY <1>9, <3>1, <3>2, <3>3 DEF Owns
  <2>2. \A k \in D : Exists(k)' /\ writes'[t][k] = NoRow
    BY <1>1, <1>2, <1>3, <1>8 DEF Exists, CleanupOK
  <2> QED BY <1>1, <1>3, <1>4, <1>8, <2>1, <2>2 DEF CleanupOK
<1>14. SessionOK(t)'
  BY <1>1, <1>8, <1>12, <1>13 DEF SessionOK, CheckOp
<1> QED BY <1>1, <1>10, <1>11, <1>14, StepInv

\* SendCommit preserves the invariant.
LEMMA SendCommitInv ==
  ASSUME Inv, NEW t \in Session, SendCommit(t)
  PROVE  Inv'
<1>1. /\ UNCHANGED <<rows, ledger, clock, touched>> /\ UNCHANGED <<holder, op, wanted, at, writes, counts, reply>>
      /\ pc[t] = "ready" /\ pc' = [pc EXCEPT ![t] = "committing"]
  BY DEF SendCommit
<1>2. SessionOK(t) /\ LocksOK(t) /\ pc'[t] = "committing"
  BY <1>1, Typed DEF SessionOK
<1>3. StepLocks(t)
  BY <1>1, Typed DEF StepLocks
<1>4. StepType(t)
  BY <1>1, Typed DEF StepType, Phase
<1>5. Keys(t)' = Keys(t) /\ (\A k : Exists(k)' <=> Exists(k)) /\ MissingKeys(t)' = MissingKeys(t)
  BY <1>1 DEF Keys, Exists, MissingKeys
<1>6. \A l : (Owns(t, l)' <=> Owns(t, l)) /\ (WillOwn(t, l)' <=> WillOwn(t, l))
  BY <1>1 DEF Owns, WillOwn
<1>7. LocksOK(t)'
  <2>1. HeldLevels("committing") = HeldLevels("ready") /\ WantedLevels("committing") = WantedLevels("ready")
    BY DEF HeldLevels, WantedLevels
  <2> QED BY <1>1, <1>2, <1>5, <2>1 DEF LocksOK
<1>8. ASSUME CheckOK(t) PROVE CheckOK(t)'
  BY <1>1, <1>2, <1>5, <1>6, <1>8 DEF CheckOK
<1>9. ASSUME CleanupOK(t) PROVE CleanupOK(t)'
  BY <1>1, <1>2, <1>5, <1>6, <1>9 DEF CleanupOK
<1>10. SessionOK(t)'
  BY <1>1, <1>2, <1>7, <1>8, <1>9 DEF SessionOK
<1> QED BY <1>1, <1>3, <1>4, <1>10, StepInv

\* A session that has let go of everything is in order, whatever the rows are.
LEMMA EndedOK ==
  ASSUME NEW t \in Session, pc'[t] \in {"idle", "committed"}, wanted'[t] = {},
         writes'[t] = Nothing, counts'[t] = Nothing, \A l \in Locks : holder'[l] # t
  PROVE  SessionOK(t)'
<1>1. LocksOK(t)'
  BY DEF LocksOK
<1> QED BY <1>1 DEF SessionOK

\* What the end of a transaction does to the locks and the session's variables.
LEMMA EndFacts ==
  ASSUME Inv, NEW t \in Session, EndTransaction(t)
  PROVE  /\ wanted'[t] = {} /\ writes'[t] = Nothing /\ counts'[t] = Nothing /\ at'[t] = 0
         /\ \A l \in Locks : holder'[l] # t
         /\ StepLocks(t)
         /\ wanted' \in [Session -> SUBSET Locks] /\ at' \in [Session -> 0..MaxTime]
         /\ DOMAIN writes' = Session /\ DOMAIN counts' = Session
         /\ \A u \in Session \ {t} :
              wanted'[u] = wanted[u] /\ at'[u] = at[u] /\ writes'[u] = writes[u] /\ counts'[u] = counts[u]
         /\ DOMAIN writes'[t] = {} /\ DOMAIN counts'[t] = {}
<1>1. wanted'[t] = {} /\ writes'[t] = Nothing /\ counts'[t] = Nothing /\ at'[t] = 0
  BY Typed DEF EndTransaction
<1>2. \A l \in Locks : holder'[l] = IF holder[l] = t THEN None ELSE holder[l]
  BY DEF EndTransaction
<1>3. None # t
  BY PgFixedWindowAssumption
<1>4. holder' \in [Locks -> Session \cup {None}]
  BY Typed DEF EndTransaction
<1>5. 0 \in 0..MaxTime
  BY PgFixedWindowAssumption
<1>6. wanted' \in [Session -> SUBSET Locks] /\ at' \in [Session -> 0..MaxTime]
      /\ DOMAIN writes' = Session /\ DOMAIN counts' = Session
  BY <1>5, Typed DEF EndTransaction
<1>7. \A u \in Session \ {t} :
        wanted'[u] = wanted[u] /\ at'[u] = at[u] /\ writes'[u] = writes[u] /\ counts'[u] = counts[u]
  BY Typed DEF EndTransaction
<1>8. DOMAIN Nothing = {}
  BY DEF Nothing
<1> QED BY <1>1, <1>2, <1>3, <1>4, <1>6, <1>7, <1>8 DEF StepLocks

\* A transaction that ends without its writes.
LEMMA DiscardInv ==
  ASSUME Inv, NEW t \in Session, UNCHANGED <<rows, ledger, clock, touched>>, UNCHANGED op,
         EndTransaction(t), pc' = [pc EXCEPT ![t] = "idle"],
         NEW r, r.outcome \in Fine, reply' = [reply EXCEPT ![t] = r]
  PROVE  Inv'
<1>1. pc'[t] = "idle" /\ reply'[t] = r
  BY Typed
<1>2. SessionOK(t)'
  BY <1>1, EndFacts, EndedOK
<1>3. StepType(t)
  <2>1. pc' \in [Session -> Phase] /\ DOMAIN reply' = Session
        /\ \A u \in Session \ {t} : pc'[u] = pc[u] /\ reply'[u] = reply[u]
    BY Typed DEF Phase
  <2>2. op' \in [Session -> AnyOperation]
    BY Typed
  <2> QED BY <1>1, <2>1, <2>2, EndFacts DEF StepType
<1> QED BY <1>2, <1>3, EndFacts, StepInv

\* FailCommit preserves the invariant.
LEMMA FailCommitInv ==
  ASSUME Inv, NEW t \in Session, FailCommit(t)
  PROVE  Inv'
<1>1. Reply("unknown", 0, 0).outcome \in Fine
  BY DEF Reply, Fine, Outcome
<1> QED BY <1>1, DiscardInv DEF FailCommit

\* Rollback preserves the invariant.
LEMMA RollbackInv ==
  ASSUME Inv, NEW t \in Session, Rollback(t)
  PROVE  Inv'
<1>1. reply[t].outcome \in Fine /\ DOMAIN reply = Session
  BY Typed
<1>2. UNCHANGED reply
  BY DEF Rollback
<1>3. StepType(t)
  <2>1. pc' = [pc EXCEPT ![t] = "idle"] /\ EndTransaction(t) /\ op' = op
    BY DEF Rollback
  <2>2. pc' \in [Session -> Phase] /\ \A u \in Session \ {t} : pc'[u] = pc[u]
    BY <2>1, Typed DEF Phase
  <2>3. op' \in [Session -> AnyOperation]
    BY <2>1, Typed
  <2> QED BY <1>1, <1>2, <2>1, <2>2, <2>3, EndFacts DEF StepType
<1>4. SessionOK(t)' /\ StepLocks(t)
  <2>1. pc'[t] = "idle" /\ EndTransaction(t)
    BY Typed DEF Rollback
  <2> QED BY <2>1, EndFacts, EndedOK
<1> QED BY <1>3, <1>4, StepInv DEF Rollback

\* After the commit the session holds nothing: an answer is all that is left.
LEMMA AnswerInv ==
  ASSUME Inv, NEW t \in Session, pc[t] = "committed",
         UNCHANGED <<rows, ledger, clock, touched>>, UNCHANGED <<holder, op, wanted, at, writes, counts>>,
         pc' = [pc EXCEPT ![t] = "idle"],
         NEW r, r.outcome \in Fine, reply' = [reply EXCEPT ![t] = r]
  PROVE  Inv'
<1>1. SessionOK(t) /\ LocksOK(t)
  BY Typed DEF SessionOK
<1>2. (\A l \in Locks : holder[l] # t) /\ writes[t] = Nothing /\ counts[t] = Nothing /\ wanted[t] = {}
  BY <1>1 DEF SessionOK, LocksOK, WantedLevels
<1>3. pc'[t] = "idle"
  BY Typed
<1>4. SessionOK(t)'
  BY <1>2, <1>3, EndedOK
<1>5. StepLocks(t)
  BY Typed DEF StepLocks
<1>6. StepType(t)
  BY Typed DEF StepType, Phase
<1> QED BY <1>4, <1>5, <1>6, StepInv

\* Confirm preserves the invariant.
LEMMA ConfirmInv ==
  ASSUME Inv, NEW t \in Session, Confirm(t)
  PROVE  Inv'
<1> DEFINE r == Reply(IF CheckOp(op[t]) THEN "allowed" ELSE "cleaned", 0, 0)
<1>1. r.outcome \in Fine
  BY DEF Reply, Fine, Outcome
<1>2. /\ pc[t] = "committed" /\ pc' = [pc EXCEPT ![t] = "idle"] /\ reply' = [reply EXCEPT ![t] = r]
      /\ UNCHANGED <<rows, ledger, clock, touched>> /\ UNCHANGED <<holder, op, wanted, at, writes, counts>>
  BY DEF Confirm
<1> HIDE DEF r
<1> QED BY <1>1, <1>2, AnswerInv

\* LoseConfirmation preserves the invariant.
LEMMA LoseConfirmationInv ==
  ASSUME Inv, NEW t \in Session, LoseConfirmation(t)
  PROVE  Inv'
<1> DEFINE r == Reply("unknown", 0, 0)
<1>1. r.outcome \in Fine
  BY DEF Reply, Fine, Outcome
<1>2. /\ reply' = [reply EXCEPT ![t] = r] /\ pc[t] \in {"committing", "committed"}
      /\ UNCHANGED <<rows, ledger, clock, touched>> /\ UNCHANGED <<holder, op, wanted, at, writes, counts>>
      /\ pc' = [pc EXCEPT ![t] = IF pc[t] = "committed" THEN "idle" ELSE pc[t]]
  BY DEF LoseConfirmation
<1> HIDE DEF r
<1>3. CASE pc[t] = "committed"
  BY <1>1, <1>2, <1>3, AnswerInv
<1>4. CASE pc[t] = "committing"
  <2>1. pc' = pc
    BY <1>2, <1>4, Typed
  <2>2. at' \in [Session -> 0..MaxTime]
    BY <1>2, Typed
  <2> QED BY <1>1, <1>2, <2>1, <2>2, ReplyInv
<1> QED BY <1>2, <1>3, <1>4

\* Abandon preserves the invariant.
LEMMA AbandonInv ==
  ASSUME Inv, NEW t \in Session, Abandon(t)
  PROVE  Inv'
<1>1. Reply("not_consumed", 0, 0).outcome \in Fine
  BY DEF Reply, Fine, Outcome
<1>2. at' \in [Session -> 0..MaxTime]
  BY Typed DEF Abandon
<1> QED BY <1>1, <1>2, ReplyInv DEF Abandon

\* Tick preserves the invariant.
LEMMA TickInv ==
  ASSUME Inv, Tick
  PROVE  Inv'
<1>1. /\ clock' \in 0..MaxTime
      /\ UNCHANGED <<rows, ledger, holder, pc, op, wanted, at, writes, counts, reply, touched>>
  BY PgFixedWindowAssumption DEF Tick, Inv, TypeOK
<1>2. TypeOK'
  BY <1>1 DEF Inv, TypeOK
<1>3. Shape' /\ ProtocolHolds'
  BY <1>1 DEF Inv, Shape, ProtocolHolds
<1>4. LedgerExact' /\ RowsBounded'
  BY <1>1 DEF Inv, LedgerExact, RowsBounded, RowsIn, Exists
<1>5. SessionsInv'
  BY <1>1, Undisturbed DEF SessionsInv
<1> QED BY <1>2, <1>3, <1>4, <1>5 DEF Inv

----------------------------------------------------------------------------
(* The commit                                                              *)

\* What a transaction that has sent COMMIT brings: it owns everything it will change.
LEMMA CommitFacts ==
  ASSUME Inv, NEW t \in Session, pc[t] = "committing"
  PROVE  /\ DOMAIN writes[t] \in SUBSET Key /\ DOMAIN counts[t] \in SUBSET Shards
         /\ \A k \in DOMAIN writes[t] : Owns(t, <<"row", k>>)
         /\ \A s \in DOMAIN counts[t] : Owns(t, <<"ledger", s>>)
         /\ \/ /\ CheckOp(op[t]) /\ DOMAIN writes[t] = Keys(t)
               /\ MissingKeys(t) = {k \in DOMAIN writes[t] : ~Exists(k)}
               /\ \A k \in DOMAIN writes[t] : writes[t][k] # NoRow /\ Owns(t, <<"advisory", LockId[k]>>)
               /\ DOMAIN counts[t] = ShardsOf(MissingKeys(t))
               /\ \A s \in DOMAIN counts[t] :
                     /\ counts[t][s] = ledger[s] + InShard(MissingKeys(t), s)
                     /\ counts[t][s] <= MaxRows[t]
            \/ /\ ~CheckOp(op[t])
               /\ \A k \in DOMAIN writes[t] : writes[t][k] = NoRow /\ Exists(k)
               /\ DOMAIN counts[t] = ShardsOf(DOMAIN writes[t])
               /\ \A s \in DOMAIN counts[t] : counts[t][s] = ledger[s] - InShard(DOMAIN writes[t], s)
<1>1. SessionOK(t) /\ DOMAIN writes[t] \in SUBSET Key /\ DOMAIN counts[t] \in SUBSET Shards
  BY Typed
<1>2. CASE CheckOp(op[t])
  <2>1. CheckOK(t)
    BY <1>1, <1>2 DEF SessionOK
  <2>2. DOMAIN writes[t] = Keys(t) /\ MissingKeys(t) = {k \in DOMAIN writes[t] : ~Exists(k)}
    BY <2>1 DEF CheckOK, MissingKeys, Keys
  <2>3. DOMAIN counts[t] = ShardsOf(MissingKeys(t)) /\ \A k \in MissingKeys(t) : Owns(t, <<"ledger", Shard[k]>>)
    BY <2>1 DEF CheckOK
  <2>4. \A s \in DOMAIN counts[t] : Owns(t, <<"ledger", s>>)
    BY <2>3 DEF ShardsOf
  <2> QED BY <1>1, <1>2, <2>1, <2>2, <2>3, <2>4 DEF CheckOK
<1>3. CASE ~CheckOp(op[t])
  <2>1. CleanupOK(t)
    BY <1>1, <1>3 DEF SessionOK
  <2>2. \A s \in DOMAIN counts[t] : Owns(t, <<"ledger", s>>)
    BY <2>1 DEF CleanupOK, ShardsOf
  <2> QED BY <1>1, <1>3, <2>1, <2>2 DEF CleanupOK
<1> QED BY <1>2, <1>3

\* Two admissions past their advisory locks share no key, an admission and a cleanup
\* share none that either still relies on, and no two transactions share a ledger row.
LEMMA CommitSeparate ==
  ASSUME Inv, NEW t \in Session, NEW u \in Session, t # u, pc[t] = "committing", SessionOK(u)
  PROVE  /\ CheckOp(op[u]) /\ pc[u] \in {"ledger", "upsert", "ready", "committing"} =>
              Keys(u) \cap DOMAIN writes[t] = {}
         /\ CheckOp(op[u]) /\ pc[u] = "rows" =>
              \A k \in Keys(u) \cap DOMAIN writes[t] : writes[t][k] = NoRow
         /\ CheckOp(op[u]) /\ pc[u] \in {"upsert", "ready", "committing"} =>
              ShardsOf(MissingKeys(u)) \cap DOMAIN counts[t] = {}
         /\ ~CheckOp(op[u]) /\ pc[u] \in {"ledger", "ready", "committing"} =>
              DOMAIN writes[u] \cap DOMAIN writes[t] = {}
         /\ ~CheckOp(op[u]) /\ pc[u] \in {"ready", "committing"} =>
              DOMAIN counts[u] \cap DOMAIN counts[t] = {}
<1>1. CheckOp(op[u]) /\ pc[u] \in {"rows", "ledger", "upsert", "ready", "committing"} => CheckOK(u)
  BY DEF SessionOK
<1>2. ~CheckOp(op[u]) /\ pc[u] \in {"ledger", "ready", "committing"} => CleanupOK(u)
  BY DEF SessionOK
<1>3. \A l : ~(Owns(t, l) /\ Owns(u, l))
  BY DEF Owns
<1>4. ASSUME CheckOp(op[u]), pc[u] \in {"rows", "ledger", "upsert", "ready", "committing"},
             NEW k \in Keys(u) \cap DOMAIN writes[t]
      PROVE  writes[t][k] = NoRow /\ Exists(k) /\ pc[u] = "rows"
  <2>1. Owns(u, <<"advisory", LockId[k]>>)
    BY <1>1, <1>4 DEF CheckOK
  <2>2. ~CheckOp(op[t]) /\ writes[t][k] = NoRow /\ Exists(k)
    BY <1>3, <1>4, <2>1, CommitFacts
  <2>3. Owns(t, <<"row", k>>)
    BY <1>4, CommitFacts
  <2>4. pc[u] # "rows" => Owns(u, <<"row", k>>)
    BY <1>1, <1>4, <2>2 DEF CheckOK
  <2> QED BY <1>3, <2>2, <2>3, <2>4
<1>5. ASSUME CheckOp(op[u]), pc[u] \in {"upsert", "ready", "committing"}, NEW s \in ShardsOf(MissingKeys(u))
      PROVE  s \notin DOMAIN counts[t]
  <2>1. PICK k \in MissingKeys(u) : s = Shard[k]
    BY <1>5 DEF ShardsOf
  <2>2. Owns(u, <<"ledger", s>>)
    BY <1>1, <1>5, <2>1 DEF CheckOK
  <2> QED BY <1>3, <2>2, CommitFacts
<1>6. ASSUME ~CheckOp(op[u]), pc[u] \in {"ledger", "ready", "committing"}, NEW k \in DOMAIN writes[u]
      PROVE  k \notin DOMAIN writes[t]
  BY <1>2, <1>3, <1>6, CommitFacts DEF CleanupOK
<1>7. ASSUME ~CheckOp(op[u]), pc[u] \in {"ready", "committing"}, NEW s \in DOMAIN counts[u]
      PROVE  s \notin DOMAIN counts[t]
  <2>1. Owns(u, <<"ledger", s>>)
    BY <1>2, <1>7 DEF CleanupOK, ShardsOf
  <2> QED BY <1>3, <2>1, CommitFacts
<1> QED BY <1>4, <1>5, <1>6, <1>7

\* A commit leaves every other transaction's reading of the store valid.
LEMMA CommitKeepsOthers ==
  ASSUME Inv, NEW t \in Session, NEW u \in Session, t # u, ServerCommit(t)
  PROVE  SessionOK(u)'
<1>1. /\ pc[t] = "committing" /\ EndTransaction(t) /\ op' = op
      /\ \A k \in Key : rows'[k] = IF k \in DOMAIN writes[t] THEN writes[t][k] ELSE rows[k]
      /\ \A s \in Shards : ledger'[s] = IF s \in DOMAIN counts[t] THEN counts[t][s] ELSE ledger[s]
  BY DEF ServerCommit
<1>2. /\ pc'[u] = pc[u] /\ wanted'[u] = wanted[u] /\ at'[u] = at[u]
      /\ writes'[u] = writes[u] /\ counts'[u] = counts[u]
      /\ \A l \in Locks : holder'[l] = u <=> holder[l] = u
  <2>1. pc'[u] = pc[u]
    BY Typed DEF ServerCommit
  <2>2. \A l \in Locks : holder'[l] = u <=> holder[l] = u
    BY <1>1, EndFacts, PgFixedWindowAssumption DEF StepLocks
  <2> QED BY <1>1, <2>1, <2>2, EndFacts
<1>3. SessionOK(u) /\ Keys(u) \subseteq Key /\ MissingKeys(u) = {k \in Keys(u) : ~Exists(k)}
  BY Typed, OperationFacts DEF MissingKeys, Keys
<1>4. Keys(u)' = Keys(u) /\ MissingKeys(u)' = {k \in Keys(u) : ~Exists(k)'}
  BY <1>1 DEF Keys, MissingKeys
<1>5. LocksOK(u)'
  BY <1>1, <1>2, <1>3, <1>4 DEF SessionOK, LocksOK
<1>6. \A k \in Key : /\ Owns(u, <<"advisory", LockId[k]>>)' <=> Owns(u, <<"advisory", LockId[k]>>)
                     /\ Owns(u, <<"row", k>>)' <=> Owns(u, <<"row", k>>)
                     /\ Owns(u, <<"ledger", Shard[k]>>)' <=> Owns(u, <<"ledger", Shard[k]>>)
                     /\ WillOwn(u, <<"advisory", LockId[k]>>)' <=> WillOwn(u, <<"advisory", LockId[k]>>)
                     /\ WillOwn(u, <<"row", k>>)' <=> WillOwn(u, <<"row", k>>)
                     /\ WillOwn(u, <<"ledger", Shard[k]>>)' <=> WillOwn(u, <<"ledger", Shard[k]>>)
  BY <1>2, LockFacts DEF Owns, WillOwn
<1>7. ASSUME CheckOp(op[u]), pc[u] \notin {"idle", "committed", "scan"}
      PROVE  CheckOK(u)'
  <2>1. CheckOK(u)
    BY <1>3, <1>7 DEF SessionOK
  <2>2. CASE pc[u] = "advisory"
    BY <1>2, <1>3, <1>4, <1>6, <2>1, <2>2 DEF CheckOK
  <2>3. CASE pc[u] = "rows"
    <3>1. \A k \in Keys(u) : Exists(k)' => Exists(k)
      BY <1>1, <1>3, <1>7, <2>3, CommitSeparate DEF Exists
    <3> QED BY <1>2, <1>3, <1>4, <1>6, <2>1, <2>3, <3>1 DEF CheckOK
  <2>4. CASE pc[u] \in {"ledger", "upsert", "ready", "committing"}
    <3>1. \A k \in Keys(u) : rows'[k] = rows[k]
      BY <1>1, <1>3, <1>7, <2>4, CommitSeparate
    <3>2. (\A k \in Keys(u) : Exists(k)' <=> Exists(k)) /\ MissingKeys(u)' = MissingKeys(u)
      BY <1>3, <1>4, <3>1 DEF Exists
    <3>3. pc[u] # "ledger" => \A s \in ShardsOf(MissingKeys(u)) : ledger'[s] = ledger[s]
      <4> SUFFICES ASSUME pc[u] # "ledger", NEW s \in ShardsOf(MissingKeys(u)) PROVE ledger'[s] = ledger[s]
        OBVIOUS
      <4>1. s \in Shards
        BY <1>3, KeySets
      <4>2. s \notin DOMAIN counts[t]
        BY <1>1, <1>3, <1>7, <2>4, CommitSeparate
      <4> QED BY <1>1, <4>1, <4>2
    <3>4. Unreturned(op[u].checks, at[u])' = Unreturned(op[u].checks, at[u])
      <4>1. \A j \in DOMAIN op[u].checks : op[u].checks[j].key \in Keys(u)
        BY OperationFacts
      <4> QED BY <1>1, <1>2, <3>1, <4>1 DEF Unreturned, QuotaDenied, Exists
    <3>5. MissingKeys(u) \subseteq Key
      BY <1>3
    <3> QED BY <1>2, <1>3, <1>4, <1>6, <2>1, <2>4, <3>2, <3>3, <3>4, <3>5 DEF CheckOK
  <2> QED BY <1>7, <2>2, <2>3, <2>4, Typed DEF Phase, BeforeCommit
<1>8. ASSUME ~CheckOp(op[u]), pc[u] \in {"ledger", "ready", "committing"}
      PROVE  CleanupOK(u)'
  <2>1. CleanupOK(u)
    BY <1>3, <1>8 DEF SessionOK
  <2>2. DOMAIN writes[u] \in SUBSET Key
    BY <2>1 DEF CleanupOK
  <2>3. \A k \in DOMAIN writes[u] : rows'[k] = rows[k]
    BY <1>1, <1>3, <1>8, <2>2, CommitSeparate
  <2>4. pc[u] # "ledger" => \A s \in DOMAIN counts[u] : ledger'[s] = ledger[s]
    <3> SUFFICES ASSUME pc[u] # "ledger", NEW s \in DOMAIN counts[u] PROVE ledger'[s] = ledger[s]
      OBVIOUS
    <3>1. s \in Shards
      BY Typed
    <3>2. s \notin DOMAIN counts[t]
      BY <1>1, <1>3, <1>8, CommitSeparate
    <3> QED BY <1>1, <3>1, <3>2
  <2>5. \A k \in DOMAIN writes[u] : Exists(k)'
    BY <2>1, <2>3 DEF CleanupOK, Exists
  <2> QED BY <1>2, <1>6, <1>8, <2>1, <2>2, <2>4, <2>5 DEF CleanupOK
<1> QED BY <1>1, <1>2, <1>3, <1>5, <1>7, <1>8 DEF SessionOK, CheckOp

\* What a commit makes of one shard: its counter and its rows change alike.
LEMMA CommitCounts ==
  ASSUME Inv, NEW t \in Session, ServerCommit(t), NEW s \in Shards
  PROVE  /\ ledger'[s] = Cardinality(RowsIn(s)')
         /\ \E u \in Session : Cardinality(RowsIn(s)') <= MaxRows[u]
<1> DEFINE D == DOMAIN writes[t]
<1> DEFINE M == MissingKeys(t)
<1>1. /\ pc[t] = "committing"
      /\ \A k \in Key : rows'[k] = IF k \in D THEN writes[t][k] ELSE rows[k]
      /\ ledger'[s] = IF s \in DOMAIN counts[t] THEN counts[t][s] ELSE ledger[s]
  BY DEF ServerCommit
<1>2. RowsIn(s)' = {k \in Key : rows'[k] # NoRow /\ Shard[k] = s}
  BY DEF RowsIn, Exists
<1>3. /\ ledger[s] = Cardinality(RowsIn(s)) /\ ledger[s] \in Nat /\ IsFiniteSet(RowsIn(s))
      /\ \A u \in Session : MaxRows[u] \in Nat
  <2>1. IsFiniteSet(RowsIn(s))
    BY FS_Subset, PgFixedWindowAssumption DEF RowsIn
  <2> QED BY <2>1, PgFixedWindowAssumption DEF Inv, TypeOK, LedgerExact
<1>4. PICK u \in Session : Cardinality(RowsIn(s)) <= MaxRows[u]
  BY DEF Inv, RowsBounded
<1>5. CASE CheckOp(op[t])
  <2> DEFINE A == {k \in M : Shard[k] = s}
  <2>1. /\ D \in SUBSET Key /\ M = {k \in D : ~Exists(k)} /\ (\A k \in D : writes[t][k] # NoRow)
        /\ DOMAIN counts[t] = ShardsOf(M)
        /\ \A r \in DOMAIN counts[t] : counts[t][r] = ledger[r] + InShard(M, r) /\ counts[t][r] <= MaxRows[t]
    BY <1>1, <1>5, CommitFacts
  <2>2. M \in SUBSET Key
    BY <2>1
  <2>3. IsFiniteSet(A) /\ InShard(M, s) = Cardinality(A) /\ (s \notin ShardsOf(M) => A = {})
    BY <2>2, KeySets
  <2>4. RowsIn(s)' = RowsIn(s) \cup A /\ RowsIn(s) \cap A = {}
    BY <1>1, <1>2, <2>1 DEF RowsIn, Exists
  <2> HIDE DEF A, M, D
  <2>5. CASE s \in DOMAIN counts[t]
    <3>1. Cardinality(RowsIn(s) \cup A) = Cardinality(RowsIn(s)) + Cardinality(A)
      <4>1. Cardinality(RowsIn(s) \cap A) = 0
        BY <2>4, FS_EmptySet
      <4>2. Cardinality(RowsIn(s)) \in Nat /\ Cardinality(A) \in Nat
        BY <1>3, <2>3, FS_CardinalityType
      <4>3. Cardinality(RowsIn(s) \cup A)
              = Cardinality(RowsIn(s)) + Cardinality(A) - Cardinality(RowsIn(s) \cap A)
        BY <1>3, <2>3, FS_Union
      <4> QED BY <4>1, <4>2, <4>3
    <3>2. ledger'[s] = Cardinality(RowsIn(s)') /\ ledger'[s] <= MaxRows[t]
      BY <1>1, <1>3, <2>1, <2>3, <2>4, <2>5, <3>1
    <3> QED BY <3>2
  <2>6. CASE s \notin DOMAIN counts[t]
    <3>1. RowsIn(s)' = RowsIn(s)
      BY <2>1, <2>3, <2>4, <2>6
    <3> QED BY <1>1, <1>3, <1>4, <2>6, <3>1
  <2> QED BY <2>5, <2>6
<1>6. CASE ~CheckOp(op[t])
  <2> DEFINE A == {k \in D : Shard[k] = s}
  <2>1. /\ D \in SUBSET Key /\ (\A k \in D : writes[t][k] = NoRow /\ Exists(k))
        /\ DOMAIN counts[t] = ShardsOf(D)
        /\ \A r \in DOMAIN counts[t] : counts[t][r] = ledger[r] - InShard(D, r)
    BY <1>1, <1>6, CommitFacts
  <2>2. InShard(D, s) = Cardinality(A) /\ (s \notin ShardsOf(D) => A = {})
    <3> HIDE DEF D
    <3> QED BY <2>1, KeySets
  <2>3. RowsIn(s)' = RowsIn(s) \ A /\ A \subseteq RowsIn(s)
    BY <1>1, <1>2, <2>1 DEF RowsIn, Exists
  <2> HIDE DEF A, D
  <2>4. /\ Cardinality(RowsIn(s) \ A) = Cardinality(RowsIn(s)) - Cardinality(A)
        /\ Cardinality(A) \in Nat /\ Cardinality(RowsIn(s)) \in Nat
    <3>1. RowsIn(s) \cap A = A
      BY <2>3
    <3>2. IsFiniteSet(A)
      BY <1>3, <2>3, FS_Subset
    <3>3. Cardinality(RowsIn(s) \ A) = Cardinality(RowsIn(s)) - Cardinality(RowsIn(s) \cap A)
      BY <1>3, FS_Difference
    <3> QED BY <1>3, <3>1, <3>2, <3>3, FS_CardinalityType
  <2>5. CASE s \in DOMAIN counts[t]
    <3>1. ledger'[s] = Cardinality(RowsIn(s)')
      BY <1>1, <1>3, <2>1, <2>2, <2>3, <2>4, <2>5
    <3>2. Cardinality(RowsIn(s)') <= MaxRows[u]
      BY <1>3, <1>4, <2>3, <2>4
    <3> QED BY <3>1, <3>2
  <2>6. CASE s \notin DOMAIN counts[t]
    <3>1. RowsIn(s)' = RowsIn(s)
      BY <2>1, <2>2, <2>3, <2>6
    <3> QED BY <1>1, <1>3, <1>4, <2>6, <3>1
  <2> QED BY <2>5, <2>6
<1> QED BY <1>5, <1>6

\* ServerCommit preserves the invariant.
LEMMA ServerCommitInv ==
  ASSUME Inv, NEW t \in Session, ServerCommit(t)
  PROVE  Inv'
<1>1. EndTransaction(t) /\ UNCHANGED <<clock, op, reply>>
  BY DEF ServerCommit
<1>2. pc' \in [Session -> Phase] /\ pc'[t] \in {"idle", "committed"}
  BY Typed DEF ServerCommit, Phase
<1>3. rows' = [k \in Key |-> IF k \in DOMAIN writes[t] THEN writes[t][k] ELSE rows[k]]
      /\ ledger' = [s \in Shards |-> IF s \in DOMAIN counts[t] THEN counts[t][s] ELSE ledger[s]]
      /\ touched' = [k \in Key |-> IF k \in DOMAIN writes[t] THEN at[t] ELSE touched[k]]
  BY DEF ServerCommit
<1>4. TypeOK'
  <2>1. \A k \in Key : rows'[k] \in RowType(k)
    BY <1>3, Typed DEF Inv, TypeOK
  <2>2. rows' \in [Key -> UNION {RowType(k) : k \in Key}]
    BY <1>3, <2>1
  <2>3. ledger' \in [Shards -> Nat]
    BY <1>3, Typed DEF Inv, TypeOK
  <2>4. touched' \in [Key -> 0..MaxTime]
    BY <1>3, Typed DEF Inv, TypeOK
  <2>5. \A u \in Session : \A k \in DOMAIN writes'[u] : k \in Key /\ writes'[u][k] \in RowType(k)
    BY <1>1, EndFacts DEF Inv, TypeOK
  <2>6. \A u \in Session : \A s \in DOMAIN counts'[u] : s \in Shards /\ counts'[u][s] \in Nat
    BY <1>1, EndFacts DEF Inv, TypeOK
  <2>7. /\ wanted' \in [Session -> SUBSET Locks] /\ at' \in [Session -> 0..MaxTime]
        /\ holder' \in [Locks -> Session \cup {None}]
    BY <1>1, EndFacts DEF StepLocks
  <2>8. clock' \in 0..MaxTime /\ \A u \in Session : reply'[u].outcome \in Outcome
    BY <1>1 DEF Inv, TypeOK
  <2>9. \A u \in Session : op'[u] \in Operation \cup {[kind |-> "cleanup", checks |-> <<>>]}
    BY <1>1 DEF Inv, TypeOK
  <2> QED BY <1>2, <2>1, <2>2, <2>3, <2>4, <2>5, <2>6, <2>7, <2>8, <2>9 DEF TypeOK
<1>5. Shape' /\ ProtocolHolds'
  BY <1>1, EndFacts DEF Inv, Shape, ProtocolHolds
<1>6. LedgerExact' /\ RowsBounded'
  BY CommitCounts DEF LedgerExact, RowsBounded
<1>7. SessionsInv'
  <2> SUFFICES ASSUME NEW u \in Session PROVE SessionOK(u)'
    BY DEF SessionsInv
  <2>1. CASE u = t
    BY <1>1, <1>2, <2>1, EndFacts, EndedOK
  <2>2. CASE u # t
    BY <2>2, CommitKeepsOthers
  <2> QED BY <2>1, <2>2
<1> QED BY <1>4, <1>5, <1>6, <1>7 DEF Inv

----------------------------------------------------------------------------
(* Induction                                                               *)

\* The invariant holds initially.
LEMMA InitInv ==
  ASSUME Init
  PROVE  Inv
<1>1. TypeOK /\ Shape
  <2>1. \A k \in Key : NoRow \in RowType(k)
    BY DEF RowType
  <2>2. rows \in [Key -> UNION {RowType(k) : k \in Key}] /\ \A k \in Key : rows[k] \in RowType(k)
    BY <2>1 DEF Init
  <2>3. ledger \in [Shards -> Nat] /\ clock \in 0..MaxTime /\ touched \in [Key -> 0..MaxTime]
    BY PgFixedWindowAssumption DEF Init
  <2>4. holder \in [Locks -> Session \cup {None}] /\ pc \in [Session -> Phase]
    BY DEF Init, Phase
  <2>5. op \in [Session -> Operation \cup {[kind |-> "cleanup", checks |-> <<>>]}]
    BY DEF Init
  <2>6. wanted \in [Session -> SUBSET Locks] /\ at \in [Session -> 0..MaxTime]
    BY PgFixedWindowAssumption DEF Init
  <2>7. /\ \A t \in Session : DOMAIN writes[t] = {} /\ DOMAIN counts[t] = {}
        /\ DOMAIN writes = Session /\ DOMAIN counts = Session /\ DOMAIN reply = Session
    BY DEF Init, Nothing
  <2>8. \A t \in Session : reply[t].outcome \in Outcome
    BY DEF Init, Reply, Outcome
  <2> QED BY <2>2, <2>3, <2>4, <2>5, <2>6, <2>7, <2>8 DEF TypeOK, Shape
<1>2. \A s \in Shards : RowsIn(s) = {} /\ Cardinality(RowsIn(s)) = 0 /\ ledger[s] = 0
  <2>1. \A s \in Shards : RowsIn(s) = {} /\ ledger[s] = 0
    BY DEF Init, RowsIn, Exists
  <2> QED BY <2>1, FS_EmptySet
<1>3. LedgerExact
  BY <1>2 DEF LedgerExact
<1>4. RowsBounded
  BY <1>2, PgFixedWindowAssumption DEF RowsBounded
<1>5. ProtocolHolds
  BY DEF Init, ProtocolHolds, Reply
<1>6. SessionsInv
  <2> SUFFICES ASSUME NEW t \in Session PROVE SessionOK(t)
    BY DEF SessionsInv
  <2>1. pc[t] = "idle" /\ wanted[t] = {} /\ writes[t] = Nothing /\ counts[t] = Nothing
    BY DEF Init
  <2>2. \A l \in Locks : holder[l] # t
    BY PgFixedWindowAssumption DEF Init
  <2>3. LocksOK(t)
    BY <2>1, <2>2 DEF LocksOK
  <2> QED BY <2>1, <2>3 DEF SessionOK
<1> QED BY <1>1, <1>3, <1>4, <1>5, <1>6 DEF Inv

\* Every step preserves the invariant.
LEMMA NextInv ==
  ASSUME Inv, [Next]_vars
  PROVE  Inv'
<1>1. CASE Tick
  BY <1>1, TickInv
<1>2. ASSUME NEW t \in Session,
             BeginCheck(t) \/ BeginCleanup(t) \/ Acquire(t) \/ StartRowLocks(t) \/ StartLedgerLocks(t)
      PROVE  Inv'
  BY <1>2, BeginCheckInv, BeginCleanupInv, AcquireInv, StartRowLocksInv, StartLedgerLocksInv
<1>3. ASSUME NEW t \in Session, Preflight(t) \/ Upsert(t) \/ Scan(t) \/ DeleteExpired(t)
      PROVE  Inv'
  BY <1>3, PreflightInv, UpsertInv, ScanInv, DeleteExpiredInv
<1>4. ASSUME NEW t \in Session, SendCommit(t) \/ ServerCommit(t) \/ Confirm(t) \/ LoseConfirmation(t)
      PROVE  Inv'
  BY <1>4, SendCommitInv, ServerCommitInv, ConfirmInv, LoseConfirmationInv
<1>5. ASSUME NEW t \in Session, FailCommit(t) \/ Abandon(t) \/ Rollback(t)
      PROVE  Inv'
  BY <1>5, FailCommitInv, AbandonInv, RollbackInv
<1>6. CASE UNCHANGED vars
  <2>1. UNCHANGED <<rows, ledger, clock, holder, pc, op, wanted, at, writes, counts, reply, touched>>
    BY <1>6 DEF vars
  <2>2. TypeOK' /\ Shape' /\ ProtocolHolds'
    BY <2>1 DEF Inv, TypeOK, Shape, ProtocolHolds
  <2>3. LedgerExact' /\ RowsBounded'
    BY <2>1 DEF Inv, LedgerExact, RowsBounded, RowsIn, Exists
  <2>4. SessionsInv'
    BY <2>1, Undisturbed DEF SessionsInv
  <2> QED BY <2>2, <2>3, <2>4 DEF Inv
<1> QED BY <1>1, <1>2, <1>3, <1>4, <1>5, <1>6 DEF Next

\* Every reachable state satisfies Inv: each transaction holds the locks that protect
\* what it has read, and its uncommitted writes fit the rows it will meet.
THEOREM Invariance == Spec => []Inv
<1>1. Init => Inv
  BY InitInv
<1>2. Inv /\ [Next]_vars => Inv'
  BY NextInv
<1> QED BY <1>1, <1>2, PTL DEF Spec

\* Every variable keeps its type; a stored row never exceeds its policy's limit.
THEOREM TypeCorrectness == Spec => []TypeOK
<1>1. Inv => TypeOK
  BY DEF Inv
<1> QED BY <1>1, Invariance, PTL

\* The capacity ledger's row_count is the number of rows of its shard in every
\* committed state, whichever admissions and cleanups overlap, fail or are abandoned.
THEOREM ExactLedger == Spec => []LedgerExact
<1>1. Inv => LedgerExact
  BY DEF Inv
<1> QED BY <1>1, Invariance, PTL

\* No shard outgrows the largest maximum_rows_per_shard of the replicas that share it.
THEOREM RowsStayBounded == Spec => []RowsBounded
<1>1. Inv => RowsBounded
  BY DEF Inv
<1> QED BY <1>1, Invariance, PTL

\* No admission is answered by a broken storage protocol: the upsert decides every check
\* the preflight admitted, and no trigger meets an impossible row_count.
THEOREM ProtocolNeverBroken == Spec => []ProtocolHolds
<1>1. Inv => ProtocolHolds
  BY DEF Inv
<1> QED BY <1>1, Invariance, PTL

----------------------------------------------------------------------------
(* No deadlock                                                             *)

\* The upsert waits for nobody: a row it inserts can be locked by no admission, which
\* would hold the same advisory lock, and by no cleanup, which locks rows that exist.
LEMMA UpsertNeverWaits ==
  ASSUME Inv, NEW t \in Session, pc[t] = "upsert", NEW l \in UpsertLocks(t),
         NEW u \in Session, holder[l] = u
  PROVE  u = t
<1>1. SessionOK(t) /\ CheckOK(t)
  BY Typed DEF SessionOK
<1>2. \A m : Owns(t, m) /\ Owns(u, m) => u = t
  BY DEF Owns
<1>3. Keys(t) \subseteq Key /\ MissingKeys(t) = {k \in Keys(t) : ~Exists(k)}
  BY OperationFacts DEF MissingKeys, Keys
<1>4. CASE l \in {<<"ledger", s>> : s \in ShardsOf(MissingKeys(t))}
  <2>1. PICK k \in MissingKeys(t) : l = <<"ledger", Shard[k]>>
    BY <1>4 DEF ShardsOf
  <2> QED BY <1>1, <1>2, <2>1 DEF CheckOK, Owns
<1>5. CASE l \in {<<"row", k>> : k \in Keys(t)}
  <2>1. PICK k \in Keys(t) : l = <<"row", k>>
    BY <1>5
  <2>2. CASE Exists(k)
    BY <1>1, <1>2, <2>1, <2>2 DEF CheckOK, Owns
  <2>3. CASE ~Exists(k)
    <3>1. l \in Locks /\ l[1] = "row" /\ l[2] = k /\ Level(l) = 1
      BY <1>3, <2>1, LockFacts DEF Level
    <3>2. SessionOK(u) /\ LocksOK(u)
      BY Typed DEF SessionOK
    <3>3. /\ pc[u] \notin {"idle", "committed", "scan"} /\ 1 \in HeldLevels(pc[u])
          /\ k \in IF CheckOp(op[u]) THEN Keys(u) ELSE DOMAIN writes[u]
      BY <3>1, <3>2 DEF LocksOK
    <3>4. CASE CheckOp(op[u])
      <4>1. CheckOK(u) /\ pc[u] # "advisory"
        BY <3>2, <3>3, <3>4 DEF SessionOK, HeldLevels
      <4>2. Owns(u, <<"advisory", LockId[k]>>)
        BY <3>3, <3>4, <4>1 DEF CheckOK
      <4>3. Owns(t, <<"advisory", LockId[k]>>)
        BY <1>1 DEF CheckOK
      <4> QED BY <1>2, <4>2, <4>3
    <3>5. CASE ~CheckOp(op[u])
      <4>1. pc[u] \in {"ledger", "ready", "committing"}
        BY <3>2, <3>3, <3>5, Typed DEF SessionOK, Phase, BeforeCommit
      <4>2. CleanupOK(u)
        BY <3>2, <3>5, <4>1 DEF SessionOK
      <4> QED BY <2>3, <3>3, <3>5, <4>2 DEF CleanupOK
    <3> QED BY <3>4, <3>5
  <2> QED BY <2>2, <2>3
<1> QED BY <1>4, <1>5 DEF UpsertLocks, Keys

\* Whoever waits, waits for a lock above every lock its holder is still going to wait for.
LEMMA WaitsAreOrdered ==
  ASSUME Inv, NEW t \in Session, NEW u \in Session, WaitsFor(t, u)
  PROVE  \E l \in wanted[t] : l \in Locks /\ holder[l] = u /\ \A m \in wanted[u] : Below(l, m)
<1>1. PICK l \in Needs(t) : holder[l] = u
  BY DEF WaitsFor
<1>2. l \in wanted[t]
  BY <1>1, UpsertNeverWaits DEF WaitsFor, Needs, NextLock
<1>3. SessionOK(t) /\ SessionOK(u)
  BY Typed
<1>4. l \in Locks
  BY <1>2, Typed
<1> QED BY <1>1, <1>2, <1>3, <1>4 DEF SessionOK, LocksOK

\* Locks are requested in ascending order, so nobody waits in a circle.
LEMMA OrderedWaits ==
  ASSUME Inv
  PROVE  NoWaitCycle
<1> SUFFICES ASSUME NEW S \in SUBSET Session, S # {}, \A t \in S : \E u \in S : WaitsFor(t, u)
             PROVE  FALSE
  BY DEF NoWaitCycle
<1> DEFINE Good(t, l) == /\ l \in wanted[t] /\ l \in Locks
                         /\ \E u \in S : holder[l] = u /\ \A m \in wanted[u] : Below(l, m)
<1> DEFINE need == [t \in S |-> CHOOSE l : Good(t, l)]
<1>1. \A t \in S : Good(t, need[t])
  <2> SUFFICES ASSUME NEW t \in S PROVE Good(t, need[t])
    OBVIOUS
  <2>1. PICK u \in S : WaitsFor(t, u)
    OBVIOUS
  <2>2. t \in Session /\ u \in Session
    OBVIOUS
  <2>3. \E l : Good(t, l)
    BY <2>1, <2>2, WaitsAreOrdered
  <2> HIDE DEF Good
  <2> QED BY <2>3
<1> HIDE DEF need
<1> DEFINE major == [t \in S |-> Level(need[t])]
<1> DEFINE minor == [t \in S |-> need[t][2]]
<1>2. \A t \in S : need[t] \in Locks /\ need[t] \in wanted[t]
  BY <1>1
<1>3. \A t \in S : Level(need[t]) \in Nat /\ need[t][2] \in Nat
  BY <1>2, LockFacts
<1>4. \A t \in S : \E u \in S : Below(need[t], need[u])
  BY <1>1, <1>2
<1>5. \A t \in S : \E u \in S : major[t] < major[u] \/ (major[t] = major[u] /\ minor[t] < minor[u])
  BY <1>4 DEF Below
<1>6. major \in [S -> Nat] /\ minor \in [S -> Nat]
  BY <1>3
<1>7. IsFiniteSet(S)
  BY FS_Subset, PgFixedWindowAssumption
<1> HIDE DEF major, minor
<1> QED BY <1>5, <1>6, <1>7, NoEndlessAscent

\* No set of sessions waits in a circle: advisory ids, rows by key, ledger rows by shard
\* is one order for the locks of every admission and every cleanup, and the locks the
\* upsert takes out of that order are never another session's.
THEOREM DeadlockFreedom == Spec => []NoWaitCycle
<1>1. Inv => NoWaitCycle
  BY OrderedWaits
<1> QED BY <1>1, Invariance, PTL

----------------------------------------------------------------------------
(* Refinement: what the promise of SharedWindow needs besides Inv          *)

\* A client's answer fits the phase of its transaction.
AnswerOK(t) ==
    /\ reply[t].outcome = "pending" => reply[t] = Pending
    /\ pc[t] = "idle" => reply[t].outcome # "pending"
    /\ pc[t] \in BeforeCommit => reply[t].outcome # "unknown"
    /\ pc[t] = "committing" => reply[t] \in {Pending, Reply("unknown", 0, 0)}
    /\ pc[t] = "committed" => reply[t] = Pending

\* The time a decision uses is not before any write it builds on, and the decision is
\* still the right one for the rows that are stored.
DecisionOK(t) ==
    /\ CheckOp(op[t]) /\ pc[t] \in {"upsert", "ready", "committing"} =>
        /\ \A k \in Keys(t) : touched[k] <= at[t]
        /\ Unreturned(op[t].checks, at[t]) = {}
    /\ CheckOp(op[t]) /\ pc[t] \in {"ready", "committing"} =>
        \A k \in Keys(t) : writes[t][k] = Upserted(CheckOf(op[t].checks, k), at[t])
    /\ ~CheckOp(op[t]) /\ pc[t] \in {"ledger", "ready", "committing"} =>
        \A k \in DOMAIN writes[t] : touched[k] <= at[t] /\ rows[k].expires <= at[t]

CallsInv ==
    /\ \A k \in Key : touched[k] <= clock
    /\ \A t \in Session : at[t] <= clock /\ AnswerOK(t) /\ DecisionOK(t)

\* A step of session t leaves the calls of the others alone.
OthersKept(t) ==
    \A u \in Session \ {t} :
        /\ pc'[u] = pc[u] /\ op'[u] = op[u] /\ at'[u] = at[u]
        /\ writes'[u] = writes[u] /\ reply'[u] = reply[u]

\* A call whose session does not move keeps its answer and its decision.
LEMMA CallUndisturbed ==
  ASSUME Inv, CallsInv, NEW u \in Session, rows' = rows, touched' = touched,
         pc'[u] = pc[u], op'[u] = op[u], at'[u] = at[u], writes'[u] = writes[u], reply'[u] = reply[u]
  PROVE  AnswerOK(u)' /\ DecisionOK(u)'
<1>1. AnswerOK(u) /\ DecisionOK(u)
  BY DEF CallsInv
<1>2. AnswerOK(u)'
  BY <1>1 DEF AnswerOK, Pending, Reply
<1>3. Keys(u)' = Keys(u) /\ CheckOp(op[u])' = CheckOp(op[u])
      /\ Unreturned(op[u].checks, at[u])' = Unreturned(op[u].checks, at[u])
  BY DEF Keys, CheckOp, Unreturned, QuotaDenied, Exists
<1>4. \A k : Upserted(CheckOf(op[u].checks, k), at[u])' = Upserted(CheckOf(op[u].checks, k), at[u])
  BY DEF Upserted, CheckOf, Exists
<1>5. DecisionOK(u)'
  BY <1>1, <1>3, <1>4 DEF DecisionOK
<1> QED BY <1>2, <1>5

\* A step that writes nothing keeps the facts about every other call.
LEMMA CallsStep ==
  ASSUME Inv, CallsInv, NEW t \in Session, UNCHANGED <<rows, clock, touched>>, OthersKept(t),
         at'[t] <= clock, AnswerOK(t)', DecisionOK(t)'
  PROVE  CallsInv'
<1>1. ASSUME NEW u \in Session PROVE at'[u] <= clock' /\ AnswerOK(u)' /\ DecisionOK(u)'
  <2>1. CASE u = t
    BY <2>1
  <2>2. CASE u # t
    <3>1. at'[u] <= clock'
      BY <2>2 DEF OthersKept, CallsInv
    <3> QED BY <2>2, <3>1, CallUndisturbed DEF OthersKept
  <2> QED BY <2>1, <2>2
<1> QED BY <1>1 DEF CallsInv

\* What the abstract client of session t sees.
Told(t) == IF CheckOp(op[t]) THEN reply[t] ELSE Reply("none", 0, 0)

\* The calls of all other sessions look the same after the step.
LEMMA OthersSeen ==
  ASSUME NEW t \in Session, OthersKept(t)
  PROVE  \A u \in Session \ {t} :
           op'[u].checks = op[u].checks /\ CallStatus(u)' = CallStatus(u) /\ Told(u)' = Told(u)
BY DEF OthersKept, CallStatus, Told, CheckOp, Waiting, Pending, Reply

\* A step that changes nothing callers can see is a stutter.
LEMMA StutterRefines ==
  ASSUME UNCHANGED <<rows, touched, clock>>,
         \A u \in Session : op'[u].checks = op[u].checks /\ CallStatus(u)' = CallStatus(u) /\ Told(u)' = Told(u)
  PROVE  UNCHANGED Shared!vars
<1>1. [t \in Session |-> op'[t].checks] = [t \in Session |-> op[t].checks]
  OBVIOUS
<1>2. [t \in Session |-> CallStatus(t)'] = [t \in Session |-> CallStatus(t)]
  OBVIOUS
<1>3. [t \in Session |-> Told(t)'] = [t \in Session |-> Told(t)]
  OBVIOUS
<1> QED BY <1>1, <1>2, <1>3 DEF Shared!vars, Told

\* A step of the abstract specification for one client is a step of it.
LEMMA ClientStep ==
  ASSUME NEW t \in Session, OthersKept(t),
         \/ Shared!Invoke(t) \/ Shared!Charge(t) \/ Shared!Allow(t) \/ Shared!Deny(t)
         \/ Shared!Refuse(t) \/ Shared!Fail(t) \/ Shared!Doubt(t) \/ Shared!Settle(t)
  PROVE  Shared!Next
<1>1. \A u \in Session \ {t} :
        op'[u].checks = op[u].checks /\ CallStatus(u)' = CallStatus(u) /\ Told(u)' = Told(u)
  BY OthersSeen
<1>2. \A u \in Session \ {t} :
        /\ [v \in Session |-> op'[v].checks][u] = [v \in Session |-> op[v].checks][u]
        /\ [v \in Session |-> CallStatus(v)'][u] = [v \in Session |-> CallStatus(v)][u]
        /\ [v \in Session |-> Told(v)'][u] = [v \in Session |-> Told(v)][u]
  BY <1>1
<1> QED BY <1>2 DEF Shared!Next, Told

\* Steps the abstract clients do not see.
LEMMA QuietRefines ==
  ASSUME NEW t \in Session, UNCHANGED <<rows, clock, touched>>, OthersKept(t),
         op'[t].checks = op[t].checks, CallStatus(t)' = CallStatus(t), Told(t)' = Told(t)
  PROVE  UNCHANGED Shared!vars
<1>1. \A u \in Session :
        op'[u].checks = op[u].checks /\ CallStatus(u)' = CallStatus(u) /\ Told(u)' = Told(u)
  BY OthersSeen
<1> QED BY <1>1, StutterRefines

\* A cleanup has no client: whatever it does to its own call is a stutter.
LEMMA CleanupRefines ==
  ASSUME NEW t \in Session, UNCHANGED <<rows, clock, touched>>, OthersKept(t),
         op' = op, ~CheckOp(op[t])
  PROVE  UNCHANGED Shared!vars
<1>1. CallStatus(t)' = CallStatus(t) /\ Told(t)' = Told(t)
  BY DEF CallStatus, Told, CheckOp, Reply
<1> QED BY <1>1, QuietRefines

\* A transaction goes on to its next statement.
LEMMA PhaseRefines ==
  ASSUME Inv, CallsInv, NEW t \in Session, UNCHANGED <<rows, clock, touched>>, OthersKept(t),
         UNCHANGED <<op, reply>>, NEW p, pc' = [pc EXCEPT ![t] = p],
         pc[t] \in BeforeCommit, p \in BeforeCommit \/ (p = "committing" /\ Waiting(t)),
         at'[t] <= clock, DecisionOK(t)'
  PROVE  CallsInv' /\ UNCHANGED Shared!vars
<1>1. pc'[t] = p /\ p \notin {"idle", "committed"} /\ pc[t] \notin {"idle", "committed"}
  BY Typed DEF BeforeCommit
<1>2. AnswerOK(t)'
  <2>1. AnswerOK(t)
    BY DEF CallsInv
  <2> QED BY <1>1, <2>1 DEF AnswerOK, Waiting, BeforeCommit, Pending, Reply
<1>3. CallStatus(t)' = CallStatus(t) /\ Told(t)' = Told(t)
  BY <1>1 DEF CallStatus, Told, CheckOp, Waiting, Pending, Reply
<1> QED BY <1>2, <1>3, CallsStep, QuietRefines

\* Waiting for and taking locks is invisible to callers.
LEMMA LockingRefines ==
  ASSUME Inv, CallsInv, NEW t \in Session, Acquire(t) \/ StartRowLocks(t) \/ StartLedgerLocks(t)
  PROVE  CallsInv' /\ UNCHANGED Shared!vars
<1>1. OthersKept(t) /\ UNCHANGED <<rows, clock, touched>> /\ UNCHANGED <<op, reply, at, writes>>
  BY Typed DEF OthersKept, Acquire, StartRowLocks, StartLedgerLocks
<1>2. at'[t] <= clock
  BY <1>1 DEF CallsInv
<1>3. CASE Acquire(t)
  <2>1. pc' = pc
    BY <1>3 DEF Acquire
  <2>2. AnswerOK(t)' /\ DecisionOK(t)'
    BY <1>1, <2>1, CallUndisturbed
  <2>3. CallStatus(t)' = CallStatus(t) /\ Told(t)' = Told(t)
    BY <1>1, <2>1 DEF CallStatus, Told, CheckOp, Waiting, Pending, Reply
  <2> QED BY <1>1, <1>2, <2>2, <2>3, CallsStep, QuietRefines
<1>4. ASSUME NEW p \in {"rows", "ledger"}, pc' = [pc EXCEPT ![t] = p], pc[t] \in {"advisory", "rows"}
      PROVE  CallsInv' /\ UNCHANGED Shared!vars
  <2>1. pc'[t] = p /\ p \in BeforeCommit /\ pc[t] \in BeforeCommit
    BY <1>4, Typed DEF BeforeCommit
  <2>2. CheckOp(op[t])
    BY <1>4, Typed DEF SessionOK
  <2>3. DecisionOK(t)'
    BY <1>1, <1>4, <2>1, <2>2 DEF DecisionOK, CheckOp
  <2> QED BY <1>1, <1>2, <1>4, <2>1, <2>3, PhaseRefines
<1>5. CASE StartRowLocks(t)
  BY <1>4, <1>5 DEF StartRowLocks
<1>6. CASE StartLedgerLocks(t)
  BY <1>4, <1>6 DEF StartLedgerLocks
<1> QED BY <1>3, <1>5, <1>6

\* Begin maps to a step of the abstract specification or to a stutter.
LEMMA BeginRefines ==
  ASSUME Inv, CallsInv, NEW t \in Session, BeginCheck(t) \/ BeginCleanup(t)
  PROVE  CallsInv' /\ Shared!Next
<1>1. /\ pc[t] = "idle" /\ UNCHANGED <<rows, clock, touched>> /\ UNCHANGED <<at, writes>>
      /\ \E o \in Operation : op' = [op EXCEPT ![t] = o] /\ (CheckOp(o) <=> BeginCheck(t))
  BY DEF BeginCheck, BeginCleanup
<1>2. PICK o \in Operation : op' = [op EXCEPT ![t] = o] /\ (CheckOp(o) <=> BeginCheck(t))
  BY <1>1
<1>3. op'[t] = o
  BY <1>2, Typed
<1>4. \/ pc' = [pc EXCEPT ![t] = "advisory"] /\ reply' = [reply EXCEPT ![t] = Pending] /\ CheckOp(o)
      \/ pc' = pc /\ reply' = [reply EXCEPT ![t] = Reply("invalid", 0, 0)] /\ CheckOp(o)
      \/ pc' = [pc EXCEPT ![t] = "scan"] /\ reply' = [reply EXCEPT ![t] = Pending] /\ ~CheckOp(o)
  BY <1>2 DEF BeginCheck, BeginCleanup
<1>5. OthersKept(t)
  BY <1>1, <1>2, <1>4, Typed DEF OthersKept
<1>6. AnswerOK(t)' /\ DecisionOK(t)'
  <2>1. \/ pc'[t] \in {"advisory", "scan"} /\ reply'[t] = Pending
        \/ pc'[t] = "idle" /\ reply'[t] = Reply("invalid", 0, 0)
    BY <1>1, <1>4, Typed
  <2>2. AnswerOK(t)'
    BY <2>1 DEF AnswerOK, Pending, Reply, BeforeCommit
  <2>3. DecisionOK(t)'
    BY <2>1 DEF DecisionOK
  <2> QED BY <2>2, <2>3
<1>7. at'[t] <= clock
  BY <1>1 DEF CallsInv
<1>8. Shared!Invoke(t)
  <2>1. CallStatus(t) = "idle" /\ Told(t).outcome # "pending"
    <3>1. reply[t].outcome # "pending"
      BY <1>1 DEF CallsInv, AnswerOK
    <3> QED BY <1>1, <3>1 DEF CallStatus, Told, Reply
  <2>2. \/ CallStatus(t)' = "open" /\ Told(t)'.outcome = "pending"
        \/ CallStatus(t)' = "idle" /\ Told(t)'.outcome \in {"invalid", "none"}
    <3>1. CASE pc' = [pc EXCEPT ![t] = "advisory"] /\ reply' = [reply EXCEPT ![t] = Pending] /\ CheckOp(o)
      <4>1. pc'[t] = "advisory" /\ reply'[t] = Pending
        BY <3>1, Typed
      <4> QED BY <1>3, <3>1, <4>1 DEF CallStatus, Told, Waiting, Pending, Reply
    <3>2. CASE pc' = pc /\ reply' = [reply EXCEPT ![t] = Reply("invalid", 0, 0)] /\ CheckOp(o)
      <4>1. pc'[t] = "idle" /\ reply'[t] = Reply("invalid", 0, 0)
        BY <1>1, <3>2, Typed
      <4> QED BY <1>3, <3>2, <4>1 DEF CallStatus, Told, Reply
    <3>3. CASE ~CheckOp(o)
      BY <1>3, <3>3 DEF CallStatus, Told, Reply
    <3> QED BY <1>4, <3>1, <3>2, <3>3
  <2> QED BY <1>1, <2>1, <2>2 DEF Shared!Invoke, Shared!Waiting, Told
<1> QED BY <1>1, <1>5, <1>6, <1>7, <1>8, CallsStep, ClientStep

\* The tests and the writes of the SQL are the abstract ones.
LEMMA WithinLemma ==
  ASSUME Inv, NEW t \in Session, NEW j \in DOMAIN op[t].checks, NEW now \in 0..MaxTime
  PROVE  /\ Shared!Within(op[t].checks[j], now) <=> ~QuotaDenied(op[t].checks[j], now)
         /\ Upserted(op[t].checks[j], now) = Shared!Charged(op[t].checks[j], now)
<1> DEFINE c == op[t].checks[j]
<1> DEFINE k == c.key
<1>1. k \in Key /\ c.cost \in 1..Limit[k] /\ Limit[k] \in Nat
  BY OperationFacts, PgFixedWindowAssumption
<1>2. rows[k] = NoRow \/ rows[k] \in [used : 1..Limit[k], expires : 1..(MaxTime + Window[k])]
  BY <1>1 DEF Inv, TypeOK, RowType
<1>3. NoRow.used = 0 /\ NoRow.expires = 0 /\ now \in Nat
  BY PgFixedWindowAssumption DEF NoRow
<1>4. rows[k].expires > now => rows[k] # NoRow
  BY <1>2, <1>3
<1> HIDE DEF c, k
<1>5. CASE rows[k].expires > now
  <2>1. /\ rows[k] \in [used : 1..Limit[k], expires : 1..(MaxTime + Window[k])] /\ Exists(k)
    BY <1>2, <1>4, <1>5 DEF Exists
  <2>2. Shared!UsedAt(k, now) = rows[k].used
    BY <1>5 DEF Shared!UsedAt
  <2>3. Shared!Within(c, now) <=> rows[k].used + c.cost <= Limit[k]
    BY <2>2 DEF Shared!Within, k
  <2>4. QuotaDenied(c, now) <=> rows[k].used > Limit[k] - c.cost
    BY <1>5, <2>1 DEF QuotaDenied, k
  <2>5. Shared!Within(c, now) <=> ~QuotaDenied(c, now)
    BY <1>1, <2>1, <2>3, <2>4
  <2>6. Upserted(c, now) = [used |-> rows[k].used + c.cost, expires |-> rows[k].expires]
    <3>1. Upserted(c, now) = [rows[k] EXCEPT !.used = @ + c.cost]
      BY <1>5, <2>1 DEF Upserted, k
    <3> QED BY <2>1, <3>1
  <2>7. Shared!Charged(c, now) = [used |-> rows[k].used + c.cost, expires |-> rows[k].expires]
    BY <1>5, <2>2 DEF Shared!Charged, k
  <2> QED BY <2>5, <2>6, <2>7 DEF c
<1>6. CASE ~(rows[k].expires > now)
  <2>1. Shared!UsedAt(k, now) = 0
    BY <1>6 DEF Shared!UsedAt
  <2>2. Shared!Within(c, now) <=> 0 + c.cost <= Limit[k]
    BY <2>1 DEF Shared!Within, k
  <2>3. ~QuotaDenied(c, now)
    BY <1>6 DEF QuotaDenied, k
  <2>4. Upserted(c, now) = [used |-> c.cost, expires |-> now + Window[k]]
    BY <1>6 DEF Upserted, k
  <2>5. Shared!Charged(c, now) = [used |-> 0 + c.cost, expires |-> now + Window[k]]
    BY <1>6, <2>1 DEF Shared!Charged, k
  <2>6. 0 + c.cost = c.cost /\ c.cost <= Limit[k]
    BY <1>1
  <2> QED BY <2>2, <2>3, <2>4, <2>5, <2>6 DEF c
<1> QED BY <1>5, <1>6

\* A denial is of the first check that is denied.
LEMMA FirstDeniedFact ==
  ASSUME Inv, NEW t \in Session, NEW now, FirstDenied(t, now) # 0
  PROVE  LET j == FirstDenied(t, now)
         IN  /\ j \in DOMAIN op[t].checks
             /\ CapacityDenied(t, j) \/ QuotaDenied(op[t].checks[j], now)
             /\ \A h \in 1..(j - 1) : h \in DOMAIN op[t].checks /\ ~QuotaDenied(op[t].checks[h], now)
<1> DEFINE D == {j \in DOMAIN op[t].checks : CapacityDenied(t, j) \/ QuotaDenied(op[t].checks[j], now)}
<1> DEFINE j == FirstDenied(t, now)
<1>1. DOMAIN op[t].checks = 1..Len(op[t].checks) /\ Len(op[t].checks) \in Nat
  BY OperationFacts
<1>2. j = (IF D = {} THEN 0 ELSE Min(D)) /\ D # {}
  BY DEF FirstDenied
<1>3. D \in SUBSET Nat
  BY <1>1
<1>4. j \in D /\ \A h \in D : j <= h
  <2> HIDE DEF D, j
  <2> QED BY <1>2, <1>3, MinOfNaturals
<1>5. \A h \in 1..(j - 1) : h \in DOMAIN op[t].checks /\ h \notin D
  <2>1. j \in 1..Len(op[t].checks)
    BY <1>1, <1>4
  <2> HIDE DEF j
  <2>2. \A h \in 1..(j - 1) : h \in 1..Len(op[t].checks) /\ ~(j <= h)
    BY <1>1, <2>1
  <2> HIDE DEF D
  <2> QED BY <1>1, <1>4, <2>2
<1> QED BY <1>4, <1>5

\* Preflight maps to a step of the abstract specification or to a stutter.
LEMMA PreflightRefines ==
  ASSUME Inv, CallsInv, NEW t \in Session, Preflight(t)
  PROVE  CallsInv' /\ [Shared!Next]_Shared!vars
<1> DEFINE j == FirstDenied(t, clock)
<1>1. /\ UNCHANGED <<rows, clock, touched>> /\ UNCHANGED <<op, writes>> /\ Waiting(t)
      /\ pc[t] = "ledger" /\ CheckOp(op[t]) /\ at' = [at EXCEPT ![t] = clock]
      /\ \/ j # 0 /\ reply' = [reply EXCEPT ![t] = Denial(t, j, clock)] /\ UNCHANGED pc
         \/ j = 0 /\ pc' = [pc EXCEPT ![t] = "upsert"] /\ UNCHANGED reply
  BY DEF Preflight
<1>2. clock \in 0..MaxTime /\ clock \in Nat /\ at'[t] = clock
  BY <1>1, Typed, PgFixedWindowAssumption
<1>3. OthersKept(t)
  BY <1>1, Typed DEF OthersKept
<1>4. CASE j # 0 /\ reply' = [reply EXCEPT ![t] = Denial(t, j, clock)] /\ UNCHANGED pc
  <2> DEFINE c == op[t].checks[j]
  <2>1. /\ j \in DOMAIN op[t].checks
        /\ CapacityDenied(t, j) \/ QuotaDenied(c, clock)
        /\ \A h \in 1..(j - 1) : h \in DOMAIN op[t].checks /\ ~QuotaDenied(op[t].checks[h], clock)
    BY <1>4, FirstDeniedFact
  <2>2. reply'[t] = Denial(t, j, clock)
    BY <1>4, Typed
  <2> HIDE DEF j
  <2>3. reply'[t].outcome \in {"quota_denied", "shadow_denied", "capacity_denied"}
    BY <2>2 DEF Denial, Reply
  <2>4. AnswerOK(t)' /\ DecisionOK(t)'
    <3>1. AnswerOK(t)'
      BY <1>1, <1>4, <2>3 DEF AnswerOK, BeforeCommit
    <3>2. DecisionOK(t)'
      BY <1>1, <1>4 DEF DecisionOK, CheckOp
    <3> QED BY <3>1, <3>2
  <2>5. /\ CallStatus(t) = "open" /\ CallStatus(t)' = "idle"
        /\ Told(t).outcome = "pending" /\ Told(t)' = reply'[t]
    BY <1>1, <1>4, <2>3 DEF CallStatus, Told, Waiting, Pending, Reply, CheckOp
  <2>6. \A h \in 1..(j - 1) : Shared!Within(op[t].checks[h], clock)
    BY <1>2, <2>1, WithinLemma
  <2>7. CASE QuotaDenied(c, clock)
    <3>1. reply'[t] = Reply(IF c.mode = "Shadow" THEN "shadow_denied" ELSE "quota_denied",
                            j, rows[c.key].expires - clock)
      BY <2>2, <2>7 DEF Denial
    <3>2. /\ reply'[t].index = j /\ reply'[t].retry = rows[c.key].expires - clock
          /\ reply'[t].outcome \in {"quota_denied", "shadow_denied"}
          /\ (reply'[t].outcome = "shadow_denied") <=> (c.mode = "Shadow")
      BY <3>1 DEF Reply
    <3>3. ~Shared!Within(c, clock)
      BY <1>2, <2>1, <2>7, WithinLemma
    <3>4. Shared!Deny(t)
      BY <1>1, <2>1, <2>5, <2>6, <3>2, <3>3 DEF Shared!Deny, Shared!Answer, Shared!Waiting, Told
    <3> QED BY <1>1, <1>2, <1>3, <2>4, <3>4, CallsStep, ClientStep
  <2>8. CASE ~QuotaDenied(c, clock)
    <3>1. reply'[t] = Reply("capacity_denied", j, 0)
      BY <2>2, <2>8 DEF Denial
    <3>2. reply'[t].index = j /\ reply'[t].outcome = "capacity_denied"
      BY <3>1 DEF Reply
    <3>3. rows[c.key] = Shared!NoWindow
      BY <2>1, <2>8 DEF CapacityDenied, Exists, NoRow, Shared!NoWindow
    <3>4. Shared!Refuse(t)
      BY <1>1, <2>1, <2>5, <2>6, <3>2, <3>3 DEF Shared!Refuse, Shared!Answer, Shared!Waiting, Told
    <3> QED BY <1>1, <1>2, <1>3, <2>4, <3>4, CallsStep, ClientStep
  <2> QED BY <2>7, <2>8
<1>5. CASE j = 0 /\ pc' = [pc EXCEPT ![t] = "upsert"] /\ UNCHANGED reply
  <2>1. pc'[t] = "upsert" /\ at'[t] = clock
    BY <1>2, <1>5, Typed
  <2>2. Keys(t)' = Keys(t) /\ Keys(t) \subseteq Key
    BY <1>1, OperationFacts DEF Keys
  <2>3. Unreturned(op[t].checks, at[t])' = {}
    <3>1. \A i \in DOMAIN op[t].checks : ~QuotaDenied(op[t].checks[i], clock)
      BY <1>5, FirstDeniedZero
    <3> QED BY <1>1, <2>1, <3>1 DEF Unreturned, QuotaDenied, Exists
  <2>4. DecisionOK(t)'
    BY <1>1, <2>1, <2>2, <2>3 DEF DecisionOK, CheckOp, CallsInv
  <2>5. at'[t] <= clock
    BY <1>2
  <2> QED BY <1>1, <1>3, <1>5, <2>4, <2>5, PhaseRefines DEF BeforeCommit
<1> QED BY <1>1, <1>4, <1>5

\* The statements that write take the branch without an error, as Inv' shows.
LEMMA WritingRefines ==
  ASSUME Inv, CallsInv, Inv', NEW t \in Session, Upsert(t) \/ Scan(t) \/ DeleteExpired(t) \/ SendCommit(t)
  PROVE  CallsInv' /\ UNCHANGED Shared!vars
<1>1. UNCHANGED <<rows, clock, touched>> /\ op' = op /\ SessionOK(t)
  BY Typed DEF Upsert, Scan, DeleteExpired, SendCommit
<1>2. \A e \in {"storage_invariant", "check_violation"} : reply' # [reply EXCEPT ![t] = Reply(e, 0, 0)]
  <2> SUFFICES ASSUME NEW e \in {"storage_invariant", "check_violation"},
                      reply' = [reply EXCEPT ![t] = Reply(e, 0, 0)]
               PROVE  FALSE
    OBVIOUS
  <2>1. reply'[t] = Reply(e, 0, 0)
    BY Typed
  <2> QED BY <2>1 DEF Inv, ProtocolHolds, Reply
<1>3. clock \in Nat /\ at[t] <= clock /\ DecisionOK(t)
  BY Typed, PgFixedWindowAssumption DEF CallsInv
<1>4. CASE Upsert(t)
  <2> DEFINE w == [k \in KeysOf(op[t].checks) |-> Upserted(CheckOf(op[t].checks, k), at[t])]
  <2>1. /\ writes' = [writes EXCEPT ![t] = w] /\ pc' = [pc EXCEPT ![t] = "ready"]
        /\ reply' = reply /\ at' = at /\ pc[t] = "upsert"
    BY <1>2, <1>4 DEF Upsert
  <2>2. OthersKept(t) /\ pc'[t] = "ready" /\ writes'[t] = w /\ CheckOp(op[t])
    BY <1>1, <2>1, Typed DEF OthersKept, SessionOK
  <2>3. Unreturned(op[t].checks, at[t])' = Unreturned(op[t].checks, at[t]) /\ Keys(t)' = Keys(t)
    BY <1>1, <2>1 DEF Unreturned, QuotaDenied, Exists, Keys
  <2>4. \A k \in Keys(t) : writes'[t][k] = Upserted(CheckOf(op[t].checks, k), at[t])'
    <3>1. \A k : Upserted(CheckOf(op[t].checks, k), at[t])' = Upserted(CheckOf(op[t].checks, k), at[t])
      <4>1. at' = at
        BY <2>1
      <4> QED BY <1>1, <4>1 DEF Upserted, Exists, CheckOf
    <3>2. \A k \in Keys(t) : w[k] = Upserted(CheckOf(op[t].checks, k), at[t])
      BY DEF Keys
    <3> HIDE DEF w
    <3> QED BY <2>2, <3>1, <3>2
  <2> HIDE DEF w
  <2>5. DecisionOK(t)'
    BY <1>1, <1>3, <2>1, <2>2, <2>3, <2>4 DEF DecisionOK, CheckOp
  <2> QED BY <1>1, <1>3, <2>1, <2>2, <2>5, PhaseRefines DEF BeforeCommit
<1>5. CASE Scan(t)
  <2>1. /\ pc' = [pc EXCEPT ![t] = "ledger"] /\ reply' = reply /\ at' = [at EXCEPT ![t] = clock] /\ pc[t] = "scan"
    BY <1>5 DEF Scan
  <2>2. PICK S \in SUBSET {k \in Key : Reapable(k)} : writes' = [writes EXCEPT ![t] = [k \in S |-> NoRow]]
    BY <1>5 DEF Scan
  <2>3. OthersKept(t) /\ pc'[t] = "ledger" /\ at'[t] = clock /\ DOMAIN writes'[t] = S /\ ~CheckOp(op[t])
    BY <1>1, <2>1, <2>2, Typed DEF OthersKept, SessionOK
  <2>4. \A k \in S : touched[k] <= clock /\ rows[k].expires <= clock
    BY DEF Reapable, CallsInv
  <2>5. DecisionOK(t)'
    BY <1>1, <2>1, <2>3, <2>4 DEF DecisionOK, CheckOp
  <2>6. at'[t] <= clock
    BY <1>3, <2>3
  <2> QED BY <1>1, <2>1, <2>3, <2>5, <2>6, PhaseRefines DEF BeforeCommit
<1>6. CASE DeleteExpired(t)
  <2>1. /\ pc' = [pc EXCEPT ![t] = "ready"] /\ reply' = reply /\ UNCHANGED <<at, writes>>
        /\ pc[t] = "ledger" /\ ~CheckOp(op[t])
    BY <1>2, <1>6 DEF DeleteExpired
  <2>2. OthersKept(t) /\ pc'[t] = "ready"
    BY <1>1, <2>1, Typed DEF OthersKept
  <2>3. DecisionOK(t)'
    BY <1>1, <1>3, <2>1, <2>2 DEF DecisionOK, CheckOp
  <2> QED BY <1>1, <1>3, <2>1, <2>2, <2>3, PhaseRefines DEF BeforeCommit
<1>7. CASE SendCommit(t)
  <2>1. /\ pc' = [pc EXCEPT ![t] = "committing"] /\ reply' = reply /\ UNCHANGED <<at, writes>>
        /\ pc[t] = "ready" /\ Waiting(t)
    BY <1>7 DEF SendCommit
  <2>2. OthersKept(t) /\ pc'[t] = "committing"
    BY <1>1, <2>1, Typed DEF OthersKept
  <2>3. /\ Unreturned(op[t].checks, at[t])' = Unreturned(op[t].checks, at[t]) /\ Keys(t)' = Keys(t)
        /\ \A k : Upserted(CheckOf(op[t].checks, k), at[t])' = Upserted(CheckOf(op[t].checks, k), at[t])
    BY <1>1, <2>1 DEF Unreturned, QuotaDenied, Upserted, CheckOf, Exists, Keys
  <2>4. DecisionOK(t)'
    BY <1>1, <1>3, <2>1, <2>2, <2>3 DEF DecisionOK, CheckOp
  <2> QED BY <1>1, <1>3, <2>1, <2>2, <2>4, PhaseRefines DEF BeforeCommit
<1> QED BY <1>4, <1>5, <1>6, <1>7

\* Steps that answer the client or end the transaction without its writes.
LEMMA EndingRefines ==
  ASSUME Inv, CallsInv, NEW t \in Session,
         Confirm(t) \/ LoseConfirmation(t) \/ FailCommit(t) \/ Abandon(t) \/ Rollback(t)
  PROVE  CallsInv' /\ [Shared!Next]_Shared!vars
<1>1. UNCHANGED <<rows, clock, touched>> /\ op' = op /\ AnswerOK(t) /\ DecisionOK(t)
  BY DEF Confirm, LoseConfirmation, FailCommit, Abandon, Rollback, CallsInv
<1>2. OthersKept(t)
  <2>1. CASE Confirm(t) \/ LoseConfirmation(t) \/ Abandon(t)
    BY <2>1, Typed DEF OthersKept, Confirm, LoseConfirmation, Abandon
  <2>2. CASE FailCommit(t) \/ Rollback(t)
    <3>1. EndTransaction(t) /\ op' = op
      BY <2>2 DEF FailCommit, Rollback
    <3>2. \A u \in Session \ {t} : pc'[u] = pc[u] /\ reply'[u] = reply[u]
      BY <2>2, Typed DEF FailCommit, Rollback
    <3> QED BY <3>1, <3>2, EndFacts DEF OthersKept
  <2> QED BY <2>1, <2>2
<1>3. at'[t] <= clock
  <2>1. CASE at' = at
    BY <2>1 DEF CallsInv
  <2>2. CASE EndTransaction(t)
    BY <2>2, EndFacts, Typed, PgFixedWindowAssumption
  <2> QED BY <2>1, <2>2 DEF Confirm, LoseConfirmation, FailCommit, Abandon, Rollback
<1>4. \/ /\ pc[t] = "committed" /\ pc'[t] = "idle"
         /\ reply'[t] = Reply(IF CheckOp(op[t]) THEN "allowed" ELSE "cleaned", 0, 0)
      \/ /\ pc[t] \in {"committing", "committed"} /\ reply[t] = Pending
         /\ reply'[t] = Reply("unknown", 0, 0) /\ pc'[t] = (IF pc[t] = "committed" THEN "idle" ELSE pc[t])
         /\ at' = at /\ writes' = writes
      \/ pc[t] = "committing" /\ pc'[t] = "idle" /\ reply'[t] = Reply("unknown", 0, 0)
      \/ /\ pc[t] \in BeforeCommit /\ reply[t] = Pending /\ pc' = pc
         /\ reply'[t] = Reply("not_consumed", 0, 0) /\ at' = at /\ writes' = writes
      \/ pc[t] \in BeforeCommit /\ reply[t] # Pending /\ pc'[t] = "idle" /\ reply'[t] = reply[t]
  BY Typed DEF Confirm, LoseConfirmation, FailCommit, Abandon, Rollback, AbandonablePhases, Waiting
<1>5. AnswerOK(t)'
  BY <1>1, <1>4 DEF AnswerOK, Pending, Reply, BeforeCommit
<1>6. DecisionOK(t)'
  <2>1. CASE pc'[t] = "idle"
    BY <2>1 DEF DecisionOK
  <2>2. CASE pc'[t] = pc[t] /\ at' = at /\ writes' = writes
    <3>1. /\ Unreturned(op[t].checks, at[t])' = Unreturned(op[t].checks, at[t]) /\ Keys(t)' = Keys(t)
          /\ \A k : Upserted(CheckOf(op[t].checks, k), at[t])' = Upserted(CheckOf(op[t].checks, k), at[t])
      BY <1>1, <2>2 DEF Unreturned, QuotaDenied, Upserted, CheckOf, Exists, Keys
    <3> QED BY <1>1, <2>2, <3>1 DEF DecisionOK, CheckOp
  <2> QED BY <1>4, <2>1, <2>2
<1>7. CallsInv'
  BY <1>1, <1>2, <1>3, <1>5, <1>6, CallsStep
<1>8. CASE ~CheckOp(op[t])
  BY <1>1, <1>2, <1>7, <1>8, CleanupRefines
<1>9. CASE CheckOp(op[t])
  <2>1. Told(t) = reply[t] /\ Told(t)' = reply'[t]
    BY <1>1, <1>9 DEF Told, CheckOp
  <2>2. CASE /\ pc[t] = "committed" /\ pc'[t] = "idle" /\ reply'[t] = Reply("allowed", 0, 0)
    <3>1. CallStatus(t) = "charged" /\ CallStatus(t)' = "idle" /\ reply[t].outcome = "pending"
      BY <1>1, <1>9, <2>2 DEF CallStatus, AnswerOK, Pending, Reply
    <3>2. Shared!Allow(t)
      BY <1>1, <2>1, <2>2, <3>1 DEF Shared!Allow, Shared!Answer, Shared!Waiting, Told, Reply
    <3> QED BY <1>2, <1>7, <3>2, ClientStep
  <2>3. CASE /\ pc[t] \in {"committing", "committed"} /\ reply[t] = Pending
             /\ reply'[t] = Reply("unknown", 0, 0) /\ pc'[t] \in {"idle", pc[t]}
             /\ pc[t] = "committed" => pc'[t] = "idle"
    <3>1. /\ CallStatus(t) = IF pc[t] = "committed" THEN "charged" ELSE "open"
          /\ CallStatus(t)' \in {"idle", IF pc[t] = "committed" THEN "idle" ELSE "open"}
          /\ reply[t].outcome = "pending"
      BY <1>1, <1>9, <2>3 DEF CallStatus, Waiting, Pending, Reply, CheckOp
    <3>2. Shared!Doubt(t)
      BY <1>1, <2>1, <2>3, <3>1 DEF Shared!Doubt, Shared!Answer, Shared!Waiting, Told, Reply
    <3> QED BY <1>2, <1>7, <3>2, ClientStep
  <2>4. CASE pc[t] = "committing" /\ pc'[t] = "idle" /\ reply'[t] = Reply("unknown", 0, 0) /\ reply[t] # Pending
    <3>1. reply[t] = Reply("unknown", 0, 0)
      BY <1>1, <2>4 DEF AnswerOK
    <3>2. CallStatus(t) = "open" /\ CallStatus(t)' = "idle" /\ reply[t].outcome = "unknown"
      BY <1>1, <1>9, <2>4, <3>1 DEF CallStatus, Reply
    <3>3. Shared!Settle(t)
      BY <1>1, <2>1, <2>4, <3>1, <3>2 DEF Shared!Settle, Told
    <3> QED BY <1>2, <1>7, <3>3, ClientStep
  <2>5. CASE pc[t] \in BeforeCommit /\ reply[t] = Pending /\ pc' = pc /\ reply'[t] = Reply("not_consumed", 0, 0)
    <3>1. CallStatus(t) = "open" /\ CallStatus(t)' = "idle" /\ reply[t].outcome = "pending"
      BY <1>1, <1>9, <2>5 DEF CallStatus, Waiting, Pending, Reply, CheckOp, BeforeCommit
    <3>2. Shared!Fail(t)
      BY <1>1, <2>1, <2>5, <3>1 DEF Shared!Fail, Shared!Answer, Shared!Waiting, Told, Reply
    <3> QED BY <1>2, <1>7, <3>2, ClientStep
  <2>6. CASE pc[t] \in BeforeCommit /\ reply[t] # Pending /\ pc'[t] = "idle" /\ reply'[t] = reply[t]
    <3>1. CallStatus(t) = "idle" /\ CallStatus(t)' = "idle"
      BY <1>1, <2>6 DEF CallStatus, Waiting, AnswerOK, BeforeCommit
    <3>2. Told(t)' = Told(t)
      BY <2>1, <2>6
    <3> QED BY <1>1, <1>2, <1>7, <3>1, <3>2, QuietRefines
  <2> QED BY <1>4, <1>9, <2>2, <2>3, <2>4, <2>5, <2>6
<1> QED BY <1>8, <1>9

\* A commit keeps the facts about every call, those of other sessions included.
LEMMA CommitCalls ==
  ASSUME Inv, CallsInv, NEW t \in Session, ServerCommit(t)
  PROVE  CallsInv' /\ OthersKept(t)
<1> DEFINE D == DOMAIN writes[t]
<1>1. /\ pc[t] = "committing" /\ EndTransaction(t) /\ UNCHANGED <<clock, op, reply>>
      /\ \A k \in Key : /\ rows'[k] = IF k \in D THEN writes[t][k] ELSE rows[k]
                        /\ touched'[k] = IF k \in D THEN at[t] ELSE touched[k]
  BY DEF ServerCommit
<1>2. pc'[t] = (IF Waiting(t) THEN "committed" ELSE "idle") /\ \A u \in Session \ {t} : pc'[u] = pc[u]
  BY Typed DEF ServerCommit
<1>3. OthersKept(t)
  BY <1>1, <1>2, EndFacts DEF OthersKept
<1>4. \A k \in Key : touched'[k] <= clock'
  BY <1>1 DEF CallsInv
<1>5. AnswerOK(t)' /\ DecisionOK(t)' /\ at'[t] <= clock'
  <2>1. AnswerOK(t)
    BY DEF CallsInv
  <2>2. AnswerOK(t)'
    BY <1>1, <1>2, <2>1 DEF AnswerOK, Waiting, Pending, Reply, BeforeCommit
  <2>3. DecisionOK(t)'
    BY <1>2 DEF DecisionOK
  <2>4. at'[t] <= clock'
    BY <1>1, EndFacts, Typed, PgFixedWindowAssumption
  <2> QED BY <2>2, <2>3, <2>4
<1>6. ASSUME NEW u \in Session, u # t
      PROVE  AnswerOK(u)' /\ DecisionOK(u)' /\ at'[u] <= clock'
  <2>1. /\ pc'[u] = pc[u] /\ op'[u] = op[u] /\ at'[u] = at[u] /\ writes'[u] = writes[u] /\ reply'[u] = reply[u]
    BY <1>3, <1>6 DEF OthersKept
  <2>2. AnswerOK(u) /\ DecisionOK(u) /\ at[u] <= clock /\ SessionOK(u)
    BY Typed DEF CallsInv
  <2>3. AnswerOK(u)'
    BY <2>1, <2>2 DEF AnswerOK, Pending, Reply
  <2>4. Keys(u)' = Keys(u) /\ Keys(u) \subseteq Key /\ (CheckOp(op[u])' <=> CheckOp(op[u]))
    BY <2>1, OperationFacts DEF Keys, CheckOp
  <2>5. ASSUME CheckOp(op[u]), pc[u] \in {"upsert", "ready", "committing"}
        PROVE  /\ \A k \in Keys(u) : rows'[k] = rows[k] /\ touched'[k] = touched[k]
               /\ Unreturned(op[u].checks, at[u])' = Unreturned(op[u].checks, at[u])
               /\ \A k \in Keys(u) : Upserted(CheckOf(op[u].checks, k), at[u])'
                                       = Upserted(CheckOf(op[u].checks, k), at[u])
    <3>1. Keys(u) \cap D = {}
      BY <1>1, <1>6, <2>2, <2>5, CommitSeparate
    <3>2. \A k \in Keys(u) : rows'[k] = rows[k] /\ touched'[k] = touched[k]
      BY <1>1, <2>4, <3>1
    <3>3. \A j \in DOMAIN op[u].checks : op[u].checks[j].key \in Keys(u)
      BY OperationFacts
    <3>4. Unreturned(op[u].checks, at[u])' = Unreturned(op[u].checks, at[u])
      BY <2>1, <3>2, <3>3 DEF Unreturned, QuotaDenied, Exists
    <3>5. ASSUME NEW k \in Keys(u)
          PROVE  Upserted(CheckOf(op[u].checks, k), at[u])' = Upserted(CheckOf(op[u].checks, k), at[u])
      <4> DEFINE c == CheckOf(op[u].checks, k)
      <4>1. c.key = k /\ CheckOf(op'[u].checks, k) = c
        BY <2>1, <3>5, CheckOfFact
      <4>2. rows'[c.key] = rows[c.key]
        BY <3>2, <3>5, <4>1
      <4>3. CheckOf(op[u].checks, k)' = c
        BY <2>1 DEF CheckOf
      <4> HIDE DEF c
      <4> QED BY <2>1, <4>2, <4>3 DEF Upserted, Exists, c
    <3> QED BY <3>2, <3>4, <3>5
  <2>6. ASSUME ~CheckOp(op[u]), pc[u] \in {"ledger", "ready", "committing"}
        PROVE  \A k \in DOMAIN writes[u] : rows'[k] = rows[k] /\ touched'[k] = touched[k]
    <3>1. DOMAIN writes[u] \cap D = {}
      BY <1>1, <1>6, <2>2, <2>6, CommitSeparate
    <3>2. DOMAIN writes[u] \subseteq Key
      BY Typed
    <3> QED BY <1>1, <3>1, <3>2
  <2>7. DecisionOK(u)'
    BY <2>1, <2>2, <2>4, <2>5, <2>6 DEF DecisionOK
  <2> QED BY <1>1, <2>1, <2>2, <2>3, <2>7
<1>7. \A u \in Session : AnswerOK(u)' /\ DecisionOK(u)' /\ at'[u] <= clock'
  BY <1>5, <1>6
<1> QED BY <1>3, <1>4, <1>7 DEF CallsInv

\* The commit is the instant an admission charges, or a cleanup forgets ended windows.
LEMMA CommitRefines ==
  ASSUME Inv, CallsInv, NEW t \in Session, ServerCommit(t)
  PROVE  Shared!Next
<1> DEFINE D == DOMAIN writes[t]
<1>1. /\ pc[t] = "committing" /\ UNCHANGED <<clock, op, reply>>
      /\ \A k \in Key : /\ rows'[k] = IF k \in D THEN writes[t][k] ELSE rows[k]
                        /\ touched'[k] = IF k \in D THEN at[t] ELSE touched[k]
  BY DEF ServerCommit
<1>2. pc'[t] = IF Waiting(t) THEN "committed" ELSE "idle"
  BY Typed DEF ServerCommit
<1>3. OthersKept(t) /\ AnswerOK(t) /\ DecisionOK(t) /\ at[t] <= clock /\ at[t] \in Nat /\ clock \in Nat
      /\ at[t] \in 0..MaxTime
  BY CommitCalls, Typed, PgFixedWindowAssumption DEF CallsInv
<1>4. reply[t] \in {Pending, Reply("unknown", 0, 0)} /\ (Waiting(t) <=> reply[t].outcome = "pending")
  BY <1>1, <1>3 DEF AnswerOK, Waiting, Pending, Reply
<1>5. CASE CheckOp(op[t])
  <2> DEFINE c == op[t].checks
  <2>1. D = Keys(t) /\ Keys(t) \subseteq Key
    BY <1>1, <1>5, CommitFacts, OperationFacts
  <2>2. /\ \A k \in Keys(t) : touched[k] <= at[t] /\ writes[t][k] = Upserted(CheckOf(c, k), at[t])
        /\ Unreturned(c, at[t]) = {}
    BY <1>1, <1>3, <1>5 DEF DecisionOK
  <2>3. \A j \in DOMAIN c : /\ c[j].key \in Keys(t) /\ at[t] >= touched[c[j].key]
                            /\ Shared!Within(c[j], at[t])
    <3> SUFFICES ASSUME NEW j \in DOMAIN c
                 PROVE  /\ c[j].key \in Keys(t) /\ at[t] >= touched[c[j].key] /\ Shared!Within(c[j], at[t])
      OBVIOUS
    <3>1. c[j].key \in Keys(t) /\ c[j].key \in Key
      BY OperationFacts
    <3>2. ~QuotaDenied(c[j], at[t])
      BY <2>2 DEF Unreturned
    <3>3. touched[c[j].key] \in Nat
      BY <3>1, PgFixedWindowAssumption DEF Inv, TypeOK
    <3> QED BY <1>3, <2>2, <3>1, <3>2, <3>3, WithinLemma
  <2>4. \A k \in Key : Shared!Names(c, k) <=> k \in Keys(t)
    <3>1. \A k \in Keys(t) : \E j \in DOMAIN c : c[j].key = k
      BY OperationFacts
    <3> QED BY <2>3, <3>1 DEF Shared!Names
  <2>5. \A k \in Key :
          IF Shared!Names(c, k)
          THEN /\ \E j \in DOMAIN c : c[j].key = k /\ rows'[k] = Shared!Charged(c[j], at[t])
               /\ touched'[k] = at[t]
          ELSE rows'[k] = rows[k] /\ touched'[k] = touched[k]
    <3> SUFFICES ASSUME NEW k \in Key
                 PROVE  IF Shared!Names(c, k)
                        THEN /\ \E j \in DOMAIN c : c[j].key = k /\ rows'[k] = Shared!Charged(c[j], at[t])
                             /\ touched'[k] = at[t]
                        ELSE rows'[k] = rows[k] /\ touched'[k] = touched[k]
      OBVIOUS
    <3>1. CASE k \in Keys(t)
      <4>1. PICK j \in DOMAIN c : CheckOf(c, k) = c[j] /\ c[j].key = k
        BY <3>1, CheckOfFact
      <4>2. Upserted(c[j], at[t]) = Shared!Charged(c[j], at[t])
        BY <1>3, WithinLemma
      <4>3. rows'[k] = Shared!Charged(c[j], at[t]) /\ touched'[k] = at[t]
        BY <1>1, <2>1, <2>2, <3>1, <4>1, <4>2
      <4> QED BY <2>4, <3>1, <4>1, <4>3
    <3>2. CASE k \notin Keys(t)
      BY <1>1, <2>1, <2>4, <3>2
    <3> QED BY <3>1, <3>2
  <2>6. CallStatus(t) = "open" /\ CallStatus(t)' = (IF Waiting(t) THEN "charged" ELSE "idle")
    BY <1>1, <1>2, <1>4, <1>5 DEF CallStatus, CheckOp, Pending, Reply, Waiting
  <2>7. Told(t) = reply[t] /\ Told(t)' = reply[t]
    BY <1>1, <1>5 DEF Told, CheckOp
  <2>8. reply[t].outcome \in {"pending", "unknown"}
    BY <1>4 DEF Pending, Reply
  <2>9. at[t] \in 0..clock
    BY <1>3
  <2> HIDE DEF c
  <2>10. [v \in Session |-> op[v].checks][t] = c
    BY DEF c
  <2>11. [v \in Session |-> op'[v].checks] = [v \in Session |-> op[v].checks]
    BY <1>1
  <2>12. Shared!Charge(t)
    BY <1>1, <1>4, <2>3, <2>5, <2>6, <2>7, <2>8, <2>9, <2>10, <2>11 DEF Shared!Charge, Shared!Waiting, Told
  <2> QED BY <1>3, <2>12, ClientStep
<1>6. CASE ~CheckOp(op[t])
  <2>1. \A k \in D : /\ k \in Key /\ writes[t][k] = NoRow
                     /\ touched[k] <= at[t] /\ rows[k].expires <= at[t]
    BY <1>1, <1>3, <1>6, CommitFacts DEF DecisionOK
  <2>2. \A k \in Key : touched[k] \in Nat
    BY PgFixedWindowAssumption DEF Inv, TypeOK
  <2>3. ASSUME NEW k \in Key
        PROVE  \/ rows'[k] = rows[k] /\ touched'[k] = touched[k]
               \/ /\ rows'[k] = Shared!NoWindow /\ touched'[k] \in touched[k]..clock
                  /\ rows[k].expires <= touched'[k]
    <3>1. CASE k \in D
      <4>1. touched'[k] = at[t] /\ rows'[k] = NoRow /\ touched[k] <= at[t] /\ rows[k].expires <= at[t]
        BY <1>1, <2>1, <3>1
      <4>2. touched'[k] \in touched[k]..clock
        BY <1>3, <2>2, <4>1
      <4> QED BY <4>1, <4>2 DEF NoRow, Shared!NoWindow
    <3>2. CASE k \notin D
      BY <1>1, <3>2
    <3> QED BY <3>1, <3>2
  <2>4. CallStatus(t)' = CallStatus(t) /\ Told(t)' = Told(t)
    BY <1>1, <1>6 DEF CallStatus, Told, CheckOp, Reply
  <2>5. \A u \in Session : CallStatus(u)' = CallStatus(u) /\ Told(u)' = Told(u)
    BY <1>3, <2>4, OthersSeen
  <2>6. /\ [v \in Session |-> CallStatus(v)'] = [v \in Session |-> CallStatus(v)]
        /\ [v \in Session |-> Told(v)'] = [v \in Session |-> Told(v)]
        /\ [v \in Session |-> op'[v].checks] = [v \in Session |-> op[v].checks]
    BY <1>1, <2>5
  <2>7. Shared!Forget
    BY <1>1, <2>3, <2>6 DEF Shared!Forget, Told
  <2> QED BY <2>7 DEF Shared!Next
<1> QED BY <1>5, <1>6

\* Tick maps to a step of the abstract specification or to a stutter.
LEMMA TickRefines ==
  ASSUME Inv, CallsInv, Tick
  PROVE  CallsInv' /\ Shared!Next
<1>1. /\ clock' = clock + 1 /\ clock \in Nat
      /\ UNCHANGED <<rows, ledger, holder, pc, op, wanted, at, writes, counts, reply, touched>>
  BY PgFixedWindowAssumption DEF Tick, Inv, TypeOK
<1>2. \A u \in Session : AnswerOK(u)' /\ DecisionOK(u)'
  BY <1>1, CallUndisturbed
<1>3. /\ \A k \in Key : touched'[k] <= clock'
      /\ \A u \in Session : at'[u] <= clock'
  <2>1. (\A k \in Key : touched[k] \in Nat) /\ (\A u \in Session : at[u] \in Nat)
    BY PgFixedWindowAssumption DEF Inv, TypeOK
  <2> QED BY <1>1, <2>1 DEF CallsInv
<1>4. \A u \in Session : CallStatus(u)' = CallStatus(u) /\ Told(u)' = Told(u)
  BY <1>1 DEF CallStatus, Told, CheckOp, Waiting, Pending, Reply
<1>5. /\ [v \in Session |-> CallStatus(v)'] = [v \in Session |-> CallStatus(v)]
      /\ [v \in Session |-> Told(v)'] = [v \in Session |-> Told(v)]
      /\ [v \in Session |-> op'[v].checks] = [v \in Session |-> op[v].checks]
  BY <1>1, <1>4
<1>6. clock' > clock
  BY <1>1
<1>7. Shared!Pass
  BY <1>1, <1>5, <1>6 DEF Shared!Pass, Told
<1> QED BY <1>2, <1>3, <1>7 DEF CallsInv, Shared!Next

\* Initial states map to initial states.
LEMMA InitRefines ==
  ASSUME Init
  PROVE  CallsInv /\ Shared!Init
<1>1. CallsInv
  <2>1. \A k \in Key : touched[k] <= clock
    BY DEF Init
  <2>2. \A t \in Session : at[t] <= clock /\ pc[t] = "idle" /\ reply[t] = Reply("none", 0, 0)
    BY DEF Init
  <2>3. \A t \in Session : AnswerOK(t) /\ DecisionOK(t)
    BY <2>2 DEF AnswerOK, DecisionOK, Reply, BeforeCommit
  <2> QED BY <2>1, <2>2, <2>3 DEF CallsInv
<1>2. \A t \in Session : CallStatus(t) = "idle" /\ Told(t).outcome = "none"
  BY DEF Init, CallStatus, Told, Reply
<1>3. [t \in Session |-> CallStatus(t)] = [t \in Session |-> "idle"]
  BY <1>2
<1>4. \A t \in Session : ~Shared!Waiting(t)
  BY <1>2 DEF Shared!Waiting, Told
<1>5. rows = [k \in Key |-> Shared!NoWindow] /\ touched = [k \in Key |-> 0] /\ clock = 0
  BY DEF Init, NoRow, Shared!NoWindow
<1> QED BY <1>1, <1>3, <1>4, <1>5 DEF Shared!Init

\* Every step maps to a step of the abstract specification or to a stutter.
LEMMA NextRefines ==
  ASSUME Inv, CallsInv, [Next]_vars
  PROVE  CallsInv' /\ [Shared!Next]_Shared!vars
<1>1. Inv'
  BY NextInv
<1>2. CASE Tick
  BY <1>2, TickRefines
<1>3. ASSUME NEW t \in Session, BeginCheck(t) \/ BeginCleanup(t)
      PROVE  CallsInv' /\ [Shared!Next]_Shared!vars
  BY <1>3, BeginRefines
<1>4. ASSUME NEW t \in Session, Acquire(t) \/ StartRowLocks(t) \/ StartLedgerLocks(t)
      PROVE  CallsInv' /\ [Shared!Next]_Shared!vars
  BY <1>4, LockingRefines
<1>5. ASSUME NEW t \in Session, Preflight(t)
      PROVE  CallsInv' /\ [Shared!Next]_Shared!vars
  BY <1>5, PreflightRefines
<1>6. ASSUME NEW t \in Session, Upsert(t) \/ Scan(t) \/ DeleteExpired(t) \/ SendCommit(t)
      PROVE  CallsInv' /\ [Shared!Next]_Shared!vars
  BY <1>1, <1>6, WritingRefines
<1>7. ASSUME NEW t \in Session, ServerCommit(t)
      PROVE  CallsInv' /\ [Shared!Next]_Shared!vars
  BY <1>7, CommitCalls, CommitRefines
<1>8. ASSUME NEW t \in Session,
             Confirm(t) \/ LoseConfirmation(t) \/ FailCommit(t) \/ Abandon(t) \/ Rollback(t)
      PROVE  CallsInv' /\ [Shared!Next]_Shared!vars
  BY <1>8, EndingRefines
<1>9. CASE UNCHANGED vars
  <2>1. UNCHANGED <<rows, ledger, clock, holder, pc, op, wanted, at, writes, counts, reply, touched>>
    BY <1>9 DEF vars
  <2>2. \A u \in Session : AnswerOK(u)' /\ DecisionOK(u)'
    BY <2>1, CallUndisturbed
  <2>3. CallsInv'
    BY <2>1, <2>2 DEF CallsInv
  <2>4. \A u \in Session :
          op'[u].checks = op[u].checks /\ CallStatus(u)' = CallStatus(u) /\ Told(u)' = Told(u)
    BY <2>1 DEF CallStatus, Told, CheckOp, Waiting, Pending, Reply
  <2> QED BY <2>1, <2>3, <2>4, StutterRefines
<1> QED BY <1>2, <1>3, <1>4, <1>5, <1>6, <1>7, <1>8, <1>9 DEF Next

\* ImplementsSharedWindow: whatever transactions overlap, fail, time out or are abandoned,
\* the replicas see windows that are charged whole calls at one instant, at most once,
\* within the limit and in time order, and answers that tell the truth about them.
THEOREM Refinement == Spec => ImplementsSharedWindow
<1>1. Init => CallsInv /\ Shared!Init
  BY InitRefines
<1>2. Inv /\ CallsInv /\ [Next]_vars => CallsInv' /\ [Shared!Next]_Shared!vars
  BY NextRefines
<1> QED BY <1>1, <1>2, Invariance, PTL DEF Spec, ImplementsSharedWindow, Shared!Spec

=============================================================================
