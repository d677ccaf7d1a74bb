----------------------------- MODULE GcraStore -----------------------------
(***************************************************************************)
(* The in-memory GCRA store (runlimit-memory/src/gcra.rs).                 *)
(*                                                                         *)
(* It keeps its counters in the same sharded table as the fixed-window     *)
(* store and locks it the same way; MemoryStore shows that such operations *)
(* neither overlap nor deadlock, so here each one is a single step.  What  *)
(* is particular to this store is the order of its work: all checks are    *)
(* evaluated against the shards as found, and only when none of them       *)
(* overflows is the time recorded, are the shards pruned and, if every     *)
(* check fits, is anything consumed.                                       *)
(***************************************************************************)
EXTENDS Shards, Batch, Gcra

CONSTANTS Policy,       \* counter key -> its GCRA policy
          Batches,      \* the check lists callers submit to check_all
          Singles,      \* the checks callers submit to check
          Time,         \* the values the clock may return
          MaxRemovals,  \* max_expired_removals_per_check
          MaxBatchSize  \* max_batch_size

CheckType == [key : Key, cost : Nat, mode : QuotaMode]

ASSUME GcraStoreAssumption ==
    /\ Policy \in [Key -> GcraPolicy]
    /\ Time \subseteq Nat
    /\ MaxRemovals \in Nat \ {0}
    /\ MaxBatchSize \in Nat \ {0}
    /\ Singles \subseteq CheckType
    /\ Batches \subseteq Seq(CheckType)
    /\ \A c \in Singles : ValidCost(c.cost, Policy[c.key].burst)
    /\ \A checks \in Batches : \A j \in DOMAIN checks :
         ValidCost(checks[j].cost, Policy[checks[j].key].burst)

VARIABLES shards,   \* shard index -> shard; an entry's value is its tat
          poisoned, \* shards whose mutex is poisoned
          granted,  \* history: key -> the admissions since its bucket was last emptied,
                    \*   each with its time and the total cost before and after it
          reply     \* the last call with its answer

vars == <<shards, poisoned, granted, reply>>

Reply(outcome, checks, index, retry, available) ==
    [outcome |-> outcome, checks |-> checks, index |-> index, retry |-> retry,
     available |-> available]

Plain(outcome) == Reply(outcome, <<>>, 0, 0, <<>>)

Init ==
    /\ shards = [i \in ShardIndexes |-> EmptyShard]
    /\ poisoned = {}
    /\ granted = [k \in Key |-> <<>>]
    /\ reply = Plain("none")

----------------------------------------------------------------------------
\* Shard::evaluate: an expired entry, pruned or not, counts as missing.
EvaluateCheck(c, at) ==
    LET shard == shards[ShardIndex(c.key)]
        tat == IF ActiveEntry(shard, c.key, at) THEN shard.entries[c.key].value ELSE 0
    IN  GcraEvaluate(Policy[c.key], c.cost, at, tat)

ClampedNow(checks, observed) ==
    Max({observed} \cup {shards[i].latest : i \in TouchedShards(checks)})

Refreshed(checks, at) ==
    [i \in ShardIndexes |->
        IF i \in TouchedShards(checks)
        THEN PruneExpired(RecordObserved(shards[i], at), at, MaxRemovals * CheckCount(checks, i))
        ELSE shards[i]]

\* A capacity test that forgets the insertions of the batch's earlier checks.
NoRoomForAlone(s, checks, j) ==
    LET i == ShardIndex(checks[j].key)
    IN  ~ContainsKey(s[i], checks[j].key) /\ Used(s[i]) >= ShardCapacity(i)

\* The capacity test of check j, counting the insertions of the checks before it.
NoRoomFor(s, checks, j) ==
    LET i == ShardIndex(checks[j].key)
        missing == {h \in 1..j : ShardIndex(checks[h].key) = i /\ ~ContainsKey(s[i], checks[h].key)}
    IN  j \in missing /\ Used(s[i]) + Cardinality(missing \ {j}) >= ShardCapacity(i)

KeysOf(checks) == {checks[j].key : j \in DOMAIN checks}

\* The check of a batch that charges key k: a valid batch has only one.
Charging(checks, k) == CHOOSE j \in DOMAIN checks : checks[j].key = k

\* The entry an admitted check leaves for key k.
NewEntry(checks, evaluated, k) ==
    LET j == Charging(checks, k)
    IN  [value |-> evaluated[j].allowance.tat, expires |-> evaluated[j].allowance.expires]

\* Persisting the transitions of an admitted batch.
Consumed(s, checks, evaluated) ==
    [i \in ShardIndexes |->
        ReplaceAll(s[i], [k \in {h \in KeysOf(checks) : ShardIndex(h) = i} |->
                             NewEntry(checks, evaluated, k)])]

\* What a counter has admitted since its bucket was last emptied.
Total(k) == IF granted[k] = <<>> THEN 0 ELSE granted[k][Len(granted[k])].upto

Granting(checks, at) ==
    [k \in Key |->
        IF k \in KeysOf(checks)
        THEN Append(granted[k], [at |-> at, from |-> Total(k),
                                 upto |-> Total(k) + checks[Charging(checks, k)].cost])
        ELSE granted[k]]

\* An operation that records the time and prunes before it evaluates.
SettledEvenOnOverflow(checks, at) ==
    /\ reply' = Reply("overflow", checks, 0, 0, <<>>)
    /\ shards' = Refreshed(checks, at)
    /\ UNCHANGED granted

\* An overflowing evaluation leaves no trace, in particular no recorded time.
SettledOverflow(checks, at) ==
    /\ reply' = Reply("overflow", checks, 0, 0, <<>>)
    /\ UNCHANGED <<shards, granted>>

\* The locked part of check_inner and check_all_inner.
Settle(checks, observed) ==
    LET at == ClampedNow(checks, observed)
        evaluated == [j \in DOMAIN checks |-> EvaluateCheck(checks[j], at)]
        fresh == Refreshed(checks, at)
        stopped == {j \in DOMAIN checks :
                      evaluated[j].kind = "denied" \/ NoRoomFor(fresh, checks, j)}
        first == Min(stopped)
        shard == fresh[ShardIndex(checks[first].key)]
    IN  \/ /\ \E j \in DOMAIN checks : evaluated[j].kind = "overflow"
           /\ SettledOverflow(checks, at)
        \/ /\ \A j \in DOMAIN checks : evaluated[j].kind # "overflow"
           /\ stopped # {}
           /\ shards' = fresh
           /\ reply' = IF evaluated[first].kind = "denied"
                       THEN Reply(IF checks[first].mode = "Shadow"
                                  THEN "shadow_denied" ELSE "quota_denied",
                                  checks, first, evaluated[first].retry, <<>>)
                       ELSE Reply("capacity_denied", checks, first,
                                  CapacityRetryAfter(shard, at), <<>>)
           /\ UNCHANGED granted
        \/ /\ \A j \in DOMAIN checks : evaluated[j].kind # "overflow"
           /\ stopped = {}
           /\ shards' = Consumed(fresh, checks, evaluated)
           /\ granted' = Granting(checks, at)
           /\ reply' = Reply("allowed", checks, 0, 0,
                             [j \in DOMAIN checks |-> evaluated[j].allowance.available])

\* check and check_all once validation has passed.
Run(checks, observed) ==
    \/ /\ TouchedShards(checks) \cap poisoned # {}
       /\ reply' = Reply("poisoned", checks, 0, 0, <<>>)
       /\ UNCHANGED <<shards, poisoned, granted>>
    \/ /\ TouchedShards(checks) \cap poisoned = {}
       /\ Settle(checks, observed)
       /\ UNCHANGED poisoned

Check == \E c \in Singles, observed \in Time : Run(<<c>>, observed)

Invalid(checks) == ValidateBatch(checks, MaxBatchSize) # "Valid" \/ ~FitsShards(checks)

CheckAll ==
    \E checks \in Batches, observed \in Time :
        ~Invalid(checks) /\ Run(checks, observed)

RejectBatch ==
    \E checks \in Batches :
        /\ Invalid(checks)
        /\ reply' = Reply("invalid", checks, 0, 0, <<>>)
        /\ UNCHANGED <<shards, poisoned, granted>>

\* The clock panics with the touched shards locked.
ClockPanic ==
    \E checks \in {<<c>> : c \in Singles} \cup {b \in Batches : ~Invalid(b)} :
        /\ TouchedShards(checks) \cap poisoned = {}
        /\ poisoned' = poisoned \cup TouchedShards(checks)
        /\ reply' = Plain("panicked")
        /\ UNCHANGED <<shards, granted>>

Emptied(indexes) ==
    granted' = [k \in Key |-> IF ShardIndex(k) \in indexes THEN <<>> ELSE granted[k]]

\* clear refuses to touch anything while a shard is poisoned.
ClearAll ==
    \/ /\ poisoned = {}
       /\ shards' = [i \in ShardIndexes |-> ClearShard(shards[i])]
       /\ Emptied(ShardIndexes)
       /\ reply' = Plain("cleared")
       /\ UNCHANGED poisoned
    \/ /\ poisoned # {}
       /\ reply' = Plain("poisoned")
       /\ UNCHANGED <<shards, poisoned, granted>>

RecoverPoisoned ==
    /\ shards' = [i \in ShardIndexes |-> IF i \in poisoned THEN EmptyShard ELSE shards[i]]
    /\ Emptied(poisoned)
    /\ poisoned' = {}
    /\ reply' = Plain("recovered")

Next == Check \/ CheckAll \/ RejectBatch \/ ClockPanic \/ ClearAll \/ RecoverPoisoned

Spec == Init /\ [][Next]_vars

----------------------------------------------------------------------------
(* Properties                                                              *)

\* Every variable stays in its type.
TypeOK ==
    /\ shards \in [ShardIndexes -> ShardType]
    /\ poisoned \subseteq ShardIndexes
    /\ granted \in [Key -> Seq([at : Nat, from : Nat, upto : Nat])]
    /\ reply.retry \in Nat
    /\ \A j \in DOMAIN reply.available : reply.available[j] \in Nat

\* "hard-bounded" and indexed: no batch stores more counters in a shard than its
\* share, and entries and expirations agree after every replacement and pruning.
ShardsConsistent ==
    \A i \in ShardIndexes : Used(shards[i]) <= ShardCapacity(i) /\ IndexAgrees(shards[i])

\* An entry may be forgotten at its expiry without forgetting any debt: the
\* rounded-up expiry is never earlier than the exact arrival time.
ExpiryLosesNothing ==
    \A k \in Key :
        LET shard == shards[ShardIndex(k)]
        IN  ContainsKey(shard, k) =>
                shard.entries[k].value <= shard.entries[k].expires * Policy[k].quota

\* The rate limit itself, over every stretch of history: between any two
\* admissions of a counter, the admitted cost exceeds the burst by no more than
\* what the rate has replenished meanwhile.  Pruning, rounding, batches and a
\* regressing clock must not hand out a unit more.
RateBound ==
    \A k \in Key : \A i, j \in DOMAIN granted[k] :
        i <= j =>
            (granted[k][j].upto - granted[k][i].from) * Policy[k].period <=
                Policy[k].burst * Policy[k].period
                    + (granted[k][j].at - granted[k][i].at) * Policy[k].quota

\* Clamping never locks a counter out: the time a shard is clamped to is one at which
\* some counter of it can still be evaluated, so one reading beyond the arithmetic does
\* not make every later check overflow; and measured at that time no counter owes more
\* than its burst, so it is free again after a full bucket's drain, however far the
\* clock has fallen back.
NoLockout ==
    /\ \A i \in ShardIndexes :
         \/ shards[i].latest = 0
         \/ \E k \in Key : /\ ShardIndex(k) = i
                           /\ Ceiling(Policy[k], shards[i].latest * Policy[k].quota) <= WideMax
    /\ \A k \in Key :
         LET shard == shards[ShardIndex(k)]
         IN  ContainsKey(shard, k) =>
                 shard.entries[k].value <= Ceiling(Policy[k], shard.latest * Policy[k].quota)

Debt(k) ==
    LET shard == shards[ShardIndex(k)]
        drained == shard.latest * Policy[k].quota
        tat == shard.entries[k].value
    IN  IF tat > drained THEN tat - drained ELSE 0

Abstract == INSTANCE TokenBucket WITH
    debt <- [k \in Key |-> Debt(k)],
    time <- [k \in Key |-> shards[ShardIndex(k)].latest]

\* The store implements its promise: admissions, denials with their exact delays
\* and reported availability are those of a continuously draining bucket.
ImplementsTokenBucket == Abstract!Spec

=============================================================================
