---------------------------- MODULE MemoryStore ----------------------------
(***************************************************************************)
(* The in-memory fixed-window store (runlimit-memory/src/store.rs on top   *)
(* of shards.rs) under concurrent callers.                                 *)
(*                                                                         *)
(* Each caller runs one operation at a time.  Every operation first locks  *)
(* the shards it needs, one std::sync::Mutex at a time and in ascending    *)
(* order, then works under those locks, then drops the guards one by one.  *)
(* The work itself is split where the code performs several writes: a      *)
(* batch consumes check by check, clear and recovery go shard by shard.    *)
(*                                                                         *)
(* The clock is application code called under the locks.  It may return    *)
(* any value (the store clamps it to what it has seen) and it may panic,   *)
(* in which case every guard the caller holds poisons its shard as it      *)
(* unwinds.                                                                *)
(***************************************************************************)
EXTENDS Shards, Batch

CONSTANTS Caller,       \* threads using the store
          NoCaller,     \* not a caller: the owner of an unlocked shard
          Limit,        \* policy limit of each counter key
          Window,       \* policy window of each counter key
          Operation,    \* the operations callers may submit
          Time,         \* the values the clock may return
          MaxRemovals,  \* max_expired_removals_per_check
          MaxBatchSize, \* max_batch_size
          MaxCalls      \* bound: operations submitted in one behaviour

OperationType ==
    [kind : {"check", "check_all", "clear", "stats", "recover"},
     checks : Seq([key : Key, cost : Nat, mode : QuotaMode])]

ASSUME MemoryStoreAssumption ==
    /\ NoCaller \notin Caller
    /\ Limit \in [Key -> Nat \ {0}]
    /\ Window \in [Key -> Nat \ {0}]
    /\ Time \subseteq Nat
    /\ MaxRemovals \in Nat \ {0}
    /\ MaxBatchSize \in Nat \ {0}
    /\ MaxCalls \in Nat
    /\ Operation \subseteq OperationType
    /\ \A o \in Operation :
        /\ o.kind = "check" => Len(o.checks) = 1
        /\ o.kind \in {"clear", "stats", "recover"} => o.checks = <<>>
        /\ \A j \in DOMAIN o.checks : ValidCost(o.checks[j].cost, Limit[o.checks[j].key])

VARIABLES shards,    \* shard index -> shard (see Shards)
          poisoned,  \* shards whose mutex is poisoned
          owner,     \* shard index -> the caller holding its guard
          pc,        \* caller -> what it is doing
          op,        \* caller -> its current or last operation
          wanted,    \* caller -> shards it still has to lock
          todo,      \* caller -> check or shard indexes it still has to write
          now,       \* caller -> the clamped time its operation runs at
          reply,     \* caller -> the result of its operation
          calls      \* operations submitted so far

vars == <<shards, poisoned, owner, pc, op, wanted, todo, now, reply, calls>>

Step == {"idle", "locking", "working", "writing", "releasing", "panicking"}

NoReply == [outcome |-> "none", index |-> 0, retry |-> 0]

Pending == [outcome |-> "pending", index |-> 0, retry |-> 0]

Reply(outcome, index, retry) == [outcome |-> outcome, index |-> index, retry |-> retry]

Idle == [kind |-> "stats", checks |-> <<>>]

Init ==
    /\ shards = [i \in ShardIndexes |-> EmptyShard]
    /\ poisoned = {}
    /\ owner = [i \in ShardIndexes |-> NoCaller]
    /\ pc = [t \in Caller |-> "idle"]
    /\ op = [t \in Caller |-> Idle]
    /\ wanted = [t \in Caller |-> {}]
    /\ todo = [t \in Caller |-> {}]
    /\ now = [t \in Caller |-> 0]
    /\ reply = [t \in Caller |-> NoReply]
    /\ calls = 0

Held(t) == {i \in ShardIndexes : owner[i] = t}

IsFirst(i, S) == i \in S /\ \A j \in S : i <= j

----------------------------------------------------------------------------
(* The decision, on shard values `s` already pruned at time `at`.          *)

\* quota_denial
QuotaDenied(s, c, at) ==
    LET shard == s[ShardIndex(c.key)]
    IN  /\ ActiveEntry(shard, c.key, at)
        /\ c.cost > Limit[c.key] - shard.entries[c.key].value

Missing(s, c) == ~ContainsKey(s[ShardIndex(c.key)], c.key)

\* pending_insertions: the new keys earlier checks of the batch add to the shard.
PendingInsertions(s, checks, j) ==
    Cardinality({h \in 1..(j - 1) :
        Missing(s, checks[h]) /\ ShardIndex(checks[h].key) = ShardIndex(checks[j].key)})

\* A capacity test that forgets the insertions of the batch's earlier checks.
CapacityDeniedAlone(s, checks, j) ==
    LET i == ShardIndex(checks[j].key)
    IN  Missing(s, checks[j]) /\ Used(s[i]) >= ShardCapacity(i)

CapacityDenied(s, checks, j) ==
    LET i == ShardIndex(checks[j].key)
    IN  /\ Missing(s, checks[j])
        /\ Used(s[i]) + PendingInsertions(s, checks, j) >= ShardCapacity(i)

\* The first check in input order that cannot be admitted, or 0.
FirstDenied(s, checks, at) ==
    LET denied == {j \in DOMAIN checks :
                     QuotaDenied(s, checks[j], at) \/ CapacityDenied(s, checks, j)}
    IN  IF denied = {} THEN 0 ELSE Min(denied)

\* The decision for a whole operation: check_inner is the one-check case.
Decision(s, checks, at) ==
    LET j == FirstDenied(s, checks, at)
        c == checks[j]
        shard == s[ShardIndex(c.key)]
    IN  CASE j = 0 -> Reply("allowed", 0, 0)
          [] j # 0 /\ QuotaDenied(s, c, at) ->
               Reply(IF c.mode = "Shadow" THEN "shadow_denied" ELSE "quota_denied",
                     j, shard.entries[c.key].expires - at)
          [] OTHER -> Reply("capacity_denied", j, CapacityRetryAfter(shard, at))

\* A consumption that slides the window instead of keeping its anchor.
ConsumeSliding(shard, c, at) ==
    Replace(shard, c.key,
            (IF ActiveEntry(shard, c.key, at) THEN shard.entries[c.key].value ELSE 0) + c.cost,
            at + Window[c.key])

\* Shard::consume
Consume(shard, c, at) ==
    IF ActiveEntry(shard, c.key, at)
    THEN UpdateValue(shard, c.key, shard.entries[c.key].value + c.cost)
    ELSE Replace(shard, c.key, c.cost, at + Window[c.key])

----------------------------------------------------------------------------
(* Submitting an operation                                                 *)

Submit(t, o) ==
    /\ pc[t] = "idle"
    /\ calls < MaxCalls
    /\ calls' = calls + 1
    /\ op' = [op EXCEPT ![t] = o]

\* A batch refused before any lock: validate_batch, then BatchTopology::new.
Rejected(o) ==
    /\ o.kind = "check_all"
    /\ ValidateBatch(o.checks, MaxBatchSize) # "Valid" \/ ~FitsShards(o.checks)

RejectBatch(t) ==
    \E o \in Operation :
        /\ Rejected(o)
        /\ Submit(t, o)
        /\ reply' = [reply EXCEPT ![t] = Reply("invalid", 0, 0)]
        /\ UNCHANGED <<shards, poisoned, owner, pc, wanted, todo, now>>

ShardsToLock(o) ==
    IF o.kind \in {"check", "check_all"} THEN TouchedShards(o.checks) ELSE ShardIndexes

Begin(t) ==
    \E o \in Operation :
        /\ ~Rejected(o)
        /\ Submit(t, o)
        /\ pc' = [pc EXCEPT ![t] = "locking"]
        /\ wanted' = [wanted EXCEPT ![t] = ShardsToLock(o)]
        /\ reply' = [reply EXCEPT ![t] = Pending]
        /\ UNCHANGED <<shards, poisoned, owner, todo, now>>

----------------------------------------------------------------------------
(* Locking                                                                 *)

\* Locking in no particular order.
LockableAny(t, i) == i \in wanted[t] /\ owner[i] = NoCaller

\* lock_topology, lock_shards and recover_poisoned all lock in index order.
Lockable(t, i) == IsFirst(i, wanted[t]) /\ owner[i] = NoCaller

\* Poison does not stop an operation.
RefusedByPoisonNever(t, i) == FALSE

\* lock_shard fails on a poisoned mutex; only recovery takes the guard anyway.
RefusedByPoison(t, i) == i \in poisoned /\ op[t].kind # "recover"

Acquire(t, i) ==
    /\ pc[t] = "locking"
    /\ Lockable(t, i)
    /\ ~RefusedByPoison(t, i)
    /\ owner' = [owner EXCEPT ![i] = t]
    /\ wanted' = [wanted EXCEPT ![t] = @ \ {i}]
    /\ pc' = [pc EXCEPT ![t] = IF wanted[t] = {i} THEN "working" ELSE "locking"]
    /\ UNCHANGED <<shards, poisoned, op, todo, now, reply, calls>>

\* The error drops the guards taken so far; the caller is not panicking, so
\* they are released unpoisoned.
FailPoisoned(t, i) ==
    /\ pc[t] = "locking"
    /\ Lockable(t, i)
    /\ RefusedByPoison(t, i)
    /\ reply' = [reply EXCEPT ![t] = Reply("poisoned", 0, 0)]
    /\ wanted' = [wanted EXCEPT ![t] = {}]
    /\ pc' = [pc EXCEPT ![t] = IF Held(t) = {} THEN "idle" ELSE "releasing"]
    /\ UNCHANGED <<shards, poisoned, owner, op, todo, now, calls>>

----------------------------------------------------------------------------
(* Working under the locks                                                 *)

IsCheck(o) == o.kind \in {"check", "check_all"}

\* Time never runs backwards on any shard the operation touches.
ClampedNow(t, observed) == Max({observed} \cup {shards[i].latest : i \in Held(t)})

\* One pruning allowance for the batch rather than one for each check.
RemovalLimitPerBatch(checks, i) == MaxRemovals

RemovalLimit(checks, i) == MaxRemovals * CheckCount(checks, i)

Refreshed(t, at) ==
    [i \in ShardIndexes |->
        IF i \in Held(t)
        THEN PruneExpired(RecordObserved(shards[i], at), at, RemovalLimit(op[t].checks, i))
        ELSE shards[i]]

\* check_inner and check_all_inner from the clock read to the decision.
Evaluate(t, observed) ==
    /\ pc[t] = "working"
    /\ IsCheck(op[t])
    /\ LET at == ClampedNow(t, observed)
           fresh == Refreshed(t, at)
           decision == Decision(fresh, op[t].checks, at)
       IN  /\ shards' = fresh
           /\ now' = [now EXCEPT ![t] = at]
           /\ reply' = [reply EXCEPT ![t] = decision]
           /\ \/ /\ decision.outcome = "allowed"
                 /\ todo' = [todo EXCEPT ![t] = DOMAIN op[t].checks]
                 /\ pc' = [pc EXCEPT ![t] = "writing"]
              \/ /\ decision.outcome # "allowed"
                 /\ pc' = [pc EXCEPT ![t] = "releasing"]
                 /\ UNCHANGED todo
    /\ UNCHANGED <<poisoned, owner, op, wanted, calls>>

AfterWrite(t, j) ==
    /\ todo' = [todo EXCEPT ![t] = @ \ {j}]
    /\ pc' = [pc EXCEPT ![t] = IF todo[t] = {j} THEN "releasing" ELSE "writing"]

\* The consuming loop of an admitted operation, one check at a time.
ConsumeNext(t) ==
    /\ pc[t] = "writing"
    /\ IsCheck(op[t])
    /\ \E j \in todo[t] :
        /\ IsFirst(j, todo[t])
        /\ LET c == op[t].checks[j]
           IN  shards' = [shards EXCEPT ![ShardIndex(c.key)] = Consume(@, c, now[t])]
        /\ AfterWrite(t, j)
    /\ UNCHANGED <<poisoned, owner, op, wanted, now, reply, calls>>

\* The clock panics while the guards are held.
ClockPanic(t) ==
    /\ pc[t] = "working"
    /\ IsCheck(op[t])
    /\ pc' = [pc EXCEPT ![t] = "panicking"]
    /\ reply' = [reply EXCEPT ![t] = Reply("panicked", 0, 0)]
    /\ UNCHANGED <<shards, poisoned, owner, op, wanted, todo, now, calls>>

\* The entries of all the shards: stats adds their numbers up.
StoredAnywhere == {e \in ShardIndexes \X Key : ContainsKey(shards[e[1]], e[2])}

\* stats reads every shard's length under all the locks.
Stats(t) ==
    /\ pc[t] = "working"
    /\ op[t].kind = "stats"
    /\ reply' = [reply EXCEPT ![t] =
                    Reply("stats", Cardinality(StoredAnywhere), 0)]
    /\ pc' = [pc EXCEPT ![t] = "releasing"]
    /\ UNCHANGED <<shards, poisoned, owner, op, wanted, todo, now, calls>>

\* clear and recover_poisoned start writing once every shard is locked.
\* Recovery rebuilds exactly the shards it found poisoned.
StartSweep(t) ==
    /\ pc[t] = "working"
    /\ op[t].kind \in {"clear", "recover"}
    /\ LET targets == IF op[t].kind = "clear" THEN ShardIndexes ELSE poisoned
       IN  /\ todo' = [todo EXCEPT ![t] = targets]
           /\ pc' = [pc EXCEPT ![t] = IF targets = {} THEN "releasing" ELSE "writing"]
    /\ reply' = [reply EXCEPT ![t] = Reply("done", 0, 0)]
    /\ UNCHANGED <<shards, poisoned, owner, op, wanted, now, calls>>

ClearNext(t) ==
    /\ pc[t] = "writing"
    /\ op[t].kind = "clear"
    /\ \E i \in todo[t] :
        /\ IsFirst(i, todo[t])
        /\ shards' = [shards EXCEPT ![i] = ClearShard(@)]
        /\ AfterWrite(t, i)
    /\ UNCHANGED <<poisoned, owner, op, wanted, now, reply, calls>>

\* Reopening each shard as soon as it is rebuilt.
RebuildAndReopen(t) ==
    /\ pc[t] = "writing"
    /\ op[t].kind = "recover"
    /\ \E i \in todo[t] :
        /\ IsFirst(i, todo[t])
        /\ shards' = [shards EXCEPT ![i] = EmptyShard]
        /\ poisoned' = poisoned \ {i}
        /\ owner' = [owner EXCEPT ![i] = NoCaller]
        /\ AfterWrite(t, i)
    /\ UNCHANGED <<op, wanted, now, reply, calls>>

\* Rebuilding a shard forgets its counters and its recorded time.
RebuildNext(t) ==
    /\ pc[t] = "writing"
    /\ op[t].kind = "recover"
    /\ \E i \in todo[t] :
        /\ IsFirst(i, todo[t])
        /\ shards' = [shards EXCEPT ![i] = EmptyShard]
        /\ poisoned' = poisoned \ {i}
        /\ AfterWrite(t, i)
    /\ UNCHANGED <<owner, op, wanted, now, reply, calls>>

----------------------------------------------------------------------------
(* Dropping the guards, in the order of the vector that holds them         *)

Unlock(t, i) ==
    /\ IsFirst(i, Held(t))
    /\ owner' = [owner EXCEPT ![i] = NoCaller]
    /\ pc' = [pc EXCEPT ![t] = IF Held(t) = {i} THEN "idle" ELSE pc[t]]

Release(t) ==
    /\ pc[t] = "releasing"
    /\ \E i \in Held(t) : Unlock(t, i)
    /\ UNCHANGED <<shards, poisoned, op, wanted, todo, now, reply, calls>>

\* A guard dropped by a panicking thread poisons its mutex.
Unwind(t) ==
    /\ pc[t] = "panicking"
    /\ \E i \in Held(t) :
        /\ Unlock(t, i)
        /\ poisoned' = poisoned \cup {i}
    /\ UNCHANGED <<shards, op, wanted, todo, now, reply, calls>>

Work(t) ==
    \/ \E i \in ShardIndexes : Acquire(t, i) \/ FailPoisoned(t, i)
    \/ \E observed \in Time : Evaluate(t, observed)
    \/ ConsumeNext(t)
    \/ ClockPanic(t)
    \/ Stats(t)
    \/ StartSweep(t)
    \/ ClearNext(t)
    \/ RebuildNext(t)
    \/ Release(t)
    \/ Unwind(t)

\* Every submitted operation has returned and the bound on calls is used up.
Finished == (\A t \in Caller : pc[t] = "idle") /\ calls = MaxCalls /\ UNCHANGED vars

Next == (\E t \in Caller : RejectBatch(t) \/ Begin(t) \/ Work(t)) \/ Finished

Spec == Init /\ [][Next]_vars

\* A thread that can take a step of the operation it has begun eventually does.
FairSpec == Spec /\ \A t \in Caller : WF_vars(Work(t))

----------------------------------------------------------------------------
(* Properties                                                              *)

Outcome == {"none", "pending", "invalid", "poisoned", "panicked", "allowed", "quota_denied",
            "shadow_denied", "capacity_denied", "stats", "done"}

Typed ==
    /\ shards \in [ShardIndexes -> ShardType]
    /\ poisoned \subseteq ShardIndexes
    /\ owner \in [ShardIndexes -> Caller \cup {NoCaller}]
    /\ pc \in [Caller -> Step]
    /\ op \in [Caller -> Operation \cup {Idle}]
    /\ wanted \in [Caller -> SUBSET ShardIndexes]
    /\ todo \in [Caller -> SUBSET Nat]
    /\ now \in [Caller -> Nat]
    /\ reply \in [Caller -> [outcome : Outcome, index : Nat, retry : Nat]]
    /\ calls \in Nat

\* Every variable stays within its type, and the lock bookkeeping is coherent: only
\* callers hold shards, and a caller waits only for shards above all those it holds
\* (lock_topology, lock_shards and recover_poisoned).
TypeOK == Typed /\ \A t \in Caller : \A i \in Held(t), j \in wanted[t] : i < j

\* debug_assert "the entry and expiration indexes diverged" (shards.rs): whatever
\* mixture of consumption, replacement, pruning, clearing and recovery has run,
\* each stored counter has exactly one expiration and no expiration is orphaned.
IndexesAgree == \A i \in ShardIndexes : IndexAgrees(shards[i])

\* "hard-bounded": no interleaving of checks and batches stores more counters in
\* a shard than its share of max_keys.
HardBound == \A i \in ShardIndexes : Used(shards[i]) <= ShardCapacity(i)

\* A storage-capacity denial is never blamed on garbage: when it is issued every
\* counter left in the shard is live, and the advertised delay is exactly the
\* time until the first of them expires.  The bounded pruning pass must therefore
\* always have freed enough room for the whole batch.
CapacityDenialHonest ==
    \A t \in Caller :
        (pc[t] = "releasing" /\ reply[t].outcome = "capacity_denied") =>
            LET i == ShardIndex(op[t].checks[reply[t].index].key)
                live == {shards[i].entries[k].expires : k \in Stored(shards[i])}
            IN  owner[i] = t =>
                  /\ live # {}
                  /\ \A e \in live : e > now[t]
                  /\ reply[t].retry = Min(live) - now[t]

\* Operations touching a poisoned shard fail closed: until recovery rebuilds it,
\* a poisoned shard's counters and recorded time do not change, and nothing but a
\* rebuild ever moves a shard's time backwards.
PoisonFailsClosed ==
    [][\A i \in ShardIndexes :
        /\ i \in poisoned =>
             shards'[i] = shards[i] \/ (shards'[i] = EmptyShard /\ i \notin poisoned')
        /\ shards'[i].latest < shards[i].latest => i \in poisoned]_vars

\* recover_poisoned: "concurrent checks observe either the pre-recovery poisoned
\* store or the complete recovered state, never a partially reopened multi-shard
\* store": while some shards are still to be rebuilt, no other caller is inside
\* any shard.
RecoveryAllOrNothing ==
    \A r \in Caller :
        (pc[r] = "writing" /\ op[r].kind = "recover") =>
            \A t \in Caller \ {r} : Held(t) = {}

\* Ordered locking: every operation that has begun returns, whatever other
\* operations are in flight.
EveryCallReturns == \A t \in Caller : (pc[t] # "idle") ~> (pc[t] = "idle")

\* The counters as a caller sees them: expired entries count for nothing whether
\* or not pruning has reached them, and an admitted batch counts as a whole from
\* the moment it is decided.
AbstractWindow ==
    [k \in Key |->
        LET shard == shards[ShardIndex(k)]
            open == ActiveEntry(shard, k, shard.latest)
            charges == {h \in Caller \X (1..MaxBatchSize) :
                          /\ pc[h[1]] = "writing"
                          /\ IsCheck(op[h[1]])
                          /\ h[2] \in todo[h[1]]
                          /\ op[h[1]].checks[h[2]].key = k}
            seen == IF charges = {} THEN shard
                    ELSE LET h == CHOOSE h \in charges : TRUE
                         IN  Consume(shard, op[h[1]].checks[h[2]], shard.latest)
        IN  IF open \/ charges # {}
            THEN [used |-> seen.entries[k].value, expires |-> seen.entries[k].expires]
            ELSE [used |-> 0, expires |-> 0]]

Sweeping(t) == pc[t] = "writing" /\ op[t].kind \in {"clear", "recover"}

Abstract == INSTANCE AnchoredWindow WITH
    Client <- Caller,
    window <- AbstractWindow,
    time <- [k \in Key |-> shards[ShardIndex(k)].latest],
    call <- op,
    reply <- [t \in Caller |-> IF Sweeping(t) THEN Pending ELSE reply[t]]

\* The store implements its promise: every call is an atomic step of the anchored
\* fixed-window specification, so no live counter is evicted or reset by pruning,
\* capacity pressure or a regressing clock, a denied batch charges nothing, and a
\* batch spanning shards is never half visible.
ImplementsAnchoredWindow == Abstract!Spec

----------------------------------------------------------------------------
(* The inductive invariant behind the proofs                               *)

\* A caller at work holds exactly the shards of its operation, one still locking
\* holds those it no longer wants, and an idle one holds none.
LockInv ==
    \A t \in Caller :
        /\ pc[t] = "idle" => Held(t) = {}
        /\ pc[t] = "locking" => Held(t) \cup wanted[t] = ShardsToLock(op[t])
        /\ pc[t] \in {"working", "writing"} => Held(t) = ShardsToLock(op[t])
        /\ pc[t] = "writing" =>
             todo[t] \subseteq (IF IsCheck(op[t]) THEN DOMAIN op[t].checks ELSE ShardIndexes)
        /\ pc[t] = "writing" /\ IsCheck(op[t]) => op[t] \in Operation

\* The keys an admitted operation has still to write to a shard.
PendingKeys(t, i) ==
    {k \in Key : \E j \in todo[t] : op[t].checks[j].key = k /\ ShardIndex(k) = i}

\* An admitted operation has room reserved for everything it still has to write.
RoomInv ==
    \A t \in Caller : pc[t] = "writing" /\ IsCheck(op[t]) =>
        \A i \in Held(t) :
            Cardinality(Stored(shards[i]) \cup PendingKeys(t, i)) <= ShardCapacity(i)

\* Only recovery is ever inside a poisoned shard.
PoisonInv ==
    \A t \in Caller, i \in ShardIndexes :
        owner[i] = t /\ i \in poisoned => op[t].kind = "recover"

\* Recovery is only ever about to rebuild shards that are poisoned.
RebuildInv ==
    \A t \in Caller : pc[t] = "writing" /\ op[t].kind = "recover" => todo[t] \subseteq poisoned

Inv == Typed /\ LockInv /\ IndexesAgree /\ HardBound /\ RoomInv /\ PoisonInv /\ RebuildInv

\* Whoever is inside the store has passed validation, an operation that is writing
\* was not refused, and a refusal for want of room names one of its checks.
CallInv ==
    \A t \in Caller :
        /\ pc[t] # "idle" => op[t] \in Operation /\ ~Rejected(op[t])
        /\ pc[t] = "writing" => reply[t].outcome # "capacity_denied"
        /\ pc[t] = "releasing" /\ reply[t].outcome = "capacity_denied" =>
             reply[t].index \in DOMAIN op[t].checks

\* The strengthening that makes CapacityDenialHonest inductive.
DenialInv == Inv /\ CallInv /\ CapacityDenialHonest

\* For the refinement: an admitted operation writes at the time its shards record,
\* and a caller is told something exactly when its operation has been decided.
ReplyInv ==
    \A t \in Caller :
        /\ pc[t] = "writing" /\ IsCheck(op[t]) =>
             \A i \in Held(t) : shards[i].latest = now[t]
        /\ pc[t] \in {"locking", "working"} => reply[t] = Pending
        /\ pc[t] \notin {"locking", "working"} => reply[t].outcome # "pending"
        /\ Sweeping(t) => reply[t].outcome = "done"

=============================================================================
