------------------------------- MODULE Shards -------------------------------
(***************************************************************************)
(* The bounded, sharded table both in-memory stores keep their counters in *)
(* (runlimit-memory/src/shards.rs): pure operators on one shard's value.   *)
(*                                                                         *)
(* A shard is a record                                                     *)
(*   latest       the greatest clock value recorded under its lock,        *)
(*   entries      counter key -> [value, expires], Absent when not stored, *)
(*   expirations  the ordered index of <<expires, key>> pairs.             *)
(* Keys are naturals because the index breaks ties by key order.  Every    *)
(* stored entry expires after the instant it is stored at, so an expiry of *)
(* zero is free to mean "not stored".                                      *)
(***************************************************************************)
EXTENDS Naturals, FiniteSetsExt

CONSTANTS Key,        \* the counter keys callers use
          MaxKeys,    \* MemoryStoreConfig::max_keys
          ShardCount, \* MemoryStoreConfig::shard_count
          Hash        \* counter_key_hash, as a function of the key

ASSUME ShardsAssumption ==
    /\ Key \subseteq Nat
    /\ IsFiniteSet(Key)
    /\ ShardCount \in Nat \ {0}
    /\ MaxKeys \in Nat
    /\ ShardCount <= MaxKeys
    /\ Hash \in [Key -> Nat]

ShardIndexes == 0..(ShardCount - 1)

\* MemoryStoreConfig::shard_capacity: the remainder goes to the first shards.
ShardCapacity(i) ==
    MaxKeys \div ShardCount + (IF i < MaxKeys % ShardCount THEN 1 ELSE 0)

ShardIndex(k) == Hash[k] % ShardCount

----------------------------------------------------------------------------
Absent == [value |-> 0, expires |-> 0]

\* Shard::new
EmptyShard ==
    [latest |-> 0, entries |-> [k \in Key |-> Absent], expirations |-> {}]

ShardType ==
    [latest : Nat,
     entries : [Key -> [value : Nat, expires : Nat]],
     expirations : SUBSET (Nat \X Key)]

Stored(shard) == {k \in Key : shard.entries[k] # Absent}

Used(shard) == Cardinality(Stored(shard))

ContainsKey(shard, k) == k \in Stored(shard)

\* active_entry: an entry stops counting at the very instant it expires.
ActiveEntry(shard, k, now) == shard.entries[k].expires > now

\* A shard with the same recorded time and other contents.
WithContents(shard, entries, expirations) ==
    [latest |-> shard.latest, entries |-> entries, expirations |-> expirations]

RecordObserved(shard, now) ==
    [latest |-> now, entries |-> shard.entries, expirations |-> shard.expirations]

\* Shard::clear keeps the recorded time.
ClearShard(shard) == WithContents(shard, [k \in Key |-> Absent], {})

UpdateValue(shard, k, value) ==
    WithContents(shard,
                 [shard.entries EXCEPT ![k] = [value |-> value, expires |-> @.expires]],
                 shard.expirations)

\* A replacement that forgets the previous entry's place in the index.
ReplaceLeavingIndex(shard, k, value, expires) ==
    WithContents(shard,
                 [shard.entries EXCEPT ![k] = [value |-> value, expires |-> expires]],
                 shard.expirations \cup {<<expires, k>>})

\* replace: the previous entry's expiration leaves the index with it.
Replace(shard, k, value, expires) ==
    WithContents(shard,
                 [shard.entries EXCEPT ![k] = [value |-> value, expires |-> expires]],
                 (shard.expirations \ {<<shard.entries[k].expires, k>>}) \cup {<<expires, k>>})

\* replace for each of several keys: `new` holds their entries.
ReplaceAll(shard, new) ==
    WithContents(shard,
                 [k \in Key |-> IF k \in DOMAIN new THEN new[k] ELSE shard.entries[k]],
                 (shard.expirations \ {<<shard.entries[k].expires, k>> : k \in DOMAIN new})
                     \cup {<<new[k].expires, k>> : k \in DOMAIN new})

\* The order of the BTreeSet<Expiration>.
Precedes(e, f) == e[1] < f[1] \/ (e[1] = f[1] /\ e[2] < f[2])

\* A pruning pass that treats an entry's last live instant as expired.
PrunedTooEarly(shard, now, maximum) ==
    LET due == {e \in shard.expirations : e[1] <= now + 1}
    IN  {e \in due : Cardinality({f \in due : Precedes(f, e)}) < maximum}

\* What prune_expired pops: the first `maximum` expirations that are due.
PrunedExpirations(shard, now, maximum) ==
    LET due == {e \in shard.expirations : e[1] <= now}
    IN  {e \in due : Cardinality({f \in due : Precedes(f, e)}) < maximum}

\* prune_expired
PruneExpired(shard, now, maximum) ==
    LET gone == PrunedExpirations(shard, now, maximum)
        left == [k \in Key |-> IF \E e \in gone : e[2] = k THEN Absent ELSE shard.entries[k]]
    IN  WithContents(shard, left, shard.expirations \ gone)

NoRetry == 0

\* capacity_retry_after_millis: the wait until the first indexed expiration, at
\* least one millisecond, or nothing when the shard is empty.
CapacityRetryAfter(shard, now) ==
    IF shard.expirations = {} THEN NoRetry
    ELSE LET first == Min({e[1] : e \in shard.expirations})
         IN  IF first > now THEN first - now ELSE 1

----------------------------------------------------------------------------
\* BatchTopology: the shards a list of checks touches and how many checks
\* target each of them.
TouchedShards(checks) == {ShardIndex(checks[j].key) : j \in DOMAIN checks}

CheckCount(checks, i) == Cardinality({j \in DOMAIN checks : ShardIndex(checks[j].key) = i})

FitsShards(checks) ==
    \A i \in TouchedShards(checks) : CheckCount(checks, i) <= ShardCapacity(i)

\* The expiration index and the entries describe the same counters: exactly one
\* expiration for each stored entry, and none for anything else.
IndexAgrees(shard) ==
    shard.expirations = {<<shard.entries[k].expires, k>> : k \in Stored(shard)}

=============================================================================
