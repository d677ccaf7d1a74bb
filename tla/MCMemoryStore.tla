--------------------------- MODULE MCMemoryStore ---------------------------
(***************************************************************************)
(* A small instance of MemoryStore: two callers, two shards of capacity    *)
(* two and one, four counters (three of them in the first shard), windows  *)
(* of two instants and clock values from zero to three.                    *)
(***************************************************************************)
EXTENDS MemoryStore, TLC

CONSTANTS t1, t2, t3

MCCaller == {t1, t2}
MCKey == {0, 1, 2, 4}
MCHash == [k \in MCKey |-> k]
MCLimit == [k \in MCKey |-> IF k = 0 THEN 2 ELSE 1]
MCWindow == [k \in MCKey |-> IF k = 0 THEN 2 ELSE 1]

Check(k, cost, mode) == [key |-> k, cost |-> cost, mode |-> mode]
Op(kind, checks) == [kind |-> kind, checks |-> checks]

MCOperation ==
    {Op("check", <<Check(0, 1, "Enforce")>>),
     Op("check", <<Check(4, 1, "Shadow")>>),
     Op("check_all", <<Check(1, 1, "Enforce"), Check(0, 1, "Enforce")>>),
     Op("check_all", <<Check(2, 1, "Enforce"), Check(4, 1, "Enforce")>>),
     Op("check_all", <<Check(0, 1, "Enforce"), Check(0, 1, "Enforce")>>),
     Op("clear", <<>>), Op("stats", <<>>), Op("recover", <<>>)}

MCTime == 0..2

\* For progress: three callers whose shard sets overlap in both orders, at one
\* instant (no property of progress depends on the time).
ProgressCaller == {t1, t2, t3}
ProgressOperation ==
    {Op("check_all", <<Check(1, 1, "Enforce"), Check(0, 1, "Enforce")>>),
     Op("check_all", <<Check(0, 1, "Enforce"), Check(1, 1, "Enforce")>>),
     Op("check", <<Check(4, 1, "Enforce")>>),
     Op("clear", <<>>), Op("recover", <<>>)}
ProgressTime == {0}

CallerSymmetry == Permutations(MCCaller)
=============================================================================
