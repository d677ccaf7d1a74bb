------------------------------ MODULE MCPgGcra ------------------------------
(***************************************************************************)
(* A small instance of PgGcra: three counters, the last two in one shard   *)
(* of a single row, a rate that does not divide the millisecond, a clock   *)
(* set forwards and backwards, and integers so narrow that the last        *)
(* instant is out of the range of the arithmetic for one counter and of    *)
(* the expiry column for the others.                                       *)
(***************************************************************************)
EXTENDS PgGcra, TLC

CONSTANTS s1, s2

MCKey == {1, 2, 3}
MCShard == (1 :> 0) @@ (2 :> 1) @@ (3 :> 1)
MCPolicy ==
    [k \in MCKey |-> IF k = 1 THEN [quota |-> 2, period |-> 3, burst |-> 2]
                     ELSE [quota |-> 1, period |-> 3, burst |-> 1]]
MCMaxRows == [t \in {s1, s2} |-> 1]

Check(k, cost, mode) == [key |-> k, cost |-> cost, mode |-> mode]
Op(kind, checks) == [kind |-> kind, checks |-> checks]

MCOperation ==
    {Op("check", <<Check(1, 1, "Enforce")>>),
     Op("check", <<Check(3, 1, "Shadow")>>),
     Op("check", <<Check(2, 1, "Enforce"), Check(1, 1, "Enforce")>>),
     Op("check", <<Check(2, 1, "Shadow"), Check(3, 1, "Shadow")>>),
     Op("cleanup", <<>>)}
MCTime == {0, 2, 3}

\* One replica, for liveness.
MCSingle == {s1}
MCSingleRows == [t \in MCSingle |-> 1]

MCSession == {s1, s2}
SessionSymmetry == Permutations(MCSession)
=============================================================================
