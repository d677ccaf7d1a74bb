-------------------------- MODULE MCPgFixedWindow --------------------------
(***************************************************************************)
(* A small instance of PgFixedWindow.  Three of the four counters are in   *)
(* one ledger shard, which two replicas bound differently: one may hold a  *)
(* single row, the other two.  Counter 1 shares no advisory lock with the  *)
(* others of its shard, so only the ledger row keeps their insertions      *)
(* apart; counter 4 shares one with counters of another shard.  The batch  *)
(* over 4 and 1 meets its advisory locks in the opposite order of its row  *)
(* locks.                                                                  *)
(***************************************************************************)
EXTENDS PgFixedWindow, TLC

CONSTANTS s1, s2

MCKey == 1..4
MCLockId == (1 :> 2) @@ (2 :> 1) @@ (3 :> 1) @@ (4 :> 1)
MCShard == (1 :> 0) @@ (2 :> 0) @@ (3 :> 0) @@ (4 :> 1)
MCLimit == (1 :> 2) @@ (2 :> 1) @@ (3 :> 1) @@ (4 :> 1)
MCWindow == (1 :> 1) @@ (2 :> 2) @@ (3 :> 2) @@ (4 :> 1)
MCSession == {s1, s2}
MCMaxRows == (s1 :> 1) @@ (s2 :> 2)

Check(k, mode) == [key |-> k, cost |-> 1, mode |-> mode]
Op(kind, checks) == [kind |-> kind, checks |-> checks]

MCOperation ==
    {Op("check", <<Check(1, "Shadow")>>),
     Op("check", <<Check(4, "Enforce"), Check(1, "Enforce")>>),
     Op("check", <<Check(3, "Enforce"), Check(2, "Enforce")>>),
     Op("check", <<Check(2, "Enforce"), Check(2, "Enforce")>>),
     Op("cleanup", <<>>)}

=============================================================================
