---------------------------- MODULE MCPgAttempts ----------------------------
(***************************************************************************)
(* Small instances of PgAttempts.  The first has two replicas, one with    *)
(* its bound lowered, and two subjects in one shard; the second two        *)
(* replicas that both find the shard above their bound; the third one      *)
(* replica, one subject and two transactions of the application.           *)
(***************************************************************************)
EXTENDS PgAttempts, TLC

CONSTANTS l1, l2, h1, h2

MCLibrary == {l1, l2}
MCHost == {}
MCKey == {1, 2}
MCShard == [k \in MCKey |-> 0]
MCOne == [k \in Key |-> 1]
MCMaxRows == (l1 :> 1) @@ (l2 :> 2)

DrainMaxRows == [t \in Library |-> 1]

HostLibrary == {l1}
HostHost == {h1, h2}
HostKey == {1}
HostShard == [k \in HostKey |-> 0]
HostTwo == [k \in Key |-> 2]
HostMaxRows == l1 :> 1
HostSymmetry == Permutations(HostHost)

=============================================================================
