---------------------------- MODULE MCGcraStore ----------------------------
(***************************************************************************)
(* A small instance of GcraStore: two shards of capacity two and one,      *)
(* three counters in the first, rates that do not divide the millisecond,  *)
(* and one clock value too large for the arithmetic.                       *)
(***************************************************************************)
EXTENDS GcraStore

MCKey == {0, 1, 2, 4}
MCHash == [k \in MCKey |-> k]
MCPolicy ==
    [k \in MCKey |-> IF k = 0 THEN [quota |-> 2, period |-> 3, burst |-> 2]
                     ELSE IF k = 1 THEN [quota |-> 3, period |-> 2, burst |-> 1]
                     ELSE [quota |-> 1, period |-> 1, burst |-> 1]]

MCCheck(k, cost, mode) == [key |-> k, cost |-> cost, mode |-> mode]

MCSingles == {MCCheck(0, 1, "Enforce"), MCCheck(4, 1, "Shadow")}
MCBatches ==
    {<<MCCheck(1, 1, "Enforce"), MCCheck(0, 2, "Enforce")>>,
     <<MCCheck(2, 1, "Enforce"), MCCheck(4, 1, "Enforce")>>,
     <<MCCheck(2, 1, "Enforce"), MCCheck(2, 1, "Enforce")>>}
MCTime == {0, 1, 3, 50}

=============================================================================
