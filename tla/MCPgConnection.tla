--------------------------- MODULE MCPgConnection ---------------------------
(***************************************************************************)
(* Two calls of any kinds over a pool of one connection, with a second     *)
(* server session for a connection that was closed.                        *)
(***************************************************************************)
EXTENDS PgConnection

Check(k, mode) == [key |-> k, cost |-> 1, mode |-> mode]

Operate(kind, checks, rows) == [kind |-> kind, checks |-> checks, rows |-> rows]

MCOperation ==
    {Operate("check", <<Check(1, "Enforce")>>, 0),
     Operate("batch", <<Check(1, "Shadow"), Check(2, "Shadow")>>, 0),
     Operate("batch", <<Check(1, "Enforce"), Check(1, "Enforce")>>, 0),
     Operate("cleanup", <<>>, 0),
     Operate("cleanup", <<>>, 1),
     Operate("admit", <<>>, 0),
     Operate("complete", <<>>, 0),
     Operate("migrate", <<>>, 0),
     Operate("migrate_attempts", <<>>, 0)}

Raw(rows, batch, acquire, operation) ==
    [rows |-> rows, batch |-> batch, acquire |-> acquire, operation |-> operation]

MCDefaults == Raw(2, 2, 1, 1)

MCRawConfig ==
    {Raw(Absent, Absent, Absent, Absent), Raw(0, 2, 1, 1), Raw(4, 2, 1, 1), Raw(2, 0, 1, 1),
     Raw(2, 2, 0, 1), Raw(2, 2, 1, 3)}

=============================================================================
