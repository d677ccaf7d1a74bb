---------------------------- MODULE MCAxumLayer ----------------------------
(***************************************************************************)
(* A small instance of AxumLayer.  Ticks are half milliseconds, so that    *)
(* periods can be finer than a millisecond, and a second is two            *)
(* milliseconds, so that windows can end between two seconds.  The         *)
(* identifiers of two fixed windows spell the same word when they are run  *)
(* together; one of the stacks evaluates a policy twice.  Two subjects     *)
(* compete for the one place of each limiter.                              *)
(***************************************************************************)
EXTENDS AxumLayer

Doc(algorithm, id, scope, quota, period, burst, mode) ==
    [algorithm |-> algorithm, id |-> id, scope |-> scope, quota |-> quota, period |-> period,
     burst |-> burst, mode |-> mode]

Login(mode) == Doc("fixed", <<1>>, <<2, 2>>, 1, 6, 1, mode)
Search == Doc("fixed", <<1, 2>>, <<2>>, 1, 6, 1, "omitted")
Upload == Doc("gcra", <<1>>, <<2, 2>>, 2, 8, 1, "Enforce")

\* Documents no constructor accepts: no quota, half a millisecond, a NUL.
Refused == {Doc("fixed", <<1>>, <<1>>, 0, 6, 0, "omitted"),
            Doc("fixed", <<1>>, <<1>>, 1, 3, 1, "omitted"),
            Doc("fixed", <<Nul>>, <<2>>, 1, 6, 1, "omitted"),
            Doc("gcra", <<1>>, <<1>>, 1, 6, 5, "omitted")}

MCLetter == {1, 2}
MCRaw == {<<1>>, <<2>>}
MCName == [length |-> 1, visible |-> TRUE]
Stack(docs, digested) == [docs |-> docs, digested |-> digested]
MCStacks ==
    {Stack(<<Login("omitted"), Upload>>, FALSE), Stack(<<Login("Shadow"), Login("Shadow")>>, FALSE),
     Stack(<<Login("Shadow"), Search>>, TRUE)}
        \cup {Stack(<<Login("omitted"), doc>>, TRUE) : doc \in Refused}
MCTime == {0, 5, 6, 9}

MCSymmetry == Permutations(Request)

=============================================================================
