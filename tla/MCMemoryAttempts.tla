-------------------------- MODULE MCMemoryAttempts --------------------------
(***************************************************************************)
(* A small instance of MemoryAttempts.  Delays are one and two instants,   *)
(* capped at two; the keys differ in quiet period and lease so that a      *)
(* lease can outlast another key's whole history.                          *)
(***************************************************************************)
EXTENDS MemoryAttempts

\* Three subjects of which two fit, so that the cleanup cursor has to rotate.
MCKey == {1, 2, 3}
MCInitialDelay == [k \in Key |-> 1]
MCMaximumDelay == [k \in Key |-> 2]
MCQuietPeriod == [k \in Key |-> IF k = 1 THEN 2 ELSE 3]
MCLeasePeriod == [k \in Key |-> IF k = 1 THEN 2 ELSE 1]
MCTime == {0, 3}
MCForeign == {[key |-> 1, generation |-> 1, own |-> FALSE, until |-> 0]}

=============================================================================
