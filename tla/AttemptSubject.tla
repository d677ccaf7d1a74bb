--------------------------- MODULE AttemptSubject ---------------------------
(***************************************************************************)
(* The states of a subject as an attempt limiter promises them, shared by  *)
(* the abstract specifications of the two limiters: clear, waiting after   *)
(* some consecutive failures, or leased to one receipt.                    *)
(***************************************************************************)
EXTENDS AttemptPolicy

Clear == [failures |-> 0, failedAt |-> 0, until |-> 0, holder |-> 0]

Failed(failures, at) == [failures |-> failures, failedAt |-> at, until |-> 0, holder |-> 0]

Leased(failures, until, r) ==
    [failures |-> failures, failedAt |-> 0, until |-> until, holder |-> r]

\* A subject's state seen at a later instant.
AtTime(k, s, at) ==
    LET lapsed == IF s.until # 0 /\ at >= s.until THEN Failed(s.failures + 1, s.until) ELSE s
    IN  IF lapsed.until = 0 /\ at >= lapsed.failedAt + QuietPeriod[k] THEN Clear ELSE lapsed

\* The instant from which a subject that is not leased may be admitted.
Backoff(k, s) == s.failedAt + Delay(k, s.failures)

=============================================================================
