------------------------------ MODULE Policies ------------------------------
(***************************************************************************)
(* Rate-limit policies and the keys of the counters they own               *)
(* (runlimit-core/src/policy.rs, identifier.rs, key.rs, counter.rs), as    *)
(* pure operators.                                                         *)
(*                                                                         *)
(* A document is what a policy is built from, by a constructor or from its *)
(* wire form: a record [algorithm, id, scope, quota, period, burst, mode]  *)
(* with the period in ticks, Milli of them to a millisecond (the wire form *)
(* has whole ones), and the mode "omitted" when it is left out.            *)
(* Identifiers and raw subjects are sequences of characters, because what  *)
(* a digest tells apart is decided by how its input is put together.  A    *)
(* digest stands for its input: SHA-256 and HMAC are taken to be           *)
(* collision-free.  The integers of a digest have eight bytes each, one    *)
(* element of the sequence.                                                *)
(***************************************************************************)
EXTENDS Naturals, Sequences

CONSTANTS Letter,        \* the characters an identifier may hold
          MaxIdentifier, \* MAX_IDENTIFIER_LENGTH
          MaxLimit,      \* MAX_LIMIT
          MaxWindow,     \* MAX_WINDOW_MILLIS
          Milli          \* ticks in a millisecond

Nul == 0

ASSUME PoliciesAssumption ==
    /\ Nul \notin Letter
    /\ MaxIdentifier \in Nat \ {0} /\ MaxLimit \in Nat \ {0}
    /\ MaxWindow \in Nat \ {0} /\ Milli \in Nat \ {0}

RoundedUp(n, d) == (n + d - 1) \div d

IdentifierError(s) ==
    CASE Len(s) = 0             -> "Empty"
      [] Len(s) > MaxIdentifier -> "TooLong"
      [] OTHER -> IF \A i \in DOMAIN s : s[i] \in Letter THEN "none" ELSE "InvalidCharacter"

CapacityError(n) ==
    CASE n = 0        -> "Zero"
      [] n > MaxLimit -> "TooLarge"
      [] OTHER        -> "none"

QuotaPeriodError(ticks) ==
    CASE ticks = 0                 -> "Zero"
      [] ticks % Milli # 0         -> "NotWholeMilliseconds"
      [] ticks > MaxWindow * Milli -> "TooLarge"
      [] OTHER                     -> "none"

\* div_ceil_u128 of the full refill, which a GCRA policy bounds.
FullRefill(doc) == RoundedUp(doc.burst * (doc.period \div Milli), doc.quota)

\* What each step of building a policy from a document reports, in order: the
\* identifiers are parsed before FixedWindowPolicy::new or GcraPolicy::new runs.
PolicyErrors(doc) ==
    LET named == <<IdentifierError(doc.id), IdentifierError(doc.scope), CapacityError(doc.quota)>>
    IN  IF doc.algorithm = "fixed" THEN Append(named, QuotaPeriodError(doc.period))
        ELSE named \o <<CapacityError(doc.burst), QuotaPeriodError(doc.period)>>

Accepted(doc) ==
    /\ \A i \in DOMAIN PolicyErrors(doc) : PolicyErrors(doc)[i] = "none"
    /\ doc.algorithm = "gcra" => FullRefill(doc) <= MaxWindow

\* Deserialization: a policy is rebuilt by its constructor, which enforces, and
\* then takes the mode of the document.  A fixed window's capacity is its limit.
Policy(doc) ==
    [algorithm |-> doc.algorithm, id |-> doc.id, scope |-> doc.scope, quota |-> doc.quota,
     period |-> doc.period \div Milli,
     burst |-> IF doc.algorithm = "fixed" THEN doc.quota ELSE doc.burst,
     mode |-> IF doc.mode = "omitted" THEN "Enforce" ELSE doc.mode]

\* What a policy's counters depend on: everything but the deployment mode.
Configuration(p) == <<p.algorithm, p.id, p.scope, p.quota, p.period, p.burst>>

\* A digest that runs the identifiers together.
FingerprintJoined(p) == <<p.algorithm, p.id \o p.scope \o <<p.quota, p.period, p.burst>>>>

\* fingerprint and gcra_fingerprint: the domains differ by algorithm.
Fingerprint(p) ==
    <<p.algorithm,
      p.id \o <<Nul>> \o p.scope \o <<Nul>>
           \o (IF p.algorithm = "fixed" THEN <<p.quota, p.period>>
               ELSE <<p.quota, p.period, p.burst>>)>>

\* KeyHasher::hash_for
HashFor(p, raw) == p.id \o <<Nul>> \o p.scope \o <<Nul>> \o raw

\* The counter of a check: its policy's fingerprint, then its subject.
CounterKey(p, subject) == <<Fingerprint(p), subject>>

=============================================================================
