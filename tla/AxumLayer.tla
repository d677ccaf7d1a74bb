----------------------------- MODULE AxumLayer -----------------------------
(***************************************************************************)
(* The Axum admission layer (runlimit-axum/src/lib.rs) in a server: stacks *)
(* of rate-limit layers around a handler whose readiness is a permit,      *)
(* requests whose futures may be dropped at every await, limiters shared   *)
(* by all of them, rolling deployments of new policies, and the wire forms *)
(* and RateLimit fields a client is answered with.                         *)
(*                                                                         *)
(* A connection drives its own clone of the service, built from the stack  *)
(* of policies deployed when it was made.  A service that is ready holds   *)
(* one permit of the inner service.  A request's future holds the instance *)
(* it was called with, and so its permit, until it is dropped.             *)
(*                                                                         *)
(* A counter is a record [value, expires, algorithm]: the used cost of a   *)
(* fixed window or the tat of a GCRA bucket, and the tick it ends at.      *)
(* `ledger` keeps the same counters by what they should belong to: a       *)
(* configuration and a subject.  It is no state of the program.            *)
(***************************************************************************)
EXTENDS Decisions, Gcra, FiniteSetsExt, SequencesExt

CONSTANTS Connection, Request,
          Stacks,      \* what may be deployed: [docs, digested]
          Raw,         \* raw subjects
          Name,        \* the public policy name of the responses
          Permits,     \* requests the inner service runs at once
          MaxCounters, \* counters a limiter stores at once
          Time         \* the ticks at which something may happen

\* A document as it is read, before a constructor accepts it.
Document == [algorithm : {"fixed", "gcra"}, id : Seq(Letter \cup {Nul}),
             scope : Seq(Letter \cup {Nul}), quota : Nat, period : Nat, burst : Nat,
             mode : {"omitted", "Enforce", "Shadow"}]

\* A stack has at least one layer; without one the handler is called directly.  A
\* digest the application keeps is never the hash of another subject.
ASSUME AxumAssumption ==
    /\ IsFiniteSet(Connection) /\ IsFiniteSet(Request) /\ Permits \in Nat
    /\ Raw \subseteq Seq(Letter \cup {Nul})
    /\ \A s \in Stacks :
        /\ s.docs \in Seq(Document) /\ Len(s.docs) > 0 /\ s.digested \in BOOLEAN
        /\ \A i \in DOMAIN s.docs, x, y \in Raw : HashFor(Policy(s.docs[i]), x) # y

\* The limits a policy respects can be reported, and the integers of gcra.rs (u128,
\* against limits below 2^63 and windows below 2^44 milliseconds) hold whatever a
\* bucket reaches, less than two windows ahead of the clock.
ASSUME ClockAssumption ==
    /\ Time \subseteq Nat
    /\ MaxLimit <= DelayMax /\ MaxWindow <= DelayMax
    /\ \A t \in Time \cup {0} : (t \div Milli + 2 * MaxWindow) * MaxLimit <= WideMax

VARIABLES stack,    \* connection -> the layers of its service, outermost first
          ready,    \* connection -> does its service hold a permit
          free,     \* permits nobody holds
          request,  \* request -> its future and its response
          counters, \* counter key -> counter, the live ones
          ledger,   \* <<configuration, raw subject, digested>> -> counter
          now

vars == <<stack, ready, free, request, counters, ledger, now>>

Deployable(s) == \A i \in DOMAIN s.docs : Accepted(s.docs[i])

\* RateLimitLayer::new for every document, each with the extractor of the stack.
Built(s) == [i \in DOMAIN s.docs |-> [policy |-> Policy(s.docs[i]), digested |-> s.digested]]

NoCounter == [value |-> 0, expires |-> 0, algorithm |-> "none"]

Entry(table, k) == IF k \in DOMAIN table THEN table[k] ELSE NoCounter

\* Expired counters are as good as absent: every read treats them so.
Alive(table, at) == LET live == {k \in DOMAIN table : table[k].expires > at}
                    IN  [k \in live |-> table[k]]

\* Limiter::check for n units: the counter they would leave, and the decision.
\* GCRA arithmetic that overflows is one of the failures of BackendFails.
Evaluate(p, c, n, at) ==
    LET used == IF c.expires > at THEN c.value ELSE 0
        ends == IF c.expires > at THEN c.expires ELSE at + p.period * Milli
        g == GcraEvaluate(p, n, at \div Milli, c.value)
    IN  IF p.algorithm = "fixed"
        THEN IF used + n <= p.quota
             THEN [counter |-> [value |-> used + n, expires |-> ends, algorithm |-> "fixed"],
                   decision |-> Allowed(p.quota, p.quota - (used + n), ends - at)]
             ELSE [counter |-> c, decision |-> QuotaDenied(p.mode, p.quota, ends - at)]
        ELSE IF g.kind = "allowed"
             THEN [counter |-> [value |-> g.allowance.tat, expires |-> g.allowance.expires * Milli,
                                algorithm |-> "gcra"],
                   decision |-> Allowed(p.burst, g.allowance.available,
                                        (g.allowance.expires - at \div Milli) * Milli)]
             ELSE [counter |-> c, decision |-> QuotaDenied(p.mode, p.burst, g.retry * Milli)]

\* A bounded limiter has no room for a new counter.
Crowded(table, k, p) ==
    /\ k \notin DOMAIN table
    /\ Cardinality({j \in DOMAIN table : table[j].algorithm = p.algorithm}) >= MaxCounters

CrowdedDelay(table, p, at) ==
    Min({table[j].expires : j \in {j \in DOMAIN table : table[j].algorithm = p.algorithm}}) - at

Verdict(table, k, p, at) ==
    IF Crowded(table, k, p)
    THEN [counter |-> NoCounter, decision |-> StorageDenied(CrowdedDelay(table, p, at))]
    ELSE Evaluate(p, Entry(table, k), 1, at)

\* What an allowance leaves in a table; a denial leaves it alone.
Charge(table, k, v) ==
    IF v.decision.outcome # "allowed" THEN table
    ELSE [j \in DOMAIN table \cup {k} |-> IF j = k THEN v.counter ELSE table[j]]

NoResponse == [kind |-> "none", sent |-> <<>>]

Idle == [at |-> "idle", layer |-> 0, stack |-> <<>>, raw |-> <<>>, subject |-> <<>>,
         admissions |-> <<>>, outcomes |-> <<>>, permit |-> FALSE, response |-> NoResponse]

Init ==
    /\ \E s \in Stacks : Deployable(s) /\ stack = [c \in Connection |-> Built(s)]
    /\ ready = [c \in Connection |-> FALSE]
    /\ free = Permits
    /\ request = [r \in Request |-> Idle]
    /\ counters = <<>>
    /\ ledger = <<>>
    /\ now = 0

\* Dropping an instance gives its permit back.
Returned(held) == IF held THEN 1 ELSE 0

PollReady(c) ==
    /\ ~ready[c]
    /\ free > 0
    /\ free' = free - 1
    /\ ready' = [ready EXCEPT ![c] = TRUE]
    /\ UNCHANGED <<stack, request, counters, ledger, now>>

\* Calling a fresh clone and leaving the ready instance behind.
TakenClone(held) == [future |-> FALSE, kept |-> held]

\* mem::replace: the future takes the instance that was polled ready and leaves
\* an unpolled clone in its place.
Taken(held) == [future |-> held, kept |-> FALSE]

Call(c, r, raw) ==
    /\ ready[c]
    /\ request[r].at \in {"idle", "answered"}
    /\ request' = [request EXCEPT ![r] =
                     [Idle EXCEPT !.at = "called", !.layer = 1, !.stack = stack[c], !.raw = raw,
                                  !.permit = Taken(ready[c]).future]]
    /\ ready' = [ready EXCEPT ![c] = Taken(ready[c]).kept]
    /\ UNCHANGED <<stack, free, counters, ledger, now>>

\* The future ends: it drops the inner service it still holds, and the request.
Answer(r, response) ==
    /\ request' = [request EXCEPT ![r] = [Idle EXCEPT !.at = "answered", !.response = response]]
    /\ free' = free + Returned(request[r].permit)

\* What an answer tells of one decision, and the counter it left behind.
Told(p, key, d) ==
    [policy |-> p, key |-> key, at |-> now, counter |-> Entry(counters', key),
     wire |-> ToWire(d), limit |-> ServiceLimitField(Name, d), window |-> QuotaPolicyField(Name, p)]

LayerOf(r) == request[r].stack[request[r].layer]

Layer(r) == LayerOf(r).policy

KeyOf(r) == CounterKey(Layer(r), request[r].subject)

OwnerOf(r) == <<Configuration(Layer(r)), request[r].raw, LayerOf(r).digested>>

\* The key an extractor derives: a digest the application already keeps, the
\* same at every layer, or the hash of the raw subject for the layer's policy.
SubjectKey(l, raw) == IF l.digested THEN raw ELSE HashFor(l.policy, raw)

\* extract_subject_key: the application refuses the request or derives its key,
\* which the layer then binds to its own policy.
Extract(r) ==
    /\ request[r].at = "called"
    /\ \/ Answer(r, [kind |-> "Key", sent |-> <<>>])
       \/ /\ request' = [request EXCEPT ![r] =
                            [@ EXCEPT !.at = "checking",
                                      !.subject = SubjectKey(LayerOf(r), request[r].raw)]]
          /\ UNCHANGED free
    /\ UNCHANGED <<stack, ready, counters, ledger, now>>

Admission(p, d, told) ==
    [id |-> p.id, scope |-> p.scope, fingerprint |-> Fingerprint(p), decision |-> d, told |-> told]

\* Admissions::push, or insert of a collection with one entry.
Recorded(admissions, a) == Append(admissions, a)

IsFor(a, p) == a.id = p.id /\ a.scope = p.scope /\ a.fingerprint = Fingerprint(p)

\* Admissions::get: the outermost entry for a policy.
Get(admissions, p) == SelectInSeq(admissions, LAMBDA a : IsFor(a, p))

\* ready_inner.call: the handler, or the next layer, whose own call again takes the
\* instance that was polled ready out of the service it is called on.
Descend(q) == IF q.layer = Len(q.stack) THEN [q EXCEPT !.at = "handling"]
              ELSE [q EXCEPT !.at = "called", !.layer = @ + 1, !.permit = Taken(@).future]

\* The limiter decides.  An admission is recorded before the inner service is
\* called with the instance the future has held since it was created.
Check(r) ==
    LET p == Layer(r)
        v == Verdict(counters, KeyOf(r), p, now)
        told == Told(p, KeyOf(r), v.decision)
    IN  /\ request[r].at = "checking"
        /\ counters' = Charge(counters, KeyOf(r), v)
        /\ ledger' = Charge(ledger, OwnerOf(r), Verdict(ledger, OwnerOf(r), p, now))
        /\ IF Admits(v.decision)
           THEN /\ request' = [request EXCEPT ![r] =
                     Descend([request[r] EXCEPT
                                !.admissions = Recorded(@, Admission(p, v.decision, told)),
                                !.outcomes = Append(@, [policy |-> p, decision |-> v.decision])])]
                /\ UNCHANGED free
           ELSE Answer(r, [kind |-> "Denied", sent |-> <<told>>])
        /\ UNCHANGED <<stack, ready, now>>

\* A check that fails or is abandoned may have been charged: a commit whose
\* answer was lost.
ChargedOrNot(r) ==
    \/ UNCHANGED <<counters, ledger>>
    \/ /\ request[r].at = "checking"
       /\ counters' = Charge(counters, KeyOf(r), Verdict(counters, KeyOf(r), Layer(r), now))
       /\ ledger' = Charge(ledger, OwnerOf(r), Verdict(ledger, OwnerOf(r), Layer(r), now))
       /\ counters' # counters

BackendFails(r) ==
    /\ request[r].at = "checking"
    /\ ChargedOrNot(r)
    /\ Answer(r, [kind |-> "Backend", sent |-> <<>>])
    /\ UNCHANGED <<stack, ready, now>>

\* The handler finishes; the application reports every admission it was given.
Handle(r) ==
    /\ request[r].at = "handling"
    /\ Answer(r, [kind |-> "Handled",
                  sent |-> [i \in DOMAIN request[r].admissions |-> request[r].admissions[i].told]])
    /\ UNCHANGED <<stack, ready, counters, ledger, now>>

\* The client goes away: its future is dropped wherever it waits.
Disconnect(r) ==
    /\ request[r].at \in {"called", "checking", "handling"}
    /\ ChargedOrNot(r)
    /\ free' = free + Returned(request[r].permit)
    /\ request' = [request EXCEPT ![r] = Idle]
    /\ UNCHANGED <<stack, ready, now>>

\* A connection is replaced by one to a server with other policies.  Running
\* requests keep the service they were called on.
Deploy(c, s) ==
    /\ Deployable(s)
    /\ stack' = [stack EXCEPT ![c] = Built(s)]
    /\ stack' # stack
    /\ ready' = [ready EXCEPT ![c] = FALSE]
    /\ free' = free + Returned(ready[c])
    /\ UNCHANGED <<request, counters, ledger, now>>

Tick ==
    /\ \E t \in Time : t > now
    /\ now' = Min({t \in Time : t > now})
    /\ counters' = Alive(counters, now')
    /\ ledger' = Alive(ledger, now')
    /\ UNCHANGED <<stack, ready, free, request>>

Next ==
    \/ \E c \in Connection :
          \/ PollReady(c)
          \/ \E r \in Request, raw \in Raw : Call(c, r, raw)
          \/ \E s \in Stacks : Deploy(c, s)
    \/ \E r \in Request :
          \/ Extract(r)
          \/ Check(r)
          \/ BackendFails(r)
          \/ Handle(r)
          \/ Disconnect(r)
    \/ Tick

Spec == Init /\ [][Next]_vars

-----------------------------------------------------------------------------

Held == Cardinality({c \in Connection : ready[c]}) + Cardinality({r \in Request : request[r].permit})

\* The instance that was polled ready is the one that is called, through every
\* layer of the stack (RateLimitService::call's mem::replace): a running handler
\* has a permit of its own, and no permit is ever lost or made up, whichever
\* future is rejected, fails or is dropped.
ReadinessCarried ==
    /\ \A r \in Request : request[r].at \in {"called", "checking", "handling"} => request[r].permit
    /\ free + Held = Permits

\* What a layer may let through: an allowance, or a shadowed denial of its own policy.
LetThrough(d, p) == d.outcome = "allowed" \/ (d.outcome = "shadow_denied" /\ p.mode = "Shadow")

\* A handler runs with one admission from every layer, and looking a layer's
\* policy up (Admissions::get) yields the decision of the outermost layer with
\* that very configuration, never that of another policy, even when a deployment
\* changed the policies meanwhile.  No layer let a denial through, except one of
\* quota whose policy is in shadow mode.
AdmissionsFaithful ==
    \A r \in Request :
        request[r].at = "handling" =>
            LET q == request[r]
            IN  /\ Len(q.admissions) = Len(q.stack)
                /\ \A i \in DOMAIN q.stack :
                    LET j == SelectInSeq(q.outcomes, LAMBDA o :
                                 Configuration(o.policy) = Configuration(q.stack[i].policy))
                    IN  /\ Get(q.admissions, q.stack[i].policy) = j
                        /\ q.admissions[j].decision = q.outcomes[j].decision
                        /\ LetThrough(q.admissions[i].decision, q.stack[i].policy)

\* The decisions are those of a limiter that keeps one counter for each policy
\* configuration and subject: digests never make two of them share a counter,
\* and a change of the deployment mode never makes one of them start afresh.
CountersSeparate ==
    /\ Cardinality(DOMAIN counters) = Cardinality(DOMAIN ledger)
    /\ \A r \in Request :
        request[r].at = "checking" => Entry(counters, KeyOf(r)) = Entry(ledger, OwnerOf(r))

\* A later check for n units on the counter an answer was about.
Grants(t, n) == n = 0 \/ Evaluate(t.policy, Entry(counters, t.key), n, now).decision.outcome = "allowed"

\* Until somebody else charges the counter, what a client was told holds: the
\* decoded answer is one the backend could give, r more requests are within the
\* quota at once, after t seconds a denied request is, or an allowance is back
\* at full capacity, and w seconds restore the quota of the policy.  Rounding to
\* whole seconds (Delay::seconds) never invites a client too early.
AnswersHonest ==
    \A r \in Request :
        \A i \in DOMAIN request[r].response.sent :
            LET t == request[r].response.sent[i]
                d == FromWire(t.wire)
            IN  /\ WireAccepted(t.wire)
                /\ ToWire(d) = t.wire
                /\ t.limit = ServiceLimitField(Name, d)
                /\ Entry(counters, t.key) \in {t.counter, NoCounter} /\ t.limit.present =>
                    /\ Grants(t, t.limit.n)
                    /\ now >= t.at + t.limit.seconds * Second =>
                           Grants(t, IF d.outcome = "allowed" THEN t.policy.burst ELSE 1)
                    /\ t.window.present /\ now >= t.at + t.window.seconds * Second =>
                           Grants(t, Min({t.window.n, t.policy.burst}))

=============================================================================
