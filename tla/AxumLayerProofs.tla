-------------------------- MODULE AxumLayerProofs --------------------------
(***************************************************************************)
(* Proofs about AxumLayer, for every number of connections, requests and   *)
(* permits, every set of policy stacks and subjects, and every schedule of *)
(* deployments, failures and dropped futures: readiness is neither lost    *)
(* nor made up, a handler finds exactly the admissions of the layers       *)
(* around it, no two policies share a counter, and what a client is told   *)
(* holds until somebody else charges the counter it was told about.        *)
(***************************************************************************)
EXTENDS AxumLayer, FiniteSetTheorems, TLAPS, SequenceTheorems

----------------------------------------------------------------------------
(* Numbers and sets                                                        *)

\* A nonempty set of naturals has a minimum, and Min chooses it.
LEMMA MinOfNaturals ==
  ASSUME NEW S \in SUBSET Nat, S # {}
  PROVE  Min(S) \in S /\ \A y \in S : Min(S) <= y
<1> DEFINE Less(x, y) == <<x, y>> \in OpToRel(<, Nat)
<1>1. PICK n \in S : \A m \in S : ~Less(m, n)
  BY NatLessThanWellFounded, WFMin
<1>2. \A x, y \in Nat : x < y => Less(x, y)
  BY DEF OpToRel
<1> HIDE DEF Less
<1>3. \A y \in S : n <= y
  BY <1>1, <1>2
<1> QED BY <1>3 DEF Min

\* Mapping a finite set of indexes through a function yields at most as many values.
LEMMA ImageBound ==
  ASSUME NEW M, IsFiniteSet(M), NEW T, NEW f \in [M -> T]
  PROVE  /\ IsFiniteSet({f[j] : j \in M})
         /\ Cardinality({f[j] : j \in M}) <= Cardinality(M)
<1> DEFINE R == {f[j] : j \in M}
<1>1. f \in Surjection(M, R)
  BY DEF Surjection
<1> QED BY <1>1, FS_Surjection

\* Arithmetic the SMT backend does not find by itself: products with a common factor.
LEMMA TimesMonotone ==
  ASSUME NEW m \in Nat, NEW n \in Nat, NEW q \in Nat, m <= n
  PROVE  m * q \in Nat /\ n * q \in Nat /\ m * q <= n * q
<1>1. n - m \in Nat /\ n = m + (n - m)
  OBVIOUS
<1>2. (n - m) * q \in Nat /\ m * q \in Nat /\ n * q \in Nat
  BY <1>1
<1>3. n * q = m * q + (n - m) * q
  BY <1>1
<1> QED BY <1>2, <1>3

\* The quotient is the largest multiple within the dividend.
LEMMA QuotientBounds ==
  ASSUME NEW a \in Nat, NEW q \in Nat \ {0}
  PROVE  /\ a \div q \in Nat
         /\ (a \div q) * q \in Nat
         /\ (a \div q) * q <= a
         /\ a < (a \div q) * q + q
<1>1. a = q * (a \div q) + (a % q) /\ 0 <= a % q /\ a % q < q /\ a % q \in Nat /\ a \div q \in Int
  OBVIOUS
<1>2. a \div q \in Nat
  OBVIOUS
<1> QED BY <1>1, <1>2

\* Division rounding up: the least number of divisors that covers the dividend.
LEMMA CeilingDivision ==
  ASSUME NEW a \in Nat, NEW q \in Nat \ {0}
  PROVE  /\ (a + q - 1) \div q \in Nat
         /\ a > 0 => (a + q - 1) \div q > 0
         /\ \A n \in Nat : (a + q - 1) \div q <= n <=> a <= n * q
<1> DEFINE d == (a + q - 1) \div q
<1>1. d \in Nat /\ d * q \in Nat /\ d * q <= a + q - 1 /\ a + q - 1 < d * q + q
  <2>1. a + q - 1 \in Nat
    OBVIOUS
  <2> QED BY <2>1, QuotientBounds
<1> HIDE DEF d
<1>2. ASSUME NEW n \in Nat, d <= n PROVE a <= n * q
  <2>1. d * q <= n * q /\ n * q \in Nat
    BY <1>1, <1>2, TimesMonotone
  <2> QED BY <1>1, <2>1
<1>3. ASSUME NEW n \in Nat, a <= n * q PROVE d <= n
  <2> SUFFICES ASSUME n + 1 <= d PROVE FALSE
    BY <1>1
  <2>1. (n + 1) * q <= d * q
    BY <1>1, TimesMonotone
  <2>2. (n + 1) * q = n * q + q /\ n * q \in Nat
    OBVIOUS
  <2> QED BY <1>1, <1>3, <2>1, <2>2
<1>4. a > 0 => d > 0
  <2>1. d = 0 => d * q = 0
    OBVIOUS
  <2> QED BY <1>1, <2>1
<1> QED BY <1>1, <1>2, <1>3, <1>4 DEF d

----------------------------------------------------------------------------
(* The inductive invariant                                                 *)

Running == {"called", "checking", "handling"}

\* A policy some constructor has built.
PolicyOK(p) ==
    /\ p = [algorithm |-> p.algorithm, id |-> p.id, scope |-> p.scope, quota |-> p.quota,
            period |-> p.period, burst |-> p.burst, mode |-> p.mode]
    /\ p.algorithm \in {"fixed", "gcra"}
    /\ p.id \in Seq(Letter) /\ p.scope \in Seq(Letter)
    /\ p.quota \in Nat /\ p.period \in Nat /\ p.burst \in Nat
    /\ p.algorithm = "fixed" => p.burst = p.quota

\* The layers that may be deployed.
Layers == UNION {{[policy |-> Policy(s.docs[i]), digested |-> s.digested] : i \in DOMAIN s.docs} :
                     s \in {t \in Stacks : Deployable(t)}}

\* The layers of a service.
StackOK(s) == Len(s) \in Nat \ {0} /\ DOMAIN s = 1..Len(s) /\ \A i \in 1..Len(s) : s[i] \in Layers

\* A sequence, of whatever its elements are.
IsSequence(s) == s \in Seq({s[i] : i \in DOMAIN s})

\* The layers a request has passed.
Passed(q) == IF q.at = "handling" THEN q.layer ELSE q.layer - 1

\* The records of a request are those of the layers it has passed, in their order.
RecordsOK(q) ==
    /\ IsSequence(q.admissions) /\ Len(q.admissions) = Passed(q)
    /\ IsSequence(q.outcomes) /\ Len(q.outcomes) = Passed(q)
    /\ \A i \in 1..Passed(q) :
        LET p == q.stack[i].policy
        IN  /\ q.outcomes[i].policy = p
            /\ q.admissions[i].decision = q.outcomes[i].decision
            /\ q.admissions[i].id = p.id
            /\ q.admissions[i].scope = p.scope
            /\ q.admissions[i].fingerprint = Fingerprint(p)
            /\ LetThrough(q.outcomes[i].decision, p)

\* The fields of a request.
IsFuture(q) ==
    q \in [at : {q.at}, layer : {q.layer}, stack : {q.stack}, raw : {q.raw}, subject : {q.subject},
           admissions : {q.admissions}, outcomes : {q.outcomes}, permit : {q.permit},
           response : {q.response}]

RequestOK(q) ==
    /\ IsFuture(q)
    /\ q.at \in Running \cup {"idle", "answered"}
    /\ q.permit \in BOOLEAN
    /\ q.permit <=> q.at \in Running
    /\ q.at \in Running =>
        /\ StackOK(q.stack)
        /\ q.layer \in 1..Len(q.stack)
        /\ q.raw \in Raw
        /\ q.at = "checking" => q.subject = SubjectKey(q.stack[q.layer], q.raw)
        /\ q.at = "handling" => q.layer = Len(q.stack)
        /\ RecordsOK(q)

Shape == /\ ready \in [Connection -> BOOLEAN] /\ free \in Nat
         /\ DOMAIN stack = Connection /\ DOMAIN request = Request

StacksInv == \A c \in Connection : StackOK(stack[c])

RequestsInv == \A r \in Request : RequestOK(request[r])

Ready == {c \in Connection : ready[c]}

Permitted == {r \in Request : request[r].permit}

Balanced == free + Cardinality(Ready) + Cardinality(Permitted) = Permits

Inv == Shape /\ StacksInv /\ RequestsInv /\ Balanced

----------------------------------------------------------------------------
(* Permits                                                                 *)

\* Instances that are ready, and those holding a permit, form finite sets.
LEMMA HolderFacts ==
  /\ IsFiniteSet(Ready) /\ Cardinality(Ready) \in Nat
  /\ IsFiniteSet(Permitted) /\ Cardinality(Permitted) \in Nat
<1>1. IsFiniteSet(Ready)
  BY AxumAssumption, FS_Subset DEF Ready
<1>2. IsFiniteSet(Permitted)
  BY AxumAssumption, FS_Subset DEF Permitted
<1> QED BY <1>1, <1>2, FS_CardinalityType

\* The same after a step.
LEMMA HolderFactsAfter ==
  /\ IsFiniteSet(Ready') /\ Cardinality(Ready') \in Nat
  /\ IsFiniteSet(Permitted') /\ Cardinality(Permitted') \in Nat
<1>1. IsFiniteSet(Ready')
  BY AxumAssumption, FS_Subset DEF Ready
<1>2. IsFiniteSet(Permitted')
  BY AxumAssumption, FS_Subset DEF Permitted
<1> QED BY <1>1, <1>2, FS_CardinalityType

\* A connection or a request takes an instance, or drops it.
LEMMA OneMore ==
  ASSUME NEW S, NEW x, IsFiniteSet(S), x \notin S
  PROVE  Cardinality(S \cup {x}) = Cardinality(S) + 1
BY FS_AddElement

\* Removing an element of a finite set lowers its cardinality by one.
LEMMA OneLess ==
  ASSUME NEW S, NEW x, IsFiniteSet(S), x \in S
  PROVE  Cardinality(S \ {x}) = Cardinality(S) - 1
BY FS_RemoveElement

\* The future of a running request ends, with or without an answer.
LEMMA FutureEnds ==
  ASSUME Inv, NEW r \in Request, request[r].at \in Running, NEW q, RequestOK(q), q.at \notin Running,
         request' = [request EXCEPT ![r] = q], free' = free + Returned(request[r].permit),
         UNCHANGED <<stack, ready>>
  PROVE  Inv'
<1>1. Shape' /\ StacksInv' /\ RequestsInv'
  <2>1. request[r].permit = TRUE /\ free \in Nat
    BY DEF Inv, RequestsInv, RequestOK, Shape
  <2>2. free' \in Nat
    BY <2>1 DEF Returned
  <2>3. Shape'
    BY <2>2 DEF Inv, Shape
  <2>4. StacksInv'
    BY DEF Inv, StacksInv
  <2>5. RequestsInv'
    BY DEF Inv, Shape, RequestsInv
  <2> QED BY <2>3, <2>4, <2>5
<1>2. request[r].permit = TRUE /\ q.permit = FALSE
  BY DEF Inv, RequestsInv, RequestOK
<1>3. r \in Permitted /\ Permitted' = Permitted \ {r}
  BY <1>2 DEF Permitted, Inv, Shape
<1>4. Ready' = Ready
  BY DEF Ready
<1>5. Cardinality(Permitted') = Cardinality(Permitted) - 1
  BY <1>3, OneLess, HolderFacts
<1>6. free' = free + 1
  BY <1>2 DEF Returned
<1>7. Balanced'
  BY <1>4, <1>5, <1>6, HolderFacts DEF Inv, Balanced, Shape
<1> QED BY <1>1, <1>7 DEF Inv

\* A running request goes on with the instance it holds.
LEMMA FutureGoesOn ==
  ASSUME Inv, NEW r \in Request, request[r].at \in Running, NEW q, RequestOK(q), q.at \in Running,
         request' = [request EXCEPT ![r] = q], UNCHANGED <<stack, ready, free>>
  PROVE  Inv'
<1>1. Shape' /\ StacksInv'
  BY DEF Inv, Shape, StacksInv
<1>2. RequestsInv'
  BY DEF Inv, Shape, RequestsInv
<1>3. Permitted' = Permitted
  <2>1. request[r].permit = TRUE /\ q.permit = TRUE
    BY DEF Inv, RequestsInv, RequestOK
  <2> QED BY <2>1 DEF Permitted, Inv, Shape
<1>4. Ready' = Ready
  BY DEF Ready
<1> QED BY <1>1, <1>2, <1>3, <1>4 DEF Inv, Balanced

----------------------------------------------------------------------------
(* Records                                                                 *)

\* The empty list of admissions is a sequence.
LEMMA EmptySequence == IsSequence(<<>>) /\ Len(<<>>) = 0
BY DEF IsSequence

\* Recording an admission lengthens the list by one and keeps what it held.
LEMMA Appended ==
  ASSUME NEW s, IsSequence(s), NEW x
  PROVE  /\ IsSequence(Append(s, x)) /\ Len(s) \in Nat /\ Len(Append(s, x)) = Len(s) + 1
         /\ \A i \in 1..Len(s) : Append(s, x)[i] = s[i]
         /\ Append(s, x)[Len(s) + 1] = x
<1> DEFINE S == {s[i] : i \in DOMAIN s}
<1> DEFINE T == S \cup {x}
<1> DEFINE t == Append(s, x)
<1>1. s \in Seq(S)
  BY DEF IsSequence
<1>2. s \in Seq(T) /\ x \in T
  BY <1>1, SeqMonotonic
<1> HIDE DEF S, T
<1>3. /\ t \in Seq(T) /\ Len(t) = Len(s) + 1 /\ Len(s) \in Nat
      /\ \A i \in 1..Len(s) : t[i] = s[i]
      /\ t[Len(s) + 1] = x
  BY <1>2
<1> HIDE DEF t
<1>4. t \in Seq({t[i] : i \in DOMAIN t})
  <2>1. DOMAIN t = 1..Len(t) /\ Len(t) \in Nat
    BY <1>3
  <2>2. t = [i \in 1..Len(t) |-> t[i]]
    BY <1>3
  <2> DEFINE U == {t[i] : i \in DOMAIN t}
  <2>3. \A i \in 1..Len(t) : t[i] \in U
    BY <2>1
  <2> HIDE DEF U
  <2>4. t \in [1..Len(t) -> U]
    BY <2>2, <2>3
  <2>5. t \in Seq(U)
    BY <2>1, <2>4, SeqDef
  <2> QED BY <2>5 DEF U
<1> QED BY <1>3, <1>4 DEF IsSequence, t

----------------------------------------------------------------------------
(* Policies and stacks                                                     *)

\* Each part of a concatenation can be read back at its place.
LEMMA ConcatParts ==
  ASSUME NEW C, NEW s \in Seq(C), NEW t \in Seq(C)
  PROVE  /\ s \o t \in Seq(C)
         /\ Len(s \o t) = Len(s) + Len(t)
         /\ \A i \in 1..Len(s) : (s \o t)[i] = s[i]
         /\ \A i \in 1..Len(t) : (s \o t)[Len(s) + i] = t[i]
<1> DEFINE w == s \o t
<1>1. /\ w \in Seq(C) /\ Len(w) = Len(s) + Len(t)
      /\ \A i \in 1 .. Len(s) + Len(t) : w[i] = IF i <= Len(s) THEN s[i] ELSE t[i - Len(s)]
  BY ConcatProperties
<1>2. Len(s) \in Nat /\ Len(t) \in Nat
  OBVIOUS
<1> HIDE DEF w
<1>3. \A i \in 1..Len(s) : w[i] = s[i]
  BY <1>1, <1>2
<1>4. ASSUME NEW i \in 1..Len(t) PROVE w[Len(s) + i] = t[i]
  <2>1. Len(s) + i \in 1..(Len(s) + Len(t)) /\ ~(Len(s) + i <= Len(s)) /\ (Len(s) + i) - Len(s) = i
    BY <1>2
  <2> QED BY <1>1, <2>1
<1> QED BY <1>1, <1>3, <1>4 DEF w

\* A longer sequence begins with the shorter one.
LEMMA Extended ==
  ASSUME NEW E, NEW t \in Seq(E), NEW d \in E, NEW w \in Seq(E)
  PROVE  /\ \A i \in 1..Len(t) : i \in DOMAIN Append(t, d) /\ Append(t, d)[i] = t[i]
         /\ \A i \in 1..Len(t) : i \in DOMAIN (t \o w) /\ (t \o w)[i] = t[i]
<1>1. \A i \in 1..Len(t) : i \in DOMAIN Append(t, d) /\ Append(t, d)[i] = t[i]
  OBVIOUS
<1> DEFINE x == t \o w
<1>2. x \in Seq(E) /\ Len(x) = Len(t) + Len(w) /\ \A i \in 1..Len(t) : x[i] = t[i]
  BY ConcatParts
<1>3. Len(t) \in Nat /\ Len(w) \in Nat
  OBVIOUS
<1> HIDE DEF x
<1>4. \A i \in 1..Len(t) : i \in DOMAIN x
  BY <1>2, <1>3
<1> QED BY <1>1, <1>2, <1>4 DEF x

\* An identifier that is accepted holds letters only.
LEMMA IdentifierAccepted ==
  ASSUME NEW w \in Seq(Letter \cup {Nul}), IdentifierError(w) = "none"
  PROVE  w \in Seq(Letter)
<1>1. \A i \in DOMAIN w : w[i] \in Letter
  BY DEF IdentifierError
<1>2. Len(w) \in Nat /\ DOMAIN w = 1..Len(w) /\ w = [i \in 1..Len(w) |-> w[i]]
  OBVIOUS
<1>3. w \in [1..Len(w) -> Letter]
  BY <1>1, <1>2
<1> QED BY <1>2, <1>3, SeqDef

\* What a constructor builds from a document it accepts.
LEMMA PolicyBuilt ==
  ASSUME NEW doc \in Document, Accepted(doc)
  PROVE  PolicyOK(Policy(doc))
<1>1. doc.period \in Nat /\ Milli \in Nat \ {0}
  BY PoliciesAssumption DEF Document
<1>2. doc.period \div Milli \in Nat
  BY <1>1, QuotientBounds
<1>3. IdentifierError(doc.id) = "none" /\ IdentifierError(doc.scope) = "none"
  <2> DEFINE a == IdentifierError(doc.id)
  <2> DEFINE b == IdentifierError(doc.scope)
  <2> DEFINE c == CapacityError(doc.quota)
  <2> DEFINE d == QuotaPeriodError(doc.period)
  <2> DEFINE e == CapacityError(doc.burst)
  <2>1. PolicyErrors(doc) = IF doc.algorithm = "fixed" THEN Append(<<a, b, c>>, d)
                            ELSE <<a, b, c>> \o <<e, d>>
    BY DEF PolicyErrors
  <2> HIDE DEF a, b, c, d, e
  <2>2. /\ 1 \in DOMAIN PolicyErrors(doc) /\ 2 \in DOMAIN PolicyErrors(doc)
        /\ PolicyErrors(doc)[1] = a /\ PolicyErrors(doc)[2] = b
    <3> DEFINE t == <<a, b, c>>
    <3> DEFINE E == {a, b, c, d, e}
    <3>3. t \in Seq(E) /\ Len(t) = 3 /\ t[1] = a /\ t[2] = b
      OBVIOUS
    <3>4. d \in E /\ <<e, d>> \in Seq(E)
      OBVIOUS
    <3> DEFINE w == <<e, d>>
    <3>5. PolicyErrors(doc) = IF doc.algorithm = "fixed" THEN Append(t, d) ELSE t \o w
      BY <2>1
    <3>0. w \in Seq(E)
      BY <3>4
    <3> HIDE DEF t, E, w
    <3>6. /\ \A i \in 1..3 : i \in DOMAIN Append(t, d) /\ Append(t, d)[i] = t[i]
          /\ \A i \in 1..3 : i \in DOMAIN (t \o w) /\ (t \o w)[i] = t[i]
      <4>1. /\ \A i \in 1..Len(t) : i \in DOMAIN Append(t, d) /\ Append(t, d)[i] = t[i]
            /\ \A i \in 1..Len(t) : i \in DOMAIN (t \o w) /\ (t \o w)[i] = t[i]
        <5>1. t \in Seq(E) /\ d \in E /\ w \in Seq(E)
          BY <3>0, <3>3, <3>4
        <5> QED BY <5>1, Extended
      <4> QED BY <3>3, <4>1
    <3>1. CASE doc.algorithm = "fixed"
      BY <3>1, <3>3, <3>5, <3>6
    <3>2. CASE doc.algorithm # "fixed"
      BY <3>2, <3>3, <3>5, <3>6
    <3> QED BY <3>1, <3>2
  <2> QED BY <2>2 DEF Accepted, a, b
<1>4. doc.id \in Seq(Letter) /\ doc.scope \in Seq(Letter)
  BY <1>3, IdentifierAccepted DEF Document
<1> QED BY <1>2, <1>4 DEF PolicyOK, Policy, Document

\* Every layer that can be deployed carries a well-formed policy.
LEMMA LayerFacts ==
  ASSUME NEW l \in Layers
  PROVE  /\ PolicyOK(l.policy) /\ l.digested \in BOOLEAN
         /\ \A x, y \in Raw : HashFor(l.policy, x) # y
<1>1. PICK s \in Stacks : /\ Deployable(s)
                         /\ \E i \in DOMAIN s.docs :
                               l = [policy |-> Policy(s.docs[i]), digested |-> s.digested]
  BY DEF Layers
<1>2. PICK i \in DOMAIN s.docs : l = [policy |-> Policy(s.docs[i]), digested |-> s.digested]
  BY <1>1
<1>3. s.docs[i] \in Document /\ Accepted(s.docs[i])
  BY <1>1, <1>2, AxumAssumption DEF Deployable
<1>4. l.policy = Policy(s.docs[i]) /\ l.digested = s.digested
  BY <1>2
<1> QED BY <1>2, <1>3, <1>4, PolicyBuilt, AxumAssumption

\* A deployed stack is well formed.
LEMMA StackBuilt ==
  ASSUME NEW s \in Stacks, Deployable(s)
  PROVE  StackOK(Built(s))
<1> DEFINE d == s.docs
<1>1. d \in Seq(Document) /\ Len(d) > 0
  BY AxumAssumption
<1>2. Len(d) \in Nat \ {0} /\ DOMAIN d = 1..Len(d)
  BY <1>1
<1>3. Built(s) = [i \in 1..Len(d) |-> [policy |-> Policy(d[i]), digested |-> s.digested]]
  BY <1>2 DEF Built
<1>4. \A i \in 1..Len(d) : [policy |-> Policy(d[i]), digested |-> s.digested] \in Layers
  BY <1>2 DEF Layers
<1> HIDE DEF d
<1> DEFINE b == [i \in 1..Len(d) |-> [policy |-> Policy(d[i]), digested |-> s.digested]]
<1>5. DOMAIN b = 1..Len(d) /\ Len(b) = Len(d)
  BY <1>2, LenProperties
<1>6. \A i \in 1..Len(d) : b[i] \in Layers
  BY <1>4
<1> HIDE DEF b
<1>7. StackOK(b)
  BY <1>2, <1>5, <1>6 DEF StackOK
<1> QED BY <1>3, <1>7 DEF b

----------------------------------------------------------------------------
(* Preservation of the invariant                                           *)

\* A request that has not begun is well formed and has no future.
LEMMA IdleOK == RequestOK(Idle) /\ Idle.at \notin Running
BY DEF Idle, RequestOK, Running, IsFuture

\* The invariant holds initially.
LEMMA InitInv == ASSUME Init PROVE Inv
<1>1. Shape
  BY AxumAssumption DEF Init, Shape
<1>2. StacksInv
  BY StackBuilt DEF Init, StacksInv
<1>3. RequestsInv
  BY IdleOK DEF Init, RequestsInv
<1>4. Ready = {} /\ Permitted = {}
  BY DEF Init, Ready, Permitted, Idle
<1>5. Balanced
  BY <1>4, FS_EmptySet, AxumAssumption DEF Init, Balanced
<1> QED BY <1>1, <1>2, <1>3, <1>5 DEF Inv

\* PollReady preserves the invariant.
LEMMA PollReadyInv ==
  ASSUME Inv, NEW c \in Connection, PollReady(c)
  PROVE  Inv'
<1>1. Shape'
  BY DEF Inv, Shape, PollReady
<1>2. StacksInv' /\ RequestsInv'
  BY DEF Inv, StacksInv, RequestsInv, PollReady
<1>3. c \notin Ready /\ Ready' = Ready \cup {c}
  BY DEF Ready, PollReady, Inv, Shape
<1>4. Permitted' = Permitted
  BY DEF Permitted, PollReady
<1>5. Cardinality(Ready') = Cardinality(Ready) + 1
  BY <1>3, OneMore, HolderFacts
<1>6. free' = free - 1
  BY DEF PollReady
<1>7. Balanced'
  BY <1>4, <1>5, <1>6, HolderFacts DEF Inv, Balanced, Shape
<1> QED BY <1>1, <1>2, <1>7 DEF Inv

\* Call preserves the invariant.
LEMMA CallInv ==
  ASSUME Inv, NEW c \in Connection, NEW r \in Request, NEW raw \in Raw, Call(c, r, raw)
  PROVE  Inv'
<1> DEFINE q == [Idle EXCEPT !.at = "called", !.layer = 1, !.stack = stack[c], !.raw = raw,
                             !.permit = Taken(ready[c]).future]
<1>0. ready[c] = TRUE /\ Taken(ready[c]).future = TRUE /\ Taken(ready[c]).kept = FALSE
  BY DEF Call, Taken, Inv, Shape
<1>1. /\ q.at = "called" /\ q.layer = 1 /\ q.stack = stack[c] /\ q.permit = TRUE /\ q.raw = raw
      /\ q.admissions = <<>> /\ q.outcomes = <<>>
      /\ IsFuture(q)
  BY <1>0, IdleOK DEF Idle, RequestOK, IsFuture
<1>2. request' = [request EXCEPT ![r] = q] /\ ready' = [ready EXCEPT ![c] = FALSE]
      /\ UNCHANGED <<stack, free>> /\ request[r].at \notin Running
  BY <1>0 DEF Call, Running
<1> HIDE DEF q
<1>3. RecordsOK(q)
  BY <1>1, EmptySequence DEF RecordsOK, Passed
<1>4. RequestOK(q)
  <2>1. StackOK(q.stack)
    BY <1>1 DEF Inv, StacksInv
  <2>2. q.layer \in 1..Len(q.stack)
    BY <1>1, <2>1 DEF StackOK
  <2> QED BY <1>1, <1>3, <2>1, <2>2 DEF RequestOK, Running
<1>5. Shape' /\ StacksInv'
  BY <1>2 DEF Inv, Shape, StacksInv
<1>6. RequestsInv'
  BY <1>2, <1>4 DEF Inv, Shape, RequestsInv
<1>7. c \in Ready /\ Ready' = Ready \ {c}
  BY <1>0, <1>2 DEF Ready, Inv, Shape
<1>8. r \notin Permitted /\ Permitted' = Permitted \cup {r}
  <2>1. ~request[r].permit
    BY <1>2 DEF Inv, RequestsInv, RequestOK
  <2>2. DOMAIN request = Request
    BY DEF Inv, Shape
  <2> QED BY <1>1, <1>2, <2>1, <2>2 DEF Permitted
<1>9. Cardinality(Ready') = Cardinality(Ready) - 1 /\ Cardinality(Permitted') = Cardinality(Permitted) + 1
  BY <1>7, <1>8, OneMore, OneLess, HolderFacts
<1>10. Balanced'
  BY <1>2, <1>9, HolderFacts DEF Inv, Balanced, Shape
<1> QED BY <1>5, <1>6, <1>10 DEF Inv

\* Deploy preserves the invariant.
LEMMA DeployInv ==
  ASSUME Inv, NEW c \in Connection, NEW s \in Stacks, Deploy(c, s)
  PROVE  Inv'
<1>1. stack' = [stack EXCEPT ![c] = Built(s)] /\ ready' = [ready EXCEPT ![c] = FALSE]
      /\ free' = free + Returned(ready[c]) /\ request' = request
  BY DEF Deploy
<1>2. StacksInv'
  BY <1>1, StackBuilt DEF Inv, Shape, StacksInv, Deploy
<1>3. RequestsInv' /\ Permitted' = Permitted
  BY <1>1 DEF Inv, RequestsInv, Permitted
<1>4. CASE ready[c]
  <2>1. free' = free + 1
    BY <1>1, <1>4 DEF Returned
  <2>2. c \in Ready /\ Ready' = Ready \ {c}
    BY <1>1, <1>4 DEF Ready, Inv, Shape
  <2>3. Cardinality(Ready') = Cardinality(Ready) - 1
    BY <2>2, OneLess, HolderFacts
  <2>4. Shape'
    BY <1>1, <2>1 DEF Inv, Shape
  <2>5. Balanced'
    BY <1>3, <2>1, <2>3, HolderFacts DEF Inv, Balanced, Shape
  <2> QED BY <1>2, <1>3, <2>4, <2>5 DEF Inv
<1>5. CASE ~ready[c]
  <2>1. free' = free
    BY <1>1, <1>5 DEF Returned, Inv, Shape
  <2>2. Ready' = Ready
    BY <1>1, <1>5 DEF Ready, Inv, Shape
  <2>4. Shape'
    BY <1>1, <2>1 DEF Inv, Shape
  <2>5. Balanced'
    BY <1>3, <2>1, <2>2 DEF Inv, Balanced
  <2> QED BY <1>2, <1>3, <2>4, <2>5 DEF Inv
<1> QED BY <1>4, <1>5

\* An answer is not a running request.
LEMMA AnswerInv ==
  ASSUME Inv, NEW r \in Request, request[r].at \in Running, NEW response, Answer(r, response),
         UNCHANGED <<stack, ready>>
  PROVE  Inv'
<1> DEFINE q == [Idle EXCEPT !.at = "answered", !.response = response]
<1>1. RequestOK(q) /\ q.at \notin Running
  <2>2. IsFuture(q) /\ q.at = "answered" /\ q.permit = FALSE
    BY DEF Idle, IsFuture
  <2> HIDE DEF q
  <2> QED BY <2>2 DEF RequestOK, Running
<1>2. request' = [request EXCEPT ![r] = q] /\ free' = free + Returned(request[r].permit)
  BY DEF Answer
<1> HIDE DEF q
<1> QED BY <1>1, <1>2, FutureEnds

\* Extract preserves the invariant.
LEMMA ExtractInv ==
  ASSUME Inv, NEW r \in Request, Extract(r)
  PROVE  Inv'
<1>0. request[r].at = "called" /\ UNCHANGED <<stack, ready>> /\ RequestOK(request[r])
  BY DEF Extract, Inv, RequestsInv
<1>1. CASE Answer(r, [kind |-> "Key", sent |-> <<>>])
  <2>1. request[r].at \in Running
    BY <1>0 DEF Running
  <2> QED BY <1>0, <1>1, <2>1, AnswerInv
<1>2. CASE /\ request' = [request EXCEPT ![r] =
                            [@ EXCEPT !.at = "checking",
                                      !.subject = SubjectKey(LayerOf(r), request[r].raw)]]
           /\ UNCHANGED free
  <2> DEFINE o == request[r]
  <2> DEFINE w == SubjectKey(LayerOf(r), request[r].raw)
  <2> DEFINE q == [o EXCEPT !.at = "checking", !.subject = w]
  <2>1. request' = [request EXCEPT ![r] = q]
    BY <1>2
  <2>2. /\ q.at = "checking" /\ q.layer = o.layer /\ q.stack = o.stack /\ q.permit = o.permit
        /\ q.raw = o.raw /\ q.subject = SubjectKey(o.stack[o.layer], o.raw)
        /\ q.admissions = o.admissions /\ q.outcomes = o.outcomes
        /\ IsFuture(q)
    <3>1. IsFuture(o)
      BY <1>0 DEF RequestOK
    <3>2. w = SubjectKey(o.stack[o.layer], o.raw)
      BY DEF LayerOf
    <3> HIDE DEF w, o
    <3> QED BY <3>1, <3>2 DEF IsFuture
  <2> HIDE DEF q
  <2>3. Passed(q) = Passed(o)
    BY <1>0, <2>2 DEF Passed
  <2>4. RecordsOK(q)
    BY <1>0, <2>2, <2>3 DEF RequestOK, RecordsOK, Running
  <2>5. RequestOK(q) /\ q.at \in Running /\ o.at \in Running
    BY <1>0, <2>2, <2>4 DEF RequestOK, Running
  <2> QED BY <1>0, <1>2, <2>1, <2>5, FutureGoesOn
<1> QED BY <1>1, <1>2 DEF Extract

\* Only a policy in shadow mode yields a shadowed denial.
LEMMA ShadowedByMode ==
  ASSUME NEW table, NEW k, NEW p, NEW at, Verdict(table, k, p, at).decision.outcome = "shadow_denied"
  PROVE  p.mode = "Shadow"
<1>1. CASE Crowded(table, k, p)
  BY <1>1 DEF Verdict, StorageDenied, Decision
<1>2. CASE ~Crowded(table, k, p)
  <2> DEFINE e == Evaluate(p, Entry(table, k), 1, at)
  <2>1. e.decision.outcome = "shadow_denied"
    BY <1>2 DEF Verdict
  <2>2. \A b, d : Allowed(b, d, at).outcome = "allowed"
    BY DEF Allowed, Decision
  <2> QED BY <2>1 DEF Evaluate, Allowed, QuotaDenied, Decision
<1> QED BY <1>1, <1>2

\* A layer admits the request: it is recorded, and the next layer or the handler
\* is called with the instance the future holds.
LEMMA AdmittedOK ==
  ASSUME NEW o, RequestOK(o), o.at = "checking", NEW d, NEW told,
         LetThrough(d, o.stack[o.layer].policy),
         NEW p, p = o.stack[o.layer].policy,
         NEW n, n = [o EXCEPT !.admissions = Recorded(o.admissions, Admission(p, d, told)),
                              !.outcomes = Append(o.outcomes, [policy |-> p, decision |-> d])]
  PROVE  RequestOK(Descend(n)) /\ Descend(n).at \in Running
<1> DEFINE a == Admission(p, d, told)
<1> DEFINE w == [policy |-> p, decision |-> d]
<1>1. /\ IsSequence(o.admissions) /\ IsSequence(o.outcomes)
      /\ Len(o.admissions) = o.layer - 1 /\ Len(o.outcomes) = o.layer - 1
      /\ StackOK(o.stack) /\ o.layer \in 1..Len(o.stack) /\ o.permit = TRUE /\ IsFuture(o)
      /\ Passed(o) = o.layer - 1 /\ RecordsOK(o) /\ o.raw \in Raw
  BY DEF RequestOK, RecordsOK, Running, Passed
<1>2. /\ a.id = p.id /\ a.scope = p.scope /\ a.fingerprint = Fingerprint(p) /\ a.decision = d
      /\ w.policy = p /\ w.decision = d
  BY DEF Admission
<1>3. n = [o EXCEPT !.admissions = Append(o.admissions, a), !.outcomes = Append(o.outcomes, w)]
  BY <1>1 DEF Recorded, IsFuture
<1> HIDE DEF a, w
<1> DEFINE x == Append(o.admissions, a)
<1> DEFINE y == Append(o.outcomes, w)
<1>4. /\ IsSequence(x) /\ Len(x) = o.layer
      /\ \A i \in 1..(o.layer - 1) : x[i] = o.admissions[i]
      /\ x[o.layer] = a
  <2>1. Len(o.admissions) + 1 = o.layer
    BY <1>1 DEF StackOK
  <2> QED BY <1>1, <2>1, Appended
<1>5. /\ IsSequence(y) /\ Len(y) = o.layer
      /\ \A i \in 1..(o.layer - 1) : y[i] = o.outcomes[i]
      /\ y[o.layer] = w
  <2>1. Len(o.outcomes) + 1 = o.layer
    BY <1>1 DEF StackOK
  <2> QED BY <1>1, <2>1, Appended
<1> HIDE DEF x, y
<1>6. /\ n.at = "checking" /\ n.layer = o.layer /\ n.stack = o.stack /\ n.permit = TRUE /\ n.raw = o.raw
      /\ n.admissions = x /\ n.outcomes = y /\ IsFuture(n)
  BY <1>1, <1>3 DEF x, y, IsFuture
<1>7. \A i \in 1..o.layer :
        /\ y[i].policy = o.stack[i].policy
        /\ x[i].decision = y[i].decision
        /\ x[i].id = o.stack[i].policy.id
        /\ x[i].scope = o.stack[i].policy.scope
        /\ x[i].fingerprint = Fingerprint(o.stack[i].policy)
        /\ LetThrough(y[i].decision, o.stack[i].policy)
  <2> SUFFICES ASSUME NEW i \in 1..o.layer
               PROVE  /\ y[i].policy = o.stack[i].policy
                      /\ x[i].decision = y[i].decision
                      /\ x[i].id = o.stack[i].policy.id
                      /\ x[i].scope = o.stack[i].policy.scope
                      /\ x[i].fingerprint = Fingerprint(o.stack[i].policy)
                      /\ LetThrough(y[i].decision, o.stack[i].policy)
    OBVIOUS
  <2>1. CASE i = o.layer
    BY <1>2, <1>4, <1>5, <2>1
  <2>2. CASE i # o.layer
    <3>1. i \in 1..(o.layer - 1)
      BY <1>1, <2>2 DEF StackOK
    <3> QED BY <1>1, <1>4, <1>5, <3>1 DEF RecordsOK
  <2> QED BY <2>1, <2>2
<1> DEFINE q == Descend(n)
<1>8. CASE o.layer = Len(o.stack)
  <2>1. q = [n EXCEPT !.at = "handling"]
    BY <1>6, <1>8 DEF Descend
  <2> HIDE DEF q
  <2>2. /\ q.at = "handling" /\ q.layer = o.layer /\ q.stack = o.stack /\ q.permit = TRUE /\ q.raw = o.raw
        /\ q.admissions = x /\ q.outcomes = y /\ IsFuture(q)
    BY <1>6, <2>1 DEF IsFuture
  <2> HIDE DEF q
  <2>3. Passed(q) = o.layer
    BY <2>2 DEF Passed
  <2>4. RecordsOK(q)
    BY <1>4, <1>5, <1>7, <2>2, <2>3 DEF RecordsOK
  <2>5. RequestOK(q) /\ q.at \in Running
    BY <1>1, <1>8, <2>2, <2>4 DEF RequestOK, Running
  <2> QED BY <2>5 DEF q
<1>9. CASE o.layer # Len(o.stack)
  <2>1. q = [n EXCEPT !.at = "called", !.layer = n.layer + 1, !.permit = n.permit]
    BY <1>6, <1>9 DEF Descend, Taken, IsFuture
  <2> HIDE DEF q
  <2>2. /\ q.at = "called" /\ q.layer = o.layer + 1 /\ q.stack = o.stack /\ q.permit = TRUE /\ q.raw = o.raw
        /\ q.admissions = x /\ q.outcomes = y /\ IsFuture(q)
    BY <1>6, <2>1 DEF IsFuture
  <2> HIDE DEF q
  <2>3. Passed(q) = o.layer
    BY <1>1, <2>2 DEF Passed, StackOK
  <2>4. RecordsOK(q)
    BY <1>4, <1>5, <1>7, <2>2, <2>3 DEF RecordsOK
  <2>5. q.layer \in 1..Len(q.stack)
    BY <1>1, <1>9, <2>2 DEF StackOK
  <2>6. RequestOK(q) /\ q.at \in Running
    BY <1>1, <2>2, <2>4, <2>5 DEF RequestOK, Running
  <2> QED BY <2>6 DEF q
<1> QED BY <1>8, <1>9

\* Check preserves the invariant.
LEMMA CheckInv ==
  ASSUME Inv, NEW r \in Request, Check(r)
  PROVE  Inv'
<1> DEFINE o == request[r]
<1> DEFINE p == Layer(r)
<1> DEFINE v == Verdict(counters, KeyOf(r), p, now)
<1> DEFINE told == Told(p, KeyOf(r), v.decision)
<1>0. o.at = "checking" /\ RequestOK(o) /\ UNCHANGED <<stack, ready>> /\ o.at \in Running
  BY DEF Check, Inv, RequestsInv, Running
<1>1. CASE Admits(v.decision)
  <2> DEFINE n == [o EXCEPT !.admissions = Recorded(o.admissions, Admission(p, v.decision, told)),
                            !.outcomes = Append(o.outcomes, [policy |-> p, decision |-> v.decision])]
  <2>1. request' = [request EXCEPT ![r] = Descend(n)] /\ free' = free
    BY <1>1 DEF Check
  <2>2. p = o.stack[o.layer].policy
    BY DEF Layer, LayerOf
  <2>3. LetThrough(v.decision, o.stack[o.layer].policy)
    BY <1>1, <2>2, ShadowedByMode DEF Admits, LetThrough
  <2>4. RequestOK(Descend(n)) /\ Descend(n).at \in Running
    <3> DEFINE d == v.decision
    <3>1. LetThrough(d, o.stack[o.layer].policy)
      BY <2>3
    <3>2. n = [o EXCEPT !.admissions = Recorded(o.admissions, Admission(p, d, told)),
                        !.outcomes = Append(o.outcomes, [policy |-> p, decision |-> d])]
      OBVIOUS
    <3> HIDE DEF n, d, told, p, v, o
    <3> QED BY <1>0, <2>2, <3>1, <3>2, AdmittedOK
  <2> HIDE DEF n
  <2> QED BY <1>0, <2>1, <2>4, FutureGoesOn
<1>2. CASE ~Admits(v.decision)
  <2>1. Answer(r, [kind |-> "Denied", sent |-> <<told>>])
    BY <1>2 DEF Check
  <2> HIDE DEF told
  <2> QED BY <1>0, <2>1, AnswerInv
<1> QED BY <1>1, <1>2

\* Every step preserves the invariant.
LEMMA StepInv ==
  ASSUME Inv, [Next]_vars
  PROVE  Inv'
<1>1. ASSUME NEW c \in Connection, PollReady(c) PROVE Inv'
  BY <1>1, PollReadyInv
<1>2. ASSUME NEW c \in Connection, NEW r \in Request, NEW raw \in Raw, Call(c, r, raw) PROVE Inv'
  BY <1>2, CallInv
<1>3. ASSUME NEW c \in Connection, NEW s \in Stacks, Deploy(c, s) PROVE Inv'
  BY <1>3, DeployInv
<1>4. ASSUME NEW r \in Request, Extract(r) PROVE Inv'
  BY <1>4, ExtractInv
<1>5. ASSUME NEW r \in Request, Check(r) PROVE Inv'
  BY <1>5, CheckInv
<1>6. ASSUME NEW r \in Request, BackendFails(r) PROVE Inv'
  <2>1. request[r].at \in Running /\ UNCHANGED <<stack, ready>>
        /\ Answer(r, [kind |-> "Backend", sent |-> <<>>])
    BY <1>6 DEF BackendFails, Running
  <2> QED BY <2>1, AnswerInv
<1>7. ASSUME NEW r \in Request, Handle(r) PROVE Inv'
  <2> DEFINE response == [kind |-> "Handled",
                          sent |-> [i \in DOMAIN request[r].admissions |-> request[r].admissions[i].told]]
  <2>1. request[r].at \in Running /\ UNCHANGED <<stack, ready>> /\ Answer(r, response)
    BY <1>7 DEF Handle, Running
  <2> HIDE DEF response
  <2> QED BY <2>1, AnswerInv
<1>8. ASSUME NEW r \in Request, Disconnect(r) PROVE Inv'
  <2>1. /\ request[r].at \in Running /\ UNCHANGED <<stack, ready>>
        /\ free' = free + Returned(request[r].permit) /\ request' = [request EXCEPT ![r] = Idle]
    BY <1>8 DEF Disconnect, Running
  <2> QED BY <2>1, IdleOK, FutureEnds
<1>9. CASE UNCHANGED <<stack, ready, free, request>>
  BY <1>9 DEF Inv, Shape, StacksInv, RequestsInv, Balanced, Ready, Permitted
<1>10. Tick \/ UNCHANGED vars => UNCHANGED <<stack, ready, free, request>>
  BY DEF Tick, vars
<1> QED BY <1>1, <1>2, <1>3, <1>4, <1>5, <1>6, <1>7, <1>8, <1>9, <1>10 DEF Next

----------------------------------------------------------------------------
(* Digests                                                                 *)

\* Sequences with a common beginning go on alike.
LEMMA CommonPrefix ==
  ASSUME NEW C, NEW s \in Seq(C), NEW t \in Seq(C), NEW u \in Seq(C), s \o t = s \o u
  PROVE  Len(t) = Len(u) /\ \A i \in 1..Len(t) : t[i] = u[i]
<1> DEFINE v == s \o t
<1> DEFINE w == s \o u
<1>1. /\ Len(v) = Len(s) + Len(t)
      /\ \A i \in 1 .. Len(s) + Len(t) : v[i] = IF i <= Len(s) THEN s[i] ELSE t[i - Len(s)]
  BY ConcatProperties
<1>2. /\ Len(w) = Len(s) + Len(u)
      /\ \A i \in 1 .. Len(s) + Len(u) : w[i] = IF i <= Len(s) THEN s[i] ELSE u[i - Len(s)]
  BY ConcatProperties
<1>3. v = w /\ Len(s) \in Nat /\ Len(t) \in Nat /\ Len(u) \in Nat
  OBVIOUS
<1> HIDE DEF v, w
<1>4. Len(t) = Len(u)
  BY <1>1, <1>2, <1>3
<1>5. ASSUME NEW i \in 1..Len(t) PROVE t[i] = u[i]
  <2>1. /\ Len(s) + i \in 1..(Len(s) + Len(t)) /\ ~(Len(s) + i <= Len(s))
        /\ (Len(s) + i) - Len(s) = i
    BY <1>3
  <2> QED BY <1>1, <1>2, <1>3, <1>4, <2>1
<1> QED BY <1>4, <1>5

\* A field followed by its terminator can be read back.
LEMMA Terminated ==
  ASSUME NEW C, NEW a \in Seq(C), NEW z \in C, NEW x, x = a \o <<z>>
  PROVE  x \in Seq(C) /\ Len(x) = Len(a) + 1 /\ x[Len(a) + 1] = z /\ \A i \in 1..Len(a) : x[i] = a[i]
OBVIOUS

\* Concatenation as an operator of its own, for reasoning that needs no more of it
\* than its associativity.
Cat(s, t) == s \o t

\* Concatenation of the fields of a digest is associative.
LEMMA CatAssociative ==
  ASSUME NEW C
  PROVE  \A r, s, t \in Seq(C) : Cat(Cat(r, s), t) = Cat(r, Cat(s, t))
BY ConcatAssociative DEF Cat

\* An identifier of letters L with its terminator.
Marked(x, a, L, z) == a \in Seq(L) /\ x = a \o <<z>>

\* A terminator that is no letter marks where an identifier ends.
LEMMA SplitAtTerminator ==
  ASSUME NEW C, NEW L \in SUBSET C, NEW z \in C, z \notin L,
         NEW u \in Seq(C), NEW v \in Seq(C), NEW x, NEW a, NEW y, NEW b,
         Marked(x, a, L, z), Marked(y, b, L, z), Cat(x, u) = Cat(y, v)
  PROVE  a = b /\ u = v
<1>1. x = a \o <<z>> /\ y = b \o <<z>>
  BY DEF Marked
<1>2. a \in Seq(C) /\ b \in Seq(C) /\ Len(a) \in Nat /\ Len(b) \in Nat
      /\ (\A i \in 1..Len(a) : a[i] \in L) /\ \A i \in 1..Len(b) : b[i] \in L
  BY DEF Marked
<1>5. x \o u = y \o v
  BY DEF Cat
<1>3. x \in Seq(C) /\ Len(x) = Len(a) + 1 /\ x[Len(a) + 1] = z /\ \A i \in 1..Len(a) : x[i] = a[i]
  BY <1>1, <1>2, Terminated
<1>4. y \in Seq(C) /\ Len(y) = Len(b) + 1 /\ y[Len(b) + 1] = z /\ \A i \in 1..Len(b) : y[i] = b[i]
  BY <1>1, <1>2, Terminated
<1> DEFINE w == x \o u
<1>6. (\A i \in 1..Len(x) : w[i] = x[i]) /\ \A i \in 1..Len(y) : w[i] = y[i]
  BY <1>3, <1>4, <1>5, ConcatParts
<1> HIDE DEF w
<1>7. ~(Len(a) < Len(b)) /\ ~(Len(b) < Len(a))
  <2>1. ASSUME Len(a) < Len(b) PROVE FALSE
    <3>1. Len(a) + 1 \in 1..Len(b) /\ Len(a) + 1 \in 1..Len(x) /\ Len(a) + 1 \in 1..Len(y)
      BY <1>2, <1>3, <1>4, <2>1
    <3> QED BY <1>2, <1>3, <1>4, <1>6, <3>1
  <2>2. ASSUME Len(b) < Len(a) PROVE FALSE
    <3>1. Len(b) + 1 \in 1..Len(a) /\ Len(b) + 1 \in 1..Len(x) /\ Len(b) + 1 \in 1..Len(y)
      BY <1>2, <1>3, <1>4, <2>2
    <3> QED BY <1>2, <1>3, <1>4, <1>6, <3>1
  <2> QED BY <2>1, <2>2
<1>8. Len(a) = Len(b)
  BY <1>2, <1>7
<1>9. \A i \in 1..Len(a) : a[i] = b[i]
  <2> TAKE i \in 1..Len(a)
  <2>1. i \in 1..Len(x) /\ i \in 1..Len(y) /\ i \in 1..Len(b)
    BY <1>2, <1>3, <1>4, <1>8
  <2> QED BY <1>3, <1>4, <1>6, <2>1
<1>10. a = b
  BY <1>2, <1>8, <1>9, SeqEqual
<1>11. x \o u = x \o v
  BY <1>1, <1>5, <1>10
<1>12. Len(u) = Len(v) /\ \A i \in 1..Len(u) : u[i] = v[i]
  BY <1>3, <1>11, CommonPrefix
<1> QED BY <1>10, <1>12, SeqEqual

\* What digests begin with: an identifier and a scope, each with its terminator.
Layout(id, scope, rest) == (((id \o <<Nul>>) \o scope) \o <<Nul>>) \o rest

\* Letters, and the numbers that stand for themselves.
Symbol == Letter \cup Nat

\* The parts of a digest can be told apart.
LEMMA TwoParts ==
  ASSUME NEW a \in Seq(Letter), NEW b \in Seq(Letter), NEW u \in Seq(Symbol),
         NEW c \in Seq(Letter), NEW d \in Seq(Letter), NEW v \in Seq(Symbol)
  PROVE  Layout(a, b, u) = Layout(c, d, v) => a = c /\ b = d /\ u = v
<1> DEFINE C == Symbol
<1> DEFINE L == Letter
<1> DEFINE z == Nul
<1>8. L \in SUBSET C /\ z \in C /\ z \notin L /\ u \in Seq(C) /\ v \in Seq(C)
      /\ a \in Seq(L) /\ b \in Seq(L) /\ c \in Seq(L) /\ d \in Seq(L)
  BY PoliciesAssumption DEF Nul, Symbol
<1> HIDE DEF C, L
<1> DEFINE n == <<z>>
<1>1. a \in Seq(C) /\ b \in Seq(C) /\ c \in Seq(C) /\ d \in Seq(C) /\ n \in Seq(C)
  BY <1>8
<1>2. SUFFICES Cat(Cat(Cat(Cat(a, n), b), n), u) = Cat(Cat(Cat(Cat(c, n), d), n), v)
                => a = c /\ b = d /\ u = v
  BY Zenon DEF Cat, Layout
<1>0. n = <<z>>
  OBVIOUS
<1> HIDE DEF n
<1>3. /\ \A s, t \in Seq(C) : Cat(s, t) \in Seq(C)
      /\ \A r, s, t \in Seq(C) : Cat(Cat(r, s), t) = Cat(r, Cat(s, t))
      /\ \A e, f \in Seq(L), p, q \in Seq(C) :
             Cat(Cat(e, n), p) = Cat(Cat(f, n), q) => e = f /\ p = q
  <2>1. \A s, t \in Seq(C) : Cat(s, t) \in Seq(C)
    BY DEF Cat
  <2>2. \A r, s, t \in Seq(C) : Cat(Cat(r, s), t) = Cat(r, Cat(s, t))
    BY CatAssociative
  <2>3. ASSUME NEW e \in Seq(L), NEW f \in Seq(L), NEW p \in Seq(C), NEW q \in Seq(C),
               Cat(Cat(e, n), p) = Cat(Cat(f, n), q)
        PROVE  e = f /\ p = q
    <3> DEFINE x == Cat(e, n)
    <3> DEFINE y == Cat(f, n)
    <3>1. Marked(x, e, L, z) /\ Marked(y, f, L, z)
      BY <1>0 DEF Cat, Marked
    <3>2. Cat(x, p) = Cat(y, q)
      BY <2>3
    <3> HIDE DEF x, y
    <3> HIDE DEF z
    <3> QED BY <1>8, <3>1, <3>2, SplitAtTerminator
  <2> QED BY <2>1, <2>2, <2>3
<1>4. ASSUME NEW s \in Seq(C), NEW t \in Seq(C), NEW w \in Seq(C)
      PROVE  /\ Cat(Cat(Cat(Cat(s, n), t), n), w) = Cat(Cat(s, n), Cat(Cat(t, n), w))
             /\ Cat(Cat(t, n), w) \in Seq(C)
  <2>1. Cat(s, n) \in Seq(C) /\ Cat(t, n) \in Seq(C) /\ Cat(Cat(t, n), w) \in Seq(C)
    BY <1>1, <1>3
  <2>2. Cat(Cat(Cat(s, n), t), n) = Cat(Cat(s, n), Cat(t, n))
    BY <1>1, <1>3, <2>1
  <2>3. Cat(Cat(Cat(s, n), Cat(t, n)), w) = Cat(Cat(s, n), Cat(Cat(t, n), w))
    BY <1>3, <2>1
  <2> QED BY <2>1, <2>2, <2>3
<1>7. SUFFICES ASSUME Cat(Cat(Cat(Cat(a, n), b), n), u) = Cat(Cat(Cat(Cat(c, n), d), n), v)
               PROVE  a = c /\ b = d /\ u = v
  OBVIOUS
<1>5. /\ Cat(Cat(a, n), Cat(Cat(b, n), u)) = Cat(Cat(c, n), Cat(Cat(d, n), v))
      /\ Cat(Cat(b, n), u) \in Seq(C) /\ Cat(Cat(d, n), v) \in Seq(C)
  BY <1>1, <1>4, <1>7, <1>8
<1>6. a = c /\ Cat(Cat(b, n), u) = Cat(Cat(d, n), v)
  BY <1>3, <1>5, <1>8
<1> QED BY <1>3, <1>6, <1>8

\* Equality of triples is equality of their parts.
LEMMA Triples ==
  ASSUME NEW a, NEW b, NEW c, NEW d, NEW e, NEW f
  PROVE  <<a, b, c>> = <<d, e, f>> <=> a = d /\ b = e /\ c = f
OBVIOUS

\* Equality of pairs is equality of their parts.
LEMMA Pairs ==
  ASSUME NEW a, NEW b, NEW c, NEW d
  PROVE  <<a, b>> = <<c, d>> <=> a = c /\ b = d
OBVIOUS

\* A fingerprint tells configurations apart, and nothing else.
LEMMA FingerprintTells ==
  ASSUME NEW p, NEW q, PolicyOK(p), PolicyOK(q)
  PROVE  Fingerprint(p) = Fingerprint(q) <=> Configuration(p) = Configuration(q)
<1>1. ASSUME Fingerprint(p) = Fingerprint(q)
      PROVE  Configuration(p) = Configuration(q)
  <2> DEFINE C == Symbol
  <2> DEFINE Rest(r) == IF r.algorithm = "fixed" THEN <<r.quota, r.period>>
                        ELSE <<r.quota, r.period, r.burst>>
  <2> DEFINE Digested(r) == Layout(r.id, r.scope, Rest(r))
  <2>1. Fingerprint(p) = <<p.algorithm, Digested(p)>> /\ Fingerprint(q) = <<q.algorithm, Digested(q)>>
    BY DEF Fingerprint, Layout
  <2>2. ASSUME NEW r, r.quota \in Nat, r.period \in Nat, r.burst \in Nat PROVE Rest(r) \in Seq(C)
    <3>1. \A a, b, c \in C : <<a, b>> \in Seq(C) /\ <<a, b, c>> \in Seq(C)
      OBVIOUS
    <3> QED BY <2>2, <3>1 DEF Symbol
  <2>3. Rest(p) \in Seq(C) /\ Rest(q) \in Seq(C)
    BY <2>2 DEF PolicyOK
  <2>5. p.algorithm = q.algorithm /\ Digested(p) = Digested(q)
    <3> HIDE DEF Digested
    <3>1. <<p.algorithm, Digested(p)>> = <<q.algorithm, Digested(q)>>
      BY <1>1, <2>1
    <3> QED BY <3>1, Pairs, Zenon
  <2> HIDE DEF Rest
  <2>6. p.id = q.id /\ p.scope = q.scope /\ Rest(p) = Rest(q)
    <3>1. /\ p.id \in Seq(Letter) /\ p.scope \in Seq(Letter)
          /\ q.id \in Seq(Letter) /\ q.scope \in Seq(Letter)
      BY DEF PolicyOK
    <3> QED BY <2>3, <2>5, <3>1, TwoParts
  <2>7. CASE p.algorithm = "fixed"
    <3>1. Rest(p) = <<p.quota, p.period>> /\ Rest(q) = <<q.quota, q.period>>
      BY <2>5, <2>7 DEF Rest
    <3>2. p.quota = q.quota /\ p.period = q.period
      <4>1. <<p.quota, p.period>> = <<q.quota, q.period>>
        BY <2>6, <3>1
      <4> QED BY <4>1, Pairs, Zenon
    <3> QED BY <2>5, <2>6, <2>7, <3>2 DEF Configuration, PolicyOK
  <2>8. CASE p.algorithm # "fixed"
    <3>1. Rest(p) = <<p.quota, p.period, p.burst>> /\ Rest(q) = <<q.quota, q.period, q.burst>>
      BY <2>5, <2>8 DEF Rest
    <3>2. p.quota = q.quota /\ p.period = q.period /\ p.burst = q.burst
      <4>1. <<p.quota, p.period, p.burst>> = <<q.quota, q.period, q.burst>>
        BY <2>6, <3>1
      <4> QED BY <4>1, Triples, Zenon
    <3> QED BY <2>5, <2>6, <3>2 DEF Configuration
  <2> QED BY <2>7, <2>8
<1>2. ASSUME Configuration(p) = Configuration(q)
      PROVE  Fingerprint(p) = Fingerprint(q)
  <2>1. /\ p.algorithm = q.algorithm /\ p.id = q.id /\ p.scope = q.scope /\ p.quota = q.quota
        /\ p.period = q.period /\ p.burst = q.burst
    BY <1>2 DEF Configuration
  <2> QED BY <2>1 DEF Fingerprint
<1> QED BY <1>1, <1>2

\* The counter of a subject at a layer, and what it should belong to.
CounterOf(l, raw) == CounterKey(l.policy, SubjectKey(l, raw))

Owner(l, raw) == <<Configuration(l.policy), raw, l.digested>>

\* The hash of a subject tells subjects of a policy apart.
LEMMA HashTells ==
  ASSUME NEW p, NEW q, PolicyOK(p), PolicyOK(q), NEW x \in Seq(Symbol), NEW y \in Seq(Symbol),
         HashFor(p, x) = HashFor(q, y)
  PROVE  x = y
<1>1. p.id \in Seq(Letter) /\ p.scope \in Seq(Letter) /\ q.id \in Seq(Letter) /\ q.scope \in Seq(Letter)
  BY DEF PolicyOK
<1>2. Layout(p.id, p.scope, x) = Layout(q.id, q.scope, y)
  BY Zenon DEF HashFor, Layout
<1> QED BY <1>1, <1>2, TwoParts

\* Counters have the same key exactly when they belong to the same configuration,
\* subject and kind of subject.
LEMMA KeysTell ==
  ASSUME NEW l \in Layers, NEW m \in Layers, NEW x \in Raw, NEW y \in Raw
  PROVE  CounterOf(l, x) = CounterOf(m, y) <=> Owner(l, x) = Owner(m, y)
<1> DEFINE p == l.policy
<1> DEFINE q == m.policy
<1>1. PolicyOK(p) /\ PolicyOK(q) /\ l.digested \in BOOLEAN /\ m.digested \in BOOLEAN
      /\ (\A v, w \in Raw : HashFor(p, v) # w) /\ \A v, w \in Raw : HashFor(q, v) # w
  BY LayerFacts
<1>2. Fingerprint(p) = Fingerprint(q) <=> Configuration(p) = Configuration(q)
  BY <1>1, FingerprintTells
<1>3. CounterOf(l, x) = CounterOf(m, y) <=>
        Fingerprint(p) = Fingerprint(q) /\ SubjectKey(l, x) = SubjectKey(m, y)
  BY Pairs, Zenon DEF CounterOf, CounterKey
<1>4. Owner(l, x) = Owner(m, y) <=>
        Configuration(p) = Configuration(q) /\ x = y /\ l.digested = m.digested
  BY Triples, Zenon DEF Owner
<1>5. HashFor(p, x) = HashFor(q, y) => x = y
  <2>2. x \in Seq(Symbol) /\ y \in Seq(Symbol)
    BY AxumAssumption, SeqMonotonic DEF Symbol, Nul
  <2> HIDE DEF p, q
  <2> QED BY <1>1, <2>2, HashTells
<1>6. p.id = q.id /\ p.scope = q.scope /\ x = y => HashFor(p, x) = HashFor(q, y)
  BY DEF HashFor
<1>7. Configuration(p) = Configuration(q) => p.id = q.id /\ p.scope = q.scope
  BY DEF Configuration
<1>8. SubjectKey(l, x) = (IF l.digested THEN x ELSE HashFor(p, x))
      /\ SubjectKey(m, y) = (IF m.digested THEN y ELSE HashFor(q, y))
  BY DEF SubjectKey
<1> HIDE DEF p, q
<1>9. ASSUME Configuration(p) = Configuration(q)
      PROVE  SubjectKey(l, x) = SubjectKey(m, y) <=> x = y /\ l.digested = m.digested
  BY <1>1, <1>5, <1>6, <1>7, <1>8, <1>9
<1> QED BY <1>2, <1>3, <1>4, <1>9

----------------------------------------------------------------------------
(* Counters                                                                *)

\* Two tables with the same counters, one by key and one by owner.
Mirror(T, U) ==
    /\ IsFiniteSet(DOMAIN T)
    /\ \A k \in DOMAIN T : \E l \in Layers, x \in Raw : k = CounterOf(l, x)
    /\ \A o \in DOMAIN U : \E l \in Layers, x \in Raw : o = Owner(l, x)
    /\ \A l \in Layers, x \in Raw :
        /\ CounterOf(l, x) \in DOMAIN T <=> Owner(l, x) \in DOMAIN U
        /\ CounterOf(l, x) \in DOMAIN T => T[CounterOf(l, x)] = U[Owner(l, x)]

\* Corresponding keys and owners are equally many.
LEMMA SameSize ==
  ASSUME NEW A, NEW B, IsFiniteSet(A),
         \A k \in A : \E l \in Layers, x \in Raw : k = CounterOf(l, x),
         \A o \in B : \E l \in Layers, x \in Raw : o = Owner(l, x),
         \A l \in Layers, x \in Raw : CounterOf(l, x) \in A <=> Owner(l, x) \in B
  PROVE  Cardinality(A) = Cardinality(B)
<1> DEFINE Match(k, o) == \E l \in Layers, x \in Raw : k = CounterOf(l, x) /\ o = Owner(l, x)
<1> DEFINE f == [k \in A |-> CHOOSE o \in B : Match(k, o)]
<1> DEFINE g == [o \in B |-> CHOOSE k \in A : Match(k, o)]
<1>1. \A k \in A : \E o \in B : Match(k, o)
  OBVIOUS
<1>2. \A o \in B : \E k \in A : Match(k, o)
  OBVIOUS
<1>3. \A k, j, o, p : Match(k, o) /\ Match(j, p) => (k = j <=> o = p)
  BY KeysTell
<1> HIDE DEF Match
<1>4. \A k \in A : f[k] \in B /\ Match(k, f[k])
  BY <1>1
<1>5. \A o \in B : g[o] \in A /\ Match(g[o], o)
  BY <1>2
<1>6. f \in [A -> B] /\ g \in [B -> A]
  BY <1>4, <1>5
<1> HIDE DEF f, g
<1>7. {f[k] : k \in A} = B
  <2>1. ASSUME NEW o \in B PROVE f[g[o]] = o
    BY <1>3, <1>4, <1>5
  <2> QED BY <1>4, <1>5, <2>1
<1>8. {g[o] : o \in B} = A
  <2>1. ASSUME NEW k \in A PROVE g[f[k]] = k
    BY <1>3, <1>4, <1>5
  <2> QED BY <1>4, <1>5, <2>1
<1>9. IsFiniteSet(B) /\ Cardinality(B) <= Cardinality(A)
  <2>1. IsFiniteSet({f[k] : k \in A}) /\ Cardinality({f[k] : k \in A}) <= Cardinality(A)
    BY <1>6, ImageBound, Zenon
  <2> QED BY <1>7, <2>1, Zenon
<1>10. Cardinality(A) <= Cardinality(B)
  <2>1. Cardinality({g[o] : o \in B}) <= Cardinality(B)
    BY <1>6, <1>9, ImageBound, Zenon
  <2> QED BY <1>8, <2>1, Zenon
<1>11. Cardinality(A) \in Nat /\ Cardinality(B) \in Nat
  BY <1>9, FS_CardinalityType
<1> QED BY <1>9, <1>10, <1>11

\* A limiter decides the same by either table.
LEMMA SameVerdict ==
  ASSUME NEW T, NEW U, Mirror(T, U), NEW l \in Layers, NEW x \in Raw, NEW p, NEW at
  PROVE  Verdict(T, CounterOf(l, x), p, at) = Verdict(U, Owner(l, x), p, at)
<1> DEFINE k == CounterOf(l, x)
<1> DEFINE o == Owner(l, x)
<1> DEFINE A == {j \in DOMAIN T : T[j].algorithm = p.algorithm}
<1> DEFINE B == {j \in DOMAIN U : U[j].algorithm = p.algorithm}
<1>1. \A m \in Layers, y \in Raw : CounterOf(m, y) \in A <=> Owner(m, y) \in B
  BY DEF Mirror
<1>2. Cardinality(A) = Cardinality(B)
  <2>1. IsFiniteSet(A)
    BY FS_Subset DEF Mirror
  <2>2. (\A j \in A : \E m \in Layers, y \in Raw : j = CounterOf(m, y))
        /\ \A j \in B : \E m \in Layers, y \in Raw : j = Owner(m, y)
    BY DEF Mirror
  <2> HIDE DEF A, B
  <2> QED BY <1>1, <2>1, <2>2, SameSize
<1>3. {T[j].expires : j \in A} = {U[j].expires : j \in B}
  <2>1. ASSUME NEW j \in A PROVE \E i \in B : U[i].expires = T[j].expires
    <3>1. PICK m \in Layers, y \in Raw : j = CounterOf(m, y)
      BY <2>1 DEF Mirror
    <3>2. Owner(m, y) \in B /\ T[j] = U[Owner(m, y)]
      BY <1>1, <2>1, <3>1 DEF Mirror
    <3> QED BY <3>2
  <2>2. ASSUME NEW i \in B PROVE \E j \in A : U[i].expires = T[j].expires
    <3>1. PICK m \in Layers, y \in Raw : i = Owner(m, y)
      BY <2>2 DEF Mirror
    <3>2. CounterOf(m, y) \in A /\ T[CounterOf(m, y)] = U[i]
      BY <1>1, <2>2, <3>1 DEF Mirror
    <3> QED BY <3>2
  <2> HIDE DEF A, B
  <2> QED BY <2>1, <2>2
<1>4. (k \in DOMAIN T <=> o \in DOMAIN U) /\ Entry(T, k) = Entry(U, o)
  BY DEF Mirror, Entry
<1>5. Crowded(T, k, p) <=> Crowded(U, o, p)
  BY <1>2, <1>4 DEF Crowded
<1>6. CrowdedDelay(T, p, at) = CrowdedDelay(U, p, at)
  BY <1>3 DEF CrowdedDelay
<1> HIDE DEF k, o
<1>7. Verdict(T, k, p, at) = Verdict(U, o, p, at)
  BY <1>4, <1>5, <1>6 DEF Verdict
<1> QED BY <1>7 DEF k, o

\* Charging corresponding counters alike keeps the tables alike.
LEMMA SameCharge ==
  ASSUME NEW T, NEW U, Mirror(T, U), NEW l \in Layers, NEW x \in Raw, NEW v
  PROVE  Mirror(Charge(T, CounterOf(l, x), v), Charge(U, Owner(l, x), v))
<1>1. CASE v.decision.outcome # "allowed"
  BY <1>1 DEF Charge
<1>2. CASE v.decision.outcome = "allowed"
  <2> DEFINE k == CounterOf(l, x)
  <2> DEFINE o == Owner(l, x)
  <2> DEFINE V == [j \in DOMAIN T \cup {k} |-> IF j = k THEN v.counter ELSE T[j]]
  <2> DEFINE W == [j \in DOMAIN U \cup {o} |-> IF j = o THEN v.counter ELSE U[j]]
  <2>1. Charge(T, k, v) = V /\ Charge(U, o, v) = W
    BY <1>2 DEF Charge
  <2>2. DOMAIN V = DOMAIN T \cup {k} /\ DOMAIN W = DOMAIN U \cup {o}
    OBVIOUS
  <2>3. IsFiniteSet(DOMAIN V)
    BY <2>2, FS_AddElement DEF Mirror
  <2>4. (\A j \in DOMAIN V : \E m \in Layers, y \in Raw : j = CounterOf(m, y))
        /\ \A j \in DOMAIN W : \E m \in Layers, y \in Raw : j = Owner(m, y)
    BY <2>2 DEF Mirror
  <2>5. ASSUME NEW m \in Layers, NEW y \in Raw
        PROVE  /\ CounterOf(m, y) \in DOMAIN V <=> Owner(m, y) \in DOMAIN W
               /\ CounterOf(m, y) \in DOMAIN V => V[CounterOf(m, y)] = W[Owner(m, y)]
    <3>1. CounterOf(m, y) = k <=> Owner(m, y) = o
      BY KeysTell
    <3>2. /\ CounterOf(m, y) \in DOMAIN T <=> Owner(m, y) \in DOMAIN U
          /\ CounterOf(m, y) \in DOMAIN T => T[CounterOf(m, y)] = U[Owner(m, y)]
      BY DEF Mirror
    <3> HIDE DEF k, o
    <3> QED BY <3>1, <3>2
  <2> HIDE DEF V, W
  <2>6. Mirror(V, W)
    BY <2>3, <2>4, <2>5 DEF Mirror
  <2> QED BY <2>1, <2>6
<1> QED BY <1>1, <1>2

\* So does forgetting what has expired.
LEMMA SameAlive ==
  ASSUME NEW T, NEW U, Mirror(T, U), NEW at
  PROVE  Mirror(Alive(T, at), Alive(U, at))
<1> DEFINE A == {k \in DOMAIN T : T[k].expires > at}
<1> DEFINE B == {k \in DOMAIN U : U[k].expires > at}
<1> DEFINE V == [k \in A |-> T[k]]
<1> DEFINE W == [k \in B |-> U[k]]
<1>1. Alive(T, at) = V /\ Alive(U, at) = W
  BY DEF Alive
<1>2. IsFiniteSet(DOMAIN V)
  BY FS_Subset DEF Mirror
<1>3. (\A j \in DOMAIN V : \E m \in Layers, y \in Raw : j = CounterOf(m, y))
      /\ \A j \in DOMAIN W : \E m \in Layers, y \in Raw : j = Owner(m, y)
  BY DEF Mirror
<1>4. ASSUME NEW m \in Layers, NEW y \in Raw
      PROVE  /\ CounterOf(m, y) \in DOMAIN V <=> Owner(m, y) \in DOMAIN W
             /\ CounterOf(m, y) \in DOMAIN V => V[CounterOf(m, y)] = W[Owner(m, y)]
  BY DEF Mirror
<1> HIDE DEF V, W
<1>5. Mirror(V, W)
  BY <1>2, <1>3, <1>4 DEF Mirror
<1> QED BY <1>1, <1>5

\* The counter a running request is about to be charged to.
LEMMA CheckedCounter ==
  ASSUME Inv, NEW r \in Request, request[r].at = "checking"
  PROVE  /\ LayerOf(r) \in Layers /\ request[r].raw \in Raw
         /\ KeyOf(r) = CounterOf(LayerOf(r), request[r].raw)
         /\ OwnerOf(r) = Owner(LayerOf(r), request[r].raw)
<1> DEFINE q == request[r]
<1>1. /\ StackOK(q.stack) /\ q.layer \in 1..Len(q.stack) /\ q.raw \in Raw
      /\ q.subject = SubjectKey(q.stack[q.layer], q.raw)
  BY DEF Inv, RequestsInv, RequestOK, Running
<1>2. LayerOf(r) \in Layers
  BY <1>1 DEF StackOK, LayerOf
<1> QED BY <1>1, <1>2 DEF KeyOf, OwnerOf, CounterOf, Owner, LayerOf, Layer

MirrorInv == Mirror(counters, ledger)

\* A check charges the counter and its owner alike.
LEMMA ChargedAlike ==
  ASSUME Inv, MirrorInv, NEW r \in Request, request[r].at = "checking",
         counters' = Charge(counters, KeyOf(r), Verdict(counters, KeyOf(r), Layer(r), now)),
         ledger' = Charge(ledger, OwnerOf(r), Verdict(ledger, OwnerOf(r), Layer(r), now))
  PROVE  MirrorInv'
<1> DEFINE l == LayerOf(r)
<1> DEFINE x == request[r].raw
<1> DEFINE v == Verdict(counters, KeyOf(r), Layer(r), now)
<1>1. l \in Layers /\ x \in Raw /\ KeyOf(r) = CounterOf(l, x) /\ OwnerOf(r) = Owner(l, x)
  BY CheckedCounter
<1>2. Verdict(ledger, OwnerOf(r), Layer(r), now) = v
  BY <1>1, SameVerdict DEF MirrorInv
<1>3. counters' = Charge(counters, CounterOf(l, x), v) /\ ledger' = Charge(ledger, Owner(l, x), v)
  BY <1>1, <1>2
<1> HIDE DEF l, x, v
<1> QED BY <1>1, <1>3, SameCharge DEF MirrorInv

\* Counters and the ledger of their owners mirror each other after every step.
LEMMA MirrorStep ==
  ASSUME Inv, MirrorInv, [Next]_vars
  PROVE  MirrorInv'
<1>1. CASE UNCHANGED <<counters, ledger>>
  BY <1>1 DEF MirrorInv
<1>2. ASSUME NEW r \in Request, ChargedOrNot(r) PROVE MirrorInv'
  BY <1>1, <1>2, ChargedAlike DEF ChargedOrNot
<1>3. ASSUME NEW r \in Request, Check(r) PROVE MirrorInv'
  BY <1>3, ChargedAlike DEF Check
<1>4. ASSUME Tick PROVE MirrorInv'
  <2>1. counters' = Alive(counters, now') /\ ledger' = Alive(ledger, now')
    BY <1>4 DEF Tick
  <2> QED BY <2>1, SameAlive DEF MirrorInv
<1> QED BY <1>1, <1>2, <1>3, <1>4
     DEF Next, vars, PollReady, Call, Deploy, Extract, BackendFails, Handle, Disconnect

----------------------------------------------------------------------------
(* Answers                                                                 *)

\* The limits of a policy some constructor has accepted.
PolicyBounded(p) ==
    /\ p.quota \in 1..MaxLimit /\ p.burst \in 1..MaxLimit /\ p.period \in 1..MaxWindow
    /\ p.algorithm \in {"fixed", "gcra"}
    /\ p.algorithm = "fixed" => p.burst = p.quota
    /\ p.algorithm = "gcra" => p.burst * p.period <= MaxWindow * p.quota

\* A capacity that is accepted is neither zero nor too large.
LEMMA CapacityAccepted ==
  ASSUME NEW n \in Nat
  PROVE  CapacityError(n) = "none" <=> n \in 1..MaxLimit
BY PoliciesAssumption DEF CapacityError

\* A period that is accepted is a whole number of milliseconds, neither zero nor
\* longer than the longest window.
LEMMA PeriodAccepted ==
  ASSUME NEW n \in Nat, QuotaPeriodError(n) = "none"
  PROVE  n \div Milli \in 1..MaxWindow
<1>1. n # 0 /\ n % Milli = 0 /\ n <= MaxWindow * Milli /\ Milli \in Nat \ {0} /\ MaxWindow \in Nat
  BY PoliciesAssumption DEF QuotaPeriodError
<1> DEFINE d == n \div Milli
<1>2. d \in Nat /\ n = d * Milli
  BY <1>1
<1> HIDE DEF d
<1>3. d # 0
  BY <1>1, <1>2
<1>4. ASSUME MaxWindow + 1 <= d PROVE FALSE
  <2>1. (MaxWindow + 1) * Milli <= d * Milli
    BY <1>1, <1>2, <1>4, TimesMonotone
  <2>2. (MaxWindow + 1) * Milli = MaxWindow * Milli + Milli /\ MaxWindow * Milli \in Nat
    BY <1>1
  <2> QED BY <1>1, <1>2, <2>1, <2>2
<1>5. d <= MaxWindow
  BY <1>1, <1>2, <1>4
<1> QED BY <1>2, <1>3, <1>5 DEF d

\* An accepted document has no error in any of its steps.
LEMMA NoErrors ==
  ASSUME NEW doc, Accepted(doc), doc.algorithm \in {"fixed", "gcra"}
  PROVE  /\ CapacityError(doc.quota) = "none" /\ QuotaPeriodError(doc.period) = "none"
         /\ doc.algorithm = "gcra" => CapacityError(doc.burst) = "none"
<1> DEFINE a == IdentifierError(doc.id)
<1> DEFINE b == IdentifierError(doc.scope)
<1> DEFINE c == CapacityError(doc.quota)
<1> DEFINE d == QuotaPeriodError(doc.period)
<1> DEFINE e == CapacityError(doc.burst)
<1> DEFINE f == PolicyErrors(doc)
<1>1. f = IF doc.algorithm = "fixed" THEN Append(<<a, b, c>>, d) ELSE <<a, b, c>> \o <<e, d>>
  BY DEF PolicyErrors
<1>2. \A i \in DOMAIN f : f[i] = "none"
  BY DEF Accepted
<1> HIDE DEF a, b, c, d, e, f
<1> DEFINE E == {a, b, c, d, e}
<1> DEFINE t == <<a, b, c>>
<1> DEFINE w == <<e, d>>
<1>3. t \in Seq(E) /\ Len(t) = 3 /\ t[3] = c /\ w \in Seq(E) /\ Len(w) = 2 /\ w[1] = e /\ w[2] = d /\ d \in E
  OBVIOUS
<1>4. f = IF doc.algorithm = "fixed" THEN Append(t, d) ELSE t \o w
  BY <1>1
<1> HIDE DEF E, t, w
<1>5. CASE doc.algorithm = "fixed"
  <2>1. f = Append(t, d)
    BY <1>4, <1>5
  <2>2. f \in Seq(E) /\ Len(f) = 4 /\ f[3] = c /\ f[4] = d
    <3>1. t \in Seq(E) /\ d \in E
      BY <1>3
    <3>2. /\ Append(t, d) \in Seq(E) /\ Len(Append(t, d)) = Len(t) + 1
          /\ (\A i \in 1..Len(t) : Append(t, d)[i] = t[i])
          /\ Append(t, d)[Len(t) + 1] = d
      BY <3>1, AppendProperties
    <3> QED BY <1>3, <2>1, <3>2
  <2>3. 3 \in DOMAIN f /\ 4 \in DOMAIN f
    BY <2>2
  <2>4. c = "none" /\ d = "none"
    BY <1>2, <2>2, <2>3
  <2> QED BY <1>5, <2>4 DEF c, d
<1>6. CASE doc.algorithm = "gcra"
  <2>1. f = t \o w
    BY <1>4, <1>6
  <2>2. /\ f \in Seq(E) /\ Len(f) = 5 /\ (\A i \in 1..3 : f[i] = t[i]) /\ \A i \in 1..2 : f[3 + i] = w[i]
    <3>1. /\ t \o w \in Seq(E) /\ Len(t \o w) = Len(t) + Len(w)
          /\ (\A i \in 1..Len(t) : (t \o w)[i] = t[i])
          /\ \A i \in 1..Len(w) : (t \o w)[Len(t) + i] = w[i]
      <4>1. t \in Seq(E) /\ w \in Seq(E)
        BY <1>3
      <4> QED BY <4>1, ConcatParts
    <3> QED BY <1>3, <2>1, <3>1
  <2>3. f[3] = c /\ f[3 + 1] = e /\ f[3 + 2] = d /\ 3 \in DOMAIN f /\ 3 + 1 \in DOMAIN f /\ 3 + 2 \in DOMAIN f
    BY <1>3, <2>2
  <2>4. c = "none" /\ d = "none" /\ e = "none"
    BY <1>2, <2>3
  <2> QED BY <2>4 DEF c, d, e
<1> QED BY <1>5, <1>6

\* What a constructor accepts keeps to the limits.
LEMMA PolicyWithinBounds ==
  ASSUME NEW doc \in Document, Accepted(doc)
  PROVE  PolicyBounded(Policy(doc))
<1> DEFINE p == Policy(doc)
<1> DEFINE m == doc.period \div Milli
<1>1. /\ doc.algorithm \in {"fixed", "gcra"} /\ doc.quota \in Nat /\ doc.period \in Nat /\ doc.burst \in Nat
  BY DEF Document
<1>2. /\ p.algorithm = doc.algorithm /\ p.quota = doc.quota /\ p.period = m
      /\ p.burst = IF doc.algorithm = "fixed" THEN doc.quota ELSE doc.burst
  BY DEF Policy
<1>3. /\ doc.quota \in 1..MaxLimit /\ m \in 1..MaxWindow
      /\ doc.algorithm = "gcra" => doc.burst \in 1..MaxLimit
  BY <1>1, NoErrors, CapacityAccepted, PeriodAccepted
<1>4. MaxLimit \in Nat /\ MaxWindow \in Nat
  BY PoliciesAssumption
<1>5. doc.algorithm = "gcra" => doc.burst * m <= MaxWindow * doc.quota
  <2> SUFFICES ASSUME doc.algorithm = "gcra" PROVE doc.burst * m <= MaxWindow * doc.quota
    OBVIOUS
  <2>1. (doc.burst * m + doc.quota - 1) \div doc.quota <= MaxWindow
    BY DEF Accepted, FullRefill, RoundedUp
  <2>2. doc.burst * m \in Nat /\ doc.quota \in Nat \ {0}
    BY <1>3, <1>4
  <2> DEFINE k == doc.burst * m
  <2>3. k \in Nat /\ (k + doc.quota - 1) \div doc.quota <= MaxWindow
    BY <2>1, <2>2
  <2> HIDE DEF k
  <2>4. k <= MaxWindow * doc.quota
    BY <1>4, <2>2, <2>3, CeilingDivision
  <2> QED BY <2>4 DEF k
<1> HIDE DEF p, m
<1>6. PolicyBounded(p)
  BY <1>1, <1>2, <1>3, <1>5 DEF PolicyBounded
<1> QED BY <1>6 DEF p

\* Every layer that can be deployed keeps to the limits.
LEMMA LayerBounded ==
  ASSUME NEW l \in Layers
  PROVE  PolicyBounded(l.policy)
<1>1. PICK s \in Stacks : /\ Deployable(s)
                         /\ \E i \in DOMAIN s.docs :
                               l = [policy |-> Policy(s.docs[i]), digested |-> s.digested]
  BY DEF Layers
<1>2. PICK i \in DOMAIN s.docs : l = [policy |-> Policy(s.docs[i]), digested |-> s.digested]
  BY <1>1
<1>3. s.docs[i] \in Document /\ Accepted(s.docs[i])
  BY <1>1, <1>2, AxumAssumption DEF Deployable
<1>4. l.policy = Policy(s.docs[i])
  BY <1>2
<1> QED BY <1>3, <1>4, PolicyWithinBounds

\* The ticks at which something happens.
Instants == Time \cup {0}

\* The same instant in the whole milliseconds of gcra.rs.
Millis(at) == at \div Milli

\* Instants are naturals, and later ones have no fewer milliseconds.
LEMMA InstantFacts ==
  ASSUME NEW at \in Instants
  PROVE  at \in Nat /\ Millis(at) \in Nat /\ Millis(at) * Milli \in Nat /\ Millis(at) * Milli <= at
<1>1. at \in Nat /\ Milli \in Nat \ {0}
  BY ClockAssumption, PoliciesAssumption DEF Instants
<1> QED BY <1>1, QuotientBounds DEF Millis

\* Whole milliseconds that have passed show on the clock.
LEMMA MillisPassed ==
  ASSUME NEW at \in Instants, NEW later \in Instants, NEW n \in Nat, at + n * Milli <= later
  PROVE  Millis(at) + n <= Millis(later)
<1>1. /\ Milli \in Nat \ {0} /\ at \in Nat /\ later \in Nat /\ Millis(at) \in Nat /\ Millis(later) \in Nat
      /\ Millis(at) * Milli \in Nat /\ Millis(at) * Milli <= at
  BY InstantFacts, PoliciesAssumption
<1>2. later < Millis(later) * Milli + Milli /\ Millis(later) * Milli \in Nat
  BY <1>1, QuotientBounds DEF Millis
<1>3. n * Milli \in Nat
  BY <1>1
<1>4. (Millis(at) + n) * Milli = Millis(at) * Milli + n * Milli
  BY <1>1
<1>5. ASSUME Millis(later) + 1 <= Millis(at) + n PROVE FALSE
  <2>1. (Millis(later) + 1) * Milli <= (Millis(at) + n) * Milli
    BY <1>1, <1>5, TimesMonotone
  <2>2. (Millis(later) + 1) * Milli = Millis(later) * Milli + Milli
    BY <1>1
  <2> QED BY <1>1, <1>2, <1>3, <1>4, <2>1, <2>2
<1> QED BY <1>1, <1>5

\* The clock never goes back in milliseconds either.
LEMMA MillisMonotone ==
  ASSUME NEW at \in Instants, NEW later \in Instants, at <= later
  PROVE  Millis(at) <= Millis(later)
<1>1. at + 0 * Milli <= later /\ Millis(at) \in Nat /\ Millis(later) \in Nat
  BY InstantFacts, PoliciesAssumption
<1>2. Millis(at) + 0 <= Millis(later)
  BY <1>1, MillisPassed
<1> QED BY <1>1, <1>2

\* The integers of a policy, and how far a bucket reaches beyond the clock: its
\* ceiling with one more period fits the integers of gcra.rs.
LEMMA GcraRange ==
  ASSUME NEW p, PolicyBounded(p), p.algorithm = "gcra", NEW at \in Instants
  PROVE  /\ p.quota \in Nat \ {0} /\ p.period \in Nat \ {0} /\ p.burst \in Nat \ {0}
         /\ Millis(at) * p.quota \in Nat /\ p.burst * p.period \in Nat
         /\ p.period <= MaxWindow /\ p.burst * p.period <= MaxWindow * p.quota
         /\ p.burst <= DelayMax /\ MaxWindow <= DelayMax /\ MaxWindow \in Nat
         /\ DelayMax \in Nat /\ WideMax \in Nat
         /\ Millis(at) + MaxWindow <= WideMax
         /\ Millis(at) * p.quota + p.burst * p.period + p.period <= WideMax
<1> DEFINE m == Millis(at)
<1> DEFINE q == p.quota
<1> DEFINE w == p.burst * p.period
<1> DEFINE h == m + 2 * MaxWindow
<1>1. /\ m \in Nat /\ MaxWindow \in Nat /\ MaxLimit \in Nat /\ DelayMax \in Nat /\ WideMax \in Nat
      /\ h * MaxLimit <= WideMax /\ MaxLimit <= DelayMax /\ MaxWindow <= DelayMax
  BY InstantFacts, ClockAssumption, PoliciesAssumption, GcraAssumption DEF Instants, Millis
<1>2. /\ q \in 1..MaxLimit /\ p.burst \in 1..MaxLimit /\ p.period \in 1..MaxWindow
      /\ w <= MaxWindow * q
  BY DEF PolicyBounded
<1>3. w \in Nat /\ q \in Nat \ {0} /\ p.burst \in Nat \ {0} /\ p.period \in Nat \ {0}
  BY <1>1, <1>2
<1> HIDE DEF m, q, w
<1>4. m * q \in Nat /\ MaxWindow * q \in Nat /\ h \in Nat /\ h * q = m * q + MaxWindow * q + MaxWindow * q
  BY <1>1, <1>3
<1> HIDE DEF h
<1>5. MaxWindow <= MaxWindow * q
  <2>1. 1 * MaxWindow <= q * MaxWindow /\ q * MaxWindow = MaxWindow * q
    BY <1>1, <1>3, TimesMonotone
  <2> QED BY <1>1, <2>1
<1>6. h * q <= h * MaxLimit /\ h * MaxLimit \in Nat /\ h * q \in Nat
  <2>1. q * h <= MaxLimit * h /\ q * h = h * q /\ MaxLimit * h = h * MaxLimit /\ h * MaxLimit \in Nat /\ h * q \in Nat
    BY <1>1, <1>2, <1>3, <1>4, TimesMonotone
  <2> QED BY <2>1
<1>7. h <= h * MaxLimit
  <2>1. 1 * h <= MaxLimit * h /\ MaxLimit * h = h * MaxLimit
    BY <1>1, <1>2, <1>4, TimesMonotone
  <2> QED BY <1>4, <2>1
<1>8. m + MaxWindow <= WideMax
  BY <1>1, <1>6, <1>7 DEF h
<1>9. p.period <= MaxWindow
  BY <1>1, <1>2
<1>10. m * q + w + p.period <= WideMax
  BY <1>1, <1>2, <1>3, <1>4, <1>5, <1>6, <1>9
<1>11. p.burst <= DelayMax
  BY <1>1, <1>2
<1> QED BY <1>1, <1>2, <1>3, <1>4, <1>8, <1>9, <1>10, <1>11 DEF m, q, w

\* What a bucket with arrival time tat would reach if n units were taken from it.
Reach(p, tat, n, ms) == AtLeast(tat, ms * p.quota) + n * p.period

\* How far it may reach.
Top(p, ms) == ms * p.quota + p.burst * p.period

\* What is taken within the ceiling is granted, without any overflow.
LEMMA GcraGrants ==
  ASSUME NEW p, PolicyBounded(p), p.algorithm = "gcra", NEW at \in Instants,
         NEW tat \in Nat, NEW n \in Nat, Reach(p, tat, n, Millis(at)) <= Top(p, Millis(at))
  PROVE  LET ms == Millis(at)
             x == Reach(p, tat, n, ms)
             e == DivCeil(x - ms * p.quota, p.quota)
             a == (Top(p, ms) - x) \div p.period
         IN  /\ GcraEvaluate(p, n, ms, tat) = Result("allowed", [tat |-> x, expires |-> ms + e, available |-> a], 0)
             /\ GcraEvaluate(p, n, ms, tat).kind = "allowed"
             /\ x \in Nat /\ e \in Nat /\ a \in Nat /\ ms * p.quota <= x
             /\ x <= (ms + e) * p.quota
             /\ a <= p.burst /\ x + a * p.period <= Top(p, ms)
<1> DEFINE ms == Millis(at)
<1> DEFINE s == ms * p.quota
<1> DEFINE x == Reach(p, tat, n, ms)
<1> DEFINE y == Top(p, ms)
<1> DEFINE e == DivCeil(x - s, p.quota)
<1> DEFINE a == (y - x) \div p.period
<1> DEFINE w == p.burst * p.period
<1>1. /\ p.quota \in Nat \ {0} /\ p.period \in Nat \ {0} /\ p.burst \in Nat \ {0}
      /\ s \in Nat /\ w \in Nat /\ w <= MaxWindow * p.quota
      /\ p.burst <= DelayMax /\ MaxWindow <= DelayMax /\ MaxWindow \in Nat
      /\ DelayMax \in Nat /\ WideMax \in Nat /\ ms + MaxWindow <= WideMax /\ s + w + p.period <= WideMax
      /\ ms \in Nat
  BY GcraRange, InstantFacts
<1>2. n * p.period \in Nat
  BY <1>1
<1>3. x = AtLeast(tat, s) + n * p.period /\ AtLeast(tat, s) \in Nat /\ s <= AtLeast(tat, s)
  BY <1>1 DEF Reach, AtLeast
<1>4. x \in Nat /\ s <= x /\ x <= y /\ y = s + w /\ y <= WideMax /\ x <= WideMax
  BY <1>1, <1>2, <1>3 DEF Top
<1>5. x - s \in Nat /\ y - x \in Nat /\ y - x <= w /\ x - s <= w
  BY <1>1, <1>4
<1>6. GcraEvaluate(p, n, ms, tat) =
        CASE x > WideMax \/ y > WideMax -> Overflow
          [] x <= WideMax /\ y <= WideMax /\ x > y ->
               IF DivCeil(Excess(x, y), p.quota) > DelayMax THEN Overflow
               ELSE Result("denied", NoAllowance, DivCeil(Excess(x, y), p.quota))
          [] OTHER ->
               IF ms + e > WideMax \/ e > DelayMax \/ a > DelayMax THEN Overflow
               ELSE Result("allowed", [tat |-> x, expires |-> ms + e, available |-> a], 0)
  BY Zenon DEF GcraEvaluate, Reach, Top, Ceiling
<1> HIDE DEF s, x, y, ms, w
<1>7. e \in Nat /\ (\A k \in Nat : e <= k <=> x - s <= k * p.quota)
  BY <1>1, <1>5, CeilingDivision DEF DivCeil
<1>8. a \in Nat /\ a * p.period \in Nat /\ a * p.period <= y - x
  <2> DEFINE d == y - x
  <2>1. d \in Nat
    BY <1>5
  <2> HIDE DEF d
  <2>2. d \div p.period \in Nat /\ (d \div p.period) * p.period \in Nat /\ (d \div p.period) * p.period <= d
    BY <1>1, <2>1, QuotientBounds
  <2> QED BY <2>2 DEF d
<1> HIDE DEF e, a
<1>9. e <= MaxWindow
  BY <1>1, <1>5, <1>7
<1>10. a <= p.burst
  <2>1. ASSUME p.burst + 1 <= a PROVE FALSE
    <3>1. (p.burst + 1) * p.period <= a * p.period
      BY <1>1, <1>8, <2>1, TimesMonotone
    <3>2. (p.burst + 1) * p.period = w + p.period
      BY <1>1 DEF w
    <3> QED BY <1>1, <1>5, <1>8, <3>1, <3>2
  <2> QED BY <1>1, <1>8, <2>1
<1>11. ~(x > WideMax \/ y > WideMax) /\ ~(x > y) /\ ~(ms + e > WideMax \/ e > DelayMax \/ a > DelayMax)
  BY <1>1, <1>4, <1>7, <1>8, <1>9, <1>10
<1>12. GcraEvaluate(p, n, ms, tat) = Result("allowed", [tat |-> x, expires |-> ms + e, available |-> a], 0)
  BY <1>6, <1>11, Zenon
<1>13. x <= (ms + e) * p.quota
  <2>1. x - s <= e * p.quota /\ e * p.quota \in Nat
    BY <1>1, <1>7
  <2>2. (ms + e) * p.quota = s + e * p.quota
    BY <1>1, <1>7 DEF s
  <2> QED BY <1>1, <1>4, <2>1, <2>2
<1>14. x + a * p.period <= y
  BY <1>1, <1>4, <1>8
<1>15. GcraEvaluate(p, n, ms, tat).kind = "allowed"
  BY <1>12 DEF Result
<1> QED BY <1>4, <1>7, <1>8, <1>10, <1>12, <1>13, <1>14, <1>15 DEF s, x, y, ms, e, a

\* One unit that a bucket has no room for is denied, without any overflow, and the
\* delay that is told is long enough.
LEMMA GcraDenies ==
  ASSUME NEW p, PolicyBounded(p), p.algorithm = "gcra", NEW at \in Instants,
         NEW tat \in Nat, tat <= Top(p, Millis(at)),
         ~(Reach(p, tat, 1, Millis(at)) <= Top(p, Millis(at)))
  PROVE  LET ms == Millis(at)
             d == DivCeil(Reach(p, tat, 1, ms) - Top(p, ms), p.quota)
         IN  /\ GcraEvaluate(p, 1, ms, tat) = Result("denied", NoAllowance, d)
             /\ d \in Nat
             /\ tat + p.period <= Top(p, ms + d)
<1> DEFINE ms == Millis(at)
<1> DEFINE s == ms * p.quota
<1> DEFINE x == Reach(p, tat, 1, ms)
<1> DEFINE y == Top(p, ms)
<1> DEFINE w == p.burst * p.period
<1> DEFINE d == DivCeil(x - y, p.quota)
<1> DEFINE e == DivCeil(x - s, p.quota)
<1> DEFINE a == (y - x) \div p.period
<1>1. /\ p.quota \in Nat \ {0} /\ p.period \in Nat \ {0} /\ p.burst \in Nat \ {0}
      /\ s \in Nat /\ w \in Nat /\ p.period <= MaxWindow /\ MaxWindow <= DelayMax /\ MaxWindow \in Nat
      /\ DelayMax \in Nat /\ WideMax \in Nat /\ s + w + p.period <= WideMax /\ ms \in Nat
  BY GcraRange, InstantFacts
<1>2. 1 * p.period = p.period
  BY <1>1
<1>3. x = AtLeast(tat, s) + p.period /\ AtLeast(tat, s) \in Nat /\ tat <= AtLeast(tat, s)
  BY <1>1, <1>2 DEF Reach, AtLeast
<1>4. y = s + w /\ AtLeast(tat, s) <= y
  BY <1>1 DEF Top, AtLeast
<1>5. x \in Nat /\ y \in Nat /\ x > y /\ x <= WideMax /\ y <= WideMax /\ x - y \in Nat /\ x - y <= p.period
  BY <1>1, <1>3, <1>4
<1>6. GcraEvaluate(p, 1, ms, tat) =
        CASE x > WideMax \/ y > WideMax -> Overflow
          [] x <= WideMax /\ y <= WideMax /\ x > y ->
               IF DivCeil(Excess(x, y), p.quota) > DelayMax THEN Overflow
               ELSE Result("denied", NoAllowance, DivCeil(Excess(x, y), p.quota))
          [] OTHER ->
               IF ms + e > WideMax \/ e > DelayMax \/ a > DelayMax THEN Overflow
               ELSE Result("allowed", [tat |-> x, expires |-> ms + e, available |-> a], 0)
  BY Zenon DEF GcraEvaluate, Reach, Top, Ceiling
<1>7. DivCeil(Excess(x, y), p.quota) = d
  BY Zenon DEF Excess
<1> HIDE DEF s, x, y, ms, w
<1>8. d \in Nat /\ (\A k \in Nat : d <= k <=> x - y <= k * p.quota)
  BY <1>1, <1>5, CeilingDivision DEF DivCeil
<1> HIDE DEF d, e, a
<1>9. d <= DelayMax
  <2>1. 1 * p.period <= p.quota * p.period
    BY <1>1, TimesMonotone
  <2>2. x - y <= p.period * p.quota
    BY <1>1, <1>5, <2>1
  <2>3. d <= p.period
    BY <1>1, <1>8, <2>2
  <2> QED BY <1>1, <1>8, <2>3
<1>10. ~(x > WideMax \/ y > WideMax) /\ x <= WideMax /\ y <= WideMax /\ ~(d > DelayMax)
  BY <1>1, <1>5, <1>8, <1>9
<1>11. GcraEvaluate(p, 1, ms, tat) = Result("denied", NoAllowance, d)
  BY <1>5, <1>6, <1>7, <1>10, Zenon
<1>12. tat + p.period <= Top(p, ms + d)
  <2>1. x - y <= d * p.quota /\ d * p.quota \in Nat
    BY <1>1, <1>8
  <2>2. (ms + d) * p.quota = s + d * p.quota
    BY <1>1, <1>8 DEF s
  <2>3. Top(p, ms + d) = s + d * p.quota + w
    BY <2>2 DEF Top, w
  <2> QED BY <1>1, <1>3, <1>4, <1>5, <2>1, <2>3
<1> QED BY <1>8, <1>11, <1>12 DEF s, x, y, ms, d

\* A counter a policy may have left behind by an instant.
Fits(p, c, at) ==
    /\ c.value \in Nat /\ c.expires \in Nat
    /\ p.algorithm = "fixed" => c.value <= p.quota /\ c.expires <= at + p.period * Milli
    /\ p.algorithm = "gcra" => c.value <= Top(p, Millis(at))

\* A counter has room for n more units.
Room(p, c, n, at) ==
    /\ p.algorithm = "fixed" => (IF c.expires > at THEN c.value ELSE 0) + n <= p.quota
    /\ p.algorithm = "gcra" => Reach(p, c.value, n, Millis(at)) <= Top(p, Millis(at))

\* A check within the room of a counter is allowed.
LEMMA RoomGranted ==
  ASSUME NEW p, PolicyBounded(p), NEW c, c.value \in Nat, NEW n \in Nat, NEW at \in Instants,
         Room(p, c, n, at)
  PROVE  Evaluate(p, c, n, at).decision.outcome = "allowed"
<1>1. CASE p.algorithm = "fixed"
  BY <1>1 DEF Room, Evaluate, Allowed, Decision
<1>2. CASE p.algorithm = "gcra"
  <2> DEFINE g == GcraEvaluate(p, n, at \div Milli, c.value)
  <2>1. g.kind = "allowed"
    <3>1. Reach(p, c.value, n, Millis(at)) <= Top(p, Millis(at))
      BY <1>2 DEF Room
    <3>2. GcraEvaluate(p, n, Millis(at), c.value).kind = "allowed"
      BY <1>2, <3>1, GcraGrants
    <3> QED BY <3>2 DEF Millis
  <2>2. p.algorithm # "fixed"
    BY <1>2
  <2> DEFINE v == Evaluate(p, c, n, at)
  <2>3. v = [counter |-> [value |-> g.allowance.tat, expires |-> g.allowance.expires * Milli,
                          algorithm |-> "gcra"],
             decision |-> Allowed(p.burst, g.allowance.available,
                                  (g.allowance.expires - at \div Milli) * Milli)]
    BY <2>1, <2>2 DEF Evaluate
  <2> HIDE DEF v, g
  <2>4. v.decision.outcome = "allowed"
    BY <2>3 DEF Allowed, Decision
  <2> QED BY <2>4 DEF v
<1> QED BY <1>1, <1>2 DEF PolicyBounded

\* What the decision on one unit says is true of the counter it left: an allowance's
\* remaining units and delay, or the delay of a denial.
Says(p, at, c, d) ==
    \/ /\ p.algorithm = "fixed" /\ c.value \in 1..p.quota /\ c.expires >= at
       /\ d = Allowed(p.quota, p.quota - c.value, c.expires - at)
    \/ /\ p.algorithm = "fixed" /\ c.expires > at
       /\ d = QuotaDenied(p.mode, p.quota, c.expires - at)
    \/ /\ p.algorithm = "gcra"
       /\ \E a, e \in Nat : /\ d = Allowed(p.burst, a, e * Milli)
                            /\ a <= p.burst /\ c.value + a * p.period <= Top(p, Millis(at))
                            /\ c.value <= (Millis(at) + e) * p.quota
    \/ /\ p.algorithm = "gcra"
       /\ \E e \in Nat : /\ d = QuotaDenied(p.mode, p.burst, e * Milli)
                         /\ c.value + p.period <= Top(p, Millis(at) + e)

\* The decision of a limiter on a counter that fits its policy is honest, and the
\* counter it leaves fits again.
LEMMA EvaluateSays ==
  ASSUME NEW p, PolicyBounded(p), NEW at \in Instants, NEW c, Fits(p, c, at)
  PROVE  LET v == Evaluate(p, c, 1, at)
         IN  /\ Fits(p, v.counter, at) /\ Says(p, at, v.counter, v.decision)
             /\ v.decision.outcome # "allowed" => v.counter = c
<1> DEFINE v == Evaluate(p, c, 1, at)
<1>1. CASE p.algorithm = "fixed"
  <2> DEFINE used == IF c.expires > at THEN c.value ELSE 0
  <2> DEFINE ends == IF c.expires > at THEN c.expires ELSE at + p.period * Milli
  <2>1. /\ at \in Nat /\ p.quota \in Nat \ {0} /\ p.period * Milli \in Nat \ {0}
        /\ c.value \in Nat /\ c.expires \in Nat /\ c.value <= p.quota /\ c.expires <= at + p.period * Milli
    <3>1. p.period \in Nat \ {0} /\ Milli \in Nat \ {0} /\ p.quota \in Nat \ {0}
      BY PoliciesAssumption DEF PolicyBounded
    <3>2. p.period * Milli \in Nat \ {0}
      BY <3>1
    <3> QED BY <1>1, <3>1, <3>2, InstantFacts DEF Fits
  <2>2. /\ used \in Nat /\ ends \in Nat /\ ends > at /\ ends <= at + p.period * Milli
        /\ used + 1 > p.quota => c.expires > at
    BY <2>1
  <2>3. CASE used + 1 <= p.quota
    <3> DEFINE n == [value |-> used + 1, expires |-> ends, algorithm |-> "fixed"]
    <3> DEFINE d == Allowed(p.quota, p.quota - (used + 1), ends - at)
    <3>1. v = [counter |-> n, decision |-> d]
      BY <1>1, <2>3 DEF Evaluate
    <3>2. n.value = used + 1 /\ n.expires = ends
      OBVIOUS
    <3> HIDE DEF v, used, ends
    <3>3. v.counter = n /\ v.decision = d
      BY <3>1
    <3>4. d = Allowed(p.quota, p.quota - n.value, n.expires - at)
      BY <3>2
    <3>5. d.outcome = "allowed"
      BY DEF Allowed, Decision
    <3> HIDE DEF n, d
    <3>6. Fits(p, n, at)
      BY <1>1, <2>1, <2>2, <2>3, <3>2 DEF Fits
    <3>7. n.value \in 1..p.quota /\ n.expires >= at
      BY <2>1, <2>2, <2>3, <3>2
    <3>8. Says(p, at, n, d)
      BY <1>1, <3>4, <3>7 DEF Says
    <3> QED BY <3>3, <3>5, <3>6, <3>8 DEF v
  <2>4. CASE ~(used + 1 <= p.quota)
    <3>1. c.expires > at /\ ends = c.expires
      BY <2>1, <2>2, <2>4
    <3> DEFINE d == QuotaDenied(p.mode, p.quota, ends - at)
    <3>2. v = [counter |-> c, decision |-> d]
      BY <1>1, <2>4 DEF Evaluate
    <3> HIDE DEF v, used, ends
    <3>3. v.counter = c /\ v.decision = d
      BY <3>2
    <3>4. d = QuotaDenied(p.mode, p.quota, c.expires - at)
      BY <3>1
    <3> HIDE DEF d
    <3>5. Says(p, at, c, d)
      BY <1>1, <3>1, <3>4 DEF Says
    <3> QED BY <3>3, <3>5 DEF v
  <2> QED BY <2>3, <2>4
<1>2. CASE p.algorithm = "gcra"
  <2> DEFINE ms == Millis(at)
  <2> DEFINE g == GcraEvaluate(p, 1, ms, c.value)
  <2>1. /\ ms \in Nat /\ c.value \in Nat /\ c.expires \in Nat /\ c.value <= Top(p, ms) /\ Milli \in Nat
        /\ p.algorithm # "fixed" /\ p.period \in Nat
    BY <1>2, InstantFacts, PoliciesAssumption DEF Fits, PolicyBounded
  <2>0. 1 * p.period = p.period
    BY <2>1
  <2>2. v = IF g.kind = "allowed"
            THEN [counter |-> [value |-> g.allowance.tat, expires |-> g.allowance.expires * Milli,
                               algorithm |-> "gcra"],
                  decision |-> Allowed(p.burst, g.allowance.available,
                                       (g.allowance.expires - ms) * Milli)]
            ELSE [counter |-> c, decision |-> QuotaDenied(p.mode, p.burst, g.retry * Milli)]
    BY <2>1 DEF Evaluate, Millis
  <2> HIDE DEF v
  <2>3. CASE Reach(p, c.value, 1, ms) <= Top(p, ms)
    <3>1. PICK x, e, a :
             /\ g = Result("allowed", [tat |-> x, expires |-> ms + e, available |-> a], 0)
             /\ x \in Nat /\ e \in Nat /\ a \in Nat /\ x <= (ms + e) * p.quota
             /\ a <= p.burst /\ x + a * p.period <= Top(p, ms) /\ x <= Top(p, ms)
      BY <1>2, <2>1, <2>3, GcraGrants
    <3>2. /\ g.kind = "allowed" /\ g.allowance.tat = x /\ g.allowance.expires = ms + e
          /\ g.allowance.available = a
      BY <3>1 DEF Result
    <3> HIDE DEF g
    <3> DEFINE n == [value |-> x, expires |-> (ms + e) * Milli, algorithm |-> "gcra"]
    <3> DEFINE d == Allowed(p.burst, a, e * Milli)
    <3>3. (ms + e) - ms = e /\ (ms + e) * Milli \in Nat
      BY <2>1, <3>1
    <3>4. v.counter = n /\ v.decision = d
      BY <2>2, <3>2, <3>3
    <3>5. n.value = x /\ n.expires = (ms + e) * Milli /\ d.outcome = "allowed"
      BY DEF Allowed, Decision
    <3>6. \E b, f \in Nat : /\ d = Allowed(p.burst, b, f * Milli)
                            /\ b <= p.burst /\ x + b * p.period <= Top(p, ms)
                            /\ x <= (ms + f) * p.quota
      BY <3>1
    <3> HIDE DEF n, d
    <3>7. Fits(p, n, at)
      BY <1>2, <3>1, <3>3, <3>5 DEF Fits
    <3>8. Says(p, at, n, d)
      BY <1>2, <3>5, <3>6 DEF Says
    <3> QED BY <3>4, <3>5, <3>7, <3>8 DEF v
  <2>4. CASE ~(Reach(p, c.value, 1, ms) <= Top(p, ms))
    <3>1. PICK e : /\ g = Result("denied", NoAllowance, e) /\ e \in Nat
                   /\ c.value + p.period <= Top(p, ms + e)
      BY <1>2, <2>1, <2>4, GcraDenies
    <3>2. g.kind # "allowed" /\ g.retry = e
      BY <3>1 DEF Result
    <3> HIDE DEF g
    <3> DEFINE d == QuotaDenied(p.mode, p.burst, e * Milli)
    <3>3. v.counter = c /\ v.decision = d
      BY <2>2, <3>2
    <3>4. \E f \in Nat : d = QuotaDenied(p.mode, p.burst, f * Milli) /\ c.value + p.period <= Top(p, ms + f)
      BY <3>1
    <3> HIDE DEF d
    <3>5. Says(p, at, c, d)
      BY <1>2, <3>4 DEF Says
    <3> QED BY <3>3, <3>5 DEF v
  <2> QED BY <2>3, <2>4
<1> QED BY <1>1, <1>2 DEF PolicyBounded

\* A counter that has run out, and an absent one, have room for a whole burst.
LEMMA FullRoom ==
  ASSUME NEW p, PolicyBounded(p), NEW later \in Instants, NEW c, c.value \in Nat, c.expires \in Nat,
         p.algorithm = "fixed" => c.expires <= later,
         p.algorithm = "gcra" => c.value <= Millis(later) * p.quota,
         NEW n \in Nat, n <= p.burst
  PROVE  Room(p, c, n, later)
<1>1. later \in Nat /\ p.burst \in Nat /\ p.quota \in Nat
  BY InstantFacts DEF PolicyBounded
<1>2. CASE p.algorithm = "fixed"
  BY <1>1, <1>2 DEF Room, PolicyBounded
<1>3. CASE p.algorithm = "gcra"
  <2> DEFINE s == Millis(later) * p.quota
  <2>1. s \in Nat /\ p.period \in Nat
    BY <1>3, GcraRange
  <2>2. n * p.period <= p.burst * p.period /\ n * p.period \in Nat /\ p.burst * p.period \in Nat
    BY <1>1, <2>1, TimesMonotone
  <2>3. AtLeast(c.value, s) = s
    BY <1>3, <2>1 DEF AtLeast
  <2> HIDE DEF s
  <2>4. Reach(p, c.value, n, Millis(later)) = s + n * p.period /\ Top(p, Millis(later)) = s + p.burst * p.period
    BY <2>3 DEF Reach, Top, s
  <2> QED BY <1>3, <2>1, <2>2, <2>4 DEF Room
<1> QED BY <1>2, <1>3 DEF PolicyBounded

\* An absent counter has room for a whole burst.
LEMMA FreshRoom ==
  ASSUME NEW p, PolicyBounded(p), NEW later \in Instants, NEW n \in Nat, n <= p.burst
  PROVE  Room(p, NoCounter, n, later)
<1>1. NoCounter.value = 0 /\ NoCounter.expires = 0
  BY DEF NoCounter
<1>2. later \in Nat
  BY InstantFacts
<1>3. p.algorithm = "gcra" => 0 <= Millis(later) * p.quota
  BY GcraRange
<1> QED BY <1>1, <1>2, <1>3, FullRoom

\* A bucket has room for what lies within its ceiling now.
LEMMA BucketRoom ==
  ASSUME NEW p, PolicyBounded(p), p.algorithm = "gcra", NEW later \in Instants, NEW c, c.value \in Nat,
         NEW n \in Nat, n <= p.burst, c.value + n * p.period <= Top(p, Millis(later))
  PROVE  Room(p, c, n, later)
<1> DEFINE s == Millis(later) * p.quota
<1>1. s \in Nat /\ p.period \in Nat /\ p.burst \in Nat
  BY GcraRange
<1>2. n * p.period <= p.burst * p.period /\ n * p.period \in Nat /\ p.burst * p.period \in Nat
  BY <1>1, TimesMonotone
<1>3. AtLeast(c.value, s) = s \/ AtLeast(c.value, s) = c.value
  BY DEF AtLeast
<1> HIDE DEF s
<1>4. Reach(p, c.value, n, Millis(later)) = AtLeast(c.value, s) + n * p.period
      /\ Top(p, Millis(later)) = s + p.burst * p.period
  BY DEF Reach, Top, s
<1> QED BY <1>1, <1>2, <1>3, <1>4 DEF Room

\* The ceiling of a bucket rises by quota units a millisecond.
LEMMA TopRises ==
  ASSUME NEW p, PolicyBounded(p), p.algorithm = "gcra", NEW m \in Nat, NEW n \in Nat, m <= n
  PROVE  Top(p, m) \in Nat /\ Top(p, n) \in Nat /\ Top(p, m) <= Top(p, n) /\ m * p.quota <= n * p.quota
<1>1. p.quota \in Nat /\ p.burst \in Nat /\ p.period \in Nat
  BY DEF PolicyBounded
<1>2. m * p.quota <= n * p.quota /\ m * p.quota \in Nat /\ n * p.quota \in Nat /\ p.burst * p.period \in Nat
  BY <1>1, TimesMonotone
<1> QED BY <1>2 DEF Top

\* Whole seconds are never shorter than the delay they stand for.
LEMMA SecondsCover ==
  ASSUME NEW delay \in Nat
  PROVE  Seconds(delay) \in Nat /\ Seconds(delay) * Second \in Nat /\ delay <= Seconds(delay) * Second
<1>1. Second \in Nat \ {0}
  BY DecisionsAssumption
<1>2. PICK s : s = (delay + Second - 1) \div Second
  OBVIOUS
<1>3. s \in Nat /\ delay <= s * Second
  BY <1>1, <1>2, CeilingDivision
<1>4. s = Seconds(delay)
  BY <1>2 DEF Seconds, RoundedUp
<1> QED BY <1>1, <1>3, <1>4

\* What a decision promises of a counter: its remaining units at once, and, when the
\* delay it tells has passed, a whole burst or the denied request.
Promise(p, c, d, at, later) ==
    /\ Room(p, c, d.available, later)
    /\ at + Seconds(d.delay) * Second <= later =>
           Room(p, c, IF d.outcome = "allowed" THEN p.burst ELSE 1, later)

\* What any counter of a policy offers once its period has passed.
Restored(p, c, at, later) ==
    at + p.period * Milli <= later => Room(p, c, Min({p.quota, p.burst}), later)

\* The smaller of two limits.
LEMMA SmallerLimit ==
  ASSUME NEW p, PolicyBounded(p)
  PROVE  LET m == Min({p.quota, p.burst}) IN m \in Nat \ {0} /\ m <= p.quota /\ m <= p.burst
<1>1. p.quota \in Nat \ {0} /\ p.burst \in Nat \ {0}
  BY DEF PolicyBounded
<1>2. {p.quota, p.burst} \in SUBSET Nat /\ {p.quota, p.burst} # {}
  BY <1>1
<1> QED BY <1>1, <1>2, MinOfNaturals

\* The period of a policy restores its quota.
LEMMA PeriodRestores ==
  ASSUME NEW p, PolicyBounded(p), NEW at \in Instants, NEW later \in Instants, NEW c, Fits(p, c, at)
  PROVE  Restored(p, c, at, later)
<1> SUFFICES ASSUME at + p.period * Milli <= later
             PROVE  Room(p, c, Min({p.quota, p.burst}), later)
  BY DEF Restored
<1> DEFINE m == Min({p.quota, p.burst})
<1>1. m \in Nat \ {0} /\ m <= p.quota /\ m <= p.burst
  BY SmallerLimit
<1>2. /\ c.value \in Nat /\ c.expires \in Nat /\ at \in Nat /\ later \in Nat
      /\ p.period \in Nat /\ p.quota \in Nat /\ p.burst \in Nat /\ Milli \in Nat
  BY InstantFacts, PoliciesAssumption DEF Fits, PolicyBounded
<1> HIDE DEF m
<1>3. CASE p.algorithm = "fixed"
  <2>1. c.expires <= at + p.period * Milli /\ p.period * Milli \in Nat
    BY <1>2, <1>3 DEF Fits
  <2>2. c.expires <= later
    BY <1>2, <2>1
  <2>3. p.algorithm # "gcra"
    BY <1>3
  <2>4. Room(p, c, m, later)
    BY <1>1, <1>2, <2>2, <2>3, FullRoom
  <2> QED BY <2>4 DEF m
<1>4. CASE p.algorithm = "gcra"
  <2>1. Millis(at) + p.period <= Millis(later) /\ Millis(at) \in Nat /\ Millis(later) \in Nat
    BY <1>2, MillisPassed, InstantFacts
  <2>2. /\ Top(p, Millis(at) + p.period) <= Top(p, Millis(later))
        /\ Top(p, Millis(at) + p.period) \in Nat /\ Top(p, Millis(later)) \in Nat /\ Top(p, Millis(at)) \in Nat
    BY <1>2, <1>4, <2>1, TopRises
  <2>3. (Millis(at) + p.period) * p.quota = Millis(at) * p.quota + p.quota * p.period
    BY <1>2, <2>1
  <2>4. /\ Millis(at) * p.quota \in Nat /\ p.quota * p.period \in Nat /\ p.burst * p.period \in Nat
    BY <1>2, <2>1
  <2>5. Top(p, Millis(at) + p.period) = Top(p, Millis(at)) + p.quota * p.period
    BY <2>3, <2>4 DEF Top
  <2>6. m * p.period <= p.quota * p.period /\ m * p.period \in Nat
    BY <1>1, <1>2, TimesMonotone
  <2>7. c.value <= Top(p, Millis(at))
    BY <1>4 DEF Fits
  <2>8. c.value + m * p.period <= Top(p, Millis(later))
    BY <1>2, <2>2, <2>4, <2>5, <2>6, <2>7
  <2>9. Room(p, c, m, later)
    BY <1>1, <1>2, <1>4, <2>8, BucketRoom
  <2> QED BY <2>9 DEF m
<1> QED BY <1>3, <1>4 DEF PolicyBounded

\* A decision that says the truth about the counter it left keeps its promises for
\* as long as nobody charges that counter.
LEMMA PromiseKept ==
  ASSUME NEW p, PolicyBounded(p), NEW at \in Instants, NEW later \in Instants, at <= later,
         NEW c, Fits(p, c, at), NEW d, Says(p, at, c, d)
  PROVE  Promise(p, c, d, at, later)
<1>1. /\ c.value \in Nat /\ c.expires \in Nat /\ at \in Nat /\ later \in Nat
      /\ p.period \in Nat /\ p.quota \in Nat \ {0} /\ p.burst \in Nat \ {0} /\ Milli \in Nat
      /\ Millis(at) \in Nat /\ Millis(later) \in Nat /\ Millis(at) <= Millis(later)
  BY InstantFacts, MillisMonotone, PoliciesAssumption DEF Fits, PolicyBounded
<1>2. ASSUME p.algorithm = "fixed", c.expires >= at, d.delay = c.expires - at, NEW n \in Nat, n <= p.burst,
             at + Seconds(d.delay) * Second <= later
      PROVE  Room(p, c, n, later)
  <2>1. d.delay \in Nat
    BY <1>1, <1>2
  <2>2. Seconds(d.delay) * Second \in Nat /\ d.delay <= Seconds(d.delay) * Second
    BY <2>1, SecondsCover
  <2>3. c.expires <= later /\ p.algorithm # "gcra"
    BY <1>1, <1>2, <2>1, <2>2
  <2> QED BY <1>1, <1>2, <2>3, FullRoom
<1>3. ASSUME NEW e \in Nat, d.delay = e * Milli, at + Seconds(d.delay) * Second <= later
      PROVE  Millis(at) + e <= Millis(later)
  <2>1. d.delay \in Nat
    BY <1>1, <1>3
  <2>2. Seconds(d.delay) * Second \in Nat /\ d.delay <= Seconds(d.delay) * Second
    BY <2>1, SecondsCover
  <2>3. at + e * Milli <= later
    BY <1>1, <1>3, <2>1, <2>2
  <2> QED BY <2>3, MillisPassed
<1>4. CASE /\ p.algorithm = "fixed" /\ c.value \in 1..p.quota /\ c.expires >= at
           /\ d = Allowed(p.quota, p.quota - c.value, c.expires - at)
  <2>1. d.outcome = "allowed" /\ d.available = p.quota - c.value /\ d.delay = c.expires - at
    BY <1>4 DEF Allowed, Decision
  <2>2. Room(p, c, d.available, later)
    BY <1>1, <1>4, <2>1 DEF Room
  <2>3. at + Seconds(d.delay) * Second <= later => Room(p, c, p.burst, later)
    BY <1>1, <1>2, <1>4, <2>1
  <2> QED BY <2>1, <2>2, <2>3 DEF Promise
<1>5. CASE /\ p.algorithm = "fixed" /\ c.expires > at
           /\ d = QuotaDenied(p.mode, p.quota, c.expires - at)
  <2>1. d.outcome # "allowed" /\ d.available = 0 /\ d.delay = c.expires - at
    BY <1>5 DEF QuotaDenied, Decision
  <2>2. Room(p, c, d.available, later)
    BY <1>1, <1>5, <2>1 DEF Room, Fits
  <2>3. at + Seconds(d.delay) * Second <= later => Room(p, c, 1, later)
    BY <1>1, <1>2, <1>5, <2>1
  <2> QED BY <2>1, <2>2, <2>3 DEF Promise
<1>6. ASSUME p.algorithm = "gcra", NEW a \in Nat, NEW e \in Nat, d = Allowed(p.burst, a, e * Milli),
             a <= p.burst, c.value + a * p.period <= Top(p, Millis(at)),
             c.value <= (Millis(at) + e) * p.quota
      PROVE  Promise(p, c, d, at, later)
  <2>1. d.outcome = "allowed" /\ d.available = a /\ d.delay = e * Milli
    BY <1>6 DEF Allowed, Decision
  <2>2. Room(p, c, a, later)
    <3>1. Top(p, Millis(at)) \in Nat /\ Top(p, Millis(later)) \in Nat /\ Top(p, Millis(at)) <= Top(p, Millis(later))
      BY <1>1, <1>6, TopRises
    <3>2. a * p.period \in Nat
      BY <1>1
    <3>3. c.value + a * p.period <= Top(p, Millis(later))
      BY <1>1, <1>6, <3>1, <3>2
    <3> QED BY <1>1, <1>6, <3>3, BucketRoom
  <2>3. ASSUME at + Seconds(d.delay) * Second <= later PROVE Room(p, c, p.burst, later)
    <3>1. Millis(at) + e <= Millis(later)
      BY <1>3, <2>1, <2>3
    <3>2. /\ (Millis(at) + e) * p.quota <= Millis(later) * p.quota
          /\ (Millis(at) + e) * p.quota \in Nat /\ Millis(later) * p.quota \in Nat
      BY <1>1, <3>1, TimesMonotone
    <3>3. c.value <= Millis(later) * p.quota /\ p.algorithm # "fixed"
      BY <1>1, <1>6, <3>2
    <3> QED BY <1>1, <3>3, FullRoom
  <2> QED BY <2>1, <2>2, <2>3 DEF Promise
<1>7. ASSUME p.algorithm = "gcra", NEW e \in Nat, d = QuotaDenied(p.mode, p.burst, e * Milli),
             c.value + p.period <= Top(p, Millis(at) + e)
      PROVE  Promise(p, c, d, at, later)
  <2>1. d.outcome # "allowed" /\ d.available = 0 /\ d.delay = e * Milli
    BY <1>7 DEF QuotaDenied, Decision
  <2>2. Room(p, c, 0, later)
    <3>1. Top(p, Millis(at)) \in Nat /\ Top(p, Millis(later)) \in Nat /\ Top(p, Millis(at)) <= Top(p, Millis(later))
      BY <1>1, <1>7, TopRises
    <3>2. 0 * p.period = 0
      BY <1>1
    <3>3. c.value <= Top(p, Millis(at))
      BY <1>7 DEF Fits
    <3>4. c.value + 0 * p.period <= Top(p, Millis(later))
      BY <1>1, <3>1, <3>2, <3>3
    <3> QED BY <1>1, <1>7, <3>4, BucketRoom
  <2>3. ASSUME at + Seconds(d.delay) * Second <= later PROVE Room(p, c, 1, later)
    <3>1. Millis(at) + e <= Millis(later) /\ Millis(at) + e \in Nat
      BY <1>1, <1>3, <2>1, <2>3
    <3>2. /\ Top(p, Millis(at) + e) \in Nat /\ Top(p, Millis(later)) \in Nat
          /\ Top(p, Millis(at) + e) <= Top(p, Millis(later))
      BY <1>1, <1>7, <3>1, TopRises
    <3>3. 1 * p.period = p.period
      BY <1>1
    <3>4. c.value + 1 * p.period <= Top(p, Millis(later))
      BY <1>1, <1>7, <3>2, <3>3
    <3> QED BY <1>1, <1>7, <3>4, BucketRoom
  <2> QED BY <2>1, <2>2, <2>3 DEF Promise
<1> QED BY <1>4, <1>5, <1>6, <1>7 DEF Says

\* The numbers of a decision are those of its policy.
LEMMA SaidNumbers ==
  ASSUME NEW p, PolicyBounded(p), NEW at \in Instants, NEW c, Fits(p, c, at), NEW d, Says(p, at, c, d)
  PROVE  /\ d = Decision(d.outcome, d.capacity, d.available, d.delay)
         /\ d.outcome \in {"allowed", "quota_denied", "shadow_denied"}
         /\ d.capacity \in 1..MaxLimit /\ d.available \in Nat /\ d.available <= d.capacity
         /\ d.available <= p.burst
         /\ d.outcome # "allowed" => d.available = 0
<1>1. /\ p.quota \in 1..MaxLimit /\ p.burst \in 1..MaxLimit /\ MaxLimit \in Nat
      /\ p.algorithm = "fixed" => p.burst = p.quota
  BY PoliciesAssumption DEF PolicyBounded
<1>2. ASSUME NEW n \in 1..MaxLimit, NEW a \in Nat, a <= n, a <= p.burst, NEW delay, d = Allowed(n, a, delay)
      PROVE  /\ d = Decision(d.outcome, d.capacity, d.available, d.delay)
             /\ d.outcome = "allowed" /\ d.capacity = n /\ d.available = a
  BY <1>2 DEF Allowed, Decision
<1>3. ASSUME NEW n \in 1..MaxLimit, NEW mode, NEW delay, d = QuotaDenied(mode, n, delay)
      PROVE  /\ d = Decision(d.outcome, d.capacity, d.available, d.delay)
             /\ d.outcome \in {"quota_denied", "shadow_denied"} /\ d.capacity = n /\ d.available = 0
  BY <1>3 DEF QuotaDenied, Decision
<1>4. CASE /\ p.algorithm = "fixed" /\ c.value \in 1..p.quota /\ c.expires >= at
           /\ d = Allowed(p.quota, p.quota - c.value, c.expires - at)
  <2>1. p.quota - c.value \in Nat /\ p.quota - c.value <= p.quota /\ p.quota - c.value <= p.burst
    BY <1>1, <1>4
  <2>2. /\ d = Decision(d.outcome, d.capacity, d.available, d.delay)
        /\ d.outcome = "allowed" /\ d.capacity = p.quota /\ d.available = p.quota - c.value
    BY <1>1, <1>2, <1>4, <2>1
  <2> QED BY <1>1, <2>1, <2>2
<1>5. CASE /\ p.algorithm = "fixed" /\ c.expires > at
           /\ d = QuotaDenied(p.mode, p.quota, c.expires - at)
  <2>2. /\ d = Decision(d.outcome, d.capacity, d.available, d.delay)
        /\ d.outcome \in {"quota_denied", "shadow_denied"} /\ d.capacity = p.quota /\ d.available = 0
    BY <1>1, <1>3, <1>5
  <2> QED BY <1>1, <2>2
<1>6. ASSUME NEW a \in Nat, NEW e \in Nat, d = Allowed(p.burst, a, e * Milli), a <= p.burst
      PROVE  /\ d = Decision(d.outcome, d.capacity, d.available, d.delay)
             /\ d.outcome = "allowed" /\ d.capacity = p.burst /\ d.available = a
  BY <1>1, <1>2, <1>6
<1>7. ASSUME NEW e \in Nat, d = QuotaDenied(p.mode, p.burst, e * Milli)
      PROVE  /\ d = Decision(d.outcome, d.capacity, d.available, d.delay)
             /\ d.outcome \in {"quota_denied", "shadow_denied"} /\ d.capacity = p.burst /\ d.available = 0
  BY <1>1, <1>3, <1>7
<1>8. CASE \E a, e \in Nat : d = Allowed(p.burst, a, e * Milli) /\ a <= p.burst
  BY <1>1, <1>6, <1>8
<1>9. CASE \E e \in Nat : d = QuotaDenied(p.mode, p.burst, e * Milli)
  BY <1>1, <1>7, <1>9
<1> QED BY <1>4, <1>5, <1>8, <1>9 DEF Says

\* An absent counter keeps every promise: nothing is charged to it.
LEMMA PromiseFresh ==
  ASSUME NEW p, PolicyBounded(p), NEW at \in Instants, NEW later \in Instants,
         NEW d, d.available \in Nat, d.available <= p.burst
  PROVE  Promise(p, NoCounter, d, at, later) /\ Restored(p, NoCounter, at, later)
<1>1. Room(p, NoCounter, d.available, later)
  BY FreshRoom
<1>2. p.burst \in Nat \ {0}
  BY DEF PolicyBounded
<1>3. Room(p, NoCounter, p.burst, later) /\ Room(p, NoCounter, 1, later)
  BY <1>2, FreshRoom
<1>4. Room(p, NoCounter, Min({p.quota, p.burst}), later)
  BY SmallerLimit, FreshRoom
<1> QED BY <1>1, <1>3, <1>4 DEF Promise, Restored

\* The wire form of an allowance or a quota denial is accepted and read back as it was.
LEMMA WireRoundTrip ==
  ASSUME NEW d, d = Decision(d.outcome, d.capacity, d.available, d.delay),
         d.outcome \in {"allowed", "quota_denied", "shadow_denied"},
         d.capacity \in 1..MaxLimit, d.available \in Nat, d.available <= d.capacity,
         d.outcome # "allowed" => d.available = 0
  PROVE  WireAccepted(ToWire(d)) /\ FromWire(ToWire(d)) = d
<1>0. CapacityError(d.capacity) = "none"
  <2>1. d.capacity \in Nat
    OBVIOUS
  <2> QED BY <2>1, CapacityAccepted
<1> DEFINE w == ToWire(d)
<1>1. CASE d.outcome = "allowed"
  <2>1. w = [outcome |-> "allowed", capacity |-> d.capacity, available |-> d.available, delay |-> d.delay]
    BY <1>1 DEF ToWire
  <2>2. w.outcome = "allowed" /\ w.capacity = d.capacity /\ w.available = d.available /\ w.delay = d.delay
    BY <2>1
  <2> HIDE DEF w
  <2>3. WireAccepted(w)
    BY <1>0, <2>2 DEF WireAccepted
  <2>4. FromWire(w) = Decision("allowed", d.capacity, d.available, d.delay)
    BY <2>2 DEF FromWire, Allowed
  <2>5. FromWire(w) = d
    BY <1>1, <2>4
  <2> QED BY <2>3, <2>5 DEF w
<1>2. CASE d.outcome # "allowed"
  <2>0. d.outcome # "storage_denied" /\ d.available = 0
    BY <1>2
  <2> DEFINE o == IF d.outcome = "quota_denied" THEN "denied" ELSE "shadow_denied"
  <2>1. w = [outcome |-> o, reason |-> "quota_exceeded", capacity |-> d.capacity, delay |-> d.delay]
    BY <1>2, <2>0 DEF ToWire
  <2>2. w.outcome = o /\ w.reason = "quota_exceeded" /\ w.capacity = d.capacity /\ w.delay = d.delay
    BY <2>1
  <2>3. o # "allowed" /\ (o = "shadow_denied" <=> d.outcome = "shadow_denied")
    BY <1>2
  <2> HIDE DEF w, o
  <2>4. WireAccepted(w)
    BY <1>0, <2>2, <2>3 DEF WireAccepted
  <2>5. FromWire(w) = QuotaDenied(IF o = "shadow_denied" THEN "Shadow" ELSE "Enforce", d.capacity, d.delay)
    BY <2>2, <2>3 DEF FromWire
  <2>6. FromWire(w) = Decision(d.outcome, d.capacity, 0, d.delay)
    BY <1>2, <2>3, <2>5 DEF QuotaDenied
  <2>7. FromWire(w) = d
    BY <2>0, <2>6
  <2> QED BY <2>4, <2>7 DEF w
<1> QED BY <1>1, <1>2

\* So is that of a storage denial, which has no field.
LEMMA StorageRoundTrip ==
  ASSUME NEW delay, NEW d, d = StorageDenied(delay)
  PROVE  /\ WireAccepted(ToWire(d)) /\ FromWire(ToWire(d)) = d
         /\ ServiceLimitField(Name, d) = NoField
<1>1. d.outcome = "storage_denied" /\ d.delay = delay
  BY DEF StorageDenied, Decision
<1> DEFINE w == ToWire(d)
<1>2. w = [outcome |-> "denied", reason |-> "storage_capacity", delay |-> delay]
  BY <1>1 DEF ToWire
<1>3. w.outcome = "denied" /\ w.reason = "storage_capacity" /\ w.delay = delay
  BY <1>2
<1> HIDE DEF w
<1>4. WireAccepted(w) /\ FromWire(w) = d
  BY <1>3 DEF WireAccepted, FromWire
<1>5. ServiceLimitField(Name, d) = NoField
  BY <1>1 DEF ServiceLimitField
<1> QED BY <1>4, <1>5 DEF w

\* What a layer told of a decision, seen at a later instant: it was decided by a
\* policy within its limits, and what was told is a storage denial or true of the
\* counter that was left.
Truthful(t, later) ==
    /\ PolicyBounded(t.policy) /\ t.at \in Instants /\ t.at <= later
    /\ t.window = QuotaPolicyField(Name, t.policy)
    /\ \E d : /\ t.wire = ToWire(d) /\ t.limit = ServiceLimitField(Name, d)
              /\ \/ \E delay : d = StorageDenied(delay)
                 \/ Fits(t.policy, t.counter, t.at) /\ Says(t.policy, t.at, t.counter, d)

\* A field that is present holds the numbers it was built from.
LEMMA FieldNumbers ==
  ASSUME NEW f, NEW n, NEW s, f = Field(Name, n, s), f.present
  PROVE  f.n = n /\ f.seconds = s
BY DEF Field, NoField

\* A window that is told is the period of the policy.
LEMMA WindowNumbers ==
  ASSUME NEW p, PolicyBounded(p), NEW f, f = QuotaPolicyField(Name, p), f.present
  PROVE  f.n = p.quota /\ f.seconds * Second = p.period * Milli
<1> DEFINE k == p.period * Milli
<1>1. k \in Nat /\ Second \in Nat \ {0}
  <2>1. p.period \in Nat /\ Milli \in Nat
    BY PoliciesAssumption DEF PolicyBounded
  <2> QED BY <2>1, DecisionsAssumption
<1>2. k % Second = 0 /\ f = Field(Name, p.quota, k \div Second)
  BY DEF QuotaPolicyField, NoField
<1>3. f.n = p.quota /\ f.seconds = k \div Second
  BY <1>2, FieldNumbers
<1> HIDE DEF k
<1>4. (k \div Second) * Second = k
  BY <1>1, <1>2
<1> QED BY <1>3, <1>4 DEF k

\* A check within the room of a counter is granted to a client.
LEMMA RoomGrants ==
  ASSUME NEW t, PolicyBounded(t.policy), now \in Instants, NEW c, c = Entry(counters, t.key),
         c.value \in Nat, NEW n \in Nat, Room(t.policy, c, n, now)
  PROVE  Grants(t, n)
<1>1. PICK p : p = t.policy
  OBVIOUS
<1>2. Evaluate(p, c, n, now).decision.outcome = "allowed"
  BY <1>1, RoomGranted
<1> QED BY <1>1, <1>2 DEF Grants

\* A truthful answer is honest: it is read back as it was sent, and its fields hold
\* for as long as the counter is the one it left, or gone.
LEMMA TruthIsHonest ==
  ASSUME now \in Instants, NEW t, Truthful(t, now), NEW d, d = FromWire(t.wire)
  PROVE  /\ WireAccepted(t.wire)
         /\ ToWire(d) = t.wire
         /\ t.limit = ServiceLimitField(Name, d)
         /\ Entry(counters, t.key) \in {t.counter, NoCounter} /\ t.limit.present =>
             /\ Grants(t, t.limit.n)
             /\ now >= t.at + t.limit.seconds * Second =>
                    Grants(t, IF d.outcome = "allowed" THEN t.policy.burst ELSE 1)
             /\ t.window.present /\ now >= t.at + t.window.seconds * Second =>
                    Grants(t, Min({t.window.n, t.policy.burst}))
<1>1. PICK o : /\ t.wire = ToWire(o) /\ t.limit = ServiceLimitField(Name, o)
               /\ \/ \E delay : o = StorageDenied(delay)
                  \/ Fits(t.policy, t.counter, t.at) /\ Says(t.policy, t.at, t.counter, o)
  BY DEF Truthful
<1>2. PICK p : p = t.policy
  OBVIOUS
<1>3. PICK at : at = t.at
  OBVIOUS
<1>4. /\ PolicyBounded(p) /\ at \in Instants /\ at <= now /\ t.window = QuotaPolicyField(Name, p)
  BY <1>2, <1>3 DEF Truthful
<1>5. CASE \E delay : o = StorageDenied(delay)
  <2>1. WireAccepted(ToWire(o)) /\ FromWire(ToWire(o)) = o /\ t.limit = NoField
    BY <1>1, <1>5, StorageRoundTrip
  <2>2. ~t.limit.present /\ d = o
    BY <1>1, <2>1 DEF NoField
  <2> QED BY <1>1, <2>1, <2>2
<1>6. CASE Fits(t.policy, t.counter, t.at) /\ Says(t.policy, t.at, t.counter, o)
  <2>1. PICK k : k = t.counter
    OBVIOUS
  <2>2. Fits(p, k, at) /\ Says(p, at, k, o)
    BY <1>2, <1>3, <1>6, <2>1
  <2>3. /\ o = Decision(o.outcome, o.capacity, o.available, o.delay)
        /\ o.outcome \in {"allowed", "quota_denied", "shadow_denied"}
        /\ o.capacity \in 1..MaxLimit /\ o.available \in Nat /\ o.available <= o.capacity
        /\ o.available <= p.burst /\ (o.outcome # "allowed" => o.available = 0)
    BY <1>4, <2>2, SaidNumbers
  <2>4. WireAccepted(t.wire) /\ d = o
    BY <1>1, <2>3, WireRoundTrip
  <2>5. ASSUME Entry(counters, t.key) \in {t.counter, NoCounter}, t.limit.present
        PROVE  /\ Grants(t, t.limit.n)
               /\ now >= t.at + t.limit.seconds * Second =>
                      Grants(t, IF d.outcome = "allowed" THEN t.policy.burst ELSE 1)
               /\ t.window.present /\ now >= t.at + t.window.seconds * Second =>
                      Grants(t, Min({t.window.n, t.policy.burst}))
    <3>1. PICK c : c = Entry(counters, t.key)
      OBVIOUS
    <3>2. c.value \in Nat /\ Promise(p, c, o, at, now) /\ Restored(p, c, at, now)
      <4>1. CASE c = k
        <5>1. k.value \in Nat
          BY <2>2 DEF Fits
        <5>2. Promise(p, k, o, at, now)
          BY <1>4, <2>2, PromiseKept
        <5>3. Restored(p, k, at, now)
          BY <1>4, <2>2, PeriodRestores
        <5> QED BY <4>1, <5>1, <5>2, <5>3
      <4>2. CASE c = NoCounter
        <5>1. NoCounter.value \in Nat
          BY DEF NoCounter
        <5>2. Promise(p, NoCounter, o, at, now) /\ Restored(p, NoCounter, at, now)
          BY <1>4, <2>3, PromiseFresh
        <5> QED BY <4>2, <5>1, <5>2
      <4> QED BY <2>1, <2>5, <3>1, <4>1, <4>2
    <3>3. t.limit.n = o.available /\ t.limit.seconds = Seconds(o.delay)
      <4>1. o.outcome # "storage_denied"
        BY <2>3
      <4>2. t.limit = Field(Name, o.available, Seconds(o.delay))
        BY <1>1, <4>1 DEF ServiceLimitField
      <4> QED BY <2>5, <4>2, FieldNumbers
    <3>4. ASSUME NEW n \in Nat, Room(p, c, n, now) PROVE Grants(t, n)
      BY <1>2, <1>4, <3>1, <3>2, <3>4, RoomGrants
    <3>5. Grants(t, t.limit.n)
      BY <2>3, <3>2, <3>3, <3>4 DEF Promise
    <3>6. ASSUME now >= t.at + t.limit.seconds * Second
          PROVE  Grants(t, IF d.outcome = "allowed" THEN t.policy.burst ELSE 1)
      <4>1. at + Seconds(o.delay) * Second <= now
        <5>1. at + Seconds(o.delay) * Second = t.at + t.limit.seconds * Second
          BY <1>3, <3>3
        <5> QED BY <3>6, <5>1
      <4>2. PICK n : n = IF o.outcome = "allowed" THEN p.burst ELSE 1
        OBVIOUS
      <4>3. Room(p, c, n, now)
        BY <3>2, <4>1, <4>2 DEF Promise
      <4>4. n \in Nat
        BY <1>4, <4>2 DEF PolicyBounded
      <4> QED BY <1>2, <2>4, <3>4, <4>2, <4>3, <4>4
    <3>7. ASSUME t.window.present, now >= t.at + t.window.seconds * Second
          PROVE  Grants(t, Min({t.window.n, t.policy.burst}))
      <4>1. t.window.n = p.quota /\ t.window.seconds * Second = p.period * Milli
        BY <1>4, <3>7, WindowNumbers
      <4>2. at + p.period * Milli <= now
        BY <1>3, <3>7, <4>1
      <4>3. PICK n : n = Min({p.quota, p.burst})
        OBVIOUS
      <4>4. n \in Nat /\ Room(p, c, n, now)
        BY <1>4, <3>2, <4>2, <4>3, SmallerLimit DEF Restored
      <4>5. Grants(t, n)
        BY <3>4, <4>4
      <4> QED BY <1>2, <4>1, <4>3, <4>5
    <3> QED BY <3>5, <3>6, <3>7
  <2> QED BY <1>1, <2>4, <2>5
<1> QED BY <1>1, <1>5, <1>6

\* Every counter fits the policies it is kept for.
CountersFit(table, at) == \A l \in Layers, x \in Raw : Fits(l.policy, Entry(table, CounterOf(l, x)), at)

\* What fits a policy fits it in any mode.
LEMMA FitsInAnyMode ==
  ASSUME NEW p, NEW q, Configuration(p) = Configuration(q), NEW c, NEW at, Fits(p, c, at)
  PROVE  Fits(q, c, at)
<1>1. p.algorithm = q.algorithm /\ p.quota = q.quota /\ p.period = q.period /\ p.burst = q.burst
  BY DEF Configuration
<1> QED BY <1>1 DEF Fits, Top

\* An absent counter fits every policy.
LEMMA FreshFits ==
  ASSUME NEW p, PolicyBounded(p), NEW at \in Instants
  PROVE  Fits(p, NoCounter, at)
<1>1. NoCounter.value = 0 /\ NoCounter.expires = 0
  BY DEF NoCounter
<1>2. CASE p.algorithm = "fixed"
  <2>1. at \in Nat /\ p.period \in Nat /\ Milli \in Nat /\ p.quota \in Nat
    BY InstantFacts, PoliciesAssumption DEF PolicyBounded
  <2>2. p.period * Milli \in Nat
    BY <2>1
  <2> QED BY <1>1, <1>2, <2>1, <2>2 DEF Fits
<1>3. CASE p.algorithm = "gcra"
  <2>1. Top(p, Millis(at)) \in Nat
    BY <1>3, GcraRange DEF Top
  <2> QED BY <1>1, <1>3, <2>1 DEF Fits
<1> QED BY <1>2, <1>3 DEF PolicyBounded

\* A counter fits its policy for ever.
LEMMA FitsLater ==
  ASSUME NEW p, PolicyBounded(p), NEW at \in Instants, NEW later \in Instants, at <= later,
         NEW c, Fits(p, c, at)
  PROVE  Fits(p, c, later)
<1>1. c.value \in Nat /\ c.expires \in Nat
  BY DEF Fits
<1>2. CASE p.algorithm = "fixed"
  <2>1. at \in Nat /\ later \in Nat /\ p.period \in Nat /\ Milli \in Nat
    BY InstantFacts, PoliciesAssumption DEF PolicyBounded
  <2>2. p.period * Milli \in Nat
    BY <2>1
  <2>3. c.value <= p.quota /\ c.expires <= at + p.period * Milli
    BY <1>2 DEF Fits
  <2>4. c.expires <= later + p.period * Milli
    BY <1>1, <2>1, <2>2, <2>3
  <2> QED BY <1>1, <1>2, <2>3, <2>4 DEF Fits
<1>3. CASE p.algorithm = "gcra"
  <2>1. Millis(at) \in Nat /\ Millis(later) \in Nat /\ Millis(at) <= Millis(later)
    BY InstantFacts, MillisMonotone
  <2>2. Top(p, Millis(at)) \in Nat /\ Top(p, Millis(later)) \in Nat /\ Top(p, Millis(at)) <= Top(p, Millis(later))
    BY <1>3, <2>1, TopRises
  <2>3. c.value <= Top(p, Millis(at))
    BY <1>3 DEF Fits
  <2>4. c.value <= Top(p, Millis(later))
    BY <1>1, <2>2, <2>3
  <2> QED BY <1>1, <1>3, <2>4 DEF Fits
<1> QED BY <1>2, <1>3 DEF PolicyBounded

\* A truthful answer stays truthful.
LEMMA TruthfulLater ==
  ASSUME NEW t, NEW at \in Instants, NEW later \in Instants, at <= later, Truthful(t, at)
  PROVE  Truthful(t, later)
<1>1. PICK s : s = t.at
  OBVIOUS
<1>2. s \in Nat /\ at \in Nat /\ later \in Nat /\ s <= at
  BY <1>1, InstantFacts DEF Truthful
<1>3. t.at <= later
  BY <1>1, <1>2
<1> QED BY <1>3 DEF Truthful

\* Time passes: counters that have not ended are kept.
LEMMA FitAlive ==
  ASSUME NEW T, NEW at \in Instants, NEW later \in Instants, at <= later, CountersFit(T, at)
  PROVE  CountersFit(Alive(T, later), later)
<1> SUFFICES ASSUME NEW l \in Layers, NEW x \in Raw
             PROVE  Fits(l.policy, Entry(Alive(T, later), CounterOf(l, x)), later)
  BY DEF CountersFit
<1>1. PICK k : k = CounterOf(l, x)
  OBVIOUS
<1>2. PICK p : p = l.policy
  OBVIOUS
<1>3. PolicyBounded(p) /\ Fits(p, Entry(T, k), at)
  BY <1>1, <1>2, LayerBounded DEF CountersFit
<1>4. Entry(Alive(T, later), k) = Entry(T, k) \/ Entry(Alive(T, later), k) = NoCounter
  BY DEF Entry, Alive
<1>5. PICK c : c = Entry(T, k)
  OBVIOUS
<1>6. Fits(p, c, later)
  BY <1>3, <1>5, FitsLater
<1>7. Fits(p, NoCounter, later)
  BY <1>3, FreshFits
<1> QED BY <1>1, <1>2, <1>4, <1>5, <1>6, <1>7

\* What a check leaves behind, and what is told of it.
LEMMA VerdictSays ==
  ASSUME NEW T, NEW at \in Instants, CountersFit(T, at), NEW l \in Layers, NEW x \in Raw,
         NEW k, k = CounterOf(l, x), NEW p, p = l.policy, NEW v, v = Verdict(T, k, p, at),
         NEW U, U = Charge(T, k, v)
  PROVE  /\ CountersFit(U, at)
         /\ \/ \E delay : v.decision = StorageDenied(delay)
            \/ Fits(p, Entry(U, k), at) /\ Says(p, at, Entry(U, k), v.decision)
<1>1. PolicyBounded(p) /\ Fits(p, Entry(T, k), at)
  BY LayerBounded DEF CountersFit
<1>2. CASE Crowded(T, k, p)
  <2>1. v.decision = StorageDenied(CrowdedDelay(T, p, at))
    BY <1>2 DEF Verdict
  <2>2. v.decision.outcome # "allowed"
    BY <2>1 DEF StorageDenied, Decision
  <2>3. U = T
    BY <2>2 DEF Charge
  <2> QED BY <2>1, <2>3
<1>3. CASE ~Crowded(T, k, p)
  <2>1. PICK c : c = Entry(T, k)
    OBVIOUS
  <2>2. v = Evaluate(p, c, 1, at)
    BY <1>3, <2>1 DEF Verdict
  <2>3. /\ Fits(p, v.counter, at) /\ Says(p, at, v.counter, v.decision)
        /\ v.decision.outcome # "allowed" => v.counter = c
    BY <1>1, <2>1, <2>2, EvaluateSays
  <2>4. CASE v.decision.outcome = "allowed"
    <3>1. U = [j \in DOMAIN T \cup {k} |-> IF j = k THEN v.counter ELSE T[j]]
      BY <2>4 DEF Charge
    <3>2. Entry(U, k) = v.counter /\ \A j : j # k => Entry(U, j) = Entry(T, j)
      BY <3>1 DEF Entry
    <3>3. ASSUME NEW m \in Layers, NEW y \in Raw
          PROVE  Fits(m.policy, Entry(U, CounterOf(m, y)), at)
      <4>1. PICK j : j = CounterOf(m, y)
        OBVIOUS
      <4>2. CASE j # k
        BY <3>2, <4>1, <4>2 DEF CountersFit
      <4>3. CASE j = k
        <5>0. CounterOf(l, x) = CounterOf(m, y)
          BY <4>1, <4>3
        <5>1. Owner(l, x) = Owner(m, y)
          BY <5>0, KeysTell, Zenon
        <5>2. Configuration(p) = Configuration(m.policy)
          BY <5>1, Triples, Zenon DEF Owner
        <5>3. Fits(m.policy, v.counter, at)
          BY <2>3, <5>2, FitsInAnyMode
        <5> QED BY <3>2, <4>1, <4>3, <5>3
      <4> QED BY <4>2, <4>3
    <3>4. CountersFit(U, at)
      BY <3>3 DEF CountersFit
    <3> QED BY <2>3, <3>2, <3>4
  <2>5. CASE v.decision.outcome # "allowed"
    <3>1. U = T
      BY <2>5 DEF Charge
    <3> QED BY <2>1, <2>3, <2>5, <3>1
  <2> QED BY <2>4, <2>5
<1> QED BY <1>2, <1>3

\* Everything a request was told so far, by its answer or by its admissions.
HonestTo(q, later) ==
    /\ \A i \in DOMAIN q.response.sent : Truthful(q.response.sent[i], later)
    /\ \A i \in DOMAIN q.admissions : Truthful(q.admissions[i].told, later)

\* The clock is at an instant, and the counters and all that was told agree.
HonestInv ==
    /\ now \in Instants
    /\ CountersFit(counters, now)
    /\ \A r \in Request : HonestTo(request[r], now)

\* Nothing has been told to a request that has not begun.
LEMMA HonestIdle ==
  ASSUME NEW at
  PROVE  HonestTo(Idle, at) /\ Idle.admissions = <<>> /\ Idle.response.sent = <<>>
<1>1. Idle.admissions = <<>> /\ Idle.response.sent = <<>>
  BY DEF Idle, NoResponse
<1>2. DOMAIN <<>> = {}
  OBVIOUS
<1> QED BY <1>1, <1>2 DEF HonestTo

\* An answer tells what it sends.
LEMMA HonestAnswer ==
  ASSUME NEW response, NEW at, \A i \in DOMAIN response.sent : Truthful(response.sent[i], at)
  PROVE  HonestTo([Idle EXCEPT !.at = "answered", !.response = response], at)
<1> DEFINE q == [Idle EXCEPT !.at = "answered", !.response = response]
<1>1. q.response = response /\ q.admissions = <<>>
  BY DEF Idle
<1>2. DOMAIN <<>> = {}
  OBVIOUS
<1> HIDE DEF q
<1>3. HonestTo(q, at)
  BY <1>1, <1>2 DEF HonestTo
<1> QED BY <1>3 DEF q

\* The counters and the clock are as they were, and a request is told the truth.
LEMMA HonestRequest ==
  ASSUME Shape, HonestInv, NEW r \in Request, NEW q, request' = [request EXCEPT ![r] = q],
         now' = now, CountersFit(counters', now), HonestTo(q, now)
  PROVE  HonestInv'
<1>1. \A s \in Request : request'[s] = IF s = r THEN q ELSE request[s]
  BY DEF Shape
<1>2. \A s \in Request : HonestTo(request'[s], now)
  BY <1>1 DEF HonestInv
<1> QED BY <1>2 DEF HonestInv

\* The verdict on a request that is checked, in the state that follows it.
LEMMA CheckedTruth ==
  ASSUME Inv, HonestInv, NEW r \in Request, request[r].at = "checking",
         NEW v, v = Verdict(counters, KeyOf(r), Layer(r), now),
         counters' = Charge(counters, KeyOf(r), v)
  PROVE  CountersFit(counters', now) /\ Truthful(Told(Layer(r), KeyOf(r), v.decision), now)
<1>1. PICK l \in Layers, x \in Raw : l = LayerOf(r) /\ KeyOf(r) = CounterOf(l, x)
  BY CheckedCounter
<1>2. PICK p : p = l.policy /\ p = Layer(r)
  BY <1>1 DEF Layer
<1>3. PICK k : k = KeyOf(r)
  OBVIOUS
<1>4. PICK T : T = counters
  OBVIOUS
<1>5. PICK U : U = counters'
  OBVIOUS
<1>6. PICK at \in Instants : at = now
  BY DEF HonestInv
<1>7. v = Verdict(T, k, p, at) /\ U = Charge(T, k, v) /\ CountersFit(T, at) /\ k = CounterOf(l, x)
  BY <1>1, <1>2, <1>3, <1>4, <1>5, <1>6 DEF HonestInv
<1>8. /\ CountersFit(U, at)
      /\ \/ \E delay : v.decision = StorageDenied(delay)
         \/ Fits(p, Entry(U, k), at) /\ Says(p, at, Entry(U, k), v.decision)
  BY <1>2, <1>7, VerdictSays
<1>9. PolicyBounded(p)
  BY <1>2, LayerBounded
<1>10. PICK d : d = v.decision
  OBVIOUS
<1>11. PICK t : t = Told(Layer(r), KeyOf(r), v.decision)
  OBVIOUS
<1>12. /\ t.policy = p /\ t.at = at /\ t.counter = Entry(U, k) /\ t.wire = ToWire(d)
       /\ t.limit = ServiceLimitField(Name, d) /\ t.window = QuotaPolicyField(Name, p)
  <2>1. t = [policy |-> p, key |-> k, at |-> at, counter |-> Entry(U, k), wire |-> ToWire(d),
             limit |-> ServiceLimitField(Name, d), window |-> QuotaPolicyField(Name, p)]
    BY <1>2, <1>3, <1>5, <1>6, <1>10, <1>11 DEF Told
  <2> QED BY <2>1
<1>13. at <= at
  BY InstantFacts
<1>14. Truthful(t, at)
  BY <1>8, <1>9, <1>10, <1>12, <1>13 DEF Truthful
<1> QED BY <1>5, <1>6, <1>8, <1>11, <1>14

\* An admission adds what it was told to what a request knows.
LEMMA HonestAdmitted ==
  ASSUME NEW o, RequestOK(o), o.at = "checking", NEW at, HonestTo(o, at), NEW a, Truthful(a.told, at),
         NEW w, NEW n, n = [o EXCEPT !.admissions = Recorded(o.admissions, a), !.outcomes = w]
  PROVE  HonestTo(Descend(n), at)
<1>1. IsFuture(o) /\ IsSequence(o.admissions)
  BY DEF RequestOK, RecordsOK, Running
<1> DEFINE x == Append(o.admissions, a)
<1>2. n.admissions = x /\ n.response = o.response /\ IsFuture(n)
  BY <1>1 DEF IsFuture, Recorded
<1>3. /\ IsSequence(x) /\ Len(o.admissions) \in Nat /\ Len(x) = Len(o.admissions) + 1
      /\ \A i \in 1..Len(o.admissions) : x[i] = o.admissions[i]
      /\ x[Len(o.admissions) + 1] = a
  BY <1>1, Appended
<1>4. DOMAIN x = 1..Len(x) /\ DOMAIN o.admissions = 1..Len(o.admissions)
  BY <1>1, <1>3 DEF IsSequence
<1> HIDE DEF x
<1>5. ASSUME NEW i \in DOMAIN x PROVE Truthful(x[i].told, at)
  <2>1. i \in 1..Len(o.admissions) \/ i = Len(o.admissions) + 1
    BY <1>3, <1>4
  <2>2. CASE i \in 1..Len(o.admissions)
    BY <1>3, <1>4, <2>2 DEF HonestTo
  <2>3. CASE i = Len(o.admissions) + 1
    BY <1>3, <2>3
  <2> QED BY <2>1, <2>2, <2>3
<1>6. Descend(n).admissions = x /\ Descend(n).response = o.response
  BY <1>2 DEF Descend, Taken, IsFuture
<1> QED BY <1>5, <1>6 DEF HonestTo

\* An answer that tells the truth, with the counters as they fit.
LEMMA HonestAnswered ==
  ASSUME Inv, HonestInv, NEW r \in Request, NEW response, Answer(r, response), now' = now,
         CountersFit(counters', now), \A i \in DOMAIN response.sent : Truthful(response.sent[i], now)
  PROVE  HonestInv'
<1>1. PICK q : q = [Idle EXCEPT !.at = "answered", !.response = response]
  OBVIOUS
<1>2. request' = [request EXCEPT ![r] = q]
  BY <1>1 DEF Answer
<1>3. HonestTo(q, now)
  BY <1>1, HonestAnswer
<1>4. Shape
  BY DEF Inv
<1> QED BY <1>2, <1>3, <1>4, HonestRequest

\* Whether or not a check that fails was charged, the counters fit.
LEMMA ChargedOrNotFits ==
  ASSUME Inv, HonestInv, NEW r \in Request, ChargedOrNot(r)
  PROVE  CountersFit(counters', now)
<1>1. CASE UNCHANGED <<counters, ledger>>
  <2>1. counters' = counters
    BY <1>1
  <2> QED BY <2>1 DEF HonestInv
<1>2. CASE /\ request[r].at = "checking"
           /\ counters' = Charge(counters, KeyOf(r), Verdict(counters, KeyOf(r), Layer(r), now))
  BY <1>2, CheckedTruth
<1> QED BY <1>1, <1>2 DEF ChargedOrNot

\* An empty list tells nothing.
LEMMA NothingSent ==
  ASSUME NEW kind, NEW at, NEW w, w = [kind |-> kind, sent |-> <<>>]
  PROVE  \A i \in DOMAIN w.sent : Truthful(w.sent[i], at)
<1>1. w.sent = <<>> /\ DOMAIN <<>> = {}
  OBVIOUS
<1> QED BY <1>1

\* A check tells the truth, admitted or denied.
LEMMA CheckHonest ==
  ASSUME Inv, HonestInv, NEW r \in Request, Check(r)
  PROVE  HonestInv'
<1>1. PICK v : v = Verdict(counters, KeyOf(r), Layer(r), now)
  OBVIOUS
<1>2. PICK p : p = Layer(r)
  OBVIOUS
<1>3. PICK told : told = Told(Layer(r), KeyOf(r), v.decision)
  OBVIOUS
<1>4. PICK o : o = request[r]
  OBVIOUS
<1>5. o.at = "checking" /\ now' = now /\ RequestOK(o) /\ counters' = Charge(counters, KeyOf(r), v)
  BY <1>1, <1>4 DEF Check, Inv, RequestsInv
<1>6. CountersFit(counters', now) /\ Truthful(told, now)
  BY <1>1, <1>3, <1>4, <1>5, CheckedTruth
<1>7. CASE Admits(v.decision)
  <2>1. PICK a : a = Admission(p, v.decision, told)
    OBVIOUS
  <2>2. PICK w : w = Append(o.outcomes, [policy |-> p, decision |-> v.decision])
    OBVIOUS
  <2>3. PICK n : n = [o EXCEPT !.admissions = Recorded(o.admissions, a), !.outcomes = w]
    OBVIOUS
  <2>4. request' = [request EXCEPT ![r] = Descend(n)]
    <3>1. request' = [request EXCEPT ![r] =
                     Descend([request[r] EXCEPT
                        !.admissions = Recorded(request[r].admissions, Admission(Layer(r), v.decision, told)),
                        !.outcomes = Append(request[r].outcomes, [policy |-> Layer(r), decision |-> v.decision])])]
      BY <1>1, <1>3, <1>7 DEF Check
    <3> QED BY <1>2, <1>4, <2>1, <2>2, <2>3, <3>1
  <2>5. Truthful(a.told, now)
    BY <1>6, <2>1 DEF Admission
  <2>6. HonestTo(o, now)
    BY <1>4 DEF HonestInv
  <2>7. HonestTo(Descend(n), now)
    BY <1>5, <2>3, <2>5, <2>6, HonestAdmitted
  <2>8. Shape
    BY DEF Inv
  <2> QED BY <1>5, <1>6, <2>4, <2>7, <2>8, HonestRequest
<1>8. CASE ~Admits(v.decision)
  <2>1. PICK response : response = [kind |-> "Denied", sent |-> <<told>>]
    OBVIOUS
  <2>2. Answer(r, response)
    BY <1>1, <1>3, <1>8, <2>1 DEF Check
  <2>3. response.sent = <<told>> /\ DOMAIN <<told>> = {1} /\ <<told>>[1] = told
    BY <2>1
  <2>4. \A i \in DOMAIN response.sent : Truthful(response.sent[i], now)
    BY <1>6, <2>3
  <2> QED BY <1>5, <1>6, <2>2, <2>4, HonestAnswered
<1> QED BY <1>7, <1>8

\* The handler's answer repeats what its admissions were told.
LEMMA HandleHonest ==
  ASSUME Inv, HonestInv, NEW r \in Request, Handle(r)
  PROVE  HonestInv'
<1>1. PICK A : A = request[r].admissions
  OBVIOUS
<1>2. PICK response : response = [kind |-> "Handled", sent |-> [i \in DOMAIN A |-> A[i].told]]
  OBVIOUS
<1>3. Answer(r, response) /\ now' = now /\ counters' = counters
  BY <1>1, <1>2 DEF Handle
<1>4. \A i \in DOMAIN A : Truthful(A[i].told, now)
  BY <1>1 DEF HonestInv, HonestTo
<1>5. response.sent = [i \in DOMAIN A |-> A[i].told]
  BY <1>2
<1>6. \A i \in DOMAIN response.sent : Truthful(response.sent[i], now)
  BY <1>4, <1>5
<1>7. CountersFit(counters', now)
  BY <1>3 DEF HonestInv
<1> QED BY <1>3, <1>6, <1>7, HonestAnswered

\* The clock only goes forward, to the next instant.
LEMMA TickHonest ==
  ASSUME HonestInv, Tick
  PROVE  HonestInv'
<1>1. /\ now \in Instants /\ now \in Nat /\ Time \in SUBSET Nat
  BY InstantFacts, ClockAssumption DEF HonestInv
<1>2. PICK S : S = {t \in Time : t > now}
  OBVIOUS
<1>3. S \in SUBSET Nat /\ S # {}
  BY <1>1, <1>2 DEF Tick
<1>4. now' = Min(S) /\ Min(S) \in S
  BY <1>2, <1>3, MinOfNaturals DEF Tick
<1>5. PICK later \in Instants : later = now'
  BY <1>2, <1>4 DEF Instants
<1>6. now <= later
  BY <1>1, <1>2, <1>4, <1>5
<1>7. counters' = Alive(counters, later) /\ request' = request
  BY <1>5 DEF Tick
<1>8. CountersFit(counters', later)
  BY <1>1, <1>6, <1>7, FitAlive DEF HonestInv
<1>9. ASSUME NEW r \in Request PROVE HonestTo(request[r], later)
  <2>1. HonestTo(request[r], now)
    BY DEF HonestInv
  <2>2. ASSUME NEW t, Truthful(t, now) PROVE Truthful(t, later)
    BY <1>1, <1>6, <2>2, TruthfulLater
  <2> QED BY <2>1, <2>2 DEF HonestTo
<1> QED BY <1>5, <1>7, <1>8, <1>9 DEF HonestInv

\* Every step keeps the counters fitting and all answers truthful.
LEMMA HonestStep ==
  ASSUME Inv, HonestInv, [Next]_vars
  PROVE  HonestInv'
<1>0. Shape /\ CountersFit(counters, now)
  BY DEF Inv, HonestInv
<1>1. CASE UNCHANGED <<request, counters, now>>
  BY <1>1 DEF HonestInv
<1>2. ASSUME NEW c \in Connection, NEW r \in Request, NEW raw \in Raw, Call(c, r, raw) PROVE HonestInv'
  <2>1. PICK q : q = [Idle EXCEPT !.at = "called", !.layer = 1, !.stack = stack[c], !.raw = raw,
                                  !.permit = Taken(ready[c]).future]
    OBVIOUS
  <2>2. request' = [request EXCEPT ![r] = q] /\ now' = now /\ counters' = counters
    BY <1>2, <2>1 DEF Call
  <2>3. q.admissions = Idle.admissions /\ q.response = Idle.response
    BY <2>1 DEF Idle
  <2>4. HonestTo(q, now)
    BY <2>3, HonestIdle DEF HonestTo
  <2> QED BY <1>0, <2>2, <2>4, HonestRequest
<1>3. ASSUME NEW r \in Request, Extract(r) PROVE HonestInv'
  <2>0. now' = now /\ counters' = counters
    BY <1>3 DEF Extract
  <2>1. CASE Answer(r, [kind |-> "Key", sent |-> <<>>])
    <3>1. PICK w : w = [kind |-> "Key", sent |-> <<>>]
      OBVIOUS
    <3>2. Answer(r, w) /\ CountersFit(counters', now)
      BY <1>0, <2>0, <2>1, <3>1
    <3>3. \A i \in DOMAIN w.sent : Truthful(w.sent[i], now)
      BY <3>1, NothingSent
    <3> QED BY <2>0, <3>2, <3>3, HonestAnswered
  <2>2. CASE request' = [request EXCEPT ![r] =
                            [@ EXCEPT !.at = "checking",
                                      !.subject = SubjectKey(LayerOf(r), request[r].raw)]]
    <3>1. PICK o : o = request[r]
      OBVIOUS
    <3>2. PICK w : w = SubjectKey(LayerOf(r), request[r].raw)
      OBVIOUS
    <3>3. PICK q : q = [o EXCEPT !.at = "checking", !.subject = w]
      OBVIOUS
    <3>4. request' = [request EXCEPT ![r] = q]
      BY <1>0, <2>2, <3>1, <3>2, <3>3 DEF Shape
    <3>5. IsFuture(o)
      BY <3>1 DEF Inv, RequestsInv, RequestOK
    <3>6. q.admissions = o.admissions /\ q.response = o.response
      BY <3>3, <3>5 DEF IsFuture
    <3>7. HonestTo(o, now)
      BY <3>1 DEF HonestInv
    <3>8. HonestTo(q, now)
      BY <3>6, <3>7 DEF HonestTo
    <3> QED BY <1>0, <2>0, <3>4, <3>8, HonestRequest
  <2> QED BY <1>3, <2>1, <2>2 DEF Extract
<1>4. ASSUME NEW r \in Request, Check(r) PROVE HonestInv'
  BY <1>4, CheckHonest
<1>5. ASSUME NEW r \in Request, BackendFails(r) PROVE HonestInv'
  <2>1. PICK w : w = [kind |-> "Backend", sent |-> <<>>]
    OBVIOUS
  <2>2. Answer(r, w) /\ now' = now /\ ChargedOrNot(r)
    BY <1>5, <2>1 DEF BackendFails
  <2>3. CountersFit(counters', now)
    BY <2>2, ChargedOrNotFits
  <2>4. \A i \in DOMAIN w.sent : Truthful(w.sent[i], now)
    BY <2>1, NothingSent
  <2> QED BY <2>2, <2>3, <2>4, HonestAnswered
<1>6. ASSUME NEW r \in Request, Handle(r) PROVE HonestInv'
  BY <1>6, HandleHonest
<1>7. ASSUME NEW r \in Request, Disconnect(r) PROVE HonestInv'
  <2>1. PICK q : q = Idle
    OBVIOUS
  <2>2. request' = [request EXCEPT ![r] = q] /\ now' = now /\ ChargedOrNot(r)
    BY <1>7, <2>1 DEF Disconnect
  <2>3. CountersFit(counters', now)
    BY <2>2, ChargedOrNotFits
  <2>4. HonestTo(q, now)
    BY <2>1, HonestIdle
  <2> QED BY <1>0, <2>2, <2>3, <2>4, HonestRequest
<1>8. ASSUME Tick PROVE HonestInv'
  BY <1>8, TickHonest
<1> QED BY <1>1, <1>2, <1>3, <1>4, <1>5, <1>6, <1>7, <1>8 DEF Next, vars, PollReady, Deploy

----------------------------------------------------------------------------
(* Theorems                                                                *)

\* In every reachable state the records of each request are those of the layers
\* it has passed, a future has an instance exactly while it runs, and the permits
\* add up (RateLimitService::call).
THEOREM Invariance == Spec => []Inv
<1>1. Init => Inv
  BY InitInv
<1>2. Inv /\ [Next]_vars => Inv'
  BY StepInv
<1> QED BY <1>1, <1>2, PTL DEF Spec

\* The instance that was polled ready is the one every layer and the handler is
\* called with, and no permit of the inner service is lost or made up, whatever
\* is denied, fails, is dropped or replaced.
THEOREM ReadinessIsCarried == Spec => []ReadinessCarried
<1>1. Inv => ReadinessCarried
  <2> SUFFICES ASSUME Inv PROVE ReadinessCarried
    OBVIOUS
  <2>1. \A r \in Request : request[r].at \in {"called", "checking", "handling"} => request[r].permit
    BY DEF Inv, RequestsInv, RequestOK, Running
  <2>2. free + (Cardinality(Ready) + Cardinality(Permitted)) = Permits
    BY HolderFacts DEF Inv, Balanced, Shape
  <2> QED BY <2>1, <2>2 DEF ReadinessCarried, Held, Ready, Permitted
<1> QED BY <1>1, Invariance, PTL

\* A handler runs with one admission of every layer, and looking up the policy of
\* a layer (Admissions::get) finds the decision of the outermost layer with that
\* configuration; no layer let a denial through but a shadowed one of its own policy,
\* whatever was deployed meanwhile.
THEOREM AdmissionsAreFaithful == Spec => []AdmissionsFaithful
<1>1. ASSUME Inv, NEW r \in Request, request[r].at = "handling", NEW i \in DOMAIN request[r].stack
      PROVE  LET q == request[r]
                 j == SelectInSeq(q.outcomes, LAMBDA o :
                              Configuration(o.policy) = Configuration(q.stack[i].policy))
             IN  /\ Len(q.admissions) = Len(q.stack)
                 /\ Get(q.admissions, q.stack[i].policy) = j
                 /\ q.admissions[j].decision = q.outcomes[j].decision
                 /\ LetThrough(q.admissions[i].decision, q.stack[i].policy)
  <2> DEFINE q == request[r]
  <2> DEFINE p == q.stack[i].policy
  <2> DEFINE N == Len(q.stack)
  <2> DEFINE A == {k \in 1..Len(q.admissions) : IsFor(q.admissions[k], p)}
  <2> DEFINE O == {k \in 1..Len(q.outcomes) : Configuration(q.outcomes[k].policy) = Configuration(p)}
  <2> DEFINE j == IF O # {} THEN Min(O) ELSE 0
  <2>1. /\ StackOK(q.stack) /\ RecordsOK(q) /\ Passed(q) = N
    BY <1>1 DEF Inv, RequestsInv, RequestOK, Running, Passed
  <2>2. /\ N \in Nat \ {0} /\ i \in 1..N /\ PolicyOK(p)
        /\ Len(q.admissions) = N /\ Len(q.outcomes) = N
    BY <1>1, <2>1, LayerFacts DEF StackOK, RecordsOK
  <2>3. Get(q.admissions, p) = IF A # {} THEN Min(A) ELSE 0
    BY DEF Get, SelectInSeq
  <2>4. SelectInSeq(q.outcomes, LAMBDA o : Configuration(o.policy) = Configuration(q.stack[i].policy)) = j
    BY DEF SelectInSeq
  <2>5. \A k \in 1..N :
          /\ PolicyOK(q.stack[k].policy)
          /\ q.outcomes[k].policy = q.stack[k].policy
          /\ q.admissions[k].decision = q.outcomes[k].decision
          /\ q.admissions[k].id = q.stack[k].policy.id
          /\ q.admissions[k].scope = q.stack[k].policy.scope
          /\ q.admissions[k].fingerprint = Fingerprint(q.stack[k].policy)
          /\ LetThrough(q.outcomes[k].decision, q.stack[k].policy)
    BY <2>1, <2>2, LayerFacts DEF RecordsOK, StackOK
  <2>6. ASSUME NEW k \in 1..N
        PROVE  IsFor(q.admissions[k], p) <=> Configuration(q.outcomes[k].policy) = Configuration(p)
    <3> DEFINE z == q.stack[k].policy
    <3>1. PolicyOK(z) /\ q.outcomes[k].policy = z
      BY <2>5
    <3>2. IsFor(q.admissions[k], p) <=> z.id = p.id /\ z.scope = p.scope /\ Fingerprint(z) = Fingerprint(p)
      BY <2>5 DEF IsFor
    <3> HIDE DEF z, p
    <3>3. Fingerprint(z) = Fingerprint(p) <=> Configuration(z) = Configuration(p)
      BY <2>2, <3>1, FingerprintTells
    <3>4. Configuration(z) = Configuration(p) => z.id = p.id /\ z.scope = p.scope
      BY DEF Configuration
    <3> QED BY <3>1, <3>2, <3>3, <3>4
  <2>7. A = O
    BY <2>2, <2>6
  <2>8. i \in O
    BY <2>2, <2>5
  <2>9. O \in SUBSET Nat
    BY <2>2
  <2> HIDE DEF A, O
  <2>10. j \in O
    BY <2>8, <2>9, MinOfNaturals
  <2>11. j \in 1..N
    BY <2>2, <2>10 DEF O
  <2>12. Get(q.admissions, p) = j
    BY <2>3, <2>7
  <2> HIDE DEF j
  <2> QED BY <2>2, <2>4, <2>5, <2>11, <2>12
<1>2. Inv => AdmissionsFaithful
  <2> SUFFICES ASSUME Inv, NEW r \in Request, request[r].at = "handling"
               PROVE  LET q == request[r]
                      IN  /\ Len(q.admissions) = Len(q.stack)
                          /\ \A i \in DOMAIN q.stack :
                              LET j == SelectInSeq(q.outcomes, LAMBDA o :
                                           Configuration(o.policy) = Configuration(q.stack[i].policy))
                              IN  /\ Get(q.admissions, q.stack[i].policy) = j
                                  /\ q.admissions[j].decision = q.outcomes[j].decision
                                  /\ LetThrough(q.admissions[i].decision, q.stack[i].policy)
    BY DEF AdmissionsFaithful
  <2>1. Len(request[r].admissions) = Len(request[r].stack)
    BY DEF Inv, RequestsInv, RequestOK, RecordsOK, Running, Passed
  <2> QED BY <1>1, <2>1
<1> QED BY <1>2, Invariance, PTL

\* Every policy configuration and subject has a counter of its own: no digest makes
\* two of them share one, and a change of mode makes none of them start afresh
\* (Fingerprint, KeyHasher::hash_for).
THEOREM CountersAreSeparate == Spec => []CountersSeparate
<1>1. Init => MirrorInv
  <2>1. ASSUME Init PROVE DOMAIN counters = {} /\ DOMAIN ledger = {}
    BY <2>1 DEF Init
  <2> QED BY <2>1, FS_EmptySet DEF MirrorInv, Mirror
<1>2. Inv /\ MirrorInv /\ [Next]_vars => MirrorInv'
  BY MirrorStep
<1>3. ASSUME Inv, MirrorInv PROVE CountersSeparate
  <2>1. Cardinality(DOMAIN counters) = Cardinality(DOMAIN ledger)
    BY <1>3, SameSize DEF MirrorInv, Mirror
  <2>2. ASSUME NEW r \in Request, request[r].at = "checking"
        PROVE  Entry(counters, KeyOf(r)) = Entry(ledger, OwnerOf(r))
    <3>1. PICK l \in Layers, x \in Raw : KeyOf(r) = CounterOf(l, x) /\ OwnerOf(r) = Owner(l, x)
      BY <1>3, <2>2, CheckedCounter
    <3> QED BY <1>3, <3>1 DEF MirrorInv, Mirror, Entry
  <2> QED BY <2>1, <2>2 DEF CountersSeparate
<1> QED BY <1>1, <1>2, <1>3, Invariance, PTL DEF Spec

\* Until somebody else charges the counter an answer was about, the answer holds: it
\* is decoded as it was sent, the requests it leaves are granted at once, the delay
\* it tells suffices for the denied request or the whole burst, and the window it
\* tells restores the quota, for every policy a constructor accepts, every rounding
\* to seconds and every schedule of the requests (Delay::seconds, service_limit,
\* quota_policy).
THEOREM AnswersAreHonest == Spec => []AnswersHonest
<1>1. ASSUME Init PROVE HonestInv
  <2>1. now = 0 /\ now \in Instants /\ DOMAIN counters = {} /\ \A r \in Request : request[r] = Idle
    BY <1>1 DEF Init, Instants
  <2>2. CountersFit(counters, now)
    <3>1. \A k : Entry(counters, k) = NoCounter
      BY <2>1 DEF Entry
    <3> QED BY <2>1, <3>1, FreshFits, LayerBounded DEF CountersFit
  <2> QED BY <2>1, <2>2, HonestIdle DEF HonestInv
<1>2. Inv /\ HonestInv /\ [Next]_vars => HonestInv'
  BY HonestStep
<1>3. ASSUME HonestInv PROVE AnswersHonest
  <2>1. ASSUME NEW r \in Request, NEW i \in DOMAIN request[r].response.sent
        PROVE  LET t == request[r].response.sent[i]
                   d == FromWire(t.wire)
               IN  /\ WireAccepted(t.wire)
                   /\ ToWire(d) = t.wire
                   /\ t.limit = ServiceLimitField(Name, d)
                   /\ Entry(counters, t.key) \in {t.counter, NoCounter} /\ t.limit.present =>
                       /\ Grants(t, t.limit.n)
                       /\ now >= t.at + t.limit.seconds * Second =>
                              Grants(t, IF d.outcome = "allowed" THEN t.policy.burst ELSE 1)
                       /\ t.window.present /\ now >= t.at + t.window.seconds * Second =>
                              Grants(t, Min({t.window.n, t.policy.burst}))
    <3>1. PICK t : t = request[r].response.sent[i]
      OBVIOUS
    <3>2. Truthful(t, now) /\ now \in Instants
      BY <1>3, <3>1 DEF HonestInv, HonestTo
    <3>3. PICK d : d = FromWire(t.wire)
      OBVIOUS
    <3>4. /\ WireAccepted(t.wire)
          /\ ToWire(d) = t.wire
          /\ t.limit = ServiceLimitField(Name, d)
          /\ Entry(counters, t.key) \in {t.counter, NoCounter} /\ t.limit.present =>
              /\ Grants(t, t.limit.n)
              /\ now >= t.at + t.limit.seconds * Second =>
                     Grants(t, IF d.outcome = "allowed" THEN t.policy.burst ELSE 1)
              /\ t.window.present /\ now >= t.at + t.window.seconds * Second =>
                     Grants(t, Min({t.window.n, t.policy.burst}))
      BY <3>2, <3>3, TruthIsHonest
    <3> QED BY <3>1, <3>3, <3>4, Zenon
  <2> QED BY <2>1, Zenon DEF AnswersHonest
<1> QED BY <1>1, <1>2, <1>3, Invariance, PTL DEF Spec

=============================================================================
