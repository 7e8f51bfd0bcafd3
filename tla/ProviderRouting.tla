--------------------------- MODULE ProviderRouting ---------------------------
(***************************************************************************)
(* AIModelRouter (intelligence/router.py), the ProviderRuntime behind it   *)
(* and the part of ProviderConfigGate it relies on: providers are          *)
(* registered and removed, disabled and enabled, and each request is given *)
(* to one provider after another, in an order computed from their health,  *)
(* until one succeeds.                                                     *)
(*                                                                         *)
(* The router runs on the caller's thread, so the registry does not change *)
(* while a request is being served; the health of a provider does, with    *)
(* every outcome recorded.                                                 *)
(***************************************************************************)
EXTENDS Integers, Sequences, FiniteSets

CONSTANTS
  Provider,         \* names of providers
  NoProvider,       \* None where a name is expected
  Order,            \* the providers registered at the start, in this order
  Local, Cloud,     \* the providers of type "local", and of type "cloud"
  Priority,         \* routing_priority
  DegradedAfter,    \* degraded_after_failures
  UnavailableAfter, \* unavailable_after_failures
  Policies,         \* the policies requests come with
  Needs,            \* for each kind of request, the capable providers
  Named,            \* the names passed as provider_name, or NoProvider
  Keyless,          \* the providers that need no credential
  Managed           \* bound: the providers registered, removed and made the
                    \* default meanwhile

ASSUME ProviderAssumption ==
  /\ NoProvider \notin Provider
  /\ Order \in Seq(Provider)
  /\ \A i, j \in 1 .. Len(Order) : Order[i] = Order[j] => i = j
  /\ Managed \subseteq Provider /\ Keyless \subseteq Provider
ASSUME ThresholdAssumption ==
  /\ DegradedAfter \in Nat \ {0}
  /\ UnavailableAfter \in Nat
  /\ DegradedAfter <= UnavailableAfter
ASSUME PriorityAssumption == Priority \in [Provider -> Nat]

VARIABLES
  providers,  \* keys of the dictionary `providers', in insertion order
  configured, \* providers whose configuration snapshot is configured
  default,    \* default_provider
  status,     \* status of each runtime record, "missing" without a record
  streak,     \* consecutive_failures, counted up to UnavailableAfter
  phase,      \* "calling" while generate() runs, "ended", then "quiet"
  request,    \* the arguments of generate()
  candidates, \* the candidates not called yet
  answer,     \* the ModelResponse, or that generate() raised
  called,     \* history: the providers this request has called
  entitled,   \* history: those it could be given to when it was made
  health,     \* history: their status at that moment
  proven      \* history: providers that succeeded since their last reset

registry == <<providers, configured, default>>
runtime  == <<status, streak, proven>>
serving  == <<phase, request, candidates, answer, called, entitled, health>>
vars == <<registry, runtime, serving>>

Strategy == {"local", "cloud", "hybrid"}
Status   == {"unknown", "available", "degraded", "unavailable", "disabled"}
Policy   == [strategy: Strategy, local: BOOLEAN, cloud: BOOLEAN]

ASSUME PolicyAssumption ==
  /\ Policies \subseteq Policy
  /\ Needs \subseteq SUBSET Provider
  /\ Named \subseteq Provider \cup {NoProvider}

\* The policy of a request without one, which the legacy routing serves.
NoPolicy == [strategy |-> "legacy", local |-> TRUE, cloud |-> TRUE]

Request == [policy: Policies \cup {NoPolicy}, capable: SUBSET Provider,
            named: Provider \cup {NoProvider}]

Answer == [result: {"pending", "success", "failure", "raised"},
           provider: Provider \cup {NoProvider}]

TypeOK ==
  /\ providers \in Seq(Provider)
  /\ configured \in SUBSET Provider
  /\ default \in Provider \cup {NoProvider}
  /\ status \in [Provider -> Status \cup {"missing"}]
  /\ streak \in [Provider -> 0 .. UnavailableAfter]
  /\ phase \in {"quiet", "calling", "ended"}
  /\ request \in Request
  /\ candidates \in Seq(Provider)
  /\ answer \in Answer
  /\ called \in Seq(Provider)
  /\ entitled \in SUBSET Provider
  /\ health \in [Provider -> Status \cup {"missing"}]
  /\ proven \in SUBSET Provider

-----------------------------------------------------------------------------
Members(s) == {s[i] : i \in 1 .. Len(s)}

Registered == Members(providers)

\* _provider_runtime_rank, 3 standing for None.
Rank(p) == CASE status[p] = "available" -> 0
             [] status[p] = "unknown"   -> 1
             [] status[p] = "degraded"  -> 2
             [] OTHER                   -> 3

\* Mutant of Usable: the runtime rank is not looked at.
UsableAnyway(p) == p \in Registered \cap configured

\* Registered, configured, and with a runtime rank.
Usable(p) == p \in Registered \cap configured /\ Rank(p) < 3

\* The providers append_matching is called for.
Permitted(policy, p) ==
  CASE policy.strategy = "local"  -> p \in Local \/ (policy.cloud /\ p \in Cloud)
    [] policy.strategy = "cloud"  -> p \in Cloud \/ (policy.local /\ p \in Local)
    [] policy.strategy = "hybrid" -> \/ policy.local /\ policy.cloud
                                     \/ policy.local /\ p \in Local
                                     \/ policy.cloud /\ p \in Cloud

\* 0 for the providers the first call of append_matching appends.
Turn(policy, p) ==
  CASE policy.strategy = "local"  -> IF p \in Local THEN 0 ELSE 1
    [] policy.strategy = "cloud"  -> IF p \in Cloud THEN 0 ELSE 1
    [] policy.strategy = "hybrid" -> 0

\* Mutant of Before: the order of registration alone.
BeforeRegistered(policy, p, q) ==
  \E i, j \in 1 .. Len(providers) :
    providers[i] = p /\ providers[j] = q /\ i < j

\* p comes before q: the calls of append_matching, then _ranked_providers'
\* stability, routing priority, runtime rank and place in the registry.
Before(policy, p, q) ==
  LET Key(x) == << Turn(policy, x), IF Rank(x) >= 2 THEN 1 ELSE 0,
                   Priority[x], Rank(x),
                   CHOOSE i \in 1 .. Len(providers) : providers[i] = x >>
  IN  \E i \in 1 .. 5 : /\ Key(p)[i] < Key(q)[i]
                        /\ \A j \in 1 .. i - 1 : Key(p)[j] = Key(q)[j]

\* The members of S in the order of Before.
Ranked(policy, S) ==
  CHOOSE s \in [1 .. Cardinality(S) -> S] :
    \A i, j \in 1 .. Cardinality(S) : i < j => Before(policy, s[i], s[j])

\* The provider p alone, if it is one and can be used.
Only(p) == IF p \in Provider /\ Usable(p) THEN <<p>> ELSE << >>

\* The caller names the provider.
Explicit(r) == r.named # NoProvider

\* _policy_candidates
PolicyCandidates(r) ==
  LET S == {p \in r.capable : Usable(p) /\ Permitted(r.policy, p)}
  IN  IF Explicit(r) THEN Only(r.named)
      ELSE IF S # {} THEN Ranked(r.policy, S)
      ELSE Only(default)

\* The legacy routing: a registered, configured provider whatever its health.
LegacyCandidates(r) ==
  LET p == IF r.named # NoProvider THEN r.named ELSE default
  IN  IF p \in Registered \cap configured THEN <<p>> ELSE << >>

NoRequest == [policy |-> NoPolicy, capable |-> {}, named |-> NoProvider]
NoAnswer  == [result |-> "pending", provider |-> NoProvider]

-----------------------------------------------------------------------------
\* The providers of Order have been registered.
Init ==
  /\ providers = Order
  /\ configured \in SUBSET Registered
  /\ Keyless \cap Registered \subseteq configured
  /\ default = IF Order = << >> THEN NoProvider ELSE Order[1]
  /\ status = [p \in Provider |-> IF p \in Registered THEN "unknown"
                                                      ELSE "missing"]
  /\ streak = [p \in Provider |-> 0]
  /\ phase = "quiet"
  /\ request = NoRequest
  /\ candidates = << >>
  /\ answer = NoAnswer
  /\ called = << >>
  /\ entitled = {}
  /\ health = [p \in Provider |-> "missing"]
  /\ proven = {}

\* register_provider: the runtime record of a known name is kept, and the
\* configuration is inspected anew.
Register(p, ok) ==
  /\ phase = "quiet"
  /\ providers' = IF p \in Registered THEN providers ELSE Append(providers, p)
  /\ configured' = IF ok THEN configured \cup {p} ELSE configured \ {p}
  /\ default' = IF default = NoProvider THEN p ELSE default
  /\ status' = [status EXCEPT ![p] = IF @ = "missing" THEN "unknown" ELSE @]
  /\ UNCHANGED <<streak, proven, serving>>

\* The registry without p: the names behind it move up.
Without(p) ==
  LET k == CHOOSE i \in 1 .. Len(providers) : providers[i] = p
  IN  IF p \notin Registered THEN providers
      ELSE [i \in 1 .. Len(providers) - 1 |->
              IF i < k THEN providers[i] ELSE providers[i + 1]]

\* remove_provider, which forgets the runtime record.
Remove(p) ==
  /\ phase = "quiet"
  /\ providers' = Without(p)
  /\ configured' = configured \ {p}
  /\ default' = IF default # p THEN default
                ELSE IF providers' = << >> THEN NoProvider ELSE providers'[1]
  /\ status' = [status EXCEPT ![p] = "missing"]
  /\ streak' = [streak EXCEPT ![p] = 0]
  /\ proven' = proven \ {p}
  /\ UNCHANGED serving

SetDefault(p) ==
  /\ phase = "quiet"
  /\ p \in Registered
  /\ default' = p
  /\ UNCHANGED <<providers, configured, runtime, serving>>

\* ProviderRuntime.disable
Disable(p) ==
  /\ phase = "quiet"
  /\ status' = [status EXCEPT ![p] = "disabled"]
  /\ proven' = proven \ {p}
  /\ UNCHANGED <<registry, streak, serving>>

\* Mutant of EnabledStatus: enabling claims availability.
EnabledStatusAvailable == "available"

\* enable() does not claim live availability.
EnabledStatus == "unknown"

\* ProviderRuntime.enable
Enable(p) ==
  /\ phase = "quiet"
  /\ status' = [status EXCEPT ![p] = EnabledStatus]
  /\ streak' = [streak EXCEPT ![p] = 0]
  /\ proven' = proven \ {p}
  /\ UNCHANGED <<registry, serving>>

\* generate(): the candidates are chosen, or there is none.
Generate(r) ==
  LET chosen == IF r.policy = NoPolicy THEN LegacyCandidates(r)
                                     ELSE PolicyCandidates(r)
  IN  /\ phase = "quiet"
      /\ request' = r
      /\ candidates' = chosen
      /\ called' = << >>
      /\ health' = status
      /\ entitled' =
           IF r.policy = NoPolicy \/ r.named # NoProvider THEN {}
           ELSE {p \in r.capable :
                   /\ Usable(p)
                   /\ \/ p \in Local /\ r.policy.local
                      \/ p \in Cloud /\ r.policy.cloud}
      /\ IF chosen = << >>
         THEN /\ answer' = [result |-> "failure", provider |-> NoProvider]
              /\ phase' = "ended"
         ELSE /\ phase' = "calling"
              /\ UNCHANGED answer
      /\ UNCHANGED <<registry, runtime>>

\* generate() ends.
End(p, result) ==
  /\ phase' = "ended"
  /\ answer' = [result |-> result, provider |-> p]
  /\ candidates' = << >>

\* record_success
RecordSuccess(p) ==
  /\ status' = [status EXCEPT ![p] = "available"]
  /\ streak' = [streak EXCEPT ![p] = 0]
  /\ proven' = proven \cup {p}

\* The status after n consecutive failures.
FailureStatus(n, old) ==
  IF n >= UnavailableAfter THEN "unavailable"
  ELSE IF n >= DegradedAfter THEN "degraded" ELSE old

\* record_failure; only the thresholds tell lengths of the streak apart.
RecordFailure(p) ==
  LET n == IF streak[p] < UnavailableAfter THEN streak[p] + 1 ELSE streak[p]
  IN  /\ streak' = [streak EXCEPT ![p] = n]
      /\ status' = [status EXCEPT ![p] = FailureStatus(n, @)]
      /\ UNCHANGED proven

\* Mutant of Remaining: a failure ends the request.
RemainingNone == << >>

\* Mutant of Remaining: the provider that failed is called again.
RemainingAll == candidates

\* The candidates left when the one being called has failed.
Remaining == IF Explicit(request) THEN << >> ELSE Tail(candidates)

\* Mutant of Call: a degraded provider is skipped without taking the next.
CallHealthy ==
  /\ phase = "calling"
  /\ status[Head(candidates)] # "degraded"
  /\ called' = Append(called, Head(candidates))
  /\ UNCHANGED <<registry, request, entitled, health>>

\* _generate_with_runtime and the loop around it: the provider called
\* returns a successful or an unsuccessful response, or raises.
Call ==
  /\ phase = "calling"
  /\ called' = Append(called, Head(candidates))
  /\ UNCHANGED <<registry, request, entitled, health>>

CallSucceeds ==
  /\ Call
  /\ RecordSuccess(Head(candidates))
  /\ End(Head(candidates), "success")

CallFails ==
  /\ Call
  /\ RecordFailure(Head(candidates))
  /\ IF Remaining = << >>
     THEN End(Head(candidates), "failure")
     ELSE candidates' = Remaining /\ UNCHANGED <<phase, answer>>

CallRaises ==
  /\ Call
  /\ RecordFailure(Head(candidates))
  /\ End(Head(candidates), "raised")

\* The caller takes the answer; the locals of generate() are gone.
Take ==
  /\ phase = "ended"
  /\ phase' = "quiet"
  /\ request' = NoRequest
  /\ answer' = NoAnswer
  /\ called' = << >>
  /\ entitled' = {}
  /\ health' = [p \in Provider |-> "missing"]
  /\ UNCHANGED <<registry, runtime, candidates>>

CallStep == CallSucceeds \/ CallFails \/ CallRaises

Control ==
  \/ \E p \in Managed, ok \in BOOLEAN : Register(p, ok)
  \/ \E p \in Managed : Remove(p) \/ SetDefault(p)
  \/ \E p \in Provider : Disable(p) \/ Enable(p)

Ask ==
  \E policy \in Policies \cup {NoPolicy}, capable \in Needs, name \in Named :
    Generate([policy |-> policy, capable |-> capable, named |-> name])

Next == Control \/ Ask \/ CallStep \/ Take

Spec == Init /\ [][Next]_vars

\* A request being served goes on, and providers return or raise.
FairSpec == Spec /\ WF_vars(CallStep)

-----------------------------------------------------------------------------
(***************************************************************************)
(* A request is given up only when every provider that was usable, capable *)
(* and allowed by the policy's flags has been called and has failed; a     *)
(* provider that raises is the one exception.                              *)
(***************************************************************************)
FailoverComplete ==
  answer.result = "failure" => entitled \subseteq Members(called)

(***************************************************************************)
(* The order of failover: a LOCAL or CLOUD request tries its own type of   *)
(* provider first, and within a type no degraded provider is called before *)
(* one that has not failed.                                                *)
(***************************************************************************)
Ahead(q, p) ==
  LET preferred == CASE request.policy.strategy = "local" -> Local
                     [] request.policy.strategy = "cloud" -> Cloud
                     [] OTHER                             -> Provider
  IN  \/ q \in preferred /\ p \notin preferred
      \/ /\ q \in preferred <=> p \in preferred
         /\ health[q] \in {"available", "unknown"}
         /\ health[p] = "degraded"

FailoverOrder ==
  \A i \in 1 .. Len(called) :
    \A q \in entitled \ {called[i]} :
      Ahead(q, called[i]) => \E j \in 1 .. i - 1 : called[j] = q

(***************************************************************************)
(* No request calls a provider twice, the answer is the last one's, and a  *)
(* provider the caller named is not replaced by another.                   *)
(***************************************************************************)
TriedOnce ==
  /\ request.named # NoProvider => Members(called) \subseteq {request.named}
  /\ \A i, j \in 1 .. Len(called) : called[i] = called[j] => i = j
  /\ answer.result \in {"success", "raised"} =>
       called # << >> /\ answer.provider = called[Len(called)]

(***************************************************************************)
(* generate() as a whole: every provider entitled to the request is tried, *)
(* in the order of preference and health, once, and no other is named.     *)
(***************************************************************************)
FailoverSound ==
  TypeOK /\ FailoverComplete /\ FailoverOrder /\ TriedOnce

(***************************************************************************)
(* The status of a provider is earned: AVAILABLE by a success since it was *)
(* last registered, disabled or enabled, with fewer failures after it than *)
(* make it DEGRADED; DEGRADED and UNAVAILABLE by as many failures in a row *)
(* as the thresholds say.                                                  *)
(***************************************************************************)
HealthEarned ==
  \A p \in Provider :
    /\ status[p] = "available"   => p \in proven
    /\ status[p] \in {"available", "unknown"} => streak[p] < DegradedAfter
    /\ status[p] = "degraded"    => streak[p] >= DegradedAfter
    /\ status[p] = "degraded"    => streak[p] < UnavailableAfter
    /\ status[p] = "unavailable" => streak[p] = UnavailableAfter

(***************************************************************************)
(* Serving a request with a policy never brings back a provider that is    *)
(* disabled or unavailable: it takes enable(), a new registration or the   *)
(* legacy routing.                                                         *)
(***************************************************************************)
NoResurrection ==
  [][\A p \in Provider :
       /\ status[p] \in {"disabled", "unavailable"}
       /\ phase = "calling" /\ request.policy # NoPolicy
       => status'[p] = status[p]]_vars

(***************************************************************************)
(* Every request is answered or raises, if the providers return or raise.  *)
(***************************************************************************)
RequestEnds == phase = "calling" ~> phase = "ended"

-----------------------------------------------------------------------------
(***************************************************************************)
(* The docstring of _provider_runtime_rank: "UNAVAILABLE / DISABLED:       *)
(* Excluded from automatic selection."                                     *)
(***************************************************************************)
AutomaticallyUsable ==
  request.named = NoProvider =>
    \A p \in Members(called) : health[p] \notin {"unavailable", "disabled"}
=============================================================================
