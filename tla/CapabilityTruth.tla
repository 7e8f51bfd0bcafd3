--------------------------- MODULE CapabilityTruth ---------------------------
(***************************************************************************)
(* What a running instance may say of itself: the snapshot built by        *)
(* src/intelligence/verified_capabilities.py from the objects attached to  *)
(* the orchestrator, the tools src/execution/functional_runtime.py         *)
(* registers, and the status answers and provider choices the              *)
(* orchestrator makes from them.                                           *)
(*                                                                         *)
(* An instance is [router, brain, retrieval, execution : BOOLEAN] with     *)
(* `tools' registered; `configured' are the providers whose configuration  *)
(* is complete, `health' their runtime status, and `web' what the last     *)
(* search left behind.                                                     *)
(***************************************************************************)
EXTENDS RequestAnalysis

CONSTANTS
  ProviderOrder,  \* list_providers(), in registration order
  Local,          \* the providers of type "local"
  NoProvider      \* None where a provider is expected

Provider == Range(ProviderOrder)

ActionCapabilities ==
  {"filesystem_actions", "system_actions", "web_actions", "reminders"}

RuntimeCapabilities ==
  {"conversation", "persistent_memory", "brain", "ai_routing",
   "execution_actions", "tool_execution", "worker_execution", "voice",
   "web_retrieval"}

\* In a snapshot a provider's name carries a prefix of its own.
ASSUME RouteAssumption ==
  /\ Provider \cap (ActionCapabilities \cup RuntimeCapabilities
                      \cup {"routes", "identity"}) = {}
  /\ ProviderOrder \in Seq(Provider)
  /\ \A i, j \in DOMAIN ProviderOrder :
       ProviderOrder[i] = ProviderOrder[j] => i = j
  /\ Local \subseteq Provider
  /\ NoProvider \notin Provider

Health == {"unknown", "available", "degraded", "unavailable", "disabled"}

\* The tools build_functional_execution_runtime registers, all enabled and
\* with a handler, each with the capabilities it is bound to.
StandardTools ==
  LET tool(name, for) == [name |-> name, for |-> {"execution_actions"} \cup for]
  IN {tool("application.launch", {"system_actions"}),
      tool("web.open_url", {"system_actions", "web_actions"}),
      tool("filesystem.read", {"filesystem_actions"}),
      tool("filesystem.write", {"filesystem_actions"}),
      tool("system.performance_snapshot", {"system_actions"})}

Bound(tools, name) == \E tool \in tools : name \in tool.for

-----------------------------------------------------------------------------
(* VerifiedCapabilityBuilder                                               *)

Attached(connected) == IF connected THEN "available" ELSE "not_connected"

RetrievalTruth(attached, web) ==
  IF ~attached THEN "not_connected"
  ELSE IF web.succeeded THEN "available"
  ELSE IF web.attempted THEN "unavailable"
  ELSE "configured"

\* Mutant of ProviderTruth: a provider that is configured is available.
ConfiguredIsAvailable(p, configured, health) ==
  IF p \notin configured THEN "not_configured"
  ELSE IF health[p] = "unknown" THEN "available"
  ELSE health[p]

\* Configuration first, then what was observed of the provider; a provider
\* that was never called is configured, not available.
ProviderTruth(p, configured, health) ==
  IF p \notin configured THEN "not_configured"
  ELSE IF health[p] = "unknown" THEN "configured"
  ELSE health[p]

\* Mutant of ActionTruth: the runtime is taken for the tools.
RuntimeIsEnough(rt, tools, name) == Attached(rt.execution)

ActionTruth(rt, tools, name) ==
  IF ~rt.execution THEN "not_connected"
  ELSE IF Bound(tools, name) THEN "available"
  ELSE "not_verified"

Snapshot(rt, tools, configured, health, web) ==
  LET fixed == [conversation |-> "available",
                persistent_memory |-> "not_connected",
                brain |-> Attached(rt.brain),
                ai_routing |-> Attached(rt.router),
                execution_actions |-> Attached(rt.execution),
                tool_execution |-> Attached(rt.execution),
                worker_execution |-> "not_connected",
                voice |-> "not_connected",
                web_retrieval |-> RetrievalTruth(rt.retrieval, web)]
      routes == IF rt.router THEN Provider ELSE {}
  IN [name \in RuntimeCapabilities \cup routes \cup ActionCapabilities |->
        IF name \in RuntimeCapabilities THEN fixed[name]
        ELSE IF name \in routes THEN ProviderTruth(name, configured, health)
        ELSE ActionTruth(rt, tools, name)]

Available(snapshot, name) ==
  name \in DOMAIN snapshot /\ snapshot[name] = "available"

-----------------------------------------------------------------------------
(* Providers as the orchestrator sees them                                 *)

Rank == [available |-> 0, unknown |-> 1, degraded |-> 2,
         unavailable |-> 3, disabled |-> 3]

Eligible(configured, health) ==
  {p \in configured : Rank[health[p]] < 3}

\* The first of those of the best rank, in registration order.
Best(candidates, health) ==
  LET position == [p \in candidates |->
                     CHOOSE i \in DOMAIN ProviderOrder : ProviderOrder[i] = p]
  IN IF candidates = {} THEN NoProvider
     ELSE CHOOSE p \in candidates :
            \A q \in candidates :
              \/ Rank[health[p]] < Rank[health[q]]
              \/ Rank[health[p]] = Rank[health[q]] /\ position[p] <= position[q]

\* Mutant of LocalSynthesisProvider: any eligible provider may be chosen.
AnySynthesisProvider(configured, health) ==
  Best(Eligible(configured, health), health)

\* Mutant of LocalSynthesisProvider: the first one, whatever its health.
FirstLocalProvider(configured, health) ==
  Best(Eligible(configured, health) \cap Local,
       [p \in Provider |-> "available"])

LocalSynthesisProvider(configured, health) ==
  Best(Eligible(configured, health) \cap Local, health)

-----------------------------------------------------------------------------
(* Status answers                                                          *)

CapabilitiesAsked(text) ==
  {name \in {"web_retrieval", "system_actions", "filesystem_actions",
             "reminders"} :
     SaysAny(text, {CASE name = "web_retrieval" -> "web"
                      [] name = "system_actions" -> "computer"
                      [] name = "filesystem_actions" -> "files"
                      [] name = "reminders" -> "reminders"})}

\* The capabilities named, or all that are available and all that are not
\* but the providers, each with its status.
CapabilityClaims(text, snapshot) ==
  LET asked == CapabilitiesAsked(text)
  IN {[of |-> name, is |-> snapshot[name]] :
        name \in IF asked # {} THEN asked
                 ELSE {n \in DOMAIN snapshot :
                         n \notin Provider \/ snapshot[n] = "available"}}

\* Who Cauvis is, and every eligible route: none of them answers this.
RuntimeClaims(text, eligible) ==
  LET identity == [of |-> "identity", is |-> "cauvis"]
      routes == IF eligible = {} THEN {[of |-> "routes", is |-> "none"]}
                ELSE {[of |-> p, is |-> "eligible"] : p \in eligible}
  IN {claim \in {identity} \cup routes :
        IF claim = identity THEN Opens(text, {"identity"})
        ELSE SaysAny(text, {"model", "provider"})}

\* One claim per status segment, told once.
StatusClaims(segments, snapshot, eligible) ==
  UNION {IF StatusKind(segments, i) = "capability_status"
           THEN CapabilityClaims(segments[i], snapshot)
           ELSE RuntimeClaims(segments[i], eligible) :
         i \in StatusSegments(segments)}
=============================================================================
