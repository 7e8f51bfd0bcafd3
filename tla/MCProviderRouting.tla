-------------------------- MODULE MCProviderRouting --------------------------
(***************************************************************************)
(* Instances of ProviderRouting for TLC.                                   *)
(***************************************************************************)
EXTENDS ProviderRouting

CONSTANTS strong, fast, cloud

\* The providers the orchestrator registers, and their priorities.
ThreeProviders == <<strong, fast, cloud>>
MCPriority == [p \in Provider |-> IF p = strong THEN 20
                                  ELSE IF p = fast THEN 10 ELSE 100]

\* What AdaptivePolicyEngine returns: cloud use is always allowed.
EnginePolicies ==
  {[strategy |-> "local", local |-> TRUE, cloud |-> TRUE]}
    \cup [strategy: {"cloud", "hybrid"}, local: BOOLEAN, cloud: {TRUE}]

\* Those, and the ones that forbid the cloud.
EveryPolicy == {p \in Policy : p.strategy = "local" => p.local}

\* A simple request, a complex one, and one no provider is capable of.
ThreeNeeds == {Provider, {strong, cloud}, {}}
=============================================================================
