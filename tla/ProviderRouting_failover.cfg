\* The orchestrator's three providers, one of them removed and registered
\* again, every health they can reach and every policy.
SPECIFICATION FairSpec
CONSTANTS
  strong = strong  fast = fast  cloud = cloud
  NoProvider = NoProvider
  Provider = {strong, fast, cloud}
  Order <- ThreeProviders
  Local = {strong, fast}
  Cloud = {cloud}
  Priority <- MCPriority
  DegradedAfter = 1
  UnavailableAfter = 2
  Policies <- EveryPolicy
  Needs <- ThreeNeeds
  Named = {NoProvider, fast}
  Keyless = {strong, fast}
  Managed = {cloud}
INVARIANTS
  FailoverSound
  HealthEarned
PROPERTIES
  NoResurrection
  RequestEnds
