\* The docstring on unavailable and disabled providers.
SPECIFICATION Spec
CONSTANTS
  strong = strong  fast = fast  cloud = cloud
  NoProvider = NoProvider
  Provider = {strong, fast, cloud}
  Order <- ThreeProviders
  Local = {strong, fast}
  Cloud = {cloud}
  Priority <- MCPriority
  DegradedAfter = 1
  UnavailableAfter = 2
  Policies <- EnginePolicies
  Needs <- ThreeNeeds
  Named = {NoProvider, fast}
  Keyless = {strong, fast}
  Managed = {cloud}
INVARIANT
  AutomaticallyUsable
