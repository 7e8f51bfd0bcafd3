\* Three turns of every kind, on four orchestrators.
SPECIFICATION Spec
CONSTANTS
  ollama = ollama
  ollama_fast = ollama_fast
  openai = openai
  u1 = u1
  u2 = u2
  u3 = u3
  NoProvider = NoProvider
  ProviderOrder <- Order
  Local <- LocalProviders
  Configured <- ConfiguredProviders
  Url <- Urls
  NoUrl = NoUrl
  Pages <- SomePages
  Findings <- SomeFindings
  Extracts <- SomeExtracts
  Message <- AllMessages
  Instance <- Instances
  MaxResults = 2
  MaxEntries = 4
  MaxContext = 6
  MaxTurns = 3
INVARIANTS
  TypeOK
  EvidenceBeforeModel
  TranscriptFaithful
  PromptFaithful
  AnswerTruthful
  CitationsResolve
  NothingInternal
PROPERTY
  EvidenceStaysLocal
CHECK_DEADLOCK FALSE
