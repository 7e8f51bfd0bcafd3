\* The instruction to the model, answered in full, on two general questions.
SPECIFICATION Spec
CONSTANTS
  ollama = ollama
  ollama_fast = ollama_fast
  openai = openai
  u1 = u1
  u2 = u2
  u3 = u3
  NoProvider = NoProvider
  ProviderOrder <- Order
  Local <- LocalProviders
  Configured <- ConfiguredProviders
  Url <- Urls
  NoUrl = NoUrl
  Pages <- SomePages
  Findings <- SomeFindings
  Extracts <- SomeExtracts
  Message <- FewMessages
  Instance <- Beta
  MaxResults = 2
  MaxEntries = 4
  MaxContext = 6
  MaxTurns = 1
INVARIANT
  ModelAnswerKept
CHECK_DEADLOCK FALSE
