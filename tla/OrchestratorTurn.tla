-------------------------- MODULE OrchestratorTurn --------------------------
(***************************************************************************)
(* CauvisOrchestrator.handle (src/core/orchestrator.py): one turn of the   *)
(* conversation, from the user's words to the answer.  A pending action is *)
(* resumed first; then greetings, actions, searches, the guards that keep  *)
(* what needs evidence from the model, the answers Cauvis gives of itself, *)
(* and at last the model, whose words pass the output boundary.            *)
(*                                                                         *)
(* Turns run one at a time on the caller's thread.  The action bridge      *)
(* (module ActionDialogue), the router (module ProviderRouting), the       *)
(* search engines and the models' words are seen here by what they return. *)
(***************************************************************************)
EXTENDS CapabilityTruth, OutputBoundary, SessionMemory, WebRetrieval

CONSTANTS
  Message,     \* what a user may say
  Instance,    \* the orchestrators there are
  Configured,  \* providers whose configuration is complete
  Pages,       \* what the first search engine may reply
  Findings,    \* what the second may, and
  Extracts,    \* what to its second call
  MaxTurns     \* bound: turns of a session

ASSUME TurnAssumption ==
  /\ Message \subseteq Seq(Clause) \ {<<>>}
  /\ Instance \subseteq [ai : BOOLEAN, router : BOOLEAN, brain : BOOLEAN,
                         retrieval : BOOLEAN, execution : BOOLEAN]
  /\ \A rt \in Instance : rt.brain => rt.router
  /\ Configured \subseteq Provider
  /\ Pages \subseteq Page /\ Findings \subseteq Finding
  /\ \A x \in Extracts : /\ x.status \in Status /\ DOMAIN x.texts \subseteq Url
                          /\ \A u \in DOMAIN x.texts : x.texts[u] \in Nat
  /\ MaxTurns \in Nat

VARIABLES
  rt,          \* what is attached to this orchestrator
  stage,       \* where the turn stands
  turn,        \* turns begun
  text,        \* the user's words
  parts,       \* the segments they are analyzed as
  found,       \* the searches of this turn: segment -> RetrievalResult
  transcript,  \* ConversationRuntime: the session's entries
  facts,       \* FactualContextRuntime: the session's facts
  pending,     \* does the bridge keep an unfinished action?
  web,         \* last_attempted and last_success of the retrieval runtime
  health,      \* runtime status of the providers
  prompt,      \* what the model is shown in this turn
  answer,      \* the last CauvisResponse
  called,      \* history: the providers this turn called
  unanswered   \* history: turns whose model call gave no answer

memory  == <<transcript, facts>>
outside == <<web, health>>
vars == <<rt, stage, turn, text, parts, found, memory, pending, outside, prompt,
          answer, called, unanswered>>

NoPrompt == [history |-> <<>>, facts |-> <<>>, evidence |-> <<>>,
             truth |-> FALSE, input |-> <<>>, claims |-> {}]

Response(status, path) ==
  [status |-> status, path |-> path, model |-> FALSE, performed |-> FALSE,
   body |-> <<>>, claims |-> {}, sources |-> <<>>, evidence |-> {}]

NoAnswer == Response("none", "none")

\* A turn ends with its answer, and nothing of it is kept but that.
Answered(response) == stage' = "answered" /\ answer' = response

Tools == IF rt.execution THEN StandardTools ELSE {}
SnapshotNow == Snapshot(rt, Tools, Configured, health, web)
EligibleNow == IF rt.router THEN Eligible(Configured, health) ELSE {}

UserEntry(t) == [role |-> "user", turn |-> t, size |-> Len(text),
                 exposed |-> FALSE]
ReplyEntry(t, body, sources) ==
  [role |-> "assistant", turn |-> t, size |-> 1 + Len(sources),
   exposed |-> \E i \in DOMAIN body : body[i].kind = "inner"]

Exchange(body) ==
  Remember(Remember(transcript, UserEntry(turn)), ReplyEntry(turn, body, <<>>))

Init ==
  /\ rt \in Instance
  /\ stage = "answered" /\ turn = 0 /\ text = <<>> /\ parts = <<>>
  /\ found = <<>> /\ transcript = <<>> /\ facts = <<>>
  /\ pending = FALSE
  /\ web = NeverSearched
  /\ health = [p \in Provider |-> "unknown"]
  /\ prompt = NoPrompt /\ answer = NoAnswer
  /\ called = {} /\ unanswered = {}

-----------------------------------------------------------------------------
(* The start of a turn                                                     *)

\* A new call of handle.
Receive(words) ==
  /\ stage = "answered" /\ turn < MaxTurns
  /\ stage' = "received" /\ turn' = turn + 1
  /\ text' = words /\ parts' = Segments(words)
  /\ found' = <<>> /\ prompt' = NoPrompt /\ answer' = NoAnswer /\ called' = {}
  /\ UNCHANGED <<rt, memory, pending, outside, unanswered>>

\* After "shutdown" the command line calls no more.
Shutdown ==
  /\ stage = "received" /\ IntentName(text) = "shutdown"
  /\ stage' = "stopped" /\ answer' = Response("success", "shutdown")
  /\ UNCHANGED <<rt, turn, text, parts, found, memory, pending, outside, prompt,
                 called, unanswered>>

\* Without AI the intent is told; with AI and no brain an error is.
WithoutBrain ==
  /\ stage = "received" /\ IntentName(text) # "shutdown"
  /\ ~rt.ai \/ ~rt.brain
  /\ Answered(Response(IF rt.ai THEN "error" ELSE "success", "offline"))
  /\ UNCHANGED <<rt, turn, text, parts, found, memory, pending, outside, prompt,
                 called, unanswered>>

Talking == stage = "received" /\ IntentName(text) # "shutdown"
           /\ rt.ai /\ rt.brain

\* What the bridge may return: module ActionDialogue says when.
BridgeResult ==
  {[status |-> "success", performed |-> TRUE],
   [status |-> "success", performed |-> FALSE],
   [status |-> "error", performed |-> TRUE],
   [status |-> "error", performed |-> FALSE],
   [status |-> "blocked", performed |-> FALSE],
   [status |-> "clarification_required", performed |-> FALSE]}

\* Whatever is said while an action is pending is taken for its answer.
ResumePending ==
  /\ Talking /\ pending
  /\ \E result \in BridgeResult :
       /\ pending' = (result.status = "clarification_required")
       /\ Answered([Response(result.status, "pending")
                      EXCEPT !.performed = result.performed])
  /\ UNCHANGED <<rt, turn, text, parts, found, memory, outside, prompt, called,
                 unanswered>>

Greet ==
  /\ Talking /\ ~pending /\ Opens(text, {"salutation"})
  /\ transcript' = Exchange(<<>>)
  /\ Answered(Response("success", "greeting"))
  /\ UNCHANGED <<rt, turn, text, parts, found, facts, pending, outside, prompt,
                 called, unanswered>>

-----------------------------------------------------------------------------
(* External actions                                                        *)

Asking == Talking /\ ~pending /\ ~Opens(text, {"salutation"})

\* Mutant of IsAction: a web request is left to retrieval in any case.
IsActionNoWeb(i) == ActionRequested(parts[i]).category \notin {"none", "web"}

\* A web request is left to retrieval when there is one.
IsAction(i) ==
  LET category == ActionRequested(parts[i]).category
  IN category # "none" /\ ~(category = "web" /\ rt.retrieval)

Actions == {i \in DOMAIN parts : IsAction(i)}

\* Mutant of ActionEntry: only the first part of the request is looked at.
ActionEntryFirst == Actions \cap {1}

\* Only the first action of a request is looked at.
ActionEntry == {i \in Actions : \A j \in Actions : i <= j}

CanHandle(action) ==
  \/ /\ action.category = "system"
     /\ action.verb \in {"open", "run", "launch", "start", "diagnose"}
  \/ /\ action.category = "filesystem"
     /\ action.verb \in FileVerbs \cup MakingVerbs

\* The verified snapshot says what may be done; the bridge, what it knows.
Executable(action) ==
  /\ Available(SnapshotNow, RequiredCapability[action.category])
  /\ CanHandle(action)

\* _guard_external_action_request hands the action to the bridge, or refuses
\* it for want of a capability or of a bridge that knows how.
ExecuteAction(i) ==
  /\ Asking /\ i \in ActionEntry /\ Executable(ActionRequested(parts[i]))
  /\ \E result \in BridgeResult :
       /\ result.status = "success" => result.performed
       /\ pending' = (result.status = "clarification_required")
       /\ Answered([Response(result.status, "execution")
                      EXCEPT !.performed = result.performed])
  /\ UNCHANGED <<rt, turn, text, parts, found, memory, outside, prompt, called,
                 unanswered>>

RefuseAction(i) ==
  /\ Asking /\ i \in ActionEntry /\ ~Executable(ActionRequested(parts[i]))
  /\ Answered(Response("blocked", "action"))
  /\ UNCHANGED <<rt, turn, text, parts, found, memory, pending, outside, prompt,
                 called, unanswered>>

PassActions ==
  /\ Asking /\ ActionEntry = {}
  /\ stage' = "searching"
  /\ UNCHANGED <<rt, turn, text, parts, found, memory, pending, outside, prompt,
                 answer, called, unanswered>>

-----------------------------------------------------------------------------
(* Retrieval and the guards                                                *)

NeedsRetrieval(i) ==
  /\ StatusKind(parts, i) = "none"
  /\ \/ RequiresFreshEvidence(parts[i])
     \/ RequiresIndependentEvidence(parts[i])
     \/ ActionRequested(parts[i]).category = "web"

\* _attempt_retrieval_for_requests goes through the parts once: what it still
\* has to search for lies behind what it searched for last.
Unsearched ==
  IF rt.retrieval
    THEN {i \in DOMAIN parts : /\ NeedsRetrieval(i)
                               /\ \A k \in DOMAIN found : k < i}
  ELSE {}

\* Mutant of Recorded: only the result of the last search is kept.
LatestRecorded(i, result) == [k \in {i} |-> result]

\* Results are kept by the position of the segment they were searched for.
Recorded(i, result) ==
  [k \in DOMAIN found \cup {i} |-> IF k = i THEN result ELSE found[k]]

Searching == stage = "searching" /\ Unsearched # {}

Searches(result) ==
  /\ LET i == CHOOSE k \in Unsearched : \A j \in Unsearched : k <= j
     IN found' = Recorded(i, result)
  /\ web' = Observed(result)
  /\ UNCHANGED <<rt, stage, turn, text, parts, memory, pending, health, prompt,
                 answer, called, unanswered>>

\* Both engines raise, or nothing they return is relevant.
SearchFails == Searching /\ Searches(NoDocuments)

\* Whether the words of a query are significant is left open.
SearchResults ==
  {Search(terms, page, finding, extract) :
     terms \in BOOLEAN, page \in Pages, finding \in Findings,
     extract \in Extracts}

SearchFinds ==
  /\ Searching
  /\ \E result \in SearchResults : result.success /\ Searches(result)

RetrievalSucceeded(i) == i \in DOMAIN found /\ Succeeded(found[i])

\* Mutant of Stale: one successful search is enough for the whole request.
StaleUnlessAny ==
  IF \E i \in DOMAIN parts : RetrievalSucceeded(i) THEN {}
  ELSE {i \in DOMAIN parts : RequiresFreshEvidence(parts[i])}

Stale == {i \in DOMAIN parts : /\ RequiresFreshEvidence(parts[i])
                               /\ ~RetrievalSucceeded(i)}

Unverified == {i \in DOMAIN parts :
                 /\ StatusKind(parts, i) = "none"
                 /\ RequiresIndependentEvidence(parts[i])
                 /\ ~RetrievalSucceeded(i)}

Searched == stage = "searching" /\ Unsearched = {}

\* _guard_factual_freshness_request and
\* _guard_independent_verification_request: no answer without evidence.
GuardFreshness ==
  /\ Searched /\ Stale # {}
  /\ Answered(Response("blocked", "freshness"))
  /\ UNCHANGED <<rt, turn, text, parts, found, memory, pending, outside, prompt,
                 called, unanswered>>

GuardVerification ==
  /\ Searched /\ Stale = {} /\ Unverified # {}
  /\ Answered(Response("blocked", "verification"))
  /\ UNCHANGED <<rt, turn, text, parts, found, memory, pending, outside, prompt,
                 called, unanswered>>

Guarded == Searched /\ Stale = {} /\ Unverified = {}

Claims == StatusClaims(parts, SnapshotNow, EligibleNow)

\* _handle_deterministic_status_request: every part asks about Cauvis.
AnswerStatus ==
  /\ Guarded /\ StatusSegments(parts) = DOMAIN parts
  /\ transcript' = Exchange(<<>>)
  /\ Answered([Response("success", "status") EXCEPT !.claims = Claims])
  /\ UNCHANGED <<rt, turn, text, parts, found, facts, pending, outside, prompt,
                 called, unanswered>>

-----------------------------------------------------------------------------
(* The model's turn                                                        *)

UrlsOf(i) ==
  IF RetrievalSucceeded(i) THEN found[i].documents ELSE <<>>

\* _build_retrieval_context: every document, numbered through.
RetrievedEvidence == FlattenSeq([i \in DOMAIN parts |-> UrlsOf(i)])

\* _ground_explicit_user_facts: what the user calls his place.
GroundedFacts ==
  IF LocationIn(text) = 0 THEN facts
  ELSE SetUserFact(facts, "user.location", SubSeq(text, 1, LocationIn(text)))

\* Mutant of PromptHistory: the history is rendered after the turn is recorded.
HistoryWithTurn == Rendered(Remember(transcript, UserEntry(turn)))

PromptHistory == Rendered(transcript)

\* The prompt of the turn; the user's words join the transcript after it is
\* rendered and before the model is called.
PrepareModel ==
  /\ Guarded /\ StatusSegments(parts) # DOMAIN parts
  /\ facts' = GroundedFacts
  /\ prompt' = [history |-> PromptHistory,
                facts |-> GroundedFacts,
                evidence |-> RetrievedEvidence,
                truth |-> NeedsCapabilityContext(ModelInput(parts)),
                input |-> ModelInput(parts),
                claims |-> Claims]
  /\ transcript' = Remember(transcript, UserEntry(turn))
  /\ stage' = "prompted"
  /\ UNCHANGED <<rt, turn, text, parts, found, pending, outside, answer, called,
                 unanswered>>

\* Evidence is synthesized by a local provider when one is eligible; without
\* evidence, or without such a provider, the router chooses.
Synthesizer ==
  IF prompt.evidence # <<>> THEN LocalSynthesisProvider(Configured, health)
  ELSE NoProvider

\* CauvisBrain.think: the providers called one after the other, each failing
\* but the last; `after' is the health the router records for them.
Think(after) ==
  /\ IF Synthesizer # NoProvider THEN DOMAIN after = {Synthesizer}
     ELSE DOMAIN after \subseteq EligibleNow
  /\ health' = [p \in Provider |->
                  IF p \in DOMAIN after THEN after[p] ELSE health[p]]
  /\ called' = DOMAIN after

Calls == UNION {[tried -> {"available", "degraded", "unavailable"}] :
                  tried \in SUBSET Provider}

Answering(after) == {p \in DOMAIN after : after[p] = "available"}

\* The sections that the system prompt of the turn shows.
Shown ==
  {section \in Range(InternalSections) :
     CASE section = "verified_capability_truth" -> prompt.truth
       [] section = "grounded_factual_context" -> DOMAIN prompt.facts # {}
       [] section = "retrieved_evidence" -> prompt.evidence # <<>>
       [] section = "conversation_history" -> prompt.history # <<>>}

\* A model may repeat a stretch of its prompt, with a tag of every section
\* it takes from, between a label and words of its own.
ModelWords(shown) ==
  LET p == SectionsOf(shown)
      echoes == {SubSeq(p, i, j) : i \in DOMAIN p, j \in DOMAIN p}
  IN {<<Piece("label")>> \o echo \o own :
        echo \in {e \in echoes : Len(e) # 1} \cup {<<>>},
        own \in {<<>>, <<Piece("formerSession"), Piece("words")>>}}

\* Mutant of ReplyBody: the model's words are not sanitized.
ReplyUnsanitized(words, shown) == Unlabelled(words)

ReplyBody(words, shown) ==
  Presented(words, "conversation_history" \in shown)

\* What may be left of a model's words, for each set of sections shown.
Replies ==
  [shown \in SUBSET Range(InternalSections) |->
     {ReplyBody(words, shown) : words \in ModelWords(shown)}]

\* _apply_runtime_current_truth: told from the response when the model's
\* input, taken as a whole, asks for the model or the provider.
RuntimeCurrentTruth(body) ==
  IF FactualKind(prompt.input) = "runtime_current"
    THEN <<Piece("runtimeTruth")>> ELSE body

\* Mutant of ListedSources: the sources are listed backwards.
SourcesReversed == Reverse(RetrievedEvidence)

\* _append_retrieval_sources reads the results of the searches again: each
\* address once, numbered anew.
ListedSources ==
  Picked(RetrievedEvidence,
         {i \in DOMAIN RetrievedEvidence :
            \A j \in 1..(i - 1) : RetrievedEvidence[j] # RetrievedEvidence[i]})

\* _build_retrieval_evidence_bundles: one bundle for each successful search.
EvidenceStatus ==
  {Evaluate(RetrievalEvidence(found[i])) :
     i \in {k \in DOMAIN found : RetrievalSucceeded(k)}}

ModelAnswers ==
  /\ stage = "prompted"
  /\ \E said \in Replies[Shown], after \in Calls :
       LET body == RuntimeCurrentTruth(said)
       IN /\ Think(after) /\ Cardinality(Answering(after)) = 1
          /\ transcript' =
               Remember(transcript, ReplyEntry(turn, body, ListedSources))
          /\ Answered([Response("success", "model") EXCEPT
                        !.model = TRUE, !.body = body,
                        !.claims = prompt.claims, !.sources = ListedSources,
                        !.evidence = EvidenceStatus])
  /\ UNCHANGED <<rt, turn, text, parts, found, facts, pending, web, prompt,
                 unanswered>>

\* The response says it failed, or the call raised: the user's turn stays in
\* the transcript without an answer.  The status of its own for an OpenAI
\* that is not configured does not occur: only eligible providers are called.
ModelFails ==
  /\ stage = "prompted"
  /\ \E after \in Calls, path \in {"failure", "exception"} :
       /\ Think(after) /\ Answering(after) = {}
       /\ Answered([Response("error", path) EXCEPT !.model = TRUE])
  /\ unanswered' = unanswered \cup {turn}
  /\ UNCHANGED <<rt, turn, text, parts, found, memory, pending, web, prompt>>

-----------------------------------------------------------------------------

GuardActions == \E i \in DOMAIN parts : ExecuteAction(i) \/ RefuseAction(i)

Step ==
  \/ Shutdown \/ WithoutBrain \/ ResumePending \/ Greet
  \/ GuardActions \/ PassActions
  \/ SearchFails \/ SearchFinds \/ GuardFreshness \/ GuardVerification
  \/ AnswerStatus \/ PrepareModel \/ ModelFails \/ ModelAnswers

Next == (\E words \in Message : Receive(words)) \/ Step

Spec == Init /\ [][Next]_vars

-----------------------------------------------------------------------------
(* Properties                                                              *)

\* handle keeps its state within these bounds: entries of the turns begun,
\* searches of the parts that may need one, and no fact but the location.
TypeOK ==
  /\ rt \in Instance
  /\ stage \in {"answered", "received", "searching", "prompted", "stopped"}
  /\ turn \in 0..MaxTurns /\ text \in Message \cup {<<>>}
  /\ DOMAIN found \subseteq {i \in DOMAIN parts : NeedsRetrieval(i)}
  /\ \A i \in DOMAIN found :
       /\ Len(found[i].documents) <= MaxResults
       /\ Range(found[i].documents) \subseteq Document
  /\ Len(transcript) <= MaxEntries
  /\ \A e \in Range(transcript) : e.turn \in 1..turn /\ e.size \in Nat \ {0}
  /\ DOMAIN facts \subseteq {"user.location"}
  /\ pending \in BOOLEAN /\ (pending => rt.execution)
  /\ web.attempted \in BOOLEAN /\ (web.succeeded => web.attempted)
  /\ web.attempted => rt.retrieval
  /\ health \in [Provider -> Health] /\ called \subseteq Configured
  /\ unanswered \subseteq 1..turn

\* The guards of handle: the model is consulted only when the request holds
\* no external action but web requests, which a search of this turn has
\* looked up unless they ask about Cauvis; and for every part that needs fresh
\* or independent evidence a search found some, all of it in the prompt.
EvidenceBeforeModel ==
  stage = "prompted" \/ answer.model =>
    \A i \in DOMAIN parts :
      /\ LET category == ActionRequested(parts[i]).category
         IN \/ category = "none"
            \/ /\ category = "web" /\ rt.retrieval
               /\ i \in DOMAIN found \/ StatusKind(parts, i) # "none"
      /\ \/ RequiresFreshEvidence(parts[i])
         \/ /\ RequiresIndependentEvidence(parts[i])
            /\ StatusKind(parts, i) = "none"
         => /\ i \in DOMAIN found /\ found[i].documents # <<>>
            /\ Range(found[i].documents) \subseteq Range(prompt.evidence)

\* ConversationRuntime after any number of turns: a reply directly follows
\* the words it answers (unless they were dropped as the oldest), words stay
\* without a reply exactly when the model's call failed, and a turn that a
\* guard or the bridge answered leaves nothing.
TranscriptFaithful ==
  LET last == Len(transcript)
      current == stage = "prompted"
  IN /\ \A i \in 2..last : transcript[i].role = "assistant" =>
            /\ transcript[i - 1].role = "user"
            /\ transcript[i - 1].turn = transcript[i].turn
     /\ \A i \in 2..last : transcript[i].role = "user" =>
            transcript[i - 1].turn < transcript[i].turn
     /\ \A i \in 1..last : transcript[i].role = "user" =>
            ((i = last \/ transcript[i + 1].role = "user")
               <=> \/ transcript[i].turn \in unanswered
                   \/ current /\ i = last)
     /\ stage = "answered" =>
          ((\E i \in 1..last : transcript[i].turn = turn)
             <=> answer.path \in {"greeting", "status", "model", "failure",
                                  "exception"})

\* _build_turn_system_prompt: the history shown to the model ends with the
\* entry before the user's words and never holds them, fits the context, and
\* a place the user states in this turn is among the facts shown.
PromptFaithful ==
  stage = "prompted" =>
    /\ \A e \in Range(prompt.history) : e.turn < turn
    /\ Len(transcript) > 1 =>
         /\ prompt.history # <<>>
         /\ Last(prompt.history) = transcript[Len(transcript) - 1]
    /\ Len(prompt.history) > 1 => LengthFrom(prompt.history, 1) <= MaxContext
    /\ LocationIn(text) # 0 =>
         prompt.facts["user.location"].value = SubSeq(text, 1, LocationIn(text))

\* What a CauvisResponse says of the turn: no model without model_called,
\* no action but through the bridge with a tool bound to it, sources only
\* from a search that succeeded, evidence that never counts as a proof, and
\* of Cauvis itself, in an answer of its own or ahead of the model's, only
\* what is bound, has worked and is eligible, or was until it was called.
AnswerTruthful ==
  /\ stage = "answered" /\ ~answer.model => called = {}
  /\ answer.path = "model" => called # {}
  /\ answer.performed =>
       /\ answer.path \in {"pending", "execution"}
       /\ answer.path = "execution" =>
            \E i \in DOMAIN parts :
              LET action == ActionRequested(parts[i])
              IN /\ action.category # "none"
                 /\ Bound(Tools, RequiredCapability[action.category])
  /\ answer.status = "blocked" => ~answer.performed
  /\ \A u \in Range(answer.sources) : \E i \in DOMAIN found :
       RetrievalSucceeded(i) /\ u \in Range(UrlsOf(i))
  /\ answer.evidence \subseteq {"insufficient"}
  /\ \A c \in answer.claims :
       /\ answer.path \in {"status", "model"}
       /\ c.is = "available" =>
            /\ c.of \in ActionCapabilities => Bound(Tools, c.of)
            /\ c.of = "web_retrieval" => rt.retrieval /\ web.succeeded
            /\ c.of \in Provider => health[c.of] = "available" \/ c.of \in called
       /\ c.is = "eligible" => c.of \in EligibleNow \cup called
       /\ c.of = "routes" => EligibleNow = {}

\* _build_retrieval_context numbers the documents for the model and
\* _append_retrieval_sources numbers them for the user: they list the same,
\* and as long as no document was found twice a number means the same
\* document in both.
CitationsResolve ==
  answer.path = "model" =>
    /\ Range(answer.sources) = Range(prompt.evidence)
    /\ Cardinality(Range(prompt.evidence)) = Len(prompt.evidence) =>
         answer.sources = prompt.evidence

\* _sanitize_model_output: a model that repeats any tagged stretch of its
\* prompt exposes none of it, in this answer or through the transcript in
\* the prompts to come; nor does an answer begin with a label, or speak of a
\* former session where this one has a history.
NothingInternal ==
  /\ \A e \in Range(transcript) : ~e.exposed
  /\ answer.path = "model" =>
       /\ answer.body # <<>> /\ Head(answer.body) # Piece("label")
       /\ \A i \in DOMAIN answer.body : answer.body[i].kind # "inner"
       /\ prompt.history # <<>> =>
            Piece("formerSession") \notin Range(answer.body)

\* _select_local_synthesis_provider_name: retrieved evidence is shown to one
\* provider only, a local one of the best health, whenever one is eligible.
EvidenceStaysLocal ==
  [][stage = "prompted" /\ prompt.evidence # <<>>
       /\ EligibleNow \cap Local # {} =>
       \E p \in EligibleNow \cap Local :
         /\ called' = {p}
         /\ \A q \in EligibleNow \cap Local :
              Rank[health[p]] <= Rank[health[q]]]_vars

-----------------------------------------------------------------------------
(* What the repository says and the code does not do                       *)

\* CAUVIS_PROJECT_STATE.md: the model answers every part it is given, so what
\* it says is what the user reads.
ModelAnswerKept ==
  answer.path = "model" => Piece("runtimeTruth") \notin Range(answer.body)

\* UserLocationExtractor._first_sentence: a request that follows the place in
\* the same sentence is no part of it.
PlaceAlone ==
  \A k \in DOMAIN facts : Cardinality(DOMAIN Segments(facts[k].value)) = 1
=============================================================================
