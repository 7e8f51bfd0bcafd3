--------------------------- MODULE RequestAnalysis ---------------------------
(***************************************************************************)
(* What the deterministic classifiers of src/core/request_segments.py,     *)
(* src/core/action_request.py, src/intelligence/factual_boundary.py,       *)
(* src/intelligence/uncertainty.py, src/core/location_grounding.py and     *)
(* src/core/intent.py make of a text.                                      *)
(*                                                                         *)
(* A text is a sequence of clauses; each has                               *)
(*   joint    what separates it from the clause before                     *)
(*   starter  does it begin with a word that starts a request?             *)
(*   opens    the prefix tests its normalised words pass                   *)
(*   says     the substring tests they pass                                *)
(* so the tests of a longer text are those of its clauses: a prefix test   *)
(* sees the first clause only, a substring test sees them all.             *)
(***************************************************************************)
EXTENDS FiniteSets, Naturals, Sequences, SequencesExt, Subsequences

Strong == {"question", "semicolon", "newline"}
Joint == Strong \cup {"none", "stop", "and", "comma"}

FileVerbs == {"read", "delete", "move", "copy", "rename"}
MakingVerbs == {"create", "make", "save", "write"}
SystemVerbs == {"open", "close", "run", "launch", "start", "stop"}
OtherVerbs == {"send", "click", "type", "install", "upload", "download"}
VerificationKinds == {"fact_check", "verify", "confirm", "certainty"}

Openings ==
  FileVerbs \cup MakingVerbs \cup SystemVerbs \cup OtherVerbs
  \cup VerificationKinds
  \cup {"shutdown", "greeting", "salutation", "location", "identity",
        "interrogative",
        "asking", "whatCanYouDo", "whichTools", "capabilityAlone", "canYou",
        "drafts", "howTo", "reminder", "webCommand"}

Sayings ==
  {"capability", "capabilities", "runningInstance", "searchOnline", "what",
   "model", "provider", "inUse", "activeModel", "questionMark",
   "currentThingIs", "temporal", "currentThing", "current", "live", "artifact",
   "carriesOut", "fileObject", "diagnosis", "memory", "web", "computer",
   "files", "reminders", "nowhere"}

Clause == [joint : Joint, starter : BOOLEAN,
           opens : SUBSET Openings, says : SUBSET Sayings]

Opens(text, signs) == text # <<>> /\ text[1].opens \cap signs # {}

SaysAny(text, signs) == \E i \in DOMAIN text : text[i].says \cap signs # {}

-----------------------------------------------------------------------------
(* RequestSegmenter.split                                                  *)

\* A question mark, a semicolon or a line break always separates two
\* requests; a full stop, "and" or a comma only before a starting word.
BeginsSegment(text, i) ==
  i = 1 \/ text[i].joint \in Strong \/ text[i].starter

Segments(text) ==
  LET first == Positions(text, {i \in DOMAIN text : BeginsSegment(text, i)})
      last(k) == IF k = Len(first) THEN Len(text) ELSE first[k + 1] - 1
  IN [k \in DOMAIN first |-> SubSeq(text, first[k], last(k))]

-----------------------------------------------------------------------------
(* FactualBoundaryClassifier                                               *)

\* "What can you do" asks for the capabilities; a phrase that names one does
\* when it is about this instance, or after "can you" when it stands alone or
\* with another.
AsksCapability(text) ==
  \/ Opens(text, {"whatCanYouDo"})
  \/ /\ SaysAny(text, {"capability"})
     /\ \/ SaysAny(text, {"runningInstance"})
        \/ Opens(text, {"canYou"}) /\ SaysAny(text, {"capabilities"})
        \/ Opens(text, {"capabilityAlone"}) /\ Len(text) = 1

\* The patterns look for the words in this order anywhere in the text, with
\* up to fifty characters between them; a clause has its own in this order.
AsksRuntime(text) ==
  \/ SaysAny(text, {"activeModel"})
  \/ \E i, j, k \in DOMAIN text :
       /\ i <= j /\ j <= k
       /\ "what" \in text[i].says
       /\ text[j].says \cap {"model", "provider"} # {}
       /\ "inUse" \in text[k].says

AssertsCurrent(text) ==
  /\ ~SaysAny(text, {"questionMark"})
  /\ ~Opens(text, {"asking", "interrogative"})
  /\ SaysAny(text, {"currentThingIs"})

AsksCurrent(text) ==
  \/ SaysAny(text, {"temporal", "currentThing", "live"})
  \/ Opens(text, {"interrogative"}) /\ SaysAny(text, {"current"})

FactualKind(text) ==
  IF AsksCapability(text) THEN "capability_status"
  ELSE IF SaysAny(text, {"searchOnline"}) THEN "explicit_retrieval"
  ELSE IF AsksRuntime(text) THEN "runtime_current"
  ELSE IF AssertsCurrent(text) THEN "user_assertion"
  ELSE IF AsksCurrent(text) THEN "current"
  ELSE "general"

RequiresFreshEvidence(text) ==
  FactualKind(text) \in {"explicit_retrieval", "current"}

-----------------------------------------------------------------------------
(* ActionRequestDetector                                                   *)

\* Code to look at is not an action, unless it is to be saved or run.
IsDevelopmentArtifact(text) ==
  /\ ~SaysAny(text, {"carriesOut"})
  /\ Opens(text, {"drafts"})
  /\ SaysAny(text, {"artifact"})

\* The detector holds a copy of the boundary's capability test.
IsCapabilityStatusQuestion(text) == AsksCapability(text)

NotAnAction(text) ==
  \/ IsDevelopmentArtifact(text)
  \/ IsCapabilityStatusQuestion(text)
  \/ Opens(text, {"howTo"})

\* [category, verb]; the category is "none" when nothing is to be done.
ActionRequested(text) ==
  LET by(category, verbs) ==
        [category |-> category,
         verb |-> CHOOSE v \in verbs : Opens(text, {v})]
      none == [category |-> "none", verb |-> "none"]
  IN IF NotAnAction(text) THEN none
     ELSE IF SaysAny(text, {"diagnosis"})
       THEN [category |-> "system", verb |-> "diagnose"]
     ELSE IF Opens(text, {"reminder"}) THEN by("reminder", {"reminder"})
     ELSE IF Opens(text, {"webCommand"}) THEN by("web", {"webCommand"})
     ELSE IF Opens(text, FileVerbs) THEN by("filesystem", FileVerbs)
     ELSE IF Opens(text, MakingVerbs) /\ SaysAny(text, {"fileObject"})
       THEN by("filesystem", MakingVerbs)
     ELSE IF Opens(text, SystemVerbs) THEN by("system", SystemVerbs)
     ELSE IF Opens(text, OtherVerbs) THEN by("external", OtherVerbs)
     ELSE none

RequiredCapability ==
  [system |-> "system_actions", reminder |-> "reminders",
   web |-> "web_actions", filesystem |-> "filesystem_actions",
   external |-> "execution_actions"]

-----------------------------------------------------------------------------
(* FactualUncertaintyClassifier, IntentDetector, UserLocationExtractor     *)

\* Verification, confirmation, fact checking and certainty all require
\* evidence of their own.
RequiresIndependentEvidence(text) == Opens(text, VerificationKinds)

IntentName(text) ==
  IF Opens(text, {"greeting"}) THEN "greeting"
  ELSE IF Opens(text, {"shutdown"}) THEN "shutdown"
  ELSE IF Opens(text, {"interrogative"}) THEN "question"
  ELSE "general"

\* The clauses up to the first full stop, question or exclamation mark.
FirstSentence(text) ==
  {i \in DOMAIN text :
     \A j \in 2..i : text[j].joint \notin {"question", "stop"}}

\* How many clauses are taken for the place after "I live in" or the like; 0
\* when none is given.  The patterns do not match across a line break.
LocationIn(text) ==
  LET sentence == FirstSentence(text)
      unusable == sentence = {1} /\ "nowhere" \in text[1].says
  IN IF /\ Opens(text, {"location"})
        /\ \A i \in sentence : text[i].joint # "newline"
        /\ ~unusable
     THEN Cardinality(sentence) ELSE 0

-----------------------------------------------------------------------------
(* CauvisOrchestrator._analyze_request_segments                            *)

\* Status questions are answered from the runtime's own state; "who are you"
\* becomes one only beside a question about the model or the provider.
StatusKind(segments, i) ==
  LET kind == FactualKind(segments[i])
  IN IF kind \in {"runtime_current", "capability_status"} THEN kind
     ELSE IF /\ Opens(segments[i], {"identity"}) /\ Len(segments[i]) = 1
             /\ \E j \in DOMAIN segments :
                  FactualKind(segments[j]) = "runtime_current"
       THEN "runtime_identity"
     ELSE "none"

StatusSegments(segments) ==
  {i \in DOMAIN segments : StatusKind(segments, i) # "none"}

\* What is left for the model, joined: the parts without a status answer.
ModelInput(segments) ==
  FlattenSeq([i \in DOMAIN segments |->
                IF StatusKind(segments, i) = "none" THEN segments[i] ELSE <<>>])

\* The runtime's truth is put in the prompt only for a question about it.
NeedsCapabilityContext(text) ==
  \/ FactualKind(text) \in {"capability_status", "runtime_current"}
  \/ SaysAny(text, {"memory"})
  \/ Opens(text, {"whichTools"})
=============================================================================
