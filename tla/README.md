# Cauvis verification

TLA+ models of Cauvis (the Python assistant in `src/`), the TLC runs that check
them on small instances, and theorems about them that TLAPS proves for every
instance. The models are read off the code; `PROJECT.json` maps each definition
to the lines it stands for.

- [1. The system](#1-the-system)
- [2. The modules](#2-the-modules)
- [3. The runs](#3-the-runs)
- [4. Bounds, fairness and other assumptions](#4-bounds-fairness-and-other-assumptions)
- [5. The proofs](#5-the-proofs)
- [6. Where the code and its documentation disagree](#6-where-the-code-and-its-documentation-disagree)
- [7. What is not modelled](#7-what-is-not-modelled)
- [8. Plan](#8-plan)

## 1. The system

Cauvis answers one user message at a time (`core/orchestrator.py`). A message is
first offered to an action that waits for an answer; then it may be a greeting
or hold an external action, which goes to the action bridge; what needs fresh or
independent evidence is searched for and stops the turn when nothing is found;
questions about Cauvis itself are answered from a verified snapshot; and only
the rest reaches a language model, through the provider router, whose words pass
an output boundary. Separately, an execution engine runs plans: tasks given to
workers by an *adaptive execution method* (AEM), with recovery when a task fails.

| Component | State it keeps | Operations | What makes it correct |
| --- | --- | --- | --- |
| Orchestrator (`core/orchestrator.py`, `cauvis.py`) | what is attached; the turn in progress; through its parts the transcript, the facts and the pending action | `handle` | nothing reaches the model without the evidence it needs, no answer claims what did not happen, nothing internal is shown |
| Request understanding (`core/request_segments.py`, `action_request.py`, `intelligence/factual_boundary.py`, `uncertainty.py`, `core/location_grounding.py`) | none | `split`, `detect`, `classify`, `extract` | every part of a request is seen by every guard |
| Conversation, factual context (`core/conversation.py`, `factual_context.py`) | per session a bounded list of entries; facts with their provenance | `append`, `render_context`, `set_fact` | a reply follows the words it answers; the oldest goes first; what is shown is the end of what is kept |
| Capability truth (`intelligence/verified_capabilities.py`) | none; reads tools, runtimes and health | `build` | available means attached, bound and working |
| Retrieval and evidence (`intelligence/retrieval*.py`, `evidence.py`) | outcome of the last search | `search`, `rank_documents`, `evaluate` | a failure is not an empty success; a document is not a proof |
| Action bridge (`execution/action_bridge.py`, `pending_actions.py`, `security/permissions.py`, `tools/*`) | pending action per session, permission levels; the user's files | a request, a reply, `read_text`, `write_text`, launches, the diagnostic, `register` | files are replaced with consent, contents are what this session said, one request acts once, answers are true |
| Provider routing (`intelligence/router.py`, `provider_runtime.py`, `policy.py`) | registry, default provider, per provider status and failure streak | `register_provider`, `remove_provider`, `set_default_provider`, `enable`, `disable`, `generate` | every able and allowed provider is tried, in order, once; health is earned |
| Workers and scheduler (`execution/workers.py`, `scheduler.py`) | per worker: enabled flag, status, counters; scheduler: strategy, round-robin index, history | `dispatch`, `dispatch_to_worker`, `Worker.execute`, `enable`, `disable`, `set_strategy` | the load the strategies weigh is the load there is; history and counters agree; no worker is left marked busy; a task is refused only for a reason |
| Dependency graphs (`execution/aem.py`, `DependencyGraphAEM`) | per call: pending, successful, failed and blocked tasks, outputs, the wave on the pool | `execute`, `resume`, `_validate_graph` | dependencies first, each task once, stop on failure, never stuck, a truthful result; the validation accepts exactly the legal plans |
| List methods (`execution/aem.py`) | per call: position, attempts, excluded workers | `execute` of the sequential, parallel, priority, retry, fallback and pipeline methods | order, bounded attempts, a truthful answer |
| Recovery and engine (`execution/recovery.py`, `engine.py`) | the results of the first run, of the recovery and of the resumed graph | `execute_adaptive`, `decide`, `recover`, `prepare_recovery_tasks`, `resume_dependency_graph` | nothing unsafe is repeated, nothing finished is run again, what is resumed is completed, the reply tells what happened |
| Planner, worker catalogue (`execution/planner.py`, `worker_catalog.py`) | none after start | building a plan; registering default workers | steps in order; every capability has a worker |
| Providers (`intelligence/providers/*`), system tools (`tools/windows_*.py`, `system_diagnostics.py`) | none | HTTP calls, process launches | outside |

How they interact: the orchestrator calls the bridge and the router on the
caller's thread. The engine calls an AEM; `ParallelAEM` and `DependencyGraphAEM`
call the scheduler from the threads of a `ThreadPoolExecutor`; the scheduler
reads and the worker writes counters and status that all those threads share
without a lock. The engine hands a failed result to the recovery engine, which
chooses another AEM and, for graphs, resumes from the outputs saved so far.
Other programs share the user's files with the file tools.

The hard behaviours, listed with their lines under `hazards` in
`PROJECT.json`: threads of a pool in the scheduler and the workers; siblings of
a failed task that go on; a recovery that re-decides after the state has moved;
`None` as both "no payload" and a legal output; failover over health that
changes with every call; a question whose answer comes a message, and an
arbitrary change of the file system, later; a request whose parts need different
treatment, by guards that each make their own list of the parts; a transcript
that is written before the model is called and read before it is written; a
model that repeats its prompt.

## 2. The modules

| Module | Models | State and actions |
| --- | --- | --- |
| `TaskGraph` | `AEMTask` lists and the definition of a legal plan | operators `Valid`, `Acyclic`, `ClosedUnder`, ... |
| `PlanExecution` | *abstract*: what any execution of a plan promises | a call, starts and outcomes of tasks, one answer |
| `DependencyGraph` | `DependencyGraphAEM` and the pool | `pending`, `successful`... as in `_execute_graph`; `Execute`/`Resume`, `ReturnEmpty`/`RejectCall`/`Accept`, `Scan` (one pass of the loop), `StartTask`, `FinishTask`, `CollectWave` |
| `GraphValidation` | `_validate_graph` with its recursion | `path`, the stack of activations of `visit`; `todo`, what each has still to iterate; `visitState`, the dictionary of the code; `CheckList`, `VisitRoot`, `VisitDependency`, `FinishVisit`, `Accept` |
| `ListExecution` | the six list methods | one action per step of their loops; refines `PlanExecution` |
| `AdaptiveExecution` | `execute_adaptive` and `RecoveryEngine` | extends `DependencyGraph` and instantiates `ListExecution` over their variables; `phase` is where `execute_adaptive` is, `leg` which of the three runs is on, `original` and `reply` what it has in hand |
| `WorkerDispatch` | `WorkerScheduler.dispatch` and `Worker.execute` | per-thread program counter, one action per statement that another thread can see |
| `ProviderRouting` | router and provider runtime | registry, status and streak of each provider, the request being served |
| `ActionDialogue` | the bridge from the message to the answer | files, permission levels, pending action per session, the turn in progress; `OtherProgram` acts between any two steps |
| `Launches` | what a request to open something asks for | operators `Applications`, `Addresses` (each picks places of a list, `Chosen`), `Batch`, the tool calls of `_execute_system` in order |
| `RequestAnalysis` | the segmenter, the action detector, the factual boundary, the uncertainty classifier, the location extractor | operators on a sequence of clauses: `Segments`, `ActionRequested`, `FactualKind`, `StatusKind`, `LocationIn` |
| `CapabilityTruth` | `VerifiedCapabilityBuilder`, the choice of a local provider, the claims of a status answer | operators `Snapshot`, `LocalSynthesisProvider`, `StatusClaims` |
| `WebRetrieval` | the two search engines, the ranking, the evaluation of evidence | operators `DuckDuckGo`, `Wikipedia`, `Ranked`, `Search`, `Evaluate` |
| `OutputBoundary` | the sanitizers of a model's words | operators `Strip`, `Sanitized`, `Presented` on a sequence of pieces |
| `SessionMemory` | `ConversationRuntime`, `FactualContextRuntime` | operators `Remember`, `Rendered`, `SetFact` |
| `OrchestratorTurn` | `handle`, composed of the five modules above | one action per exit of `handle` and per call it makes that keeps state: `Receive`, `ResumePending`, `ExecuteAction`, `SearchFinds`, `GuardFreshness`, `PrepareModel`, `ModelAnswers`, `ModelFails`, ... |
| `Subsequences` | (helper) the part of a sequence at given positions, a finite set in a given order | `Picked`, `InOrder`: the k-th element is the one that k - 1 come before |

The theorems are in a module of their own for each component,
`GraphValidationProofs`, `DependencyGraphProofs`, `ListExecutionProofs`,
`AdaptiveExecutionProofs`, `WorkerDispatchProofs`, `ProviderRoutingProofs`,
`ActionDialogueProofs` and `OrchestratorTurnProofs` (section 5); the `MC...`
modules give the constants values for TLC.
Data is abstracted to what the properties tell apart: outputs are a value or
`None`, texts are a few model values, a request to the bridge is the set of
parameters the extraction patterns find in it, and a message to the orchestrator
is a sequence of clauses, each with the patterns of the classifiers that match
it: how it is joined to the one before, whether a starting word of the segmenter
opens it, what else opens it, and what it says.

Some notes on how the state corresponds to the code:

- **DependencyGraph.** The sets are those of `_execute_graph`. `Scan` is one
  pass of its `while` loop, which runs on the caller's thread alone; a wave
  interleaves `StartTask` and `FinishTask` of at most `PoolSize` threads.
  The blocked set is chosen among the results a single pass over a Python set
  can give, in any iteration order.
- **GraphValidation.** Python iterates the dependency sets in an order that
  depends on hashing; the model takes every order.
- **AdaptiveExecution.** `decide` is called by the engine and again by
  `recover`; the two calls read the AEM registry and the workers separately, so
  the model lets the answers differ.
- **WorkerDispatch.** `records` counts the history per worker and outcome,
  which is all that is read of it. On CPython a thread may be switched at a call or a loop
  back-edge, so the reads of `min(...)`, the round-robin read and advance, the
  status writes and the `finally` clause are separate steps. `x += 1` on an
  attribute is one step: the bytecodes of it contain no switch point. On a build
  without the global lock that would not hold, and `CountersExact` neither.
- **ProviderRouting.** Requests run to completion on the caller's thread;
  control operations happen between requests. The failure streak is saturated
  at the second threshold, beyond which the code does not tell counts apart.
- **ActionDialogue.** `said` and `late` are history variables: what the session
  said since its request, and whether the file appeared after the tool's own
  check. Requests say everything or leave something out; one reply may fill
  several fields, and any reply is taken as the content when that is missing.
  A launch is one step: it fails and ends the turn, or succeeds.
- **RequestAnalysis.** The regular expressions are not modelled; what is, is
  the order of the rules, their exceptions, which of them look at a part and
  which at the whole text, and which need a match at the beginning. The clauses
  of the messages in `MCOrchestratorTurn` are what the classifiers find in the
  sentence quoted above each.
- **OrchestratorTurn.** `stage` is where `handle` stands between two calls that
  can fail or that keep state; what lies between is one action. The bridge, the
  engines and the model are seen by what they return: `BridgeResult`, the
  replies in `Pages`, `Findings` and `Extracts`, and `ModelWords`, any stretch of
  the prompt with the tags of its sections between a label and words of the
  model's own. A turn that calls the router leaves every provider it tried with a
  health the router may have recorded. `called` and `unanswered` are history
  variables. The parts are searched for in one pass: `Unsearched` holds those
  that lie behind the last one searched.
- **OutputBoundary.** Text is a sequence of pieces: an opening tag, a closing
  tag, what stands inside a section, a label, words that speak of a former
  session, other words. The order of the removals is that of the code.

## 3. The runs

All configurations are `<run>.cfg`; `tlc -config <run>.cfg <MC module>`.

| Run | Instance | Checked |
| --- | --- | --- |
| `DependencyGraph_plans` | every plan over three names, malformed ones included, and six graphs of four tasks; any seed; pool of two | `TypeOK`, `PayloadFaithful`, `AlwaysProgress`, `ResultTruthful`, `FailStop`, refinement of `PlanExecution` (`ImplementsContract`), `CallReturns` |
| `GraphValidation_search` | every graph over four names, every malformed plan over three, every iteration order | `MarksExact` (typed; a name is being visited exactly when it is on the path), `VerdictCorrect` (accepts exactly the legal plans), `Ends` |
| `ListExecution_methods` | six methods, lists of up to three tasks, two workers, two retries | `DispatchInOrder` (typed, in the method's order, at most as often as it allows), `AnswerTruthful`, `ImplementsContract` |
| `AdaptiveExecution_plans` | lists and graphs, two workers, two retries | `BoundedAttempts`, `ReplyTruthful`, `ResumeComplete`, `NoVainDispatch` (no finished work again, no worker that failed before), `ImplementsEngineContract`, `PlanAnswered` |
| `WorkerDispatch_threads` | two threads, two workers, changes of strategy, enable/disable at any time | `CountersExact` (typed; load and history agree with the threads), `IdleWhenQuiet`, `RefusalJustified` |
| `ProviderRouting_failover` | the orchestrator's three providers, every policy, thresholds 1 and 2 | `FailoverSound` (typed; every candidate, in order, once), `HealthEarned`, `NoResurrection`, `RequestEnds` |
| `ActionDialogue_turns` | two sessions, a file in an allowed and a forbidden folder, other programs, two programs under three names, two addresses, three policies | `DialogueSound` (typed; every pending action explained), `ActedOnce`, `WritesWarranted` (said by this session, with consent), `AnswerTruthful`, `LaunchAnswered` |
| `OrchestratorTurn_turns` | three turns of sixteen messages on four orchestrators, three providers of which two are local, searches that fail or find | `TypeOK`, `EvidenceBeforeModel`, `TranscriptFaithful`, `PromptFaithful`, `AnswerTruthful`, `CitationsResolve`, `NothingInternal`, `EvidenceStaysLocal` |

Four more runs end in a counterexample: `AdaptiveExecution_payload`,
`ProviderRouting_legacy`, `OrchestratorTurn_joined` and `OrchestratorTurn_place`;
see section 6.

What the runs show, in short: graphs run in dependency order and each task at
most once (by refinement of the contract), a call that is lost says so, and the
branch of the loop for "no task is ready" is never reached by a validated plan.
Recovery never repeats a task that is not `recovery_safe`, never runs finished
work again, and the engine answers every plan. The lock-free counters of a
worker are exact because each is changed by single statements, and the
`finally` clause leaves every worker idle whatever `disable` and `enable` did in
between. Failover calls all able providers exactly once and in order, and the
health of a provider is always the consequence of its own outcomes. In the file
dialogue the second check inside the tool is what protects a file created while
the user was being asked; the window that is left is the one between that check
and the opening of the file. A list of things to open is opened in a fixed order,
each once, up to the first failure. In the orchestrator, whatever the parts of a
request and whichever searches succeed, the model is consulted only when every
part that needs evidence has some and all of it is in the prompt, and no part is
an external action, but for a web request that a search of the turn was made for;
what a status answer claims, alone or ahead of the model's, is attached, has
worked or is eligible; a reply always
follows the words it answers, and words stay without a reply exactly when the
model's call failed; what a model repeats of its prompt in tagged sections never
reaches the user nor, through the transcript, a later prompt; and evidence goes
to one local provider, of the best health, whenever one is eligible.

For every property `PROJECT.json` names a mutant, a plausible mistake in the
code written as an alternative definition, under which TLC finds the property
violated.

## 4. Bounds, fairness and other assumptions

- **Names and tasks.** Four tasks contain the shapes that matter for a graph:
  a chain long enough for a failure to reach a dependent of a dependent, a
  diamond, a join, independent tasks wider than the pool. The theorems lift the
  bound.
- **Retries.** Two retries are the engine's default.
- **Threads and dispatches.** Two threads with one dispatch each reach every
  pair of steps of `dispatch` and `Worker.execute`; `MaxDispatches` is the bound.
- **Failures.** The thresholds 1 and 2 are the smallest with three distinct
  levels; the defaults are 1 and 3.
- **Turns.** Three turns of two entries exceed the transcript's bound of four
  entries, so that the oldest are dropped, and the context limit of 6 is shorter
  than four entries, so that less is shown than is kept. Both bounds are far
  larger in the code, which does not tell sizes apart otherwise.
- **Searches.** At most two documents are kept. The replies hold the cases the
  code tells apart: an engine that is unreachable or malformed, no
  result, one that is not to the point, more than are kept with the best in
  second place, a link that leads nowhere, one snippet too few, a second call
  that fails.
- **Messages.** Sixteen, one for each combination of rules that takes another
  path through `handle`, or joins parts that take different ones.
- **Launches.** Three names, two of them of one program, and two addresses
  contain a name within a longer one, an address said twice, one application
  with one address, with two, and several of each.
- **Sessions.** Two are enough for one dialogue to disturb another; they are
  interchangeable, so the run uses symmetry (it checks no liveness).
- **Plans.** Names within a list of tasks are distinct entries
  (`ListedOnceAssumption`): two tasks of the same name in a graph are rejected
  by the code and by the model, and the list methods index by position.
- **Fairness.** Weak fairness on the program's own steps: a Python thread that
  can run is eventually run by the interpreter and a pool thread eventually
  takes queued work. It includes the assumption that handlers and providers
  return or raise. Nothing in the code enforces that (`future.result()` has no
  timeout), so `CallReturns`, `PlanAnswered` and `RequestEnds` hold only for
  such handlers and providers. No fairness is assumed
  of users, control operations or other programs. A turn of `handle` goes through
  finite lists in order and is specified without fairness.
- **Deadlock checking** is off where the model ends: a call of an AEM or a plan
  is modelled once and then over, and a session after its last turn or
  "shutdown".
- **Memory.** Transcript, facts and pending actions live in the process only;
  a restart is the initial state.
- **Enabled AEMs and workers** are read by the engine at several places and may
  change in between; each read is a choice.

## 5. The proofs

Every safety invariant, action property and refinement of the passing runs is a
theorem for every value of the constants; `PROJECT.json` names the theorem of
each under `theorems`. `tlapm` checks every leaf. Only the four liveness
properties rest on TLC alone.

| Module | Theorems | Property of the run |
| --- | --- | --- |
| `GraphValidationProofs` | `MarksAlwaysExact`, `ValidationCorrect`, `FinishedAlwaysSound` | `MarksExact`, `VerdictCorrect` |
| `DependencyGraphProofs` | `TypeCorrect`, `DependenciesFirst`, `OneDispatch`, `PayloadsFaithful`, `NeverStuck`, `ResultsTruthful`, `StopsOnFailure`, `Refinement` | `TypeOK`, `PayloadFaithful`, `AlwaysProgress`, `ResultTruthful`, `FailStop`, `ImplementsContract` |
| `ListExecutionProofs` | `DispatchAlwaysInOrder`, `AnswersTruthful`, `Refinement` | `DispatchInOrder`, `AnswerTruthful`, `ImplementsContract` |
| `AdaptiveExecutionProofs` | `Bounds`, `Replies`, `Resumption`, `NothingInVain`, `EngineRefinement`, `PayloadsRebuilt` | `BoundedAttempts`, `ReplyTruthful`, `ResumeComplete`, `NoVainDispatch`, `ImplementsEngineContract` |
| `WorkerDispatchProofs` | `TypeCorrect`, `CountersAlwaysExact`, `IdleAgain`, `RefusalsJustified` | `CountersExact`, `IdleWhenQuiet`, `RefusalJustified` |
| `ProviderRoutingProofs` | `TypeCorrect`, `FailoverAlwaysSound`, `HealthAlwaysEarned`, `NeverResurrected` | `FailoverSound`, `HealthEarned`, `NoResurrection` |
| `ActionDialogueProofs` | `DialogueAlwaysSound`, `ActsOnce`, `WritesAlwaysWarranted`, `AnswersTruthful`, `LaunchesAnswered` | `DialogueSound`, `ActedOnce`, `WritesWarranted`, `AnswerTruthful`, `LaunchAnswered` |
| `OrchestratorTurnProofs` | `TypeCorrect`, `EvidenceAlwaysFirst`, `TranscriptAlwaysFaithful`, `PromptAlwaysFaithful`, `EvidenceAlwaysLocal`, `AnswersTruthful`, `CitationsAlwaysResolve`, `NothingInternalTold` | `TypeOK`, `EvidenceBeforeModel`, `TranscriptFaithful`, `PromptFaithful`, `EvidenceStaysLocal`, `AnswerTruthful`, `CitationsResolve`, `NothingInternal` |

### Assumptions

They are the named `ASSUME`s of the modules, which TLC evaluates on every run:
the sets a caller chooses from hold what their names say (`CallAssumption`,
`CallsAssumption`, `PolicyAssumption`, `TurnAssumption`, ...), bounds and
thresholds are numbers, and besides these

- names, workers and threads are finitely many (`NameAssumption`,
  `ListNameAssumption`, `ListWorkerAssumption`, `WorkerAssumption`,
  `ThreadAssumption`), since results count them, and the registry of workers is not empty
  (`OrderAssumption`): the program registers its workers before it has tasks;
- the number of retries is not negative (`RetryAssumption`, `RetriesAssumption`):
  `RetryAEM` refuses any other (`aem.py:470`);
- a plan of the engine that is no set of tasks has dependencies, so that its
  graph is validated (`ListedOnceAssumption`);
- no two tasks have the same place in a list, and places follow the priorities
  (`PlaceAssumption`, `PriorityAssumption`);
- lists that stand for the order of a dictionary have no entry twice
  (`ProviderAssumption`, `RouteAssumption`, `AliasAssumption`);
- what stands for `None`, for the absence of an address and for the words of a
  request without a known name differs from the values it stands beside
  (`QuestionAssumption`, `AliasAssumption`, `DialogueAssumption`);
- the names of a snapshot do not collide (`RouteAssumption`): the code puts
  `provider:` before those of providers;
- a transcript and its context hold at least one entry (`MemoryAssumption`),
  as `ConversationRuntime` checks.

### The arguments

**GraphValidationProofs** proves for plans of any size that the verdict of the
recursive search is right (`ValidationCorrect`). "Accepted implies legal" needs
more than the verdict, which is only reached at the end: the inductive
invariant says that the names on the stack of activations form a path of
dependencies, that what is visited is closed under dependencies except for
those the activations have still to look at, and that no visited name reaches
itself (`FinishedAlwaysSound`). A cycle is reported only when a name marked as
being visited is met again; those are the names on the stack
(`MarksAlwaysExact`), and the path between the two is then a cycle.

**DependencyGraphProofs** proves type correctness and six safety properties
for every plan, every seed and every number of threads. `DependenciesFirst` is
inductive only together with the partition of the tasks into pending,
successful, failed and blocked, with the fact that a wave is a subset of the
ready tasks and that the recorded outputs are those of successful tasks.
`NeverStuck` rests on acyclicity: a nonempty finite set of tasks contains one
whose dependencies are outside the set, so if nothing failed some pending task
is ready. `Refinement` proves that `DependencyGraph` implements `PlanExecution`
under the mapping of the run: initial states map to initial states and, by the
invariant, each action to a step of the contract or a stutter. A last invariant
(`Reported`) says of each way a call can end what its result contains; nothing
here needs it, but the engine reads that result.

**ListExecutionProofs** treats the six methods at once. "At most as often as the
method allows" is not inductive for `FallbackAEM`: a task that is being tried has
candidates left, so the invariant bounds its runs and its candidates together
(`Counted`). For the methods that go in turn it says that all tasks before the
one in hand are done and none after it was touched (`OneByOne`, `InTurn`); the
answer is then read off the state in which the loop ends. The refinement maps
the state of each task to the contract's, where a retry is a new start. What a
call that ended leaves for the engine is stated apart (`Raised`, `Quiet`,
`Outcome`).

**AdaptiveExecutionProofs** proves the properties of a whole `execute_adaptive`,
which runs a method, may run a recovery on what failed and may then resume the
graph. It uses the two previous modules: the engine's model extends
`DependencyGraph`, so its invariant is cited as it stands, and that of
`ListExecution` is cited through an instance over the same variables, with each
engine step shown to be a step of one of them or to leave its variables alone.
The invariant `EInv` adds what neither knows. It says which of the two is at
work in each run (`GraphLeg`, `ListLeg`), what `original` holds of a first run
that has ended (`Reporting`), and that its successes are closed under
dependencies and disjoint from its failures (`Kept`). Of a recovery it says that
it is given exactly the failed tasks, all of them `recovery_safe`, whose
dependencies are among the successes (`Recovering`); of a resumption, that its
seeds are the successes and the recovered tasks (`Resuming`); and of each task
how often the former runs gave it out (`Spent`). Each theorem needs several of
these. `Bounds` adds up the runs, and a task counts in two of them only if it
was `recovery_safe`. `Resumption` needs the seeds to be closed under dependencies,
or `resume()` would refuse them. `NothingInVain` needs what is queued in a
resumption to be disjoint from the seeds, and the candidates of `FallbackAEM` to
lie outside the excluded workers. `Replies` relates the `ExecutionResult` to the
successes of all three runs. `EngineRefinement` maps the state of a task to that
of the run that had it last; the steps within a run are those of the two
refinements, and those between runs are stutters or give the answer, because a
task that is handed to the next run keeps the state the last one left it in. `PayloadsRebuilt`
says in which case alone the counterexample `AdaptiveExecution_payload` of
section 6 arises: a recovered task gets the payload it ran with, unless its only
dependency returned `None`.

**WorkerDispatchProofs** interleaves any number of threads statement by statement.
The load of a worker is the number of threads in its handler, so each step is
shown to change both sides alike: a step moves one thread, and adding or
removing one changes a cardinality by one (`CountChange`). That an idle worker
is marked so needs the flag that `disable` or `enable` has written between its
two statements (`FlagWritten`). That a refusal has a reason follows the workers
that were usable ever since the dispatch began (`steady`): each is still ahead
of the loop over the registry, or has been kept by it (`Watched`).

**ProviderRoutingProofs**: the ranking of candidates is a strict order of the
registered providers, so a sorted list exists and its head is behind none. The
invariant says that the candidates left and those called hold every entitled
provider and none twice, and that none of those left is ahead of one before it
(`QueueSound`); when the list is empty all have been called. `HealthEarned` is
inductive with a bound on the failures of a provider that has lost its record
(`MissingHealthy`), and `NoResurrection` with the fact that candidates under a
policy are usable and stay so until they are called (`QueueUsable`).

**ActionDialogueProofs** proves the dialogue for any number of sessions whose turns
follow each other in any order while other programs change the files. A pending
action holds only what its session has said, and consent only where it was given
(`Covered`); a turn that reaches the tool has complete parameters and is at a
stage of its mode, and it has written exactly when it is past the opening of the
file (`TurnCovered`), so a request writes once. Between the check and the opening
a file can only have appeared (`WriteAdmitted`), which is the exception that
`WritesWarranted` names. Of launches, what was opened and what is left are
together what was asked for (`OpeningSound`), and the lists that `Batch` puts
together name each thing once.

**OrchestratorTurnProofs** has three groups of lemmas and one invariant. The lemmas
about operators say what `Picked`, `InOrder` and `FlattenSeq` return, that
`Remember` appends and drops at most the oldest entry, that `Rendered` is an end
of the transcript, that a search finds at most the documents that are kept, and
what remains of a text after the sanitizers: a stretch of the prompt is a
sequence in which the content of a section stands between its own tags, or at an
end that a stray tag shows, so removing the four sections one after the other
removes all content (`TaggedStretch`, `Kept`, `InnerGone`, `StaysTagged`). The
invariant (`TypeInv`, `MemoryInv`, `GuardedInv`) says that a turn that is not
answered has left nothing in the transcript but, while the model is asked, the
user's words at the end; that the words without a reply are those of the turns
whose model call failed; that past the guard no part of the request is an action;
and that what the model is shown is all that was retrieved. The eight theorems
follow: three of them need nothing but these, the others add one property each.
For `EvidenceAlwaysFirst` it is that the loop leaves out no part that needs
a search: one that is not behind the last one searched has been (`SearchedInOrder`);
for `AnswersTruthful`, that each claim made in the turn agrees with the runtimes
and the health it was read from, until a provider is called (`BorneOut`,
`ClaimsInv`).

### What the prover cannot do here

Facts about finite sets, lists and numbers need induction. The library's
induction theorems take an operator as a parameter, which the installed provers
cannot instantiate, so such facts are proved by a least counterexample
(`Least`, or `WFMin` of the well-founded relation on numbers). Operators that
would have been recursive are written as recursive functions, or as the sequence
whose k-th element has k - 1 before it, which is what the proofs can unfold.

Only model-checked are

- liveness (`CallReturns`, `Ends`, `PlanAnswered`, `RequestEnds`): the
  prover has no support for fairness and `ENABLED`;
- the four counterexamples of section 6, each of which is one behaviour.

## 6. Where the code and its documentation disagree

| Run | The text | What the code does |
| --- | --- | --- |
| `AdaptiveExecution_payload` | `recovery.py:93`: "the same effective payload originally supplied" | with a dependency whose output is `None`, the first run used the task's own payload and the recovery passes `None` |
| `ProviderRouting_legacy` | `router.py:225`: unavailable and disabled providers are "Excluded from automatic selection" | a request without a policy calls the default provider whatever its status |
| `OrchestratorTurn_joined` | `CAUVIS_PROJECT_STATE.md:7768`: "Both segments stay on one model turn", and the model is told "to answer every requested part" | the answer is replaced by the name of the model when the parts, taken together, look like a question about it: "What is a mathematical model? How do engineers use it?" |
| `OrchestratorTurn_place` | `location_grounding.py:162`: "preventing unrelated trailing instructions from becoming part of the stored location" | only the end of the sentence ends the place: "I live in Columbus, and what is photosynthesis?" stores all of it |

Others were met while modelling and have no run of their own:

- `aem.py:1452`: dependents of a failed task "will be marked blocked on a
  subsequent graph pass"; the call returns in the same pass (`aem.py:1457`), so
  they are reported as pending.
- `router.py:637`: "still respects the policy's local/cloud permission flags";
  with no candidate left (`router.py:665`) the default provider is used whatever
  the flags say.
- `CAUVIS_PROJECT_STATE.md:8218`: "Existing files require an explicit
  overwrite/replace response."; the check and the opening of the file
  (`filesystem_actions.py:108`) are two steps without exclusive creation, and
  `WritesWarranted` excepts a file created between them.
- `orchestrator.py:632`: "direct external actions must stop here before
  CauvisBrain/model generation"; a web request ("look up ...") is left to
  retrieval, and when the search fails and the words need no evidence it reaches
  the model.

The docstrings at `aem.py:886` ("One dependency: payload = dependency_output")
and `aem.py:751` (a pipeline passes "the output of each successful task into the
next task") are at odds with the code for the same reason as the second row: a
`None` output is taken as "no payload".

Facts that no text contradicts but a reader should know:

- `write_text` may report an error after the file has changed (a failed
  read-back, or a failure after truncation), and the answer then says that
  nothing was performed. A failure after something was opened is answered the
  same way, without what was opened.
- An `UNAVAILABLE` provider is not called under a policy, so only `enable()`, a
  new registration or a request without a policy brings it back.
- Of a request with several actions, or with an action and a question, the first
  action is executed and the rest is not looked at.
- A place stated in a turn that a guard stops, or that only asks about Cauvis, is
  not stored.
- The number of a source differs between prompt and answer after a document that
  was found twice (`CitationsResolve` states the case in which it does not).
- A turn that mixes a question about Cauvis with another and whose model call
  fails drops the answer to the first, which was already there; when it succeeds
  that answer says that no model was called.
- An echo of the prompt without tags, or with overlapping ones, is not stripped;
  words about a former session are corrected only when this one has a history.
- A query without a significant word is not filtered for relevance, and a
  search-engine link without a snippet shifts the snippets after it to other
  documents.
- `system_diagnostics.py:59` reads a disk with 0% free as one with 100%.
- Applications are found as parts of words and opened in the order of the
  aliases, not of the request.

## 7. What is not modelled

- The regular expressions over natural language, spelling and language
  normalization (`routing_language`, `command_normalizer`), and the extraction
  patterns of the bridge: no state; their outcomes are inputs of the models.
- HTTP clients of the providers and the Windows tools: a call succeeds, fails or
  raises. The wording of answers, in every language, and telemetry.
- Start-up: what it can leave attached is `Instance`, and the tools it registers
  are `StandardTools`.
- The status `configuration_required` of a failed answer (`orchestrator.py:3666`):
  it needs the answer of a provider that is not configured, and only eligible
  ones are called.
- The average execution time that breaks ties under `PRIORITY`; figures,
  texts and timings in results.
- Registering or removing workers while tasks run: the program never does.
- The recursion limit of the interpreter in `_validate_graph`.
- The planner and the heuristic scoring of the reasoning core: pure functions
  without a property that is hard to test. The `VerificationEngine` is never
  called, and the legacy single-plan `execute` of the engine, which nothing
  in the conversation path calls, goes through the steps in order.
- `validate_cauvis.py` and the tests: they state what the program is meant to do
  and were read as such.

## 8. Plan

Done: all modules of section 2, and the proofs of section 5, which cover every
safety property of the passing runs. What could still be added:

1. The four liveness properties as theorems, once the prover supports fairness.
   Their safety half is there: no state is stuck (`NeverStuck`), and the loops
   consume finite sets (`Counted`, `QueueSound`, `Spent`).
2. The parts of section 7 that keep state and are left out: registration of
   workers while tasks run, and the legacy `execute` of the engine, if the
   program comes to use them.
