----------------------- MODULE AdaptiveExecutionProofs -----------------------
(***************************************************************************)
(* Proofs about AdaptiveExecution, for every set of tasks and workers,     *)
(* every plan submitted, every number of retries and size of the pool.     *)
(***************************************************************************)
EXTENDS AdaptiveExecution, DependencyGraphProofs

ListP == INSTANCE ListExecutionProofs WITH PoolLimit <- MaxWorkers,
                                           Calls <- {}

Graphical == strategy = "dependency_graph"
Again     == leg \in {"recovery", "resume"}

\* Where execute_adaptive is, and which of its runs it has started.
Control ==
  /\ phase \in {"idle", "admit", "run", "decide", "recover", "replied"}
  /\ leg \in {"none", "first", "recovery", "resume"}
  /\ phase \in {"idle", "admit"} => leg = "none"
  /\ phase = "run" => leg # "none"
  /\ phase \in {"decide", "recover"} => leg = "first"

\* The plan executed and the method chosen for it.
Request ==
  /\ request \in Plan /\ safe \subseteq request.tasks
  /\ phase # "idle" => request \in Plans
  /\ leg # "none" => Length(request) # 0 /\ strategy = SelectStrategy(request)

\* The graph's variables are those of the first run or of the resumed one,
\* if the plan has dependencies.
GraphUsed == leg # "none" /\ Graphical

GraphLeg ==
  /\ ~GraphUsed => stage = "idle"
  /\ GraphUsed => stage # "idle" /\ plan = request
  /\ GraphUsed /\ leg # "resume" => seeds = Nothing
  /\ stage \in {"validate", "scan", "wave"} =>
       phase = "run" /\ leg \in {"first", "resume"}

\* The list's variables are those of the first run of a plan without
\* dependencies, or of the recovery.
ListUsed == Again \/ (leg = "first" /\ ~Graphical)

ListLeg ==
  /\ ListUsed <=> mode # "idle"
  /\ leg = "first" /\ ~Graphical =>
       ListP!Listed = request.tasks /\ method = strategy
  /\ Again =>
       /\ ListP!Listed = lost
       /\ method \in {"retry", "fallback"}
       /\ excluded = original.workers
  /\ mode \in {"called", "running"} =>
       phase = "run" /\ leg \in {"first", "recovery"}

\* What is kept of the first run: nothing before it has returned, and what
\* it reported from then on.
Reporting ==
  /\ leg = "none" \/ (leg = "first" /\ phase = "run") => original = NoOutcome
  /\ (leg = "first" /\ phase # "run") \/ leg = "recovery" =>
       (Graphical => stage = "returned" /\ original = GraphOutcome)
  /\ leg = "first" /\ phase # "run" /\ ~Graphical =>
       \/ mode = "returned" /\ original = ListOutcome
       \/ mode = "raised" /\ phase = "replied" /\ original = NoOutcome
  /\ phase = "recover" => RecoverableLeg

\* The tasks of a run that has ended are split into those that succeeded and
\* those that failed; the former hold their dependencies.
Kept ==
  /\ original.failed \subseteq request.tasks
  /\ original.workers \subseteq ListP!ListWorkerName
  /\ IsPartial(original.outputs, Name, Output)
  /\ DOMAIN original.outputs \subseteq request.tasks \ original.failed
  /\ ClosedUnder(request, DOMAIN original.outputs)
  /\ Graphical \/ Again =>
       original.completed = Cardinality(DOMAIN original.outputs)
  /\ ~Graphical => DOMAIN original.outputs = {}

\* What is recovered: the failed tasks of a run that may be repeated.
Recovering ==
  Again =>
    /\ lost = original.failed /\ lost # {}
    /\ lost \subseteq safe
    /\ \A t \in lost : request.deps[t] \subseteq DOMAIN original.outputs
    /\ Length(request) = 1 \/ Graphical
    /\ Graphical => Valid(request)

\* What the resumed graph is given.
Resuming ==
  leg = "resume" =>
    /\ Graphical /\ mode = "returned"
    /\ seeds = MergedOutputs
    /\ \A t \in lost : t \in DOMAIN values

\* The dispatches of the runs before the last one.
Spent ==
  /\ base \in [Name -> Nat]
  /\ \A t \in Name :
       base[t] > 0 =>
         /\ base[t] = 1
         /\ \/ leg = "recovery" /\ ~Graphical /\ t \in lost
            \/ leg = "resume" /\ t \in DOMAIN original.outputs \cup lost

EInv ==
  /\ Control
  /\ Request
  /\ IInv
  /\ Genuine
  /\ Reported
  /\ ListP!IInv
  /\ ListP!Raised
  /\ GraphLeg
  /\ ListLeg
  /\ Reporting
  /\ Kept
  /\ Recovering
  /\ Resuming
  /\ Spent
  /\ ReplyTruthful


-----------------------------------------------------------------------------
(* The list's operators, as the engine and as the proofs about them name   *)
(* them, are the same.                                                     *)

LEMMA ListAssumptions ==
  /\ None \in Output /\ MaxRetries \in Nat /\ MaxWorkers \in Nat
  /\ ListP!IsFiniteSet(Name) /\ ListP!IsFiniteSet(Worker)
BY NoneAssumption, RetriesAssumption, PoolAssumption, NameAssumption,
   WorkerAssumption DEF ListP!IsFiniteSet, IsFiniteSet

LEMMA SameCardinality ==
  \A S : /\ List!Cardinality(S) = Cardinality(S)
         /\ ListP!Cardinality(S) = Cardinality(S)
BY DEF List!Cardinality, ListP!Cardinality, Cardinality

LEMMA SameMayStart == \A t : List!MayStart(t) <=> ListP!MayStart(t)
<1>1. List!Listed = ListP!Listed /\ (\A s : List!In(s) = ListP!In(s))
  BY DEF List!Listed, ListP!Listed, List!In, ListP!In
<1>2. \A t, u : List!Earlier(t, u) <=> ListP!Earlier(t, u)
  BY DEF List!Earlier, ListP!Earlier
<1>3. List!Threads = ListP!Threads /\ (List!Stopped <=> ListP!Stopped)
  BY <1>1, SameCardinality
     DEF List!Threads, ListP!Threads, List!Stopped, ListP!Stopped
<1> QED
  BY <1>1, <1>2, <1>3, SameCardinality DEF List!MayStart, ListP!MayStart

LEMMA SameSteps ==
  /\ List!EnterLoop <=> ListP!EnterLoop
  /\ List!ReturnAnswer <=> ListP!ReturnAnswer
  /\ \A t : /\ List!StartListed(t) <=> ListP!StartListed(t)
            /\ List!FindCandidates(t) <=> ListP!FindCandidates(t)
            /\ List!Succeed(t) <=> ListP!Succeed(t)
            /\ List!Unserved(t) <=> ListP!Unserved(t)
            /\ List!Raise(t) <=> ListP!Raise(t)
            /\ \A w : /\ List!TryWorker(t, w) <=> ListP!TryWorker(t, w)
                      /\ List!FailBy(t, w) <=> ListP!FailBy(t, w)
<1> USE DEF List!arguments, ListP!arguments
<1>1. List!Listed = ListP!Listed /\ (\A s : List!In(s) = ListP!In(s))
  BY DEF List!Listed, ListP!Listed, List!In, ListP!In
<1>2. List!EnterLoop <=> ListP!EnterLoop
  BY DEF List!EnterLoop, ListP!EnterLoop, List!Listed, ListP!Listed,
         List!NoAnswer, ListP!NoAnswer
<1>3. List!ReturnAnswer <=> ListP!ReturnAnswer
  <2>1. List!Drained <=> ListP!Drained
    BY <1>1 DEF List!Drained, ListP!Drained, List!Stopped, ListP!Stopped
  <2> QED
    BY <1>1, <2>1, SameCardinality DEF List!ReturnAnswer, ListP!ReturnAnswer
<1>4. \A t : List!StartListed(t) <=> ListP!StartListed(t)
  BY SameMayStart DEF List!StartListed, ListP!StartListed
<1>5. \A t : List!FindCandidates(t) <=> ListP!FindCandidates(t)
  BY SameMayStart DEF List!FindCandidates, ListP!FindCandidates,
                      List!Eligible, ListP!Eligible
<1>6. \A t : List!Succeed(t) <=> ListP!Succeed(t)
  BY DEF List!Succeed, ListP!Succeed
<1>7. \A t : List!Unserved(t) <=> ListP!Unserved(t)
  BY DEF List!Unserved, ListP!Unserved
<1>8. \A t : List!Raise(t) <=> ListP!Raise(t)
  BY DEF List!Raise, ListP!Raise
<1>9. \A t, w : List!TryWorker(t, w) <=> ListP!TryWorker(t, w)
  BY DEF List!TryWorker, ListP!TryWorker
<1>10. \A t, w : List!FailBy(t, w) <=> ListP!FailBy(t, w)
  BY DEF List!FailBy, ListP!FailBy, List!AfterFailure, ListP!AfterFailure,
         List!MayRepeat, ListP!MayRepeat, List!KeepsFailures,
         ListP!KeepsFailures
<1> QED
  BY <1>2, <1>3, <1>4, <1>5, <1>6, <1>7, <1>8, <1>9, <1>10

LEMMA SameStep == List!ListStep <=> ListP!ListStep
BY SameSteps DEF List!ListStep, ListP!ListStep

LEMMA SameCall ==
  \A m, list, prio, excl :
    List!CallMethod(m, list, prio, excl)
      <=> ListP!CallMethod(m, list, prio, excl)
BY DEF List!CallMethod, ListP!CallMethod, List!NoAnswer, ListP!NoAnswer

LEMMA SameInit == List!Init <=> ListP!Init
BY DEF List!Init, ListP!Init, List!NoAnswer, ListP!NoAnswer

\* The invariant of the list through its calls and its steps.
LEMMA ListInit == List!Init => ListP!IInv /\ ListP!Raised
<1>1. ListP!Init => ListP!IInv
  BY ListP!InitInvariant, ListAssumptions
<1>2. ListP!Init => ListP!Raised
  BY DEF ListP!Init, ListP!Raised
<1> QED
  BY <1>1, <1>2, SameInit

LEMMA ListStepKeeps ==
  ASSUME ListP!IInv, ListP!Raised, List!ListStep
  PROVE  ListP!IInv' /\ ListP!Raised'
<1>1. ListP!ListStep
  BY SameStep
<1>2. ListP!IInv'
  BY <1>1, ListP!ListStepInvariant, ListAssumptions
<1>3. ListP!Raised'
  BY <1>1, ListP!RaisedStep, ListAssumptions
<1> QED
  BY <1>2, <1>3

LEMMA ListCallKeeps ==
  ASSUME NEW m \in ListP!Method, NEW T \in SUBSET Name,
         NEW order \in [Name -> Nat], Priority \in [Name -> Int],
         NEW excl \in SUBSET ListP!ListWorkerName,
         StartList(m, T, order, excl)
  PROVE  ListP!IInv' /\ ListP!Raised'
<1> DEFINE list == [t \in T |-> order[t]]
<1>1. ListP!CallMethod(m, list, Priority, excl)
  BY SameCall DEF StartList
<1>2. DOMAIN list \subseteq Name /\ list \in [DOMAIN list -> Nat]
  OBVIOUS
<1>3. ListP!IInv'
  <2> HIDE DEF list
  <2> QED
    BY <1>1, <1>2, ListP!CallStep, ListAssumptions
<1>4. ListP!Raised'
  BY <1>1 DEF ListP!CallMethod, ListP!Raised
<1> QED
  BY <1>3, <1>4

LEMMA ListStutter ==
  ASSUME ListP!IInv, ListP!Raised, UNCHANGED listVars
  PROVE  ListP!IInv' /\ ListP!Raised'
<1>1. /\ UNCHANGED ListP!listVars
      /\ UNCHANGED <<mode, method, at, place>>
  BY DEF listVars, ListP!listVars, ListP!arguments
<1>2. ListP!IInv'
  BY <1>1, ListP!NextInvariant, ListAssumptions
<1>3. ListP!Raised'
  BY <1>1 DEF ListP!Raised, ListP!In, ListP!Listed
<1> QED
  BY <1>2, <1>3

-----------------------------------------------------------------------------
(* The graph's invariant through the engine's use of it.                   *)

LEMMA GraphStepKeeps ==
  ASSUME IInv, Genuine, Reported, GraphStep
  PROVE  IInv' /\ Genuine' /\ Reported'
<1>1. [Next]_graphVars
  BY DEF Next
<1> QED
  BY <1>1, NextStep, GenuineStep, ReportedStep

LEMMA GraphStutter ==
  ASSUME IInv, Genuine, Reported, UNCHANGED graphVars
  PROVE  IInv' /\ Genuine' /\ Reported'
<1>1. IInv' /\ Genuine'
  BY NextStep, GenuineStep
<1>2. UNCHANGED <<stage, plan, seeds, outputs, successful, completed, result>>
  BY DEF graphVars, locals
<1>3. Reported'
  BY <1>2 DEF Reported, EndedEarly, EndedWell, EndedByFailure, Length,
              SeedsAccepted, Failed, Succeeded
<1> QED
  BY <1>1, <1>3

\* A run is started on a new object when no wave is in progress.
LEMMA GraphEntered ==
  ASSUME IInv, stage # "wave", request \in Plan, NEW s,
         IsPartial(s, Name, Output), StartGraph(s)
  PROVE  IInv' /\ Genuine' /\ Reported'
<1> USE DEF StartGraph, pool
<1>1. /\ queued = {} /\ running = {} /\ DOMAIN settled = {}
      /\ queued \in SUBSET Name /\ IsPartial(settled, Name, WorkerResult)
  BY DEF IInv, PoolIdle, TypeOK
<1>2. TypeOK'
  BY <1>1, NothingPartial, NoResultType DEF TypeOK, Stage, Payload
<1>3. Untouched' /\ PoolIdle' /\ LoopState' /\ WaveState'
  BY <1>1, NothingPartial
     DEF Untouched, PoolIdle, LoopState, WaveState, InLoop
<1>4. DispatchCount' /\ SeedsUntouched' /\ DispatchedInputs' /\ StartOrder'
  BY <1>1, NothingPartial
     DEF DispatchCount, SeedsUntouched, DispatchedInputs, StartOrder
<1>5. PayloadFaithful' /\ AlwaysProgress' /\ ResultTruthful'
  BY DEF PayloadFaithful, AlwaysProgress, ResultTruthful, NoResult
<1>6. Genuine' /\ Reported'
  BY DEF Genuine, Reported
<1> QED
  BY <1>2, <1>3, <1>4, <1>5, <1>6 DEF IInv

LEMMA GraphInit == Init => IInv /\ Genuine /\ Reported
<1>1. Init => Genuine /\ Reported
  BY DEF Init, Genuine, Reported
<1> QED
  BY <1>1, InitInvariant

\* What a run that has ended reports: the tasks that succeeded, closed under
\* the dependencies and with their outputs, and apart from them those that
\* failed.
LEMMA GraphFinal ==
  ASSUME IInv, Genuine, Reported, stage = "returned", seeds = Nothing
  PROVE  /\ result.failed \subseteq plan.tasks \ successful
         /\ result.workers \subseteq WorkerName
         /\ IsPartial(result.outputs, Name, Output)
         /\ DOMAIN result.outputs = successful
         /\ successful \subseteq plan.tasks
         /\ ClosedUnder(plan, successful)
         /\ result.completed = Cardinality(successful)
         /\ result.total = Length(plan)
         /\ result.success => successful = plan.tasks
         /\ result.failed # {} =>
              /\ result.error = "task_failed" /\ Valid(plan)
              /\ result.failed = Failed(completed)
              /\ successful = Succeeded(completed)
<1>1. result \in AEMResult /\ TypeOK
  BY DEF IInv, TypeOK
<1>2. /\ result.workers \subseteq WorkerName
      /\ IsPartial(result.outputs, Name, Output)
  BY <1>1, MemberPartial DEF AEMResult
<1>3. \A t \in successful : plan.deps[t] \subseteq successful
  <2> SUFFICES ASSUME NEW t \in successful
               PROVE  plan.deps[t] \subseteq successful
    OBVIOUS
  <2>1. t \in Name /\ t \in DOMAIN completed
    BY <1>1, NothingPartial DEF Genuine, TypeOK
  <2>2. dispatched[t] = 1
    BY <2>1 DEF IInv, DispatchCount
  <2> QED
    BY <2>1, <2>2 DEF IInv, StartOrder
<1>4. DOMAIN Nothing = {}
  BY NothingPartial
<1>5. /\ result.total = Length(plan)
      /\ result.completed = Cardinality(successful)
      /\ EndedEarly \/ EndedWell \/ EndedByFailure
      /\ result.error = "validation" <=> ~Valid(plan) /\ Length(plan) # 0
      /\ ~EndedEarly => DOMAIN outputs = successful
  BY DEF Reported
<1>6. CASE EndedEarly
  BY <1>2, <1>3, <1>4, <1>5, <1>6 DEF EndedEarly, ClosedUnder
<1>7. CASE EndedWell
  <2>1. DOMAIN result.outputs = successful
    <3>1. Length(plan) = 0 => plan.tasks = {}
      BY <1>1, EmptyPlan DEF TypeOK
    <3> QED
      BY <1>4, <1>5, <1>7, <3>1 DEF EndedWell, EndedEarly
  <2> QED
    BY <1>2, <1>3, <1>5, <1>7, <2>1 DEF EndedWell, ClosedUnder
<1>8. CASE EndedByFailure
  <2>1. result.error = "task_failed" /\ result.outputs = outputs
        /\ result.failed = Failed(completed)
        /\ result.failed # {} /\ ~result.success
        /\ result.failed \subseteq plan.tasks \ successful
        /\ successful \subseteq plan.tasks
    BY <1>8 DEF EndedByFailure
  <2>2. DOMAIN outputs = successful /\ Valid(plan)
    <3>1. ~EndedEarly
      BY <2>1 DEF EndedEarly
    <3>2. Length(plan) # 0
      <4>1. Length(plan) = 0 => plan.tasks = {}
        BY <1>1, EmptyPlan DEF TypeOK
      <4> QED
        BY <2>1, <4>1
    <3> QED
      BY <1>5, <2>1, <3>1, <3>2
  <2>3. successful = Succeeded(completed)
    BY <1>4, <2>1, <2>2 DEF IInv, ResultTruthful
  <2> QED
    BY <1>2, <1>3, <1>5, <2>1, <2>2, <2>3 DEF ClosedUnder
<1> QED
  BY <1>5, <1>6, <1>7, <1>8

-----------------------------------------------------------------------------
(* What the engine's steps have in common.                                 *)

LEMMA StrategyChosen ==
  ASSUME NEW p
  PROVE  /\ SelectStrategy(p) \in {"dependency_graph", "sequential",
                                   "priority", "parallel"}
         /\ SelectStrategy(p) # "dependency_graph" =>
              \A t \in p.tasks : p.deps[t] = {}
BY DEF SelectStrategy

\* The only task of a plan is all there is to fail.
LEMMA SingleTask ==
  ASSUME NEW p \in Plan, Length(p) = 1, NEW S \in SUBSET p.tasks, S # {}
  PROVE  S = p.tasks /\ Cardinality(p.tasks) = 1 /\ p.extra = 0
<1>1. p.tasks \in SUBSET Name /\ p.extra \in Nat
  BY DEF Plan
<1>2. IsFiniteSet(p.tasks) /\ IsFiniteSet(S)
  BY <1>1, NameAssumption, FS_Subset
<1>3. Cardinality(p.tasks) \in Nat /\ Cardinality(p.tasks) # 0
  BY <1>2, FS_CardinalityType, FS_EmptySet
<1>4. Cardinality(p.tasks) = 1 /\ p.extra = 0
  BY <1>1, <1>3 DEF Length
<1>5. PICK x : p.tasks = {x}
  BY <1>2, <1>4, FS_Singleton
<1> QED
  BY <1>4, <1>5

LEMMA Counts ==
  ASSUME NEW S \in SUBSET Name, NEW T \in SUBSET S
  PROVE  /\ Cardinality(S) \in Nat /\ Cardinality(T) \in Nat
         /\ Cardinality(T) <= Cardinality(S)
<1>1. IsFiniteSet(S)
  BY NameAssumption, FS_Subset
<1> QED
  BY <1>1, FS_Subset, FS_CardinalityType

LEMMA GraphFrame ==
  ASSUME UNCHANGED graphVars
  PROVE  /\ UNCHANGED <<stage, plan, seeds, outputs, successful, completed,
                        queued, running, settled, result, dispatched>>
         /\ GraphOutcome' = GraphOutcome
BY DEF graphVars, locals, pool, GraphOutcome

LEMMA ListFrame ==
  ASSUME UNCHANGED listVars
  PROVE  /\ UNCHANGED <<mode, method, place, priority, excluded, at,
                        attempts, candidates, values, failures, answer, runs>>
         /\ ListOutcome' = ListOutcome /\ ListP!Listed' = ListP!Listed
BY DEF listVars, ListOutcome, ListP!Listed

\* What a list method reports when it has ended.
LEMMA ListFinal ==
  ASSUME ListP!IInv
  PROVE  /\ DOMAIN values \subseteq ListP!Listed /\ ListP!Listed \subseteq Name
         /\ values \in [DOMAIN values -> Output]
         /\ mode = "idle" => DOMAIN values = {}
         /\ mode = "returned" =>
              /\ answer.failed \subseteq ListP!Listed \ DOMAIN values
              /\ answer.success <=> DOMAIN values = ListP!Listed
              /\ answer.completed = Cardinality(DOMAIN values)
              /\ answer.total = Cardinality(ListP!Listed)
              /\ answer.workers \subseteq ListP!ListWorkerName
<1>1. /\ DOMAIN values \subseteq ListP!Listed
      /\ \A t \in Name : t \in DOMAIN values
                           <=> t \in ListP!Listed /\ at[t] = "done"
      /\ mode = "returned" =>
           /\ answer.failed \subseteq ListP!Listed \ DOMAIN values
           /\ answer.success <=> DOMAIN values = ListP!Listed
           /\ answer.completed = ListP!Cardinality(DOMAIN values)
           /\ answer.total = ListP!Cardinality(ListP!Listed)
           /\ answer.workers \subseteq ListP!ListWorkerName
  BY ListP!Outcome, ListAssumptions
<1>2. ListP!Listed \subseteq Name /\ values \in [DOMAIN values -> Output]
  BY DEF ListP!IInv, ListP!TypeOK, ListP!Listed
<1>3. mode = "idle" => \A t \in Name : at[t] # "done"
  BY DEF ListP!IInv, ListP!Fresh
<1> QED
  BY <1>1, <1>2, <1>3, SameCardinality

\* How often a list method has given out a task.
LEMMA ListSpent ==
  ASSUME ListP!IInv, NEW t \in Name
  PROVE  /\ runs[t] \in Nat
         /\ t \notin ListP!Listed \/ mode \in {"idle", "called"} => runs[t] = 0
         /\ method \notin {"retry", "fallback"} => runs[t] <= 1
         /\ method = "retry" => runs[t] <= MaxRetries + 1
         /\ method = "fallback" => runs[t] <= Cardinality(Worker \ excluded)
<1>1. ListP!Counted(t)
  BY DEF ListP!IInv, ListP!AllCounted
<1> QED
  BY <1>1, SameCardinality
     DEF ListP!IInv, ListP!TypeOK, ListP!OnlyListed, ListP!Fresh,
         ListP!Counted, ListP!Permitted

\* How often a run of the graph has given out a task.
LEMMA GraphSpent ==
  ASSUME IInv, NEW t \in Name
  PROVE  /\ dispatched[t] \in Nat /\ dispatched[t] <= 1
         /\ t \in DOMAIN seeds => dispatched[t] = 0
         /\ stage \in {"idle", "validate"} => dispatched[t] = 0
         /\ stage = "returned" /\ dispatched[t] > 0 => t \in DOMAIN completed
<1>1. dispatched[t] <= (IF t \in DOMAIN seeds THEN 0 ELSE 1)
  BY OnceEach DEF DispatchedOnce
<1>2. dispatched[t] \in Nat
  BY DEF IInv, TypeOK
<1>3. stage \in {"idle", "validate"} => dispatched[t] = 0
  BY DEF IInv, DispatchCount, Untouched, PoolIdle
<1>4. stage = "returned" /\ dispatched[t] > 0 => t \in DOMAIN completed
  BY DEF IInv, DispatchCount, PoolIdle
<1> QED
  BY <1>1, <1>2, <1>3, <1>4

\* The succeeded tasks of the plan, counted.
LEMMA SucceedingCount ==
  ASSUME EInv
  PROVE  /\ Succeeding \subseteq request.tasks /\ request.tasks \subseteq Name
         /\ Cardinality(Succeeding) \in Nat
         /\ \A S \in SUBSET Succeeding :
              Cardinality(S) \in Nat /\ Cardinality(S) <= Cardinality(Succeeding)
<1>1. Succeeding \subseteq request.tasks
  BY DEF Succeeding
<1>2. request.tasks \subseteq Name
  BY DEF EInv, Request, Plan
<1>3. Succeeding \in SUBSET Name /\ Succeeding \in SUBSET Succeeding
  BY <1>1, <1>2
<1> QED
  BY <1>1, <1>2, <1>3, Counts

\* A step of execute_adaptive itself: no run is in progress or started.
LEMMA EngineMoves ==
  ASSUME EInv, phase # "idle", phase' \in {"decide", "recover", "replied"},
         phase' # "replied" => leg = "first",
         stage \notin {"validate", "scan", "wave"},
         mode \notin {"called", "running"},
         UNCHANGED <<graphVars, listVars, leg, request, safe, strategy, lost,
                     base>>,
         Again => UNCHANGED original,
         Reporting', Kept', ReplyTruthful'
  PROVE  EInv'
<1> USE DEF EInv
<1>1. /\ UNCHANGED <<stage, plan, seeds, outputs, successful, completed,
                     queued, running, settled, result, dispatched>>
      /\ IInv' /\ Genuine' /\ Reported'
  BY GraphFrame, GraphStutter
<1>2. /\ UNCHANGED <<mode, method, place, priority, excluded, at, values,
                     answer, runs>>
      /\ ListP!Listed' = ListP!Listed
      /\ ListP!IInv' /\ ListP!Raised'
  BY ListFrame, ListStutter
<1>3. Control' /\ Request'
  BY DEF Control, Request, SelectStrategy, Length
<1>4. GraphLeg' /\ ListLeg'
  <2>1. GraphUsed' = GraphUsed /\ ListUsed' = ListUsed /\ Again' = Again
        /\ Graphical' = Graphical
    BY DEF GraphUsed, ListUsed, Again, Graphical
  <2>2. GraphLeg'
    BY <1>1, <2>1 DEF GraphLeg
  <2>3. ListLeg'
    BY <1>2, <2>1 DEF ListLeg, Again
  <2> QED
    BY <2>2, <2>3
<1>5. Recovering'
  BY DEF Recovering, Again, Graphical, Length
<1>6. Resuming'
  <2> SUFFICES ASSUME leg = "resume"
               PROVE  /\ Graphical' /\ mode' = "returned"
                      /\ seeds' = MergedOutputs'
                      /\ \A t \in lost' : t \in DOMAIN values'
    BY DEF Resuming
  <2>1. UNCHANGED <<original, values, lost, seeds, strategy, mode>>
    BY <1>1, <1>2 DEF Again
  <2>2. MergedOutputs' = MergedOutputs
    BY <2>1 DEF MergedOutputs
  <2> QED
    BY <2>1, <2>2 DEF Resuming, Graphical
<1>7. Spent'
  <2>1. ~Again => leg' \notin {"recovery", "resume"}
    BY DEF Again
  <2>2. CASE Again
    BY <2>2 DEF Spent, Graphical
  <2>3. CASE ~Again
    BY <2>1, <2>3 DEF Spent
  <2> QED
    BY <2>2, <2>3
<1> QED
  BY <1>1, <1>2, <1>3, <1>4, <1>5, <1>6, <1>7

\* An execution that is given up, or ends before a run, reports no more than
\* has succeeded.
LEMMA TruthfulFailure ==
  ASSUME EInv, NEW k \in Nat, NEW n, Answer(FALSE, k, n),
         k <= Cardinality(Succeeding),
         UNCHANGED <<successful, values, request, original>>
  PROVE  ReplyTruthful'
<1>1. Succeeding' = Succeeding
  BY DEF Succeeding
<1>2. reply'.success = FALSE /\ reply'.completed = k
  BY DEF Answer
<1> QED
  BY <1>1, <1>2 DEF ReplyTruthful

LEMMA InitStep == EngineInit => EInv
<1> SUFFICES ASSUME EngineInit PROVE EInv
  OBVIOUS
<1> USE DEF EngineInit
<1>1. IInv /\ Genuine /\ Reported
  BY GraphInit
<1>2. ListP!IInv /\ ListP!Raised
  BY ListInit
<1>3. stage = "idle" /\ mode = "idle"
  BY DEF Init, List!Init
<1>4. request \in Plan /\ request.tasks = {}
  BY DEF Init, Plan
<1>5. Control /\ Request
  BY <1>4 DEF Control, Request
<1>6. GraphLeg /\ ListLeg
  BY <1>3 DEF GraphLeg, ListLeg, GraphUsed, ListUsed, Again, Graphical
<1>7. Reporting /\ Recovering /\ Resuming
  BY DEF Reporting, Recovering, Resuming, Again
<1>8. Kept
  BY NothingPartial, FS_EmptySet DEF Kept, NoOutcome, ClosedUnder, Again
<1>9. Spent /\ ReplyTruthful
  BY DEF Spent, ReplyTruthful
<1> QED
  BY <1>1, <1>2, <1>5, <1>6, <1>7, <1>8, <1>9 DEF EInv

LEMMA SubmitStep ==
  ASSUME EInv, NEW p \in Plans, NEW s \in SUBSET p.tasks, Submit(p, s)
  PROVE  EInv'
<1> USE DEF EInv, Submit
<1>1. leg = "none" /\ leg' = "none" /\ original' = NoOutcome
  BY DEF Control, Reporting
<1>2. IInv' /\ Genuine' /\ Reported' /\ UNCHANGED <<stage, plan, seeds>>
  BY GraphFrame, GraphStutter
<1>3. ListP!IInv' /\ ListP!Raised' /\ UNCHANGED mode
  BY ListFrame, ListStutter
<1>4. p \in Plan
  BY CallAssumption
<1>5. Control' /\ Request'
  BY <1>1, <1>4 DEF Control, Request
<1>6. GraphLeg' /\ ListLeg'
  BY <1>1, <1>2, <1>3
     DEF GraphLeg, ListLeg, GraphUsed, ListUsed, Again, Graphical
<1>7. Reporting' /\ Recovering' /\ Resuming'
  BY <1>1 DEF Reporting, Recovering, Resuming, Again
<1>8. Kept'
  BY <1>1, NothingPartial, FS_EmptySet DEF Kept, NoOutcome, ClosedUnder, Again
<1>9. Spent' /\ ReplyTruthful'
  BY <1>1 DEF Spent, ReplyTruthful, Again
<1> QED
  BY <1>2, <1>3, <1>5, <1>6, <1>7, <1>8, <1>9

LEMMA RefuseStep == EInv /\ Refuse => EInv'
<1> SUFFICES ASSUME EInv, Refuse PROVE EInv'
  OBVIOUS
<1>1. leg = "none" /\ leg' = "none" /\ phase = "admit" /\ phase' = "replied"
      /\ stage = "idle" /\ mode = "idle" /\ ~Again
  BY DEF EInv, Control, Refuse, Answer, GraphLeg, GraphUsed, ListLeg,
         ListUsed, Again
<1>2. Reporting' /\ Kept'
  BY <1>1 DEF EInv, Refuse, Reporting, Kept, Again, Graphical
<1>3. ReplyTruthful'
  <2>1. 0 \in Nat /\ 0 <= Cardinality(Succeeding)
    BY SucceedingCount
  <2>2. UNCHANGED <<successful, values, request, original>>
    BY GraphFrame, ListFrame DEF Refuse
  <2> QED
    BY <2>1, <2>2, TruthfulFailure DEF Refuse
<1> QED
  BY <1>1, <1>2, <1>3, EngineMoves DEF Refuse

LEMMA ListCalled ==
  ASSUME NEW m, NEW T, NEW order, NEW excl, StartList(m, T, order, excl)
  PROVE  /\ mode' = "called" /\ method' = m /\ excluded' = excl
         /\ ListP!Listed' = T /\ DOMAIN values' = {} /\ candidates' = {}
         /\ \A t \in Name : runs'[t] = 0 /\ at'[t] = "waiting"
BY SameCall DEF StartList, ListP!CallMethod, ListP!Listed

LEMMA AdmitStep == EInv /\ Admit => EInv'
<1> SUFFICES ASSUME EInv, Admit PROVE EInv'
  OBVIOUS
<1> USE DEF EInv
<1>1. /\ phase = "admit" /\ phase' = "run" /\ leg = "none" /\ leg' = "first"
      /\ Length(request) # 0
      /\ strategy' = SelectStrategy(request)
      /\ UNCHANGED <<request, safe, original, lost, reply, base>>
      /\ stage = "idle" /\ mode = "idle" /\ original = NoOutcome
      /\ request \in Plans /\ request \in Plan
  BY CallAssumption
     DEF Admit, Control, Request, GraphLeg, ListLeg, GraphUsed, ListUsed,
         Again, Reporting
<1>2. Control' /\ Request'
  BY <1>1 DEF Control, Request, SelectStrategy, Length
<1>3. Reporting' /\ Recovering' /\ Resuming'
  BY <1>1 DEF Reporting, Recovering, Resuming, Again
<1>4. Kept'
  BY <1>1, NothingPartial, FS_EmptySet DEF Kept, NoOutcome, ClosedUnder, Again
<1>5. Spent' /\ ReplyTruthful'
  BY <1>1 DEF Spent, ReplyTruthful
<1>6. CASE strategy' = "dependency_graph"
  <2>1. StartGraph(Nothing) /\ UNCHANGED listVars
    BY <1>6 DEF Admit
  <2>2. IInv' /\ Genuine' /\ Reported'
    BY <1>1, <2>1, GraphEntered, NothingPartial
  <2>3. ListP!IInv' /\ ListP!Raised' /\ UNCHANGED mode
    BY <2>1, ListFrame, ListStutter
  <2>4. stage' = "validate" /\ plan' = request /\ seeds' = Nothing
    BY <2>1 DEF StartGraph
  <2>5. GraphLeg' /\ ListLeg'
    BY <1>1, <1>6, <2>3, <2>4
       DEF GraphLeg, ListLeg, GraphUsed, ListUsed, Again, Graphical
  <2> QED
    BY <1>2, <1>3, <1>4, <1>5, <2>2, <2>3, <2>5
<1>7. CASE strategy' # "dependency_graph"
  <2>1. StartList(strategy', request.tasks, Place, {}) /\ UNCHANGED graphVars
    BY <1>7 DEF Admit
  <2>2. /\ strategy' \in ListP!Method /\ request.tasks \in SUBSET Name
        /\ Place \in [Name -> Nat] /\ Priority \in [Name -> Int]
        /\ {} \in SUBSET ListP!ListWorkerName
    BY <1>1, <1>7, StrategyChosen, PlaceAssumption, PriorityAssumption
       DEF ListP!Method, Plan
  <2>3. ListP!IInv' /\ ListP!Raised'
    BY <2>1, <2>2, ListCallKeeps
  <2>4. mode' = "called" /\ method' = strategy' /\ ListP!Listed' = request.tasks
    BY <2>1, ListCalled
  <2>5. IInv' /\ Genuine' /\ Reported' /\ UNCHANGED stage
    BY <2>1, GraphFrame, GraphStutter
  <2>6. GraphLeg' /\ ListLeg'
    BY <1>1, <1>7, <2>4, <2>5
       DEF GraphLeg, ListLeg, GraphUsed, ListUsed, Again, Graphical
  <2> QED
    BY <1>2, <1>3, <1>4, <1>5, <2>3, <2>5, <2>6
<1> QED
  BY <1>6, <1>7

LEMMA GraphRunStep == EInv /\ GraphRun => EInv'
<1> SUFFICES ASSUME EInv, GraphRun PROVE EInv'
  OBVIOUS
<1> USE DEF EInv
<1>1. IInv' /\ Genuine' /\ Reported'
  BY GraphStepKeeps DEF GraphRun
<1>2. ListP!IInv' /\ ListP!Raised' /\ ListP!Listed' = ListP!Listed
      /\ UNCHANGED <<mode, method, excluded, values>>
  BY ListFrame, ListStutter DEF GraphRun
<1>3. UNCHANGED <<phase, leg, request, safe, strategy, original, lost, reply,
                  base>>
  BY DEF GraphRun, engineVars
<1>4. /\ stage \in {"validate", "scan", "wave"}
      /\ stage' \in {"validate", "scan", "wave", "returned"}
      /\ UNCHANGED <<plan, seeds>>
  BY DEF GraphRun, GraphStep, ReturnEmpty, RejectCall, Accept, Scan,
         StartTask, FinishTask, CollectWave, Return, locals
<1>5. phase = "run" /\ leg \in {"first", "resume"} /\ GraphUsed
  BY <1>4 DEF GraphLeg
<1>6. Control' /\ Request'
  BY <1>3 DEF Control, Request, SelectStrategy, Length
<1>7. GraphLeg' /\ ListLeg'
  <2>1. GraphUsed' = GraphUsed /\ ListUsed' = ListUsed /\ Again' = Again
        /\ Graphical' = Graphical
    BY <1>3 DEF GraphUsed, ListUsed, Again, Graphical
  <2> QED
    BY <1>2, <1>3, <1>4, <1>5, <2>1 DEF GraphLeg, ListLeg
<1>8. Reporting'
  BY <1>3, <1>5 DEF Reporting, GraphUsed, Graphical
<1>9. Kept' /\ Recovering'
  BY <1>3 DEF Kept, Recovering, Again, Graphical, Length
<1>10. Resuming'
  BY <1>2, <1>3, <1>4 DEF Resuming, MergedOutputs, Graphical
<1>11. Spent' /\ ReplyTruthful'
  BY <1>3, <1>5 DEF Spent, ReplyTruthful, Graphical
<1> QED
  BY <1>1, <1>2, <1>6, <1>7, <1>8, <1>9, <1>10, <1>11

LEMMA ListRunStep == EInv /\ ListRun => EInv'
<1> SUFFICES ASSUME EInv, ListRun PROVE EInv'
  OBVIOUS
<1> USE DEF EInv
<1>1. IInv' /\ Genuine' /\ Reported' /\ GraphOutcome' = GraphOutcome
      /\ UNCHANGED <<stage, plan, seeds>>
  BY GraphFrame, GraphStutter DEF ListRun
<1>2. ListP!IInv' /\ ListP!Raised'
  BY ListStepKeeps DEF ListRun
<1>3. UNCHANGED <<phase, leg, request, safe, strategy, original, lost, reply,
                  base>>
  BY DEF ListRun, engineVars
<1>4. /\ mode \in {"called", "running"} /\ mode' # "idle"
      /\ UNCHANGED <<method, place, excluded>>
  <2>1. ListP!ListStep
    BY SameStep DEF ListRun
  <2> QED
    BY <2>1 DEF ListP!ListStep, ListP!EnterLoop, ListP!StartListed,
                ListP!MayStart, ListP!FindCandidates, ListP!TryWorker,
                ListP!FailBy, ListP!Succeed, ListP!Unserved, ListP!Raise,
                ListP!ReturnAnswer, ListP!arguments
<1>5. phase = "run" /\ leg \in {"first", "recovery"} /\ ListUsed
  BY <1>4 DEF ListLeg
<1>6. Control' /\ Request'
  BY <1>3 DEF Control, Request, SelectStrategy, Length
<1>7. GraphLeg' /\ ListLeg'
  <2>1. GraphUsed' = GraphUsed /\ ListUsed' = ListUsed /\ Again' = Again
        /\ Graphical' = Graphical /\ ListP!Listed' = ListP!Listed
    BY <1>3, <1>4 DEF GraphUsed, ListUsed, Again, Graphical, ListP!Listed
  <2> QED
    BY <1>1, <1>3, <1>4, <1>5, <2>1 DEF GraphLeg, ListLeg
<1>8. Reporting'
  BY <1>1, <1>3, <1>5 DEF Reporting, Graphical
<1>9. Kept' /\ Recovering'
  BY <1>3 DEF Kept, Recovering, Again, Graphical, Length
<1>10. Resuming'
  BY <1>3, <1>5 DEF Resuming
<1>11. Spent' /\ ReplyTruthful'
  BY <1>3, <1>5 DEF Spent, ReplyTruthful, Graphical
<1> QED
  BY <1>1, <1>2, <1>6, <1>7, <1>8, <1>9, <1>10, <1>11

\* During the first run, where its outcome is read from.
LEMMA FirstGraph ==
  ASSUME EInv, leg = "first", Graphical
  PROVE  /\ plan = request /\ seeds = Nothing /\ mode = "idle"
         /\ DOMAIN values = {}
         /\ stage = "returned" =>
              /\ GraphOutcome.failed \subseteq
                   request.tasks \ DOMAIN GraphOutcome.outputs
              /\ GraphOutcome.workers \subseteq ListP!ListWorkerName
              /\ IsPartial(GraphOutcome.outputs, Name, Output)
              /\ DOMAIN GraphOutcome.outputs = successful
              /\ successful \subseteq request.tasks
              /\ ClosedUnder(request, successful)
              /\ GraphOutcome.completed = Cardinality(successful)
              /\ GraphOutcome.total = Length(request)
              /\ GraphOutcome.success => successful = request.tasks
<1> USE DEF EInv
<1>1. plan = request /\ seeds = Nothing /\ mode = "idle"
  BY DEF GraphLeg, ListLeg, GraphUsed, ListUsed, Again
<1>2. DOMAIN values = {}
  BY <1>1, ListFinal
<1>3. WorkerName \subseteq ListP!ListWorkerName
  BY DEF WorkerName, ListP!ListWorkerName
<1>4. /\ GraphOutcome.failed = result.failed
      /\ GraphOutcome.workers = result.workers
      /\ GraphOutcome.outputs = result.outputs
      /\ GraphOutcome.completed = result.completed
      /\ GraphOutcome.total = result.total
      /\ GraphOutcome.success = result.success
  BY DEF GraphOutcome
<1> HIDE DEF EInv
<1>5. IInv /\ Genuine /\ Reported
  BY DEF EInv
<1> QED
  BY <1>1, <1>2, <1>3, <1>4, <1>5, GraphFinal

LEMMA FirstList ==
  ASSUME EInv, leg = "first", ~Graphical
  PROVE  /\ stage = "idle" /\ successful = {} /\ ListP!Listed = request.tasks
         /\ \A t \in request.tasks : request.deps[t] = {}
         /\ DOMAIN values \subseteq request.tasks
         /\ mode = "returned" =>
              /\ ListOutcome.failed \subseteq request.tasks \ DOMAIN values
              /\ ListOutcome.workers \subseteq ListP!ListWorkerName
              /\ ListOutcome.outputs = Nothing
              /\ ListOutcome.completed = Cardinality(DOMAIN values)
              /\ ListOutcome.total = Cardinality(request.tasks)
              /\ ListOutcome.success <=> DOMAIN values = request.tasks
<1> USE DEF EInv
<1>1. stage = "idle" /\ ListP!Listed = request.tasks
  BY DEF GraphLeg, ListLeg, GraphUsed
<1>2. successful = {}
  BY <1>1 DEF IInv, Untouched
<1>3. \A t \in request.tasks : request.deps[t] = {}
  BY StrategyChosen DEF Request, Graphical
<1>4. /\ ListOutcome.failed = answer.failed
      /\ ListOutcome.workers = answer.workers
      /\ ListOutcome.outputs = Nothing
      /\ ListOutcome.completed = answer.completed
      /\ ListOutcome.total = answer.total
      /\ ListOutcome.success = answer.success
  BY DEF ListOutcome
<1> HIDE DEF EInv
<1>5. ListP!IInv
  BY DEF EInv
<1> QED
  BY <1>1, <1>2, <1>3, <1>4, <1>5, ListFinal

\* A first run whose tasks have all succeeded is answered as verified, if its
\* counts are those of the plan.
LEMMA TruthfulVerdict ==
  ASSUME EInv, NEW r, Answer(Verified(r), r.completed, Length(request)),
         UNCHANGED request, Succeeding' = request.tasks,
         r.completed = Cardinality(request.tasks)
  PROVE  ReplyTruthful'
<1>1. /\ reply'.completed = Cardinality(request.tasks)
      /\ reply'.total = Length(request)
  BY DEF Answer
<1>2. reply'.success <=> Verified(r)
  BY Zenon DEF Answer
<1>3. Verified(r) => Cardinality(request.tasks) = Length(request)
  BY DEF Verified
<1>4. Cardinality(request.tasks) \in Nat
  BY CountType DEF EInv, Request, Plan
<1>5. Length(request)' = Length(request)
  BY DEF Length
<1> QED
  BY <1>1, <1>2, <1>3, <1>4, <1>5 DEF ReplyTruthful

LEMMA FirstReturnsStep == EInv /\ FirstReturns => EInv'
<1> SUFFICES ASSUME EInv, FirstReturns PROVE EInv'
  OBVIOUS
<1>1. /\ phase = "run" /\ leg = "first"
      /\ UNCHANGED <<graphVars, listVars, leg, request, safe, strategy, lost,
                     base>>
      /\ IF original'.success
         THEN Answer(Verified(original'), original'.completed, Length(request))
         ELSE phase' = "decide" /\ UNCHANGED reply
  BY DEF FirstReturns
<1>2. phase' \in {"decide", "replied"} /\ ~Again /\ leg' = "first"
  BY <1>1 DEF Answer, Again
<1>3. /\ UNCHANGED <<stage, successful, mode, values>>
      /\ GraphOutcome' = GraphOutcome /\ ListOutcome' = ListOutcome
  BY <1>1, GraphFrame, ListFrame
<1>5. Graphical' = Graphical /\ Again' = Again
  BY <1>1 DEF Graphical, Again
<1>6. CASE Graphical
  <2>1. stage = "returned" /\ original' = GraphOutcome
    BY <1>6 DEF FirstReturns, Graphical
  <2>2. /\ original'.failed \subseteq request.tasks \ DOMAIN original'.outputs
        /\ original'.workers \subseteq ListP!ListWorkerName
        /\ IsPartial(original'.outputs, Name, Output)
        /\ DOMAIN original'.outputs = successful
        /\ successful \subseteq request.tasks
        /\ ClosedUnder(request, successful)
        /\ original'.completed = Cardinality(successful)
        /\ original'.success => successful = request.tasks
        /\ DOMAIN values = {} /\ mode = "idle"
    BY <1>1, <1>6, <2>1, FirstGraph
  <2>3. Kept'
    BY <1>1, <1>5, <1>6, <2>2 DEF Kept, ClosedUnder
  <2>4. Reporting'
    BY <1>1, <1>2, <1>3, <1>5, <1>6, <2>1 DEF Reporting, Again
  <2>5. ReplyTruthful'
    <3>1. CASE original'.success
      <4>1. Succeeding' = request.tasks
        BY <1>1, <1>3, <2>2, <3>1 DEF Succeeding
      <4> QED
        BY <1>1, <2>2, <3>1, <4>1, TruthfulVerdict
    <3>2. CASE ~original'.success
      BY <1>1, <3>2 DEF ReplyTruthful
    <3> QED
      BY <3>1, <3>2
  <2>6. stage \notin {"validate", "scan", "wave"}
        /\ mode \notin {"called", "running"}
    BY <2>1, <2>2
  <2> QED
    BY <1>1, <1>2, <2>3, <2>4, <2>5, <2>6, EngineMoves
<1>7. CASE ~Graphical
  <2>1. mode = "returned" /\ original' = ListOutcome
    BY <1>7 DEF FirstReturns, Graphical
  <2>2. /\ original'.failed \subseteq request.tasks \ DOMAIN values
        /\ original'.workers \subseteq ListP!ListWorkerName
        /\ original'.outputs = Nothing
        /\ original'.completed = Cardinality(DOMAIN values)
        /\ original'.success <=> DOMAIN values = request.tasks
        /\ DOMAIN values \subseteq request.tasks /\ stage = "idle"
    BY <1>1, <1>7, <2>1, FirstList
  <2>3. Kept'
    BY <1>1, <1>2, <1>5, <1>7, <2>2, NothingPartial DEF Kept, ClosedUnder
  <2>4. Reporting'
    BY <1>1, <1>2, <1>3, <1>5, <1>7, <2>1 DEF Reporting, Again
  <2>5. ReplyTruthful'
    <3>1. CASE original'.success
      <4>1. Succeeding' = request.tasks
        BY <1>1, <1>3, <2>2, <3>1 DEF Succeeding
      <4> QED
        BY <1>1, <2>2, <3>1, <4>1, TruthfulVerdict
    <3>2. CASE ~original'.success
      BY <1>1, <3>2 DEF ReplyTruthful
    <3> QED
      BY <3>1, <3>2
  <2>6. stage \notin {"validate", "scan", "wave"}
        /\ mode \notin {"called", "running"}
    BY <2>1, <2>2
  <2> QED
    BY <1>1, <1>2, <2>3, <2>4, <2>5, <2>6, EngineMoves
<1> QED
  BY <1>6, <1>7

LEMMA FirstRaisesStep == EInv /\ FirstRaises => EInv'
<1> SUFFICES ASSUME EInv, FirstRaises PROVE EInv'
  OBVIOUS
<1>1. /\ phase = "run" /\ leg = "first" /\ leg' = "first" /\ mode = "raised"
      /\ phase' = "replied" /\ original = NoOutcome /\ ~Again
      /\ UNCHANGED <<graphVars, listVars, leg, request, safe, strategy,
                     original, lost, base>>
  BY DEF EInv, FirstRaises, Answer, Reporting, Again
<1>2. ~Graphical
  BY <1>1, FirstGraph
<1>3. stage = "idle"
  BY <1>1, <1>2, FirstList
<1>4. UNCHANGED <<successful, values, mode>>
  BY <1>1, GraphFrame, ListFrame
<1>5. Graphical' = Graphical /\ Again' = Again
  BY <1>1 DEF Graphical, Again
<1>6. Kept' /\ Reporting'
  BY <1>1, <1>2, <1>4, <1>5 DEF EInv, Kept, Reporting
<1>7. ReplyTruthful'
  <2>1. 0 \in Nat /\ 0 <= Cardinality(Succeeding)
    BY SucceedingCount
  <2>2. Answer(FALSE, 0, Length(request))
    BY DEF FirstRaises
  <2> QED
    BY <1>1, <1>4, <2>1, <2>2, TruthfulFailure
<1> QED
  BY <1>1, <1>3, <1>6, <1>7, EngineMoves

\* When the engine decides about a first run, that run has returned.
LEMMA GivenUp ==
  ASSUME EInv, phase \in {"decide", "recover"} \/ Again, GiveUp,
         UNCHANGED <<successful, values, request, original>>
  PROVE  ReplyTruthful'
<1>1. request.tasks \subseteq Name
  BY DEF EInv, Request, Plan
<1>2. /\ original.completed \in Nat
      /\ original.completed <= Cardinality(Succeeding)
  <2>1. CASE Graphical \/ Again
    <3>1. /\ original.completed = Cardinality(DOMAIN original.outputs)
          /\ DOMAIN original.outputs \subseteq request.tasks
      BY <2>1 DEF EInv, Kept
    <3>2. DOMAIN original.outputs \in SUBSET Succeeding
      BY <3>1 DEF Succeeding
    <3> QED
      BY <3>1, <3>2, SucceedingCount
  <2>2. CASE ~Graphical /\ ~Again
    <3>1. leg = "first" /\ mode = "returned" /\ original = ListOutcome
      BY <2>2 DEF EInv, Control, Reporting, Again
    <3>2. /\ original.completed = Cardinality(DOMAIN values)
          /\ DOMAIN values \subseteq request.tasks
      BY <2>2, <3>1, FirstList
    <3>3. DOMAIN values \in SUBSET Succeeding
      BY <3>2 DEF Succeeding
    <3> QED
      BY <3>2, <3>3, SucceedingCount
  <2> QED
    BY <2>1, <2>2
<1> QED
  BY <1>2, TruthfulFailure DEF GiveUp

LEMMA DecideStep == EInv /\ Decide => EInv'
<1> SUFFICES ASSUME EInv, Decide PROVE EInv'
  OBVIOUS
<1>1. /\ phase = "decide" /\ leg = "first" /\ leg' = "first" /\ ~Again
      /\ UNCHANGED <<graphVars, listVars, leg, request, safe, strategy,
                     original, lost, base>>
      /\ (phase' = "recover" /\ UNCHANGED reply /\ RecoverableLeg) \/ GiveUp
  BY DEF EInv, Control, Decide, Again
<1>2. phase' \in {"recover", "replied"}
  BY <1>1 DEF GiveUp, Answer
<1>3. /\ UNCHANGED <<stage, mode, successful, values>>
      /\ GraphOutcome' = GraphOutcome /\ ListOutcome' = ListOutcome
  BY <1>1, GraphFrame, ListFrame
<1>4. stage \notin {"validate", "scan", "wave"}
      /\ mode \notin {"called", "running"}
  BY <1>1 DEF EInv, GraphLeg, ListLeg
<1>5. Graphical' = Graphical /\ Again' = Again
  BY <1>1 DEF Graphical, Again
<1>6. Kept'
  BY <1>1, <1>5 DEF EInv, Kept
<1>7. Reporting'
  <2>1. phase' = "recover" => RecoverableLeg'
    BY <1>1 DEF GiveUp, Answer, RecoverableLeg, Length
  <2> QED
    BY <1>1, <1>2, <1>3, <1>5, <2>1 DEF EInv, Reporting
<1>8. ReplyTruthful'
  BY <1>1, <1>2, <1>3, GivenUp DEF ReplyTruthful
<1> QED
  BY <1>1, <1>2, <1>4, <1>6, <1>7, <1>8, EngineMoves

LEMMA RecoverStep == EInv /\ Recover => EInv'
<1> SUFFICES ASSUME EInv, Recover PROVE EInv'
  OBVIOUS
<1> USE DEF EInv
<1>1. /\ phase = "recover" /\ leg = "first" /\ ~Again
      /\ UNCHANGED <<graphVars, request, safe, strategy, original>>
  BY DEF Control, Recover, Again
<1>2. /\ UNCHANGED <<stage, plan, seeds, outputs, successful, completed,
                     queued, running, settled, result, dispatched>>
      /\ GraphOutcome' = GraphOutcome
      /\ IInv' /\ Genuine' /\ Reported'
  BY <1>1, GraphFrame, GraphStutter
<1>3. stage \notin {"validate", "scan", "wave"}
      /\ mode \notin {"called", "running"}
  BY <1>1 DEF GraphLeg, ListLeg
<1>4. Graphical' = Graphical
  BY <1>1 DEF Graphical
<1>5. PICK d \in Decisions(original), enabled \in BOOLEAN :
        IF d # "abort" /\ Prepared /\ enabled
        THEN /\ phase' = "run"
             /\ leg' = "recovery"
             /\ lost' = original.failed
             /\ StartList(d, original.failed, Rank, Exclusions)
             /\ base' = [t \in Name |-> base[t] + runs[t]]
             /\ UNCHANGED reply
        ELSE /\ GiveUp
             /\ UNCHANGED <<listVars, leg, lost, base>>
  BY DEF Recover
<1>6. CASE ~(d # "abort" /\ Prepared /\ enabled)
  <2>1. GiveUp /\ UNCHANGED <<listVars, leg, lost, base>>
    BY <1>5, <1>6
  <2>2. phase' = "replied"
    BY <2>1 DEF GiveUp, Answer
  <2>3. UNCHANGED <<mode, values>> /\ ListOutcome' = ListOutcome
    BY <2>1, ListFrame
  <2>4. Again' = Again
    BY <2>1 DEF Again
  <2>5. Kept'
    BY <1>1, <1>4, <2>4 DEF Kept
  <2>6. Reporting'
    BY <1>1, <1>2, <1>4, <2>1, <2>2, <2>3 DEF Reporting
  <2>7. ReplyTruthful'
    BY <1>1, <1>2, <2>1, <2>3, GivenUp
  <2> HIDE DEF EInv
  <2> QED
    BY <1>1, <1>3, <2>1, <2>2, <2>5, <2>6, <2>7, EngineMoves
<1>7. CASE d # "abort" /\ Prepared /\ enabled
  <2> USE DEF Again
  <2>1. /\ phase' = "run" /\ leg' = "recovery" /\ lost' = original.failed
        /\ StartList(d, original.failed, Rank, Exclusions)
        /\ base' = [t \in Name |-> base[t] + runs[t]]
        /\ d \in {"retry", "fallback"} /\ ~original.invalid
    BY <1>5, <1>7 DEF Decisions
  <2>2. /\ original.failed # {} /\ original.failed \subseteq safe
        /\ \A t \in original.failed :
             request.deps[t] \subseteq DOMAIN original.outputs
        /\ original.failed \in SUBSET request.tasks
        /\ original.failed \in SUBSET Name
        /\ request \in Plan
    BY <1>7 DEF Prepared, SafeToRepeat, Kept, Request, Plan
  <2>3. ListP!IInv' /\ ListP!Raised'
    <3>1. /\ d \in ListP!Method /\ Rank \in [Name -> Nat]
          /\ Priority \in [Name -> Int]
          /\ Exclusions \in SUBSET ListP!ListWorkerName
      BY <2>1, RankAssumption, PriorityAssumption
         DEF ListP!Method, Exclusions, Kept
    <3> QED
      BY <2>1, <2>2, <3>1, ListCallKeeps
  <2>4. /\ mode' = "called" /\ method' = d /\ excluded' = original.workers
        /\ ListP!Listed' = original.failed
    BY <2>1, ListCalled DEF Exclusions
  <2>5. Control' /\ Request'
    BY <1>1, <2>1 DEF Control, Request, SelectStrategy, Length
  <2>6. GraphLeg' /\ ListLeg'
    <3>1. GraphUsed' = GraphUsed /\ ListUsed'
      BY <1>1, <1>4, <2>1 DEF GraphUsed, ListUsed
    <3> QED
      BY <1>1, <1>2, <1>3, <1>4, <2>1, <2>4, <3>1 DEF GraphLeg, ListLeg
  <2>7. Reporting'
    BY <1>1, <1>2, <1>4, <2>1 DEF Reporting
  <2>8. Length(request) = 1 \/ Graphical
    BY <1>1 DEF Reporting, RecoverableLeg, Graphical
  <2>9. Graphical => Valid(request)
    <3> SUFFICES ASSUME Graphical
                 PROVE  Valid(request)
      OBVIOUS
    <3>1. stage = "returned" /\ original = GraphOutcome /\ plan = request
      BY <1>1 DEF Reporting, GraphLeg, GraphUsed
    <3>2. result.failed # {} /\ seeds = Nothing
      BY <1>1, <2>2, <3>1 DEF GraphOutcome, GraphLeg, GraphUsed
    <3>3. IInv /\ Genuine /\ Reported
      OBVIOUS
    <3> HIDE DEF EInv
    <3> QED
      BY <3>1, <3>2, <3>3, GraphFinal
  <2>10. Recovering'
    <3>1. Length(request)' = Length(request) /\ Valid(request)' = Valid(request)
      BY <1>1 DEF Length
    <3> QED
      BY <1>1, <1>4, <2>1, <2>2, <2>8, <2>9, <3>1 DEF Recovering
  <2>11. CASE Graphical
    <3>1. Kept'
      BY <1>1, <1>4, <2>11 DEF Kept
    <3>2. mode = "idle"
      BY <1>1, <2>11 DEF ListLeg, ListUsed
    <3>3. \A t \in Name : runs[t] = 0 /\ base[t] = 0
      BY <1>1, <3>2, ListSpent DEF Spent
    <3>4. Spent'
      BY <2>1, <3>3 DEF Spent
    <3> QED
      BY <1>2, <2>1, <2>3, <2>5, <2>6, <2>7, <2>10, <3>1, <3>4
         DEF Resuming, ReplyTruthful
  <2>12. CASE ~Graphical
    <3>1. mode = "returned" /\ original = ListOutcome
      BY <1>1, <2>12 DEF Reporting
    <3>2. /\ original.failed = request.tasks
          /\ original.failed \subseteq request.tasks \ DOMAIN values
          /\ DOMAIN values \subseteq request.tasks
          /\ original.completed = Cardinality(DOMAIN values)
          /\ original.outputs = Nothing
      <4> HIDE DEF EInv
      <4>1. Length(request) = 1
        BY <2>8, <2>12
      <4> QED
        BY <1>1, <2>2, <2>12, <3>1, <4>1, FirstList, SingleTask
    <3>3. DOMAIN original.outputs = {} /\ DOMAIN values = {}
      BY <3>2, NothingPartial
    <3>4. Kept'
      BY <1>1, <1>4, <2>12, <3>2, <3>3 DEF Kept
    <3>5. /\ ListP!Listed = request.tasks
          /\ method \in {"sequential", "priority", "parallel"}
      BY <1>1, <2>12, StrategyChosen DEF ListLeg, Request, Graphical
    <3>6. ASSUME NEW t \in Name
          PROVE  /\ base'[t] \in Nat
                 /\ base'[t] > 0 => base'[t] = 1 /\ t \in original.failed
      <4>1. base[t] = 0 /\ base'[t] = base[t] + runs[t]
        BY <1>1, <2>1 DEF Spent
      <4>2. runs[t] \in Nat /\ runs[t] <= 1
            /\ (t \notin request.tasks => runs[t] = 0)
        BY <3>5, ListSpent
      <4> QED
        BY <3>2, <4>1, <4>2
    <3>7. Spent'
      BY <1>4, <2>1, <2>12, <3>6 DEF Spent
    <3> QED
      BY <1>2, <2>1, <2>3, <2>5, <2>6, <2>7, <2>10, <3>4, <3>7
         DEF Resuming, ReplyTruthful
  <2> QED
    BY <2>11, <2>12
<1> QED
  BY <1>6, <1>7


\* A recovery that has ended with every failed task recovered, or not.
LEMMA RecoveryLeg ==
  ASSUME EInv, phase = "run", leg = "recovery", RecoveryEnded
  PROVE  /\ Again /\ stage \notin {"validate", "scan", "wave"}
         /\ mode \notin {"called", "running"}
         /\ request \in Plan /\ lost \in SUBSET request.tasks /\ lost # {}
         /\ DOMAIN values \subseteq lost /\ values \in [DOMAIN values -> Output]
         /\ Recovered => DOMAIN values = lost /\ mode = "returned"
<1> USE DEF EInv
<1>1. Again /\ stage \notin {"validate", "scan", "wave"}
      /\ mode \notin {"called", "running"}
  BY DEF Again, GraphLeg, RecoveryEnded
<1>2. request \in Plan /\ lost \in SUBSET request.tasks /\ lost # {}
      /\ ListP!Listed = lost /\ ListP!IInv
  BY <1>1 DEF Request, Recovering, Kept, ListLeg
<1>3. /\ DOMAIN values \subseteq lost /\ values \in [DOMAIN values -> Output]
      /\ mode = "returned" => answer.success <=> DOMAIN values = lost
  <2> HIDE DEF EInv
  <2> QED
    BY <1>2, ListFinal
<1> QED
  BY <1>1, <1>2, <1>3 DEF Recovered

LEMMA TaskRecoveredStep == EInv /\ TaskRecovered => EInv'
<1> SUFFICES ASSUME EInv, TaskRecovered PROVE EInv'
  OBVIOUS
<1>1. /\ phase = "run" /\ leg = "recovery" /\ RecoveryEnded
      /\ Length(request) = 1
      /\ IF Recovered THEN Answer(TRUE, 1, 1) ELSE GiveUp
      /\ UNCHANGED <<graphVars, listVars, leg, request, safe, strategy,
                     original, lost, base>>
  BY DEF TaskRecovered
<1>2. phase' = "replied"
  BY <1>1 DEF GiveUp, Answer
<1>3. /\ UNCHANGED <<stage, mode, successful, values>>
      /\ GraphOutcome' = GraphOutcome /\ ListOutcome' = ListOutcome
  BY <1>1, GraphFrame, ListFrame
<1>4. Graphical' = Graphical /\ Again' = Again
  BY <1>1 DEF Graphical, Again
<1>5. Kept' /\ Reporting'
  BY <1>1, <1>2, <1>3, <1>4 DEF EInv, Kept, Reporting
<1>6. ReplyTruthful'
  <2>1. CASE Recovered
    <3>1. request.tasks = DOMAIN values
      BY <1>1, <2>1, RecoveryLeg, SingleTask
    <3>2. Succeeding' = request'.tasks
      BY <1>1, <1>3, <3>1 DEF Succeeding
    <3>3. Cardinality(request'.tasks) = 1 /\ Length(request)' = 1
      BY <1>1, RecoveryLeg, SingleTask DEF Length
    <3>4. reply'.completed = 1 /\ reply'.total = 1
      BY <1>1, <2>1 DEF Answer
    <3> QED
      BY <3>2, <3>3, <3>4 DEF ReplyTruthful
  <2>2. CASE ~Recovered
    BY <1>1, <1>3, <2>2, GivenUp, RecoveryLeg
  <2> QED
    BY <2>1, <2>2
<1> QED
  BY <1>1, <1>2, <1>5, <1>6, RecoveryLeg, EngineMoves


\* The outputs of both runs, and the first run they complete.
LEMMA MergedPartial ==
  ASSUME EInv, phase = "run", leg = "recovery", RecoveryEnded, Recovered
  PROVE  /\ IsPartial(MergedOutputs, Name, Output)
         /\ DOMAIN MergedOutputs = DOMAIN original.outputs \cup lost
<1> DEFINE m == MergedOutputs
<1>1. /\ DOMAIN original.outputs \subseteq Name /\ lost \subseteq Name
      /\ \A t \in DOMAIN original.outputs : original.outputs[t] \in Output
  BY NothingPartial
     DEF EInv, Kept, Recovering, Again, Request, Plan, IsPartial
<1>2. \A t \in lost : values[t] \in Output
  BY RecoveryLeg
<1>3. /\ DOMAIN m = DOMAIN original.outputs \cup lost
      /\ m = [t \in DOMAIN m |-> m[t]]
      /\ \A t \in DOMAIN m : m[t] = IF t \in lost THEN values[t]
                                                   ELSE original.outputs[t]
  BY DEF MergedOutputs
<1>4. \A t \in DOMAIN m : m[t] \in Output
  BY <1>1, <1>2, <1>3
<1> QED
  BY <1>1, <1>3, <1>4 DEF IsPartial

LEMMA GraphRecoveredStep == EInv /\ GraphRecovered => EInv'
<1> SUFFICES ASSUME EInv, GraphRecovered PROVE EInv'
  OBVIOUS
<1>1. /\ phase = "run" /\ leg = "recovery" /\ RecoveryEnded
      /\ Length(request) > 1
      /\ UNCHANGED <<listVars, request, safe, strategy, original, lost>>
  BY DEF GraphRecovered
<1>2. PICK enabled \in BOOLEAN :
        IF /\ Recovered /\ enabled
           /\ lost \subseteq DOMAIN values
           /\ lost \cap DOMAIN original.outputs = {}
        THEN /\ leg' = "resume"
             /\ StartGraph(MergedOutputs)
             /\ base' = [t \in Name |-> base[t] + dispatched[t]]
             /\ UNCHANGED <<phase, reply>>
        ELSE /\ GiveUp
             /\ UNCHANGED <<graphVars, leg, base>>
  BY DEF GraphRecovered
<1>3. /\ UNCHANGED <<mode, method, excluded, values>>
      /\ ListOutcome' = ListOutcome /\ ListP!Listed' = ListP!Listed
      /\ ListP!IInv' /\ ListP!Raised'
  BY <1>1, ListFrame, ListStutter DEF EInv
<1>4. Graphical' = Graphical
  BY <1>1 DEF Graphical
<1>5. CASE GiveUp /\ UNCHANGED <<graphVars, leg, base>>
  <2>1. phase' = "replied"
    BY <1>5 DEF GiveUp, Answer
  <2>2. UNCHANGED <<stage, successful>> /\ GraphOutcome' = GraphOutcome
    BY <1>5, GraphFrame
  <2>3. Again' = Again
    BY <1>5 DEF Again
  <2>4. Kept' /\ Reporting'
    BY <1>1, <1>3, <1>4, <1>5, <2>1, <2>2, <2>3 DEF EInv, Kept, Reporting
  <2>5. ReplyTruthful'
    BY <1>1, <1>3, <1>5, <2>2, GivenUp, RecoveryLeg
  <2> QED
    BY <1>1, <1>5, <2>1, <2>4, <2>5, RecoveryLeg, EngineMoves
<1>6. CASE /\ Recovered /\ lost \subseteq DOMAIN values
           /\ leg' = "resume"
           /\ StartGraph(MergedOutputs)
           /\ base' = [t \in Name |-> base[t] + dispatched[t]]
           /\ UNCHANGED <<phase, reply>>
  <2>1. Graphical /\ plan = request /\ seeds = Nothing /\ stage = "returned"
        /\ original = GraphOutcome /\ request \in Plan
        /\ lost = original.failed /\ lost # {}
    BY <1>1 DEF EInv, Recovering, Again, GraphLeg, GraphUsed, Reporting,
                Request
  <2>2. IInv' /\ Genuine' /\ Reported'
    <3>1. IInv
      BY DEF EInv
    <3>2. IsPartial(MergedOutputs, Name, Output)
      BY <1>1, <1>6, MergedPartial
    <3> QED
      BY <1>6, <2>1, <3>1, <3>2, GraphEntered
  <2>3. stage' = "validate" /\ plan' = request /\ seeds' = MergedOutputs
    BY <1>6 DEF StartGraph
  <2>4. Control' /\ Request'
    BY <1>1, <1>6 DEF EInv, Control, Request, SelectStrategy, Length
  <2>5. GraphLeg' /\ ListLeg'
    <3>1. GraphUsed' /\ ListUsed' /\ Again' /\ Again
      BY <1>4, <1>6, <2>1, <1>1 DEF GraphUsed, ListUsed, Again
    <3>2. GraphLeg'
      BY <1>1, <1>6, <2>3, <3>1 DEF GraphLeg
    <3>3. mode = "returned"
      BY <1>6 DEF Recovered
    <3>4. ListLeg'
      BY <1>1, <1>3, <1>6, <3>1, <3>3 DEF EInv, ListLeg
    <3> QED
      BY <3>2, <3>4
  <2>6. Reporting'
    BY <1>1, <1>6 DEF EInv, Control, Reporting
  <2>7. Kept' /\ Recovering'
    <3>1. Again /\ Again' /\ Length(request)' = Length(request)
          /\ Valid(request)' = Valid(request)
      BY <1>1, <1>6 DEF Again, Length
    <3> QED
      BY <1>1, <1>4, <3>1 DEF EInv, Kept, Recovering
  <2>8. Resuming'
    <3>1. MergedOutputs' = MergedOutputs
      BY <1>1, <1>3 DEF MergedOutputs
    <3> QED
      BY <1>1, <1>3, <1>4, <1>6, <2>1, <2>3, <3>1 DEF Resuming, Recovered
  <2>9. Spent'
    <3>1. DOMAIN original.outputs = Succeeded(completed)
          /\ lost = Failed(completed)
      <4>1. IInv /\ Genuine /\ Reported
        BY DEF EInv
      <4>2. original.outputs = result.outputs /\ original.failed = result.failed
        BY <2>1 DEF GraphOutcome
      <4> QED
        BY <2>1, <4>1, <4>2, GraphFinal
    <3>2. DOMAIN completed \subseteq DOMAIN original.outputs \cup lost
      BY <3>1 DEF Failed
    <3>3. ASSUME NEW t \in Name
          PROVE  /\ base'[t] \in Nat
                 /\ base'[t] > 0 =>
                      base'[t] = 1 /\ t \in DOMAIN original.outputs \cup lost
      <4>1. base[t] = 0 /\ base'[t] = base[t] + dispatched[t]
        BY <1>1, <1>6, <2>1 DEF EInv, Spent
      <4>2. /\ dispatched[t] \in Nat /\ dispatched[t] <= 1
            /\ dispatched[t] > 0 => t \in DOMAIN completed
        BY <2>1, GraphSpent DEF EInv
      <4> QED
        BY <3>2, <4>1, <4>2
    <3> QED
      BY <1>1, <1>6, <3>3 DEF Spent
  <2>10. ReplyTruthful'
    BY <1>1, <1>6 DEF ReplyTruthful
  <2> QED
    BY <1>3, <2>2, <2>4, <2>5, <2>6, <2>7, <2>8, <2>9, <2>10 DEF EInv
<1> QED
  BY <1>2, <1>5, <1>6


LEMMA ResumeReturnsStep == EInv /\ ResumeReturns => EInv'
<1> SUFFICES ASSUME EInv, ResumeReturns PROVE EInv'
  OBVIOUS
<1>1. /\ phase = "run" /\ leg = "resume" /\ stage = "returned"
      /\ IF ResumeVerified
         THEN Answer(TRUE, Length(request), Length(request))
         ELSE GiveUp
      /\ UNCHANGED <<graphVars, listVars, leg, request, safe, strategy,
                     original, lost, base>>
  BY DEF ResumeReturns
<1>2. phase' = "replied"
  BY <1>1 DEF GiveUp, Answer
<1>3. /\ UNCHANGED <<stage, mode, successful, values>>
      /\ GraphOutcome' = GraphOutcome /\ ListOutcome' = ListOutcome
  BY <1>1, GraphFrame, ListFrame
<1>4. Graphical' = Graphical /\ Again' = Again /\ Again
  BY <1>1 DEF Graphical, Again
<1>5. Kept' /\ Reporting'
  BY <1>1, <1>2, <1>3, <1>4 DEF EInv, Kept, Reporting
<1>6. stage \notin {"validate", "scan", "wave"}
      /\ mode \notin {"called", "running"}
  BY <1>1 DEF EInv, ListLeg
<1>7. ReplyTruthful'
  <2>1. CASE ResumeVerified
    <3>1. plan = request
      BY <1>1 DEF EInv, Resuming, GraphLeg, GraphUsed
    <3>2. /\ result.success /\ result.completed = Length(request)
          /\ result.completed = Cardinality(successful)
          /\ successful = plan.tasks
      BY <1>1, <2>1 DEF EInv, ResumeVerified, Verified, Reported, EndedEarly,
                        EndedWell, EndedByFailure
    <3>3. Succeeding' = request'.tasks /\ request'.tasks = successful
      BY <1>1, <1>3, <3>1, <3>2 DEF Succeeding
    <3>4. reply'.completed = Length(request) /\ reply'.total = Length(request)
          /\ Length(request)' = Length(request)
      BY <1>1, <2>1 DEF Answer, Length
    <3>5. Cardinality(successful) \in Nat
      BY <1>1, <3>1, <3>2, CountType DEF EInv, Request, Plan
    <3>6. /\ reply'.completed = reply'.total
          /\ reply'.total = Length(request)'
          /\ Succeeding' = request'.tasks
      BY <3>3, <3>4
    <3>7. reply'.completed <= Cardinality(Succeeding)'
      <4>1. Cardinality(Succeeding)' = Cardinality(successful)
        BY <3>3
      <4>2. reply'.completed = Cardinality(successful)
        BY <3>2, <3>4
      <4> QED
        BY <3>5, <4>1, <4>2
    <3> QED
      BY <3>6, <3>7 DEF ReplyTruthful
  <2>2. CASE ~ResumeVerified
    BY <1>1, <1>3, <1>4, <2>2, GivenUp
  <2> QED
    BY <2>1, <2>2
<1> QED
  BY <1>1, <1>2, <1>5, <1>6, <1>7, EngineMoves

LEMMA EngineStutter == EInv /\ UNCHANGED vars => EInv'
<1> SUFFICES ASSUME EInv, UNCHANGED vars PROVE EInv'
  OBVIOUS
<1> USE DEF EInv
<1>1. UNCHANGED graphVars /\ UNCHANGED listVars
      /\ UNCHANGED <<phase, leg, request, safe, strategy, original, lost,
                     reply, base>>
  BY DEF vars, engineVars
<1>2. /\ UNCHANGED <<stage, plan, seeds, successful>>
      /\ GraphOutcome' = GraphOutcome
      /\ IInv' /\ Genuine' /\ Reported'
  BY <1>1, GraphFrame, GraphStutter
<1>3. /\ UNCHANGED <<mode, method, excluded, values>>
      /\ ListOutcome' = ListOutcome /\ ListP!Listed' = ListP!Listed
      /\ ListP!IInv' /\ ListP!Raised'
  BY <1>1, ListFrame, ListStutter
<1>4. Control' /\ Request'
  BY <1>1 DEF Control, Request, SelectStrategy, Length
<1>5. Graphical' = Graphical /\ Again' = Again
      /\ GraphUsed' = GraphUsed /\ ListUsed' = ListUsed
  BY <1>1 DEF Graphical, Again, GraphUsed, ListUsed
<1>6. GraphLeg' /\ ListLeg' /\ Kept'
  BY <1>1, <1>2, <1>3, <1>5 DEF GraphLeg, ListLeg, Kept
<1>7. Reporting'
  BY <1>1, <1>2, <1>3, <1>5 DEF Reporting, RecoverableLeg, Length
<1>8. Recovering'
  BY <1>1, <1>5 DEF Recovering, Length
<1>9. Resuming'
  BY <1>1, <1>2, <1>3, <1>5 DEF Resuming, MergedOutputs
<1>10. Spent'
  BY <1>1, <1>5 DEF Spent
<1>11. ReplyTruthful'
  BY <1>1, <1>2, <1>3 DEF ReplyTruthful, Succeeding, Length
<1> QED
  BY <1>2, <1>3, <1>4, <1>6, <1>7, <1>8, <1>9, <1>10, <1>11

LEMMA EngineNextStep == EInv /\ [EngineNext]_vars => EInv'
<1> SUFFICES ASSUME EInv, [EngineNext]_vars PROVE EInv'
  OBVIOUS
<1>1. ASSUME NEW p \in Plans, NEW s \in SUBSET p.tasks, Submit(p, s)
      PROVE  EInv'
  BY <1>1, SubmitStep
<1>2. CASE EngineStep
  BY <1>2, RefuseStep, AdmitStep, GraphRunStep, ListRunStep,
     FirstReturnsStep, FirstRaisesStep, DecideStep, RecoverStep,
     TaskRecoveredStep, GraphRecoveredStep, ResumeReturnsStep DEF EngineStep
<1> QED
  BY <1>1, <1>2, EngineStutter DEF EngineNext

(***************************************************************************)
(* The runs of an execution are of the plan that was submitted: what each  *)
(* returns, what recovery repeats, what the resumed graph is given and     *)
(* what the engine answers agree (ExecutionEngine.execute_adaptive).       *)
(***************************************************************************)
THEOREM EngineInvariance == EngineSpec => []EInv
BY InitStep, EngineNextStep, PTL DEF EngineSpec


-----------------------------------------------------------------------------
\* The tasks a resumed graph is seeded with.
LEMMA ResumedSeeds ==
  ASSUME EInv, leg = "resume"
  PROVE  /\ DOMAIN seeds = DOMAIN original.outputs \cup lost
         /\ lost = original.failed
         /\ DOMAIN original.outputs \cap lost = {}
         /\ \A t \in DOMAIN original.outputs : seeds[t] = original.outputs[t]
<1>1. /\ seeds = MergedOutputs /\ lost = original.failed
      /\ DOMAIN original.outputs \cap lost = {}
  BY DEF EInv, Resuming, Recovering, Again, Kept
<1> QED
  BY <1>1 DEF MergedOutputs

\* Apart from the recovery, a task is given out once.
LEMMA Spending ==
  ASSUME EInv, NEW t \in Name
  PROVE  /\ base[t] \in Nat /\ dispatched[t] \in Nat /\ runs[t] \in Nat
         /\ ~Again \/ t \notin lost => Total(t) <= 1
         /\ base[t] + dispatched[t] <= 1
<1>1. /\ dispatched[t] \in Nat /\ dispatched[t] <= 1
      /\ t \in DOMAIN seeds => dispatched[t] = 0
      /\ stage \in {"idle", "validate"} => dispatched[t] = 0
  BY GraphSpent DEF EInv
<1>2. /\ runs[t] \in Nat
      /\ t \notin ListP!Listed \/ mode \in {"idle", "called"} => runs[t] = 0
      /\ method \notin {"retry", "fallback"} => runs[t] <= 1
  BY ListSpent DEF EInv
<1>3. /\ base[t] \in Nat
      /\ base[t] > 0 =>
           /\ base[t] = 1
           /\ \/ leg = "recovery" /\ ~Graphical /\ t \in lost
              \/ leg = "resume" /\ t \in DOMAIN original.outputs \cup lost
  BY DEF EInv, Spent
<1>4. leg \in {"none", "first", "recovery", "resume"}
  BY DEF EInv, Control
<1>5. Total(t) = base[t] + dispatched[t] + runs[t]
  BY DEF Total
<1>6. CASE leg = "none"
  <2>1. stage = "idle" /\ mode = "idle"
    BY <1>6 DEF EInv, GraphLeg, GraphUsed, ListLeg, ListUsed, Again
  <2> QED
    BY <1>1, <1>2, <1>3, <1>5, <1>6, <2>1
<1>7. CASE leg = "first"
  <2>1. Graphical => mode = "idle"
    BY <1>7 DEF EInv, ListLeg, ListUsed, Again
  <2>2. ~Graphical => stage = "idle" /\ method \notin {"retry", "fallback"}
    BY <1>7, StrategyChosen
       DEF EInv, GraphLeg, GraphUsed, ListLeg, Request, Graphical
  <2> QED
    BY <1>1, <1>2, <1>3, <1>5, <1>7, <2>1, <2>2
<1>8. CASE leg = "recovery"
  <2>1. Again /\ (t \notin lost => runs[t] = 0)
    BY <1>2, <1>8 DEF EInv, ListLeg, Again
  <2>2. ~Graphical => stage = "idle"
    BY <1>8 DEF EInv, GraphLeg, GraphUsed
  <2> QED
    BY <1>1, <1>2, <1>3, <1>5, <1>8, <2>1, <2>2
<1>9. CASE leg = "resume"
  <2>1. Again /\ (t \notin lost => runs[t] = 0)
    BY <1>2, <1>9 DEF EInv, ListLeg, Again
  <2>2. DOMAIN seeds = DOMAIN original.outputs \cup lost
    BY <1>9, ResumedSeeds
  <2> QED
    BY <1>1, <1>2, <1>3, <1>5, <1>9, <2>1, <2>2
<1> QED
  BY <1>4, <1>6, <1>7, <1>8, <1>9

LEMMA Bounded == EInv => BoundedAttempts
<1> DEFINE more == Larger(MaxRetries + 1, Cardinality(Worker))
<1> SUFFICES ASSUME EInv, NEW t \in Name
             PROVE  Total(t) <= IF t \in safe THEN 1 + more ELSE 1
  BY DEF BoundedAttempts
<1>1. /\ base[t] \in Nat /\ dispatched[t] \in Nat /\ runs[t] \in Nat
      /\ ~Again \/ t \notin lost => Total(t) <= 1
      /\ base[t] + dispatched[t] <= 1
      /\ Total(t) = base[t] + dispatched[t] + runs[t]
  BY Spending DEF Total
<1>2. Cardinality(Worker) \in Nat
      /\ Cardinality(Worker \ excluded) <= Cardinality(Worker)
      /\ Cardinality(Worker \ excluded) \in Nat
  BY WorkerAssumption, FS_Subset, FS_CardinalityType
<1>3. /\ more \in Nat /\ MaxRetries + 1 <= more
      /\ Cardinality(Worker) <= more
  BY <1>2, RetriesAssumption DEF Larger
<1> HIDE DEF more
<1>4. CASE Again /\ t \in lost
  <2>1. t \in safe /\ method \in {"retry", "fallback"}
    BY <1>4 DEF EInv, Recovering, ListLeg
  <2>2. runs[t] <= more
    <3>1. /\ method = "retry" => runs[t] <= MaxRetries + 1
          /\ method = "fallback" => runs[t] <= Cardinality(Worker \ excluded)
      BY ListSpent DEF EInv
    <3> QED
      BY <1>1, <1>2, <1>3, <2>1, <3>1, RetriesAssumption
  <2> QED
    BY <1>1, <1>3, <2>1, <2>2
<1>5. CASE ~Again \/ t \notin lost
  BY <1>1, <1>3, <1>5
<1> QED
  BY <1>4, <1>5

(***************************************************************************)
(* Recovery repeats a task only if it is declared recovery_safe, and the   *)
(* three runs of an execution give it out once, and then at most as often  *)
(* as RetryAEM or FallbackAEM may (execute_adaptive, prepare_recovery_tasks*)
(* and resume_dependency_graph).                                           *)
(***************************************************************************)
THEOREM Bounds == EngineSpec => []BoundedAttempts
BY EngineInvariance, Bounded, PTL

(***************************************************************************)
(* An ExecutionResult that reports success is that of a plan every task of *)
(* which has succeeded in one of the runs, and none counts more steps than *)
(* have succeeded (execute_adaptive's verified results).                   *)
(***************************************************************************)
THEOREM Replies == EngineSpec => []ReplyTruthful
<1>1. EInv => ReplyTruthful
  BY DEF EInv
<1> QED
  BY <1>1, EngineInvariance, PTL

LEMMA Complete == EInv => ResumeComplete
<1> SUFFICES ASSUME EInv, leg = "resume"
             PROVE  /\ DOMAIN seeds = DOMAIN original.outputs
                                        \cup original.failed
                    /\ \A t \in DOMAIN original.outputs :
                         seeds[t] = original.outputs[t]
                    /\ result.error # "resume_validation"
  BY DEF ResumeComplete
<1>1. plan = request /\ Graphical
  BY DEF EInv, Resuming, GraphLeg, GraphUsed
<1>2. SeedsAccepted
  <2>1. DOMAIN seeds = DOMAIN original.outputs \cup lost
        /\ lost = original.failed
    BY ResumedSeeds
  <2>2. /\ lost \subseteq request.tasks
        /\ DOMAIN original.outputs \subseteq request.tasks
        /\ ClosedUnder(request, DOMAIN original.outputs)
        /\ \A t \in lost : request.deps[t] \subseteq DOMAIN original.outputs
    BY <2>1 DEF EInv, Kept, Recovering, Again
  <2> QED
    BY <1>1, <2>1, <2>2 DEF SeedsAccepted, ClosedUnder
<1>3. result.error # "resume_validation"
  BY <1>2 DEF EInv, Reported, NoResult
<1> QED
  BY <1>3, ResumedSeeds

(***************************************************************************)
(* The graph is resumed from exactly the tasks that have succeeded in the  *)
(* first run or in its recovery, with their outputs, and resume() never    *)
(* refuses them (resume_dependency_graph, DependencyGraphAEM.resume).      *)
(***************************************************************************)
THEOREM Resumption == EngineSpec => []ResumeComplete
BY EngineInvariance, Complete, PTL


-----------------------------------------------------------------------------
\* What NoVainDispatch says of a step.
NoVain ==
  /\ \A t \in Achieved : Total(t)' = Total(t)
  /\ leg = "recovery" /\ method = "fallback" =>
       (candidates \ candidates') \cap original.workers = {}

\* Where the tasks that have succeeded are found.
LEMMA AchievedTasks ==
  ASSUME EInv
  PROVE  /\ leg = "none" => Achieved = {}
         /\ leg = "first" /\ phase = "run" /\ ~Graphical => Achieved = {}
         /\ stage = "wave" => Achieved = successful
         /\ leg = "recovery" =>
              \A t \in lost : t \in Achieved => t \in DOMAIN values
<1> USE DEF EInv
<1>1. Achieved = DOMAIN original.outputs
                   \cup (IF leg = "recovery" THEN DOMAIN values ELSE {})
                   \cup (IF leg = "resume" THEN lost ELSE {})
                   \cup successful
  BY DEF Achieved
<1>2. original = NoOutcome => DOMAIN original.outputs = {}
  BY NothingPartial DEF NoOutcome
<1>3. stage = "idle" => successful = {}
  BY DEF IInv, Untouched
<1>4. CASE leg = "none"
  <2>1. stage = "idle" /\ original = NoOutcome
    BY <1>4 DEF GraphLeg, GraphUsed, Reporting
  <2> QED
    BY <1>1, <1>2, <1>3, <1>4, <2>1
<1>5. CASE leg = "first"
  <2>1. phase = "run" => original = NoOutcome
    BY <1>5 DEF Reporting
  <2>2. ~Graphical => stage = "idle"
    BY <1>5 DEF GraphLeg, GraphUsed
  <2>3. stage = "wave" => phase = "run"
    BY DEF GraphLeg
  <2> QED
    BY <1>1, <1>2, <1>3, <1>5, <2>1, <2>2, <2>3
<1>6. CASE leg = "recovery"
  <2>1. stage # "wave"
    BY <1>6 DEF GraphLeg
  <2>2. lost = original.failed /\ DOMAIN original.outputs \cap lost = {}
    BY <1>6 DEF Recovering, Again, Kept
  <2>3. DOMAIN original.outputs = successful \/ successful = {}
    <3>1. CASE Graphical
      <4>1. /\ seeds = Nothing /\ stage = "returned"
            /\ original = GraphOutcome /\ plan = request
        BY <1>6, <3>1 DEF GraphLeg, GraphUsed, Reporting
      <4>2. original.outputs = result.outputs
        BY <4>1 DEF GraphOutcome
      <4>3. IInv /\ Genuine /\ Reported
        OBVIOUS
      <4> HIDE DEF EInv
      <4> QED
        BY <4>1, <4>2, <4>3, GraphFinal
    <3>2. CASE ~Graphical
      BY <1>3, <3>2 DEF GraphLeg, GraphUsed
    <3> QED
      BY <3>1, <3>2
  <2> QED
    BY <1>1, <1>6, <2>1, <2>2, <2>3
<1>7. CASE leg = "resume"
  <2>1. stage = "wave" => DOMAIN seeds \subseteq successful
    BY DEF IInv, LoopState, InLoop
  <2>2. DOMAIN seeds = DOMAIN original.outputs \cup lost
    <3> HIDE DEF EInv
    <3> QED
      BY <1>7, ResumedSeeds
  <2> QED
    BY <1>1, <1>7, <2>1, <2>2
<1> QED
  BY <1>4, <1>5, <1>6, <1>7 DEF Control

LEMMA GraphNoVain == EInv /\ GraphRun => NoVain
<1> SUFFICES ASSUME EInv, GraphRun PROVE NoVain
  OBVIOUS
<1>1. UNCHANGED <<base, runs, candidates>>
  BY DEF GraphRun, engineVars, listVars
<1>2. ASSUME NEW t \in Achieved
      PROVE  dispatched'[t] = dispatched[t]
  <2>1. CASE \E u \in Name : StartTask(u)
    <3>1. PICK u \in Name : StartTask(u)
      BY <2>1
    <3>2. stage = "wave" /\ u \in queued
          /\ dispatched' = [dispatched EXCEPT ![u] = @ + 1]
      BY <3>1 DEF StartTask
    <3>3. u \notin successful
      BY <3>2 DEF EInv, IInv, WaveState, LoopState, InLoop, Ready
    <3>4. t # u
      BY <1>2, <3>2, <3>3, AchievedTasks
    <3>5. dispatched \in [Name -> Nat]
      BY DEF EInv, IInv, TypeOK
    <3> QED
      BY <3>2, <3>4, <3>5
  <2>2. CASE ~\E u \in Name : StartTask(u)
    BY <2>2 DEF GraphRun, GraphStep, ReturnEmpty, RejectCall, Accept, Scan,
                FinishTask, CollectWave
  <2> QED
    BY <2>1, <2>2
<1> QED
  BY <1>1, <1>2 DEF NoVain, Total

LEMMA ListNoVain == EInv /\ ListRun => NoVain
<1> SUFFICES ASSUME EInv, ListRun PROVE NoVain
  OBVIOUS
<1>1. UNCHANGED <<base, dispatched>> /\ ListP!ListStep
  BY SameStep DEF ListRun, engineVars, graphVars
<1>2. ASSUME NEW t \in Achieved
      PROVE  runs'[t] = runs[t]
  <2> DEFINE Given(u) == ListP!StartListed(u)
                           \/ \E w \in Worker : ListP!TryWorker(u, w)
  <2>1. CASE \E u \in Name : Given(u)
    <3>1. PICK u \in Name : Given(u)
      BY <2>1
    <3>2. /\ mode = "running" /\ at[u] \in {"waiting", "searching"}
          /\ runs' = [runs EXCEPT ![u] = @ + 1]
      BY <3>1 DEF ListP!StartListed, ListP!MayStart, ListP!TryWorker
    <3>3. u \in ListP!Listed
      BY <3>1, <3>2
         DEF ListP!StartListed, ListP!MayStart, EInv, ListP!IInv,
             ListP!OnlyListed, ListP!TryWorker
    <3>4. u \notin DOMAIN values
      BY <3>2 DEF EInv, ListP!IInv, ListP!Collected, ListP!In
    <3>5. (leg = "first" /\ phase = "run" /\ ~Graphical)
            \/ (leg = "recovery" /\ u \in lost)
      BY <3>2, <3>3 DEF EInv, ListLeg, ListUsed, Again
    <3>6. t # u
      BY <1>2, <3>4, <3>5, AchievedTasks
    <3>7. runs \in [Name -> Nat]
      BY DEF EInv, ListP!IInv, ListP!TypeOK
    <3> QED
      BY <3>2, <3>6, <3>7
  <2>2. CASE ~\E u \in Name : Given(u)
    BY <1>1, <2>2
       DEF ListP!ListStep, ListP!EnterLoop, ListP!FindCandidates,
           ListP!FailBy, ListP!Succeed, ListP!Unserved, ListP!Raise,
           ListP!ReturnAnswer
  <2> QED
    BY <2>1, <2>2
<1>3. leg = "recovery" => candidates \cap original.workers = {}
  BY DEF EInv, ListLeg, Again, ListP!IInv
<1> QED
  BY <1>1, <1>2, <1>3 DEF NoVain, Total

LEMMA NoVainStep == EInv /\ [EngineNext]_vars => [NoVain]_vars
<1> SUFFICES ASSUME EInv, EngineNext PROVE NoVain
  OBVIOUS
<1>1. CASE UNCHANGED <<graphVars, listVars, base>>
  BY <1>1 DEF graphVars, listVars, NoVain, Total
<1>2. CASE Admit
  <2>1. leg = "none"
    BY <1>2 DEF EInv, Control, Admit
  <2> QED
    BY <2>1, AchievedTasks DEF NoVain
<1>3. CASE GraphRun
  BY <1>3, GraphNoVain
<1>4. CASE ListRun
  BY <1>4, ListNoVain
<1>5. CASE Recover
  <2>1. leg = "first" /\ UNCHANGED dispatched
    BY <1>5 DEF EInv, Control, Recover, graphVars
  <2>2. CASE UNCHANGED <<listVars, base>>
    BY <2>1, <2>2 DEF listVars, NoVain, Total
  <2>3. CASE \E d \in Decisions(original) :
               /\ StartList(d, original.failed, Rank, Exclusions)
               /\ base' = [t \in Name |-> base[t] + runs[t]]
    <3>1. ASSUME NEW t \in Name
          PROVE  Total(t)' = Total(t)
      <4>1. base'[t] = base[t] + runs[t] /\ runs'[t] = 0
        BY <2>3, ListCalled
      <4>2. base[t] \in Nat /\ dispatched[t] \in Nat /\ runs[t] \in Nat
        BY Spending
      <4> QED
        BY <2>1, <4>1, <4>2 DEF Total
    <3>2. Achieved \subseteq Name
      BY <2>1 DEF EInv, Achieved, Kept, IsPartial, IInv, TypeOK
    <3> QED
      BY <2>1, <3>1, <3>2 DEF NoVain
  <2> QED
    BY <1>5, <2>2, <2>3 DEF Recover
<1>6. CASE GraphRecovered
  <2>1. leg = "recovery" /\ UNCHANGED <<runs, candidates>>
    BY <1>6 DEF GraphRecovered, listVars
  <2>2. CASE UNCHANGED <<graphVars, base>>
    BY <2>1, <2>2 DEF graphVars, NoVain, Total
  <2>3. CASE /\ StartGraph(MergedOutputs)
             /\ base' = [t \in Name |-> base[t] + dispatched[t]]
    <3>1. ASSUME NEW t \in Name
          PROVE  Total(t)' = Total(t)
      <4>1. base'[t] = base[t] + dispatched[t] /\ dispatched'[t] = 0
        BY <2>3 DEF StartGraph
      <4>2. base[t] \in Nat /\ dispatched[t] \in Nat /\ runs[t] \in Nat
        BY Spending
      <4> QED
        BY <2>1, <4>1, <4>2 DEF Total
    <3>2. Achieved \subseteq Name
      <4>1. DOMAIN values \subseteq Name
        BY DEF EInv, ListP!IInv, ListP!TypeOK
      <4> QED
        BY <2>1, <4>1 DEF EInv, Achieved, Kept, IsPartial, IInv, TypeOK
    <3> QED
      BY <2>1, <3>1, <3>2 DEF NoVain
  <2> QED
    BY <1>6, <2>2, <2>3 DEF GraphRecovered
<1> QED
  BY <1>1, <1>2, <1>3, <1>4, <1>5, <1>6
     DEF EngineNext, EngineStep, Submit, Refuse, FirstReturns, FirstRaises,
         Decide, TaskRecovered, ResumeReturns

(***************************************************************************)
(* No run gives out a task that has succeeded in this one or an earlier    *)
(* one, and the recovery offers no task to a worker that failed in the     *)
(* first run (DependencyGraphAEM.resume, metadata                          *)
(* ["recovery_exclude_workers"]).                                          *)
(***************************************************************************)
THEOREM NothingInVain == EngineSpec => NoVainDispatch
<1>1. EngineSpec => [][NoVain]_vars
  BY EngineInvariance, NoVainStep, PTL DEF EngineSpec
<1> QED
  BY <1>1 DEF NoVain, NoVainDispatch


-----------------------------------------------------------------------------
(***************************************************************************)
(* AdaptiveExecution implements PlanExecution: each step of the engine, or *)
(* of one of its runs, is a step of the abstract specification or leaves   *)
(* its variables unchanged.                                                *)
(***************************************************************************)

LEMMA SameTaskStatus ==
  List!TaskStatus = ListP!TaskStatus /\ List!TaskStatus' = ListP!TaskStatus'
BY DEF List!TaskStatus, ListP!TaskStatus

\* In the recovery, a failed task that waits for a worker is still failed.
Repeating(s) == IF s = "waiting" THEN "failed" ELSE s

\* What EngineStatus says of one task, in each of the runs.
Seen(t) ==
  /\ leg = "none" => EngineStatus[t] = "waiting"
  /\ leg = "first" =>
       EngineStatus[t] = IF Graphical THEN TaskStatus[t]
                                      ELSE ListP!TaskStatus[t]
  /\ leg = "recovery" =>
       EngineStatus[t] = IF t \in lost THEN Repeating(ListP!TaskStatus[t])
                                       ELSE TaskStatus[t]
  /\ leg = "resume" =>
       EngineStatus[t] = IF t \in DOMAIN seeds THEN "done"
                                               ELSE TaskStatus[t]

LEMMA StatusSeen ==
  /\ \A t \in Name : Seen(t) /\ Seen(t)'
  /\ EngineStatus = [t \in Name |-> EngineStatus[t]]
  /\ EngineStatus' = [t \in Name |-> EngineStatus'[t]]
<1>1. ASSUME NEW t \in Name
      PROVE  Seen(t)
  BY SameTaskStatus DEF Seen, EngineStatus, Graphical, Repeating
<1>2. ASSUME NEW t \in Name
      PROVE  Seen(t)'
  BY SameTaskStatus DEF Seen, EngineStatus, Graphical, Repeating
<1>3. /\ EngineStatus = [t \in Name |-> EngineStatus[t]]
      /\ EngineStatus' = [t \in Name |-> EngineStatus'[t]]
  BY DEF EngineStatus
<1> QED
  BY <1>1, <1>2, <1>3

\* A step that changes nothing of what is seen of the tasks.
LEMMA SeenFrame ==
  ASSUME UNCHANGED <<leg, strategy, lost, seeds>>,
         TaskStatus' = TaskStatus, ListP!TaskStatus' = ListP!TaskStatus
  PROVE  EngineStatus' = EngineStatus
BY SameTaskStatus DEF EngineStatus

\* What is seen of the tasks does not depend on more than these.
LEMMA ListSeen ==
  ASSUME UNCHANGED listVars
  PROVE  ListP!TaskStatus' = ListP!TaskStatus
BY ListFrame DEF ListP!TaskStatus

LEMMA GraphSeen ==
  ASSUME UNCHANGED graphVars
  PROVE  TaskStatus' = TaskStatus /\ UNCHANGED seeds
BY DEF graphVars, locals, pool, TaskStatus, Succeeded, Failed

\* Before a run of the graph has accepted its plan, no task is touched.
LEMMA FreshGraph ==
  ASSUME IInv, stage \in {"idle", "validate"}, NEW t \in Name
  PROVE  TaskStatus[t] = "waiting"
BY StatusOf DEF IInv, Untouched, PoolIdle, Done, Broken

\* A run of the graph moves one task, which it was not given as done.
LEMMA GraphMoves ==
  ASSUME GraphUsed, leg \in {"first", "resume"}, NEW t \in Name, NEW s,
         leg = "resume" => t \notin DOMAIN seeds,
         UNCHANGED <<leg, strategy, lost, seeds>>,
         TaskStatus' = [TaskStatus EXCEPT ![t] = s]
  PROVE  /\ EngineStatus[t] = TaskStatus[t]
         /\ EngineStatus' = [EngineStatus EXCEPT ![t] = s]
<1>1. Graphical /\ Graphical'
  BY DEF GraphUsed, Graphical
<1>2. EngineStatus[t] = TaskStatus[t] /\ EngineStatus'[t] = s
  BY <1>1, StatusSeen, StatusFunction DEF Seen
<1>3. ASSUME NEW u \in Name \ {t}
      PROVE  EngineStatus'[u] = EngineStatus[u]
  <2>1. TaskStatus'[u] = TaskStatus[u]
    BY StatusFunction
  <2> QED
    BY <1>1, <2>1, StatusSeen DEF Seen
<1> QED
  BY <1>2, <1>3, StatusSeen

LEMMA GraphRunRefines ==
  ASSUME EInv, EInv', GraphRun
  PROVE  [EngineContract!Next]_(EngineContract!vars)
<1>1. /\ phase = "run" /\ leg \in {"first", "resume"} /\ GraphUsed
      /\ plan = request /\ Length(plan) # 0
      /\ leg = "first" => DOMAIN seeds = {} /\ Graphical
      /\ stage \in {"validate", "scan", "wave"}
  <2>1. stage \in {"validate", "scan", "wave"}
    BY DEF GraphRun, GraphStep, ReturnEmpty, RejectCall, Accept, Scan,
           StartTask, FinishTask, CollectWave
  <2> QED
    BY <2>1, NothingPartial DEF EInv, GraphLeg, GraphUsed, Request
<1>2. /\ UNCHANGED <<phase, leg, request, safe, strategy, lost, reply>>
      /\ UNCHANGED listVars
  BY DEF GraphRun, engineVars
<1>3. UNCHANGED <<plan, seeds>>
  BY DEF GraphRun, GraphStep, ReturnEmpty, RejectCall, Accept, Scan,
         StartTask, FinishTask, CollectWave, locals
<1>4. IInv /\ IInv' /\ Reported /\ Reported'
  BY DEF EInv
<1>5. Opened <=> leg = "resume" \/ stage # "validate"
  BY <1>1, <1>4 DEF Opened, Graphical, Reported, NoResult
<1>6. EngineVerdict = IF Opened THEN "open" ELSE "none"
  BY <1>1 DEF EngineVerdict
<1>7. EngineVerdict' = IF Opened' THEN "open" ELSE "none"
  BY <1>1, <1>2 DEF EngineVerdict
<1>8. Valid(plan) /\ stage' # "validate" => Opened'
  BY <1>1, <1>2, <1>3, <1>4 DEF Opened, Graphical, Reported, NoResult
<1>9. InLoop => Valid(plan)
  BY <1>4 DEF IInv, LoopState
<1>10. leg = "resume" => Opened'
  BY <1>2 DEF Opened
<1>11. TaskStatus' = TaskStatus => EngineStatus' = EngineStatus
  BY <1>2, <1>3, SeenFrame, ListSeen
<1>12. CASE ReturnEmpty \/ RejectCall
  <2>1. TaskStatus' = TaskStatus
    BY <1>4, <1>12, EarlyReturnRefines DEF Contract!Refuse
  <2>2. leg = "first" => ~Opened'
    <3> SUFFICES ASSUME leg = "first"
                 PROVE  ~Opened'
      OBVIOUS
    <3>1. RejectCall /\ SeedsAccepted
      BY <1>1, <1>12 DEF ReturnEmpty, SeedsAccepted, ClosedUnder
    <3>2. result'.error = "validation"
      BY <3>1 DEF RejectCall, Return, Verdict, Plain, NoResult
    <3> QED
      BY <1>1, <1>2, <3>2 DEF Opened, Graphical
  <2>3. stage = "validate"
    BY <1>12 DEF ReturnEmpty, RejectCall
  <2>4. EngineVerdict' = EngineVerdict
    BY <1>1, <1>5, <1>6, <1>7, <1>10, <2>2, <2>3
  <2> QED
    BY <1>2, <1>11, <2>1, <2>4 DEF EngineContract!vars
<1>13. CASE Accept
  <2>1. stage = "validate" /\ stage' = "scan" /\ Valid(plan)
    BY <1>13 DEF Accept, Verdict
  <2>2. EngineVerdict' = "open"
    BY <1>7, <1>8, <2>1
  <2>3. \A t \in Name : TaskStatus[t] = "waiting"
    BY <1>4, <2>1, FreshGraph
  <2>4. \A t \in Name :
          TaskStatus'[t] = IF t \in DOMAIN seeds THEN "done" ELSE "waiting"
    BY <1>4, <1>13, AcceptStatus
  <2>5. CASE leg = "first"
    <3>1. EngineStatus' =
            [t \in Name |-> IF t \in {} THEN "done" ELSE "waiting"]
      <4>1. \A t \in Name : EngineStatus'[t] = "waiting"
        BY <1>1, <1>2, <2>4, <2>5, StatusSeen DEF Seen, Graphical
      <4> QED
        BY <4>1, StatusSeen
    <3>2. EngineVerdict = "none"
      BY <1>5, <1>6, <2>1, <2>5
    <3>3. EngineContract!Valid(request) /\ EngineContract!ClosedUnder(request, {})
      BY <1>1, <2>1
         DEF EngineContract!Valid, EngineContract!WellNamed,
             EngineContract!References, EngineContract!Acyclic,
             EngineContract!ClosedUnder,
             Valid, WellNamed, References, Acyclic
    <3>4. EngineContract!Open({})
      BY <1>2, <2>2, <3>1, <3>2, <3>3 DEF EngineContract!Open
    <3>5. {} \in SUBSET request.tasks
      OBVIOUS
    <3> QED
      BY <3>4, <3>5 DEF EngineContract!Next
  <2>6. CASE leg = "resume"
    <3>1. \A t \in Name : EngineStatus'[t] = EngineStatus[t]
      BY <1>2, <1>3, <2>3, <2>4, <2>6, StatusSeen DEF Seen
    <3>2. EngineStatus' = EngineStatus
      BY <3>1, StatusSeen
    <3>3. EngineVerdict = "open"
      BY <1>5, <1>6, <2>6
    <3> QED
      BY <1>2, <2>2, <3>2, <3>3 DEF EngineContract!vars
  <2> QED
    BY <1>1, <2>5, <2>6
<1>14. ASSUME stage \in {"scan", "wave"}, stage' # "validate"
       PROVE  EngineVerdict = "open" /\ EngineVerdict' = "open"
  BY <1>1, <1>5, <1>6, <1>7, <1>8, <1>9, <1>14 DEF InLoop
<1>15. CASE Scan
  <2>1. TaskStatus' = TaskStatus
    BY <1>4, <1>15, ScanRefines DEF Contract!Close
  <2>2. stage = "scan" /\ stage' # "validate"
    BY <1>15 DEF Scan, Return
  <2> QED
    BY <1>2, <1>11, <1>14, <2>1, <2>2 DEF EngineContract!vars
<1>16. CASE CollectWave
  <2>1. TaskStatus' = TaskStatus
    BY <1>4, <1>16, CollectRefines DEF Contract!Close
  <2>2. stage = "wave" /\ stage' # "validate"
    BY <1>16 DEF CollectWave, Return
  <2> QED
    BY <1>2, <1>11, <1>14, <2>1, <2>2 DEF EngineContract!vars
<1>17. ASSUME NEW t \in Name, StartTask(t) \/ FinishTask(t)
       PROVE  leg = "resume" => t \notin DOMAIN seeds
  <2>1. stage = "wave" /\ t \in Ready
    BY <1>17 DEF StartTask, FinishTask, Ready
  <2> QED
    BY <1>4, <2>1 DEF IInv, WaveState, LoopState, InLoop
<1>18. ASSUME NEW t \in Name, StartTask(t)
       PROVE  EngineContract!Start(t)
  <2>1. /\ TaskStatus[t] = "waiting"
        /\ \A u \in plan.deps[t] : TaskStatus[u] = "done"
        /\ TaskStatus' = [TaskStatus EXCEPT ![t] = "active"]
    BY <1>4, <1>18, StartRefines DEF Contract!Start
  <2>2. /\ EngineStatus[t] = TaskStatus[t]
        /\ EngineStatus' = [EngineStatus EXCEPT ![t] = "active"]
    BY <1>1, <1>2, <1>3, <1>17, <1>18, <2>1, GraphMoves
  <2>3. \A u \in request.deps[t] : EngineStatus[u] = "done"
    <3>1. request.deps[t] \subseteq Name
      BY DEF EInv, Request, Plan
    <3> QED
      BY <1>1, <2>1, <3>1, StatusSeen DEF Seen
  <2>4. stage = "wave" /\ stage' = "wave"
    BY <1>18 DEF StartTask
  <2> QED
    BY <1>2, <1>14, <2>1, <2>2, <2>3, <2>4 DEF EngineContract!Start
<1>19. ASSUME NEW t \in Name, FinishTask(t)
       PROVE  EngineContract!Finish(t)
  <2>1. /\ TaskStatus[t] = "active"
        /\ \E s \in {"done", "failed"} :
             TaskStatus' = [TaskStatus EXCEPT ![t] = s]
    BY <1>4, <1>19, FinishRefines DEF Contract!Finish
  <2>2. PICK s \in {"done", "failed"} :
          TaskStatus' = [TaskStatus EXCEPT ![t] = s]
    BY <2>1
  <2>3. /\ EngineStatus[t] = TaskStatus[t]
        /\ EngineStatus' = [EngineStatus EXCEPT ![t] = s]
    BY <1>1, <1>2, <1>3, <1>17, <1>19, <2>2, GraphMoves
  <2>4. stage = "wave" /\ stage' = "wave"
    BY <1>19 DEF FinishTask
  <2> QED
    BY <1>2, <1>14, <2>1, <2>3, <2>4 DEF EngineContract!Finish
<1> QED
  BY <1>12, <1>13, <1>15, <1>16, <1>18, <1>19
     DEF GraphRun, GraphStep, EngineContract!Next


\* A list method moves one task.
ListView(s) == IF leg = "recovery" THEN Repeating(s) ELSE s

LEMMA ListMoves ==
  ASSUME NEW t \in Name, NEW s,
         (leg = "first" /\ ~Graphical) \/ (leg = "recovery" /\ t \in lost),
         UNCHANGED <<leg, strategy, lost>>, UNCHANGED graphVars,
         ListP!TaskStatus' = [ListP!TaskStatus EXCEPT ![t] = s]
  PROVE  /\ EngineStatus[t] = ListView(ListP!TaskStatus[t])
         /\ EngineStatus' = [EngineStatus EXCEPT ![t] = ListView(s)]
<1>1. Graphical' = Graphical /\ TaskStatus' = TaskStatus
  BY GraphSeen DEF Graphical
<1>2. ListP!TaskStatus = [u \in Name |-> ListP!TaskStatus[u]]
  BY DEF ListP!TaskStatus
<1>3. EngineStatus[t] = ListView(ListP!TaskStatus[t])
  BY StatusSeen DEF Seen, ListView
<1>4. EngineStatus'[t] = ListView(s)
  <2>1. ListP!TaskStatus'[t] = s
    BY <1>2
  <2> QED
    BY <1>1, <2>1, StatusSeen DEF Seen, ListView
<1>5. ASSUME NEW u \in Name \ {t}
      PROVE  EngineStatus'[u] = EngineStatus[u]
  <2>1. ListP!TaskStatus'[u] = ListP!TaskStatus[u]
    BY <1>2
  <2> QED
    BY <1>1, <2>1, StatusSeen DEF Seen
<1> QED
  BY <1>3, <1>4, <1>5, StatusSeen

\* What is seen of the tasks of a graph that is to be recovered.
LEMMA SavedStatus ==
  ASSUME EInv, leg = "recovery" \/ phase = "recover", original.failed # {},
         NEW t \in Name
  PROVE  TaskStatus[t] = IF t \in DOMAIN original.outputs THEN "done"
                         ELSE IF Graphical /\ t \in original.failed
                         THEN "failed" ELSE "waiting"
<1>1. leg = "recovery" \/ (leg = "first" /\ phase # "run")
  BY DEF EInv, Control
<1>2. CASE Graphical
  <2>1. /\ stage = "returned" /\ original = GraphOutcome /\ seeds = Nothing
        /\ IInv /\ Genuine /\ Reported
    BY <1>1, <1>2 DEF EInv, Reporting, GraphLeg, GraphUsed
  <2>2. original.outputs = result.outputs /\ original.failed = result.failed
    BY <2>1 DEF GraphOutcome
  <2>3. /\ DOMAIN original.outputs = successful
        /\ original.failed = Failed(completed)
        /\ successful = Succeeded(completed)
    BY <2>1, <2>2, GraphFinal
  <2>4. running = {} /\ DOMAIN settled = {}
    BY <2>1 DEF IInv, PoolIdle
  <2>5. t \in original.failed <=> t \in DOMAIN completed /\ ~completed[t].success
    BY <2>3 DEF Failed, Succeeded
  <2> QED
    BY <1>2, <2>3, <2>4, <2>5, StatusOf DEF Done, Broken
<1>3. CASE ~Graphical
  <2>1. stage = "idle" /\ DOMAIN original.outputs = {} /\ IInv
    BY <1>3 DEF EInv, GraphLeg, GraphUsed, Kept
  <2> QED
    BY <1>3, <2>1, FreshGraph
<1> QED
  BY <1>2, <1>3

LEMMA ListRunRefines ==
  ASSUME EInv, EInv', ListRun
  PROVE  [EngineContract!Next]_(EngineContract!vars)
<1>1. ListP!ListStep /\ UNCHANGED graphVars
      /\ UNCHANGED <<phase, leg, request, safe, strategy, original, lost,
                     reply>>
  BY SameStep DEF ListRun, engineVars
<1>2. /\ mode \in {"called", "running"} /\ mode' # "called"
      /\ UNCHANGED <<method, place>>
  BY <1>1 DEF ListP!ListStep, ListP!EnterLoop, ListP!StartListed,
              ListP!MayStart, ListP!FindCandidates, ListP!TryWorker,
              ListP!FailBy, ListP!Succeed, ListP!Unserved, ListP!Raise,
              ListP!ReturnAnswer, ListP!arguments
<1>3. /\ phase = "run"
      /\ (leg = "first" /\ ~Graphical) \/ leg = "recovery"
      /\ ListP!IInv /\ ListP!IInv'
  BY <1>2 DEF EInv, ListLeg, ListUsed, Again
<1>4. /\ EngineVerdict = IF leg = "first" /\ mode = "called"
                         THEN "none" ELSE "open"
      /\ EngineVerdict' = "open"
  BY <1>1, <1>2, <1>3 DEF EngineVerdict, Opened, Graphical
<1>5. ListP!TaskStatus' = ListP!TaskStatus => EngineStatus' = EngineStatus
  BY <1>1, SeenFrame, GraphSeen
<1>6. /\ leg = "recovery" => ListP!Listed = lost
      /\ leg = "first" => ListP!Listed = request.tasks
                            /\ method \notin {"retry", "fallback"}
  BY <1>3, StrategyChosen
     DEF EInv, ListLeg, Again, Request, Graphical
<1>7. leg = "first" => \A t \in request.tasks : request.deps[t] = {}
  BY <1>3, FirstList
<1>8. ASSUME NEW t \in Name, at[t] # "waiting"
      PROVE  t \in ListP!Listed
  BY <1>3, <1>8 DEF ListP!IInv, ListP!OnlyListed
<1>9. CASE ListP!EnterLoop
  <2>1. mode = "called" /\ UNCHANGED <<at, runs>>
    BY <1>9 DEF ListP!EnterLoop
  <2>2. ListP!TaskStatus' = ListP!TaskStatus
    BY <2>1 DEF ListP!TaskStatus
  <2>3. CASE leg = "first"
    <3>1. EngineStatus' =
            [t \in Name |-> IF t \in {} THEN "done" ELSE "waiting"]
      <4>1. ASSUME NEW t \in Name
            PROVE  EngineStatus'[t] = "waiting"
        <5>1. ListP!TaskStatus[t] = "waiting"
          BY <1>3, <2>1 DEF ListP!IInv, ListP!Fresh, ListP!TaskStatus
        <5> QED
          BY <1>3, <1>5, <2>2, <2>3, <5>1, StatusSeen DEF Seen
      <4> QED
        BY <4>1, StatusSeen
    <3>2. EngineContract!Valid(request) /\ EngineContract!ClosedUnder(request, {})
      <4>1. request \in Plans /\ request.extra \in Nat
        BY <1>3 DEF EInv, Request, Plan
      <4>2. request.extra = 0
        BY <1>7, <2>3, <4>1, ListedOnceAssumption
      <4> QED
        BY <1>7, <2>3, <4>2
           DEF EngineContract!Valid, EngineContract!WellNamed,
               EngineContract!References, EngineContract!Acyclic,
               EngineContract!ClosedUnder
    <3>3. EngineContract!Open({})
      BY <1>1, <1>4, <2>1, <2>3, <3>1, <3>2 DEF EngineContract!Open
    <3>4. {} \in SUBSET request.tasks
      OBVIOUS
    <3> QED
      BY <3>3, <3>4 DEF EngineContract!Next
  <2>4. CASE leg = "recovery"
    BY <1>1, <1>4, <1>5, <2>2, <2>4 DEF EngineContract!vars
  <2> QED
    BY <1>3, <2>3, <2>4
<1>10. CASE ListP!ReturnAnswer
  <2>1. mode = "running" /\ UNCHANGED <<at, runs>>
    BY <1>10 DEF ListP!ReturnAnswer
  <2>2. ListP!TaskStatus' = ListP!TaskStatus
    BY <2>1 DEF ListP!TaskStatus
  <2> QED
    BY <1>1, <1>4, <1>5, <2>1, <2>2 DEF EngineContract!vars
<1>11. ASSUME NEW t \in Name,
              ListP!StartListed(t) \/ \E w \in Worker : ListP!TryWorker(t, w)
       PROVE  EngineContract!Start(t)
  <2>1. /\ mode = "running" /\ t \in ListP!Listed
    BY <1>8, <1>11 DEF ListP!StartListed, ListP!MayStart, ListP!TryWorker
  <2>2. ListP!Contract!Start(t)
    BY <1>3, <1>11, ListP!StartRefines, ListAssumptions
  <2>3. /\ ListP!TaskStatus[t] = "waiting"
             \/ (ListP!TaskStatus[t] = "failed"
                   /\ method \in {"retry", "fallback"})
        /\ ListP!TaskStatus' = [ListP!TaskStatus EXCEPT ![t] = "active"]
    BY <2>2 DEF ListP!Contract!Start
  <2>4. /\ EngineStatus[t] = ListView(ListP!TaskStatus[t])
        /\ EngineStatus' = [EngineStatus EXCEPT ![t] = "active"]
    BY <1>1, <1>3, <1>6, <2>1, <2>3, ListMoves DEF ListView, Repeating
  <2>5. CASE leg = "first"
    BY <1>1, <1>4, <1>6, <1>7, <2>1, <2>3, <2>4, <2>5
       DEF EngineContract!Start, ListView
  <2>6. CASE leg = "recovery"
    <3>1. EngineStatus[t] = "failed"
      BY <2>3, <2>4, <2>6 DEF ListView, Repeating
    <3>2. /\ t \in safe /\ t \in lost /\ lost = original.failed
          /\ request.deps[t] \subseteq DOMAIN original.outputs
          /\ DOMAIN original.outputs \cap lost = {}
          /\ DOMAIN original.outputs \subseteq Name
      BY <1>6, <2>1, <2>6
         DEF EInv, Recovering, Again, Kept, Request, Plan, IsPartial
    <3>3. ASSUME NEW u \in request.deps[t]
          PROVE  EngineStatus[u] = "done"
      <4>1. u \in DOMAIN original.outputs /\ u \in Name /\ u \notin lost
        BY <3>2
      <4>2. TaskStatus[u] = "done"
        BY <2>6, <3>2, <4>1, SavedStatus
      <4> QED
        BY <2>6, <4>1, <4>2, StatusSeen DEF Seen
    <3> QED
      BY <1>1, <1>4, <2>4, <2>6, <3>1, <3>2, <3>3 DEF EngineContract!Start
  <2> QED
    BY <1>3, <2>5, <2>6
<1>12. ASSUME NEW t \in Name, ListP!FindCandidates(t)
       PROVE  [EngineContract!Next]_(EngineContract!vars)
  <2>1. /\ mode = "running" /\ t \in ListP!Listed
    BY <1>12 DEF ListP!FindCandidates, ListP!MayStart
  <2>2. ListP!Contract!Abandon(t) \/ ListP!TaskStatus' = ListP!TaskStatus
    BY <1>3, <1>12, ListP!FindRefines, ListAssumptions
  <2>3. CASE ListP!TaskStatus' = ListP!TaskStatus
    BY <1>1, <1>4, <1>5, <2>1, <2>3 DEF EngineContract!vars
  <2>4. CASE ListP!Contract!Abandon(t)
    <3>1. /\ ListP!TaskStatus[t] = "waiting"
          /\ ListP!TaskStatus' = [ListP!TaskStatus EXCEPT ![t] = "failed"]
      BY <2>4 DEF ListP!Contract!Abandon
    <3>2. /\ EngineStatus[t] = ListView("waiting")
          /\ EngineStatus' = [EngineStatus EXCEPT ![t] = "failed"]
      BY <1>1, <1>3, <1>6, <2>1, <3>1, ListMoves DEF ListView, Repeating
    <3>3. CASE leg = "first"
      BY <1>1, <1>4, <2>1, <3>2, <3>3
         DEF EngineContract!Abandon, EngineContract!Next, ListView
    <3>4. CASE leg = "recovery"
      <4>1. EngineStatus[t] = "failed"
        BY <3>2, <3>4 DEF ListView, Repeating
      <4>2. EngineStatus' = EngineStatus
        BY <3>2, <4>1, StatusSeen
      <4> QED
        BY <1>1, <1>4, <2>1, <4>2 DEF EngineContract!vars
    <3> QED
      BY <1>3, <3>3, <3>4
  <2> QED
    BY <2>2, <2>3, <2>4
<1>13. ASSUME NEW t \in Name,
              \/ ListP!Succeed(t) \/ ListP!Unserved(t) \/ ListP!Raise(t)
              \/ \E w \in Worker : ListP!FailBy(t, w)
       PROVE  EngineContract!Finish(t)
  <2>1. mode = "running" /\ at[t] = "running"
    BY <1>13 DEF ListP!Succeed, ListP!Unserved, ListP!Raise, ListP!FailBy
  <2>2. t \in ListP!Listed
    BY <1>8, <2>1
  <2>3. ListP!Contract!Finish(t)
    BY <1>3, <1>13, ListP!FinishRefines, ListAssumptions
  <2>4. /\ ListP!TaskStatus[t] = "active"
        /\ \E s \in {"done", "failed"} :
             ListP!TaskStatus' = [ListP!TaskStatus EXCEPT ![t] = s]
    BY <2>3 DEF ListP!Contract!Finish
  <2>5. PICK s \in {"done", "failed"} :
          ListP!TaskStatus' = [ListP!TaskStatus EXCEPT ![t] = s]
    BY <2>4
  <2>6. /\ EngineStatus[t] = ListView("active")
        /\ EngineStatus' = [EngineStatus EXCEPT ![t] = ListView(s)]
    BY <1>1, <1>3, <1>6, <2>2, <2>4, <2>5, ListMoves
  <2>7. ListView("active") = "active" /\ ListView(s) = s
    BY DEF ListView, Repeating
  <2> QED
    BY <1>1, <1>4, <2>1, <2>6, <2>7 DEF EngineContract!Finish
<1> QED
  BY <1>1, <1>9, <1>10, <1>11, <1>12, <1>13
     DEF ListP!ListStep, EngineContract!Next


\* Between the runs, no task is in work.
LEMMA NoneActive ==
  ASSUME EInv, stage # "wave", mode # "running", NEW t \in Name
  PROVE  EngineStatus[t] # "active"
<1>1. TaskStatus[t] # "active"
  <2>1. running = {}
    BY DEF EInv, IInv, PoolIdle
  <2> QED
    BY <2>1, StatusOf
<1>2. ListP!TaskStatus[t] # "active"
  <2>1. at[t] # "running"
    BY ListP!Quiet, ListAssumptions DEF EInv
  <2> QED
    BY <2>1 DEF ListP!TaskStatus
<1>3. leg \in {"none", "first", "recovery", "resume"}
  BY DEF EInv, Control
<1> QED
  BY <1>1, <1>2, <1>3, StatusSeen DEF Seen, Repeating

\* What the list has collected is done.
LEMMA CollectedDone ==
  ASSUME EInv, NEW t \in DOMAIN values
  PROVE  t \in Name /\ ListP!TaskStatus[t] = "done"
<1>1. at[t] = "done" /\ t \in Name
  BY DEF EInv, ListP!IInv, ListP!Collected, ListP!In, ListP!TypeOK
<1> QED
  BY <1>1 DEF ListP!TaskStatus

\* An execution is answered: the plan is closed, or never was opened.
LEMMA AnsweredRefines ==
  ASSUME EInv, phase \notin {"idle", "replied"}, phase' = "replied",
         stage # "wave", mode # "running",
         UNCHANGED <<graphVars, listVars, leg, request, safe, strategy, lost>>,
         reply'.success =>
           Opened /\ \A t \in request.tasks : EngineStatus[t] = "done"
  PROVE  [EngineContract!Next]_(EngineContract!vars)
<1>1. EngineStatus' = EngineStatus
  BY SeenFrame, GraphSeen, ListSeen
<1>2. EngineVerdict = IF Opened THEN "open" ELSE "none"
  BY DEF EngineVerdict
<1>3. EngineVerdict' = IF reply'.success THEN "success" ELSE "failure"
  BY DEF EngineVerdict
<1>4. \A t \in Name : EngineStatus[t] # "active"
  BY NoneActive
<1>5. CASE Opened /\ reply'.success
  <2>1. EngineContract!Close("success")
    BY <1>1, <1>2, <1>3, <1>4, <1>5 DEF EngineContract!Close
  <2> QED
    BY <2>1 DEF EngineContract!Next
<1>6. CASE Opened /\ ~reply'.success
  <2>1. EngineContract!Close("failure")
    BY <1>1, <1>2, <1>3, <1>4, <1>6 DEF EngineContract!Close
  <2> QED
    BY <2>1 DEF EngineContract!Next
<1>7. CASE ~Opened
  <2>1. EngineContract!Refuse
    BY <1>1, <1>2, <1>3, <1>7 DEF EngineContract!Refuse
  <2> QED
    BY <2>1 DEF EngineContract!Next
<1> QED
  BY <1>5, <1>6, <1>7

LEMMA GiveUpFails == GiveUp => phase' = "replied" /\ ~reply'.success
BY DEF GiveUp, Answer

LEMMA SubmitRefines ==
  ASSUME EInv, EInv', NEW p \in Plans, NEW s \in SUBSET p.tasks, Submit(p, s)
  PROVE  EngineContract!Submit
<1>1. /\ leg = "none" /\ phase # "replied" /\ phase' # "replied"
      /\ UNCHANGED <<leg, strategy, lost>>
      /\ UNCHANGED graphVars /\ UNCHANGED listVars
  BY DEF EInv, Control, Submit
<1>2. EngineStatus' = EngineStatus
  BY <1>1, SeenFrame, GraphSeen, ListSeen
<1>3. EngineVerdict = "none" /\ EngineVerdict' = "none"
  BY <1>1 DEF EngineVerdict, Opened
<1>4. request' \in EngineContract!Plan /\ safe' \in SUBSET Name
  BY DEF EInv, Request, Plan, EngineContract!Plan
<1> QED
  BY <1>2, <1>3, <1>4 DEF EngineContract!Submit

LEMMA AdmitRefines ==
  ASSUME EInv, EInv', Admit
  PROVE  UNCHANGED EngineContract!vars
<1>1. /\ leg = "none" /\ leg' = "first" /\ phase = "admit" /\ phase' = "run"
      /\ UNCHANGED <<request, safe>>
  BY DEF EInv, Control, Admit
<1>2. EngineVerdict = "none"
  BY <1>1 DEF EngineVerdict, Opened
<1>3. CASE Graphical'
  <2>1. StartGraph(Nothing)
    BY <1>3 DEF Admit, Graphical
  <2>2. stage' = "validate" /\ IInv'
    BY <2>1 DEF EInv, StartGraph
  <2>3. ASSUME NEW t \in Name
        PROVE  EngineStatus'[t] = EngineStatus[t]
    <3>1. running' = {} /\ DOMAIN settled' = {} /\ successful' = {}
          /\ DOMAIN completed' = {}
      BY <2>2 DEF IInv, PoolIdle, Untouched
    <3>2. TaskStatus'[t] = "waiting"
      BY <3>1 DEF TaskStatus, Succeeded, Failed
    <3> QED
      BY <1>1, <1>3, <3>2, StatusSeen DEF Seen
  <2>4. ~Opened'
    BY <1>1, <1>3, <2>2 DEF Opened, Graphical
  <2>5. EngineVerdict' = "none"
    BY <1>1, <2>4 DEF EngineVerdict
  <2> QED
    BY <1>1, <1>2, <2>3, <2>5, StatusSeen DEF EngineContract!vars
<1>4. CASE ~Graphical'
  <2>1. StartList(strategy', request.tasks, Place, {})
    BY <1>4 DEF Admit, Graphical
  <2>2. mode' = "called" /\ \A t \in Name : runs'[t] = 0 /\ at'[t] = "waiting"
    BY <2>1, ListCalled
  <2>3. ASSUME NEW t \in Name
        PROVE  EngineStatus'[t] = EngineStatus[t]
    <3>1. ListP!TaskStatus'[t] = "waiting"
      BY <2>2 DEF ListP!TaskStatus
    <3> QED
      BY <1>1, <1>4, <3>1, StatusSeen DEF Seen
  <2>4. ~Opened'
    BY <1>1, <1>4, <2>2 DEF Opened, Graphical
  <2>5. EngineVerdict' = "none"
    BY <1>1, <2>4 DEF EngineVerdict
  <2> QED
    BY <1>1, <1>2, <2>3, <2>5, StatusSeen DEF EngineContract!vars
<1> QED
  BY <1>3, <1>4

LEMMA FirstReturnsRefines ==
  ASSUME EInv, FirstReturns
  PROVE  [EngineContract!Next]_(EngineContract!vars)
<1>1. /\ phase = "run" /\ leg = "first"
      /\ UNCHANGED <<leg, request, safe, strategy, lost>>
      /\ UNCHANGED graphVars /\ UNCHANGED listVars
      /\ IF original'.success
         THEN Answer(Verified(original'), original'.completed, Length(request))
         ELSE phase' = "decide" /\ UNCHANGED reply
  BY DEF FirstReturns
<1>2. stage # "wave" /\ mode # "running"
  <2>1. CASE Graphical
    BY <1>1, <2>1, FirstGraph DEF FirstReturns, Graphical
  <2>2. CASE ~Graphical
    BY <1>1, <2>2, FirstList DEF FirstReturns, Graphical
  <2> QED
    BY <2>1, <2>2
<1>3. CASE original'.success
  <2>1. Opened /\ \A t \in request.tasks : EngineStatus[t] = "done"
    <3>1. request.tasks \subseteq Name
      BY DEF EInv, Request, Plan
    <3>2. CASE Graphical
      <4>1. stage = "returned" /\ original' = GraphOutcome
        BY <3>2 DEF FirstReturns, Graphical
      <4>2. result.success /\ successful = request.tasks
        BY <1>1, <1>3, <3>2, <4>1, FirstGraph DEF GraphOutcome
      <4>3. result.error # "validation"
        BY <4>1, <4>2 DEF EInv, Reported, EndedEarly, EndedWell, EndedByFailure
      <4>4. \A t \in request.tasks : TaskStatus[t] = "done"
        BY <3>1, <4>2, StatusOf DEF Done
      <4> QED
        BY <1>1, <3>1, <3>2, <4>1, <4>3, <4>4, StatusSeen
           DEF Seen, Opened, Graphical
    <3>3. CASE ~Graphical
      <4>1. mode = "returned" /\ original' = ListOutcome
        BY <3>3 DEF FirstReturns, Graphical
      <4>2. DOMAIN values = request.tasks
        BY <1>1, <1>3, <3>3, <4>1, FirstList
      <4> QED
        BY <1>1, <3>1, <3>3, <4>1, <4>2, CollectedDone, StatusSeen
           DEF Seen, Opened, Graphical
    <3> QED
      BY <3>2, <3>3
  <2>2. phase' = "replied"
    BY <1>1, <1>3 DEF Answer
  <2> QED
    BY <1>1, <1>2, <2>1, <2>2, AnsweredRefines
<1>4. CASE ~original'.success
  <2>1. EngineStatus' = EngineStatus
    BY <1>1, SeenFrame, GraphSeen, ListSeen
  <2>2. Opened' <=> Opened
    BY <1>1, GraphFrame, ListFrame DEF Opened
  <2>3. EngineVerdict' = EngineVerdict
    BY <1>1, <1>4, <2>2 DEF EngineVerdict
  <2> QED
    BY <1>1, <2>1, <2>3 DEF EngineContract!vars
<1> QED
  BY <1>3, <1>4

LEMMA DecideRefines ==
  ASSUME EInv, Decide
  PROVE  [EngineContract!Next]_(EngineContract!vars)
<1>1. /\ phase = "decide" /\ leg = "first"
      /\ UNCHANGED <<leg, request, safe, strategy, lost>>
      /\ UNCHANGED graphVars /\ UNCHANGED listVars
      /\ (phase' = "recover" /\ UNCHANGED reply) \/ GiveUp
      /\ stage # "wave" /\ mode # "running"
  BY DEF EInv, Control, GraphLeg, ListLeg, Decide
<1>2. CASE GiveUp
  BY <1>1, <1>2, GiveUpFails, AnsweredRefines
<1>3. CASE phase' = "recover"
  <2>1. EngineStatus' = EngineStatus
    BY <1>1, SeenFrame, GraphSeen, ListSeen
  <2>2. Opened' <=> Opened
    BY <1>1, GraphFrame, ListFrame DEF Opened
  <2>3. EngineVerdict' = EngineVerdict
    BY <1>1, <1>3, <2>2 DEF EngineVerdict
  <2> QED
    BY <1>1, <2>1, <2>3 DEF EngineContract!vars
<1> QED
  BY <1>1, <1>2, <1>3

LEMMA RecoverRefines ==
  ASSUME EInv, EInv', Recover
  PROVE  [EngineContract!Next]_(EngineContract!vars)
<1>1. /\ phase = "recover" /\ leg = "first"
      /\ UNCHANGED <<request, safe, strategy, original>>
      /\ UNCHANGED graphVars
      /\ stage # "wave" /\ mode # "running"
  BY DEF EInv, Control, GraphLeg, ListLeg, Recover
<1>2. CASE GiveUp /\ UNCHANGED <<listVars, leg, lost>>
  BY <1>1, <1>2, GiveUpFails, AnsweredRefines
<1>3. CASE /\ phase' = "run" /\ leg' = "recovery" /\ lost' = original.failed
           /\ Prepared
           /\ \E d \in Decisions(original) :
                StartList(d, original.failed, Rank, Exclusions)
  <2>1. \A t \in Name : runs'[t] = 0 /\ at'[t] = "waiting"
    BY <1>3, ListCalled
  <2>2. original.failed # {}
    BY <1>3 DEF Prepared
  <2>3. Graphical' = Graphical /\ TaskStatus' = TaskStatus
    BY <1>1, GraphSeen DEF Graphical
  <2>4. Opened
    <3>1. CASE Graphical
      <4>1. stage = "returned" /\ original = GraphOutcome
        BY <1>1, <3>1 DEF EInv, Reporting
      <4>2. result.failed # {}
        BY <2>2, <4>1 DEF GraphOutcome
      <4>3. result.error # "validation"
        BY <4>1, <4>2 DEF EInv, Reported, EndedEarly, EndedWell, EndedByFailure
      <4> QED
        BY <1>1, <3>1, <4>1, <4>3 DEF Opened, Graphical
    <3>2. CASE ~Graphical
      <4>1. mode = "returned"
        BY <1>1, <3>2 DEF EInv, Reporting
      <4> QED
        BY <1>1, <3>2, <4>1 DEF Opened, Graphical
    <3> QED
      BY <3>1, <3>2
  <2>5. EngineVerdict = "open" /\ EngineVerdict' = "open"
    BY <1>1, <1>3, <2>4 DEF EngineVerdict, Opened
  <2>6. ASSUME NEW t \in Name
        PROVE  EngineStatus'[t] = EngineStatus[t]
    <3>1. TaskStatus[t] = IF t \in DOMAIN original.outputs THEN "done"
                          ELSE IF Graphical /\ t \in original.failed
                          THEN "failed" ELSE "waiting"
      BY <1>1, <2>2, SavedStatus
    <3>2. ListP!TaskStatus'[t] = "waiting"
      BY <2>1 DEF ListP!TaskStatus
    <3>3. t \in original.failed => t \notin DOMAIN original.outputs
      BY DEF EInv, Kept
    <3>4. EngineStatus'[t] = IF t \in original.failed THEN "failed"
                                                      ELSE TaskStatus[t]
      BY <1>3, <2>3, <3>2, StatusSeen DEF Seen, Repeating
    <3>5. CASE Graphical
      BY <1>1, <3>1, <3>3, <3>4, <3>5, StatusSeen DEF Seen
    <3>6. CASE ~Graphical
      <4>1. mode = "returned" /\ original = ListOutcome
            /\ DOMAIN original.outputs = {}
        BY <1>1, <3>6 DEF EInv, Reporting, Kept
      <4>2. original.failed = request.tasks
        BY <1>1, <1>3, <2>2, <3>6, SingleTask
           DEF EInv, Reporting, RecoverableLeg, Graphical, Kept, Request
      <4>3. original.failed = answer.failed /\ ListP!Listed = request.tasks
        BY <1>1, <3>6, <4>1 DEF ListOutcome, EInv, ListLeg
      <4>4. t \in original.failed => ListP!TaskStatus[t] = "failed"
        BY <4>1, <4>3
           DEF EInv, ListP!IInv, ListP!AnswerTruthful, ListP!In,
               ListP!TaskStatus
      <4>5. t \notin original.failed => ListP!TaskStatus[t] = "waiting"
        <5>1. t \notin original.failed => at[t] = "waiting" /\ runs[t] = 0
          BY <4>2, <4>3 DEF EInv, ListP!IInv, ListP!OnlyListed
        <5> QED
          BY <5>1 DEF ListP!TaskStatus
      <4> QED
        BY <1>1, <3>1, <3>4, <3>6, <4>1, <4>4, <4>5, StatusSeen DEF Seen
    <3> QED
      BY <3>5, <3>6
  <2> QED
    BY <1>1, <2>5, <2>6, StatusSeen DEF EngineContract!vars
<1> QED
  BY <1>2, <1>3 DEF Recover

LEMMA TaskRecoveredRefines ==
  ASSUME EInv, TaskRecovered
  PROVE  [EngineContract!Next]_(EngineContract!vars)
<1>1. /\ phase = "run" /\ leg = "recovery" /\ RecoveryEnded
      /\ Length(request) = 1
      /\ IF Recovered THEN Answer(TRUE, 1, 1) ELSE GiveUp
      /\ UNCHANGED <<leg, request, safe, strategy, lost>>
      /\ UNCHANGED graphVars /\ UNCHANGED listVars
  BY DEF TaskRecovered
<1>2. phase' = "replied" /\ stage # "wave" /\ mode # "running" /\ Opened
  BY <1>1, RecoveryLeg DEF GiveUp, Answer, Opened
<1>3. CASE Recovered
  <2>1. request.tasks = DOMAIN values /\ lost = DOMAIN values
    BY <1>1, <1>3, RecoveryLeg, SingleTask
  <2>2. ASSUME NEW t \in request.tasks
        PROVE  EngineStatus[t] = "done"
    BY <1>1, <2>1, CollectedDone, StatusSeen DEF Seen, Repeating
  <2> QED
    BY <1>1, <1>2, <2>2, AnsweredRefines
<1>4. CASE ~Recovered
  BY <1>1, <1>2, <1>4, GiveUpFails, AnsweredRefines
<1> QED
  BY <1>3, <1>4

LEMMA GraphRecoveredRefines ==
  ASSUME EInv, EInv', GraphRecovered
  PROVE  [EngineContract!Next]_(EngineContract!vars)
<1>1. /\ phase = "run" /\ leg = "recovery" /\ RecoveryEnded
      /\ Length(request) > 1
      /\ UNCHANGED <<request, safe, strategy, original, lost>>
      /\ UNCHANGED listVars
  BY DEF GraphRecovered
<1>2. stage # "wave" /\ mode # "running" /\ Opened
  BY <1>1, RecoveryLeg DEF Opened
<1>3. CASE GiveUp /\ UNCHANGED <<graphVars, leg>>
  BY <1>1, <1>2, <1>3, GiveUpFails, AnsweredRefines
<1>4. CASE /\ Recovered /\ leg' = "resume" /\ phase' = "run"
           /\ StartGraph(MergedOutputs)
  <2>1. EngineVerdict = "open" /\ EngineVerdict' = "open"
    BY <1>1, <1>2, <1>4 DEF EngineVerdict, Opened
  <2>2. DOMAIN seeds' = DOMAIN original.outputs \cup lost /\ stage' = "validate"
    BY <1>1, <1>4, MergedPartial DEF StartGraph
  <2>3. /\ Graphical /\ lost = original.failed /\ lost # {}
        /\ DOMAIN values = lost
    BY <1>1, <1>4, RecoveryLeg DEF EInv, Recovering, Again
  <2>4. ASSUME NEW t \in Name
        PROVE  EngineStatus'[t] = EngineStatus[t]
    <3>1. TaskStatus[t] = IF t \in DOMAIN original.outputs THEN "done"
                          ELSE IF t \in lost THEN "failed" ELSE "waiting"
      BY <1>1, <2>3, SavedStatus
    <3>2. TaskStatus'[t] = "waiting"
      <4>1. /\ running' = {} /\ DOMAIN settled' = {} /\ successful' = {}
            /\ DOMAIN completed' = {}
        BY <2>2 DEF EInv, IInv, PoolIdle, Untouched
      <4> QED
        BY <4>1 DEF TaskStatus, Succeeded, Failed
    <3>3. t \in lost => ListP!TaskStatus[t] = "done"
      BY <2>3, CollectedDone
    <3>4. EngineStatus[t] = IF t \in lost THEN "done" ELSE TaskStatus[t]
      BY <1>1, <3>3, StatusSeen DEF Seen, Repeating
    <3>5. EngineStatus'[t] = IF t \in DOMAIN seeds' THEN "done" ELSE "waiting"
      BY <1>4, <3>2, StatusSeen DEF Seen
    <3> QED
      BY <2>2, <3>1, <3>4, <3>5
  <2> QED
    BY <1>1, <2>1, <2>4, StatusSeen DEF EngineContract!vars
<1> QED
  BY <1>1, <1>3, <1>4 DEF GraphRecovered

LEMMA ResumeReturnsRefines ==
  ASSUME EInv, ResumeReturns
  PROVE  [EngineContract!Next]_(EngineContract!vars)
<1>1. /\ phase = "run" /\ leg = "resume" /\ stage = "returned"
      /\ IF ResumeVerified
         THEN Answer(TRUE, Length(request), Length(request))
         ELSE GiveUp
      /\ UNCHANGED <<leg, request, safe, strategy, lost>>
      /\ UNCHANGED graphVars /\ UNCHANGED listVars
  BY DEF ResumeReturns
<1>2. phase' = "replied" /\ stage # "wave" /\ mode # "running" /\ Opened
  BY <1>1 DEF GiveUp, Answer, Opened, EInv, ListLeg
<1>3. CASE ResumeVerified
  <2>1. plan = request /\ successful = plan.tasks
    BY <1>1, <1>3
       DEF EInv, Resuming, GraphLeg, GraphUsed, ResumeVerified, Reported,
           EndedEarly, EndedWell, EndedByFailure
  <2>2. ASSUME NEW t \in request.tasks
        PROVE  EngineStatus[t] = "done"
    <3>1. t \in Name
      BY DEF EInv, Request, Plan
    <3>2. TaskStatus[t] = "done"
      BY <2>1, <3>1, StatusOf DEF Done
    <3> QED
      BY <1>1, <3>1, <3>2, StatusSeen DEF Seen
  <2> QED
    BY <1>1, <1>2, <2>2, AnsweredRefines
<1>4. CASE ~ResumeVerified
  BY <1>1, <1>2, <1>4, GiveUpFails, AnsweredRefines
<1> QED
  BY <1>3, <1>4

LEMMA EngineStepRefines ==
  ASSUME EInv, EInv', [EngineNext]_vars
  PROVE  [EngineContract!Next]_(EngineContract!vars)
<1>1. ASSUME NEW p \in Plans, NEW s \in SUBSET p.tasks, Submit(p, s)
      PROVE  [EngineContract!Next]_(EngineContract!vars)
  BY <1>1, SubmitRefines DEF EngineContract!Next
<1>2. CASE Refuse
  <2>1. /\ phase = "admit" /\ phase' = "replied" /\ ~reply'.success
        /\ UNCHANGED <<leg, request, safe, strategy, lost>>
        /\ UNCHANGED graphVars /\ UNCHANGED listVars
    BY <1>2 DEF Refuse, Answer
  <2>2. stage # "wave" /\ mode # "running"
    BY <2>1 DEF EInv, GraphLeg, ListLeg
  <2> QED
    BY <2>1, <2>2, AnsweredRefines
<1>3. CASE FirstRaises
  <2>1. /\ phase = "run" /\ leg = "first" /\ mode = "raised"
        /\ phase' = "replied" /\ ~reply'.success
        /\ UNCHANGED <<leg, request, safe, strategy, lost>>
        /\ UNCHANGED graphVars /\ UNCHANGED listVars
    BY <1>3 DEF FirstRaises, Answer
  <2>2. stage # "wave"
    BY <2>1, FirstGraph DEF EInv, GraphLeg, GraphUsed
  <2> QED
    BY <2>1, <2>2, AnsweredRefines
<1>4. CASE UNCHANGED vars
  <2>1. UNCHANGED graphVars /\ UNCHANGED listVars
        /\ UNCHANGED <<phase, leg, request, safe, strategy, lost, reply>>
    BY <1>4 DEF vars, engineVars
  <2>2. EngineStatus' = EngineStatus
    BY <2>1, SeenFrame, GraphSeen, ListSeen
  <2>3. Opened' <=> Opened
    BY <2>1, GraphFrame, ListFrame DEF Opened
  <2>4. EngineVerdict' = EngineVerdict
    BY <2>1, <2>3 DEF EngineVerdict
  <2> QED
    BY <2>1, <2>2, <2>4 DEF EngineContract!vars
<1> QED
  BY <1>1, <1>2, <1>3, <1>4, AdmitRefines, GraphRunRefines, ListRunRefines,
     FirstReturnsRefines, DecideRefines, RecoverRefines,
     TaskRecoveredRefines, GraphRecoveredRefines, ResumeReturnsRefines
     DEF EngineNext, EngineStep

LEMMA EngineInitRefines == EngineInit => EngineContract!Init
<1> SUFFICES ASSUME EngineInit PROVE EngineContract!Init
  OBVIOUS
<1>1. EInv /\ leg = "none" /\ phase = "idle"
  BY InitStep DEF EngineInit
<1>2. request \in EngineContract!Plan /\ safe \in SUBSET Name
  BY <1>1 DEF EInv, Request, Plan, EngineContract!Plan
<1>3. EngineStatus = [t \in Name |-> "waiting"]
  BY <1>1, StatusSeen DEF Seen
<1>4. EngineVerdict = "none"
  BY <1>1 DEF EngineVerdict, Opened
<1> QED
  BY <1>2, <1>3, <1>4 DEF EngineContract!Init

(***************************************************************************)
(* Every execution, whatever its strategy and its runs, is one of the      *)
(* abstract plan: a plan that was not found valid starts no task, a task   *)
(* starts when its dependencies have succeeded, only a failed task that is *)
(* recovery_safe is repeated, and nothing runs on after the answer         *)
(* (execute_adaptive, from its call to the ExecutionResult).               *)
(***************************************************************************)
THEOREM EngineRefinement == EngineSpec => ImplementsEngineContract
<1>1. EInv /\ EInv' /\ [EngineNext]_vars
        => [EngineContract!Next]_(EngineContract!vars)
  BY EngineStepRefines
<1> QED
  BY EngineInitRefines, <1>1, EngineInvariance, PTL
     DEF EngineSpec, ImplementsEngineContract, EngineContract!Spec


-----------------------------------------------------------------------------
\* The payloads of the tasks that are repeated, up to a lone dependency that
\* returned None: the graph ran such a task on its own payload, and recovery
\* gives it the None.
PayloadKept ==
  leg = "recovery" /\ Graphical =>
    \A t \in lost :
      \/ RebuiltPayload(t) = payload[t]
      \/ /\ Cardinality(request.deps[t]) = 1
         /\ \A d \in request.deps[t] : original.outputs[d] = None

LEMMA Rebuilt == EInv => PayloadKept
<1> SUFFICES ASSUME EInv, leg = "recovery", Graphical, NEW t \in lost
             PROVE  \/ RebuiltPayload(t) = payload[t]
                    \/ /\ Cardinality(request.deps[t]) = 1
                       /\ \A d \in request.deps[t] :
                            original.outputs[d] = None
  BY DEF PayloadKept
<1>1. /\ plan = request /\ seeds = Nothing /\ stage = "returned"
      /\ original = GraphOutcome
      /\ IInv /\ Genuine /\ Reported
  BY DEF EInv, GraphLeg, GraphUsed, Reporting
<1>2. t \in result.failed /\ t \in Name
  BY <1>1 DEF EInv, Recovering, Again, Kept, Request, Plan, GraphOutcome
<1>3. result.failed = Failed(completed)
  BY <1>1, <1>2, GraphFinal
<1>4. original.outputs = outputs
  <2>1. EndedByFailure
    BY <1>1, <1>2 DEF Reported, EndedEarly, EndedWell
  <2> QED
    BY <1>1, <2>1 DEF EndedByFailure, GraphOutcome
<1>5. payload[t] = EffectivePayload(t)
  <2>1. dispatched[t] = 1
    BY <1>1, <1>2, <1>3 DEF IInv, DispatchCount, Failed
  <2> QED
    BY <1>1, <1>2, <2>1 DEF IInv, PayloadFaithful
<1>6. request.deps[t] = {} =>
        [d \in request.deps[t] |-> original.outputs[d]] = Nothing
  BY DEF Nothing
<1> QED
  BY <1>1, <1>4, <1>5, <1>6 DEF RebuiltPayload, EffectivePayload

(***************************************************************************)
(* What a failed task of a graph is repeated with is what it ran with      *)
(* before, unless its only dependency returned None: SamePayload fails in  *)
(* no other case (prepare_recovery_tasks, AEMTask.to_worker_task).         *)
(***************************************************************************)
THEOREM PayloadsRebuilt == EngineSpec => []PayloadKept
BY EngineInvariance, Rebuilt, PTL
==============================================================================
