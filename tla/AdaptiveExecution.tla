-------------------------- MODULE AdaptiveExecution --------------------------
(***************************************************************************)
(* ExecutionEngine.execute_adaptive (execution/engine.py), AdaptiveAEM and *)
(* RecoveryEngine (execution/recovery.py): a plan is admitted, run by the  *)
(* execution method its tasks call for, and, when the run fails, recovered:*)
(* the failed tasks alone are retried or given to other workers, and an    *)
(* interrupted graph is resumed from the outputs of both runs.             *)
(*                                                                         *)
(* The module composes DependencyGraph (the graph runs) and ListExecution  *)
(* (the other methods).  Three runs may follow each other, the legs of the *)
(* execution: the first one, the recovery and the resumed graph.           *)
(***************************************************************************)
EXTENDS DependencyGraph, Integers

CONSTANTS
  MaxRetries,  \* RetryAEM's max_retries
  Place,       \* Place[t]: position of t in the plan's list
  Priority     \* AEMTask.priority

ASSUME RetriesAssumption == MaxRetries \in Nat
ASSUME WorkerAssumption == IsFiniteSet(Worker)
ASSUME PlaceAssumption ==
  /\ Place \in [Name -> Nat]
  /\ \A m, n \in Name : Place[m] = Place[n] => m = n
ASSUME PriorityAssumption ==
  /\ Priority \in [Name -> Int]
  /\ \A m, n \in Name : Priority[m] > Priority[n] => Rank[m] < Rank[n]
\* A list with an empty or repeated name stands for no set of tasks, so
\* only those that the graph's validation refuses are considered.
ASSUME ListedOnceAssumption ==
  \A p \in Plans : p.extra > 0 => \E t \in p.tasks : p.deps[t] # {}

VARIABLES
  \* those of ListExecution
  mode, method, place, priority, excluded, at, attempts, candidates, values,
  failures, answer, runs,
  \* those of the engine
  phase,       \* where execute_adaptive is
  leg,         \* the run started last
  request,     \* plan.tasks
  safe,        \* the tasks with metadata["recovery_safe"]
  strategy,    \* AdaptiveAEM.last_selected_strategy
  original,    \* aem_result, the AEMResult of the first run
  lost,        \* decision.failed_tasks
  reply,       \* the ExecutionResult
  base         \* history: dispatches of each task in the legs before this

listVars == <<mode, method, place, priority, excluded, at, attempts,
              candidates, values, failures, answer, runs>>
engineVars == <<phase, leg, request, safe, strategy, original, lost, reply,
                base>>
vars == <<graphVars, listVars, engineVars>>

List == INSTANCE ListExecution WITH PoolLimit <- MaxWorkers, Calls <- {}

\* What recovery reads of an AEMResult, whichever method returned it.
NoOutcome == [success |-> FALSE, completed |-> 0, total |-> 0,
              invalid |-> FALSE, failed |-> {}, workers |-> {},
              outputs |-> Nothing]

-----------------------------------------------------------------------------
EngineInit ==
  /\ Init
  /\ List!Init
  /\ phase = "idle"
  /\ leg = "none"
  /\ request = plan
  /\ safe = {}
  /\ strategy = "sequential"
  /\ original = NoOutcome
  /\ lost = {}
  /\ reply = [success |-> FALSE, completed |-> 0, total |-> 0]
  /\ base = [t \in Name |-> 0]

\* execute_adaptive(plan) is called.
Submit(p, s) ==
  /\ phase = "idle"
  /\ phase' = "admit"
  /\ request' = p
  /\ safe' = s
  /\ UNCHANGED <<graphVars, listVars, leg, strategy, original, lost, reply,
                 base>>

\* An ExecutionResult is returned.
Answer(success, done, total) ==
  /\ phase' = "replied"
  /\ reply' = [success |-> success, completed |-> done, total |-> total]

\* No tasks, no scheduler or registry, a missing capability, a permission
\* that is not granted, or an AdaptiveAEM that is disabled.
Refuse ==
  /\ phase = "admit"
  /\ Answer(FALSE, 0, Length(request))
  /\ UNCHANGED <<graphVars, listVars, leg, request, safe, strategy, original,
                 lost, base>>

\* AdaptiveAEM.select_strategy(tasks)
SelectStrategy(p) ==
  IF \E t \in p.tasks : p.deps[t] # {} THEN "dependency_graph"
  ELSE IF Length(p) = 1 THEN "sequential"
  ELSE IF \E t, u \in p.tasks : Priority[t] # Priority[u] THEN "priority"
  ELSE "parallel"

\* _execute_graph is entered on a new AEM object with the outputs s.
StartGraph(s) ==
  /\ stage' = "validate"
  /\ plan' = request
  /\ seeds' = s
  /\ outputs' = Nothing
  /\ successful' = {}
  /\ completed' = Nothing
  /\ blocked' = {}
  /\ pending' = {}
  /\ result' = NoResult
  /\ dispatched' = [t \in Name |-> 0]
  /\ payload' = [t \in Name |-> [source |-> "unset", inputs |-> Nothing]]
  /\ UNCHANGED pool

\* execute(tasks) of a list method, on the tasks T in the given order.
StartList(m, T, order, excl) ==
  List!CallMethod(m, [t \in T |-> order[t]], Priority, excl)

\* AdaptiveAEM.execute(plan.tasks)
Admit ==
  /\ phase = "admit"
  /\ Length(request) # 0
  /\ phase' = "run"
  /\ leg' = "first"
  /\ strategy' = SelectStrategy(request)
  /\ IF strategy' = "dependency_graph"
     THEN StartGraph(Nothing) /\ UNCHANGED listVars
     ELSE /\ StartList(strategy', request.tasks, Place, {})
          /\ UNCHANGED graphVars
  /\ UNCHANGED <<request, safe, original, lost, reply, base>>

\* The steps of the run in progress.
GraphRun == GraphStep /\ UNCHANGED <<listVars, engineVars>>
ListRun  == List!ListStep /\ UNCHANGED <<graphVars, engineVars>>

GraphOutcome ==
  [success   |-> result.success,
   completed |-> result.completed,
   total     |-> result.total,
   invalid   |-> result.error \in {"validation", "resume_validation"},
   failed    |-> result.failed,
   workers   |-> result.workers,
   outputs   |-> result.outputs]

ListOutcome ==
  [success   |-> answer.success,
   completed |-> answer.completed,
   total     |-> answer.total,
   invalid   |-> FALSE,
   failed    |-> answer.failed,
   workers   |-> answer.workers,
   outputs   |-> Nothing]

\* Every task is accounted for: completed == total == total_tasks.
Verified(r) == r.completed = r.total /\ r.total = Length(request)

\* adaptive_aem.execute has returned.
FirstReturns ==
  /\ phase = "run" /\ leg = "first"
  /\ IF strategy = "dependency_graph"
     THEN stage = "returned" /\ original' = GraphOutcome
     ELSE mode = "returned" /\ original' = ListOutcome
  /\ IF original'.success
     THEN Answer(Verified(original'), original'.completed, Length(request))
     ELSE phase' = "decide" /\ UNCHANGED reply
  /\ UNCHANGED <<graphVars, listVars, leg, request, safe, strategy, lost,
                 base>>

\* adaptive_aem.execute has raised.
FirstRaises ==
  /\ phase = "run" /\ leg = "first"
  /\ mode = "raised"
  /\ Answer(FALSE, 0, Length(request))
  /\ UNCHANGED <<graphVars, listVars, leg, request, safe, strategy, original,
                 lost, base>>

(***************************************************************************)
(* RecoveryEngine.decide(tasks, r).  The workers and the methods that are  *)
(* enabled may change between one call and the next, so any set of capable *)
(* workers, and RetryAEM and FallbackAEM enabled or not, are possible.     *)
(***************************************************************************)
Decisions(r) ==
  IF r.invalid \/ r.workers = {} THEN {"abort"}
  ELSE {"retry", "abort"}
         \cup {d \in {"fallback"} : r.failed # {} /\ Worker \ r.workers # {}}

\* The ExecutionResult of an execution that is given up.
GiveUp == Answer(FALSE, original.completed, original.total)

\* The plans automatic recovery is limited to (Stage 3 and Stage 4).
RecoverableLeg == Length(request) = 1 \/ strategy = "dependency_graph"

\* execute_adaptive consults decide() on the failed run.
Decide ==
  /\ phase = "decide"
  /\ \E d \in Decisions(original) :
       IF d # "abort" /\ RecoverableLeg
       THEN phase' = "recover" /\ UNCHANGED reply
       ELSE GiveUp
  /\ UNCHANGED <<graphVars, listVars, leg, request, safe, strategy, original,
                 lost, base>>

\* Mutant of SafeToRepeat: the gate is left out.
SafeToRepeatAlways(T) == TRUE

\* The recovery_safe gate of prepare_recovery_tasks.
SafeToRepeat(T) == T \subseteq safe

\* prepare_recovery_tasks(tasks, result, decision) reports no error.
Prepared ==
  /\ original.failed # {}
  /\ SafeToRepeat(original.failed)
  /\ \A t \in original.failed :
       request.deps[t] \subseteq DOMAIN original.outputs

\* Mutant of Exclusions: no worker is excluded.
ExclusionsNone == {}

\* metadata["recovery_exclude_workers"]
Exclusions == original.workers

\* recover() consults decide() a second time and acts on that decision,
\* if the tasks can be prepared and the method is still enabled.
Recover ==
  /\ phase = "recover"
  /\ \E d \in Decisions(original), enabled \in BOOLEAN :
       IF d # "abort" /\ Prepared /\ enabled
       THEN /\ phase' = "run"
            /\ leg' = "recovery"
            /\ lost' = original.failed
            /\ StartList(d, original.failed, Rank, Exclusions)
            /\ base' = [t \in Name |-> base[t] + runs[t]]
            /\ UNCHANGED reply
       ELSE /\ GiveUp
            /\ UNCHANGED <<listVars, leg, lost, base>>
  /\ UNCHANGED <<graphVars, request, safe, strategy, original>>

\* Mutant of RecoveryEnded: an exception of the recovery run is not caught.
RecoveryEndedReturned == mode = "returned"

\* recovery_aem.execute has returned or raised.
RecoveryEnded == mode \in {"returned", "raised"}

\* The recovery run succeeded with every failed task.
Recovered ==
  /\ mode = "returned"
  /\ answer.success
  /\ answer.completed = answer.total
  /\ answer.total = Cardinality(lost)

\* Mutant of MergedOutputs: the recovered outputs are left out.
MergedOutputsSaved == original.outputs

\* saved_outputs updated with recovered_outputs.
MergedOutputs ==
  [t \in DOMAIN original.outputs \cup lost |->
     IF t \in lost THEN values[t] ELSE original.outputs[t]]

\* Stage 3: the only task has been recovered, or not.
TaskRecovered ==
  /\ phase = "run" /\ leg = "recovery"
  /\ RecoveryEnded
  /\ Length(request) = 1
  /\ IF Recovered THEN Answer(TRUE, 1, 1) ELSE GiveUp
  /\ UNCHANGED <<graphVars, listVars, leg, request, safe, strategy, original,
                 lost, base>>

\* Stage 4: resume_dependency_graph seeds the graph with both runs'
\* outputs, if the graph method is still enabled.
GraphRecovered ==
  /\ phase = "run" /\ leg = "recovery"
  /\ RecoveryEnded
  /\ Length(request) > 1
  /\ \E enabled \in BOOLEAN :
       IF /\ Recovered /\ enabled
          /\ lost \subseteq DOMAIN values
          /\ lost \cap DOMAIN original.outputs = {}
       THEN /\ leg' = "resume"
            /\ StartGraph(MergedOutputs)
            /\ base' = [t \in Name |-> base[t] + dispatched[t]]
            /\ UNCHANGED <<phase, reply>>
       ELSE /\ GiveUp
            /\ UNCHANGED <<graphVars, leg, base>>
  /\ UNCHANGED <<listVars, request, safe, strategy, original, lost>>

\* Mutant of ResumeVerified: the resumed result is not looked at.
ResumeVerifiedUnread == TRUE

\* resume_verified
ResumeVerified == result.success /\ Verified(result)

\* DependencyGraphAEM.resume has returned.
ResumeReturns ==
  /\ phase = "run" /\ leg = "resume"
  /\ stage = "returned"
  /\ IF ResumeVerified
     THEN Answer(TRUE, Length(request), Length(request))
     ELSE GiveUp
  /\ UNCHANGED <<graphVars, listVars, leg, request, safe, strategy, original,
                 lost, base>>

\* The steps of an execution in progress.
EngineStep ==
  \/ Refuse
  \/ Admit
  \/ GraphRun
  \/ ListRun
  \/ FirstReturns
  \/ FirstRaises
  \/ Decide
  \/ Recover
  \/ TaskRecovered
  \/ GraphRecovered
  \/ ResumeReturns

EngineNext ==
  \/ \E p \in Plans : \E s \in SUBSET p.tasks : Submit(p, s)
  \/ EngineStep

EngineSpec == EngineInit /\ [][EngineNext]_vars

\* The interpreter keeps executing the call, and every handler returns.
EngineFairSpec == EngineSpec /\ WF_vars(EngineStep)

-----------------------------------------------------------------------------
\* How often a worker was given t in this execution.
Total(t) == base[t] + dispatched[t] + runs[t]

(***************************************************************************)
(* Recovery repeats a task only if it is declared recovery_safe, and not   *)
(* without end: the three legs together give it to a worker once, and then *)
(* at most as often as the recovery method may.                            *)
(***************************************************************************)
Larger(m, n) == IF m > n THEN m ELSE n

BoundedAttempts ==
  \A t \in Name :
    Total(t) <= IF t \in safe
                THEN 1 + Larger(MaxRetries + 1, Cardinality(Worker))
                ELSE 1

(***************************************************************************)
(* No work is given out in vain.  A task that has succeeded in one leg is  *)
(* not given to a worker in that leg or a later one ("does not replay      *)
(* already-successful dependency tasks"), and FallbackAEM, as recovery     *)
(* uses it, offers no task to a worker that failed in the first run        *)
(* ("alternate capable workers").                                          *)
(***************************************************************************)
Achieved == DOMAIN original.outputs
              \cup (IF leg = "recovery" THEN DOMAIN values ELSE {})
              \cup (IF leg = "resume" THEN lost ELSE {})
              \cup successful

NoVainDispatch ==
  [][/\ \A t \in Achieved : Total(t)' = Total(t)
     /\ leg = "recovery" /\ method = "fallback" =>
          (candidates \ candidates') \cap original.workers = {}]_vars

(***************************************************************************)
(* The ExecutionResult: success is reported only when every task of the    *)
(* plan has succeeded in one of the legs, and the count of completed steps *)
(* never exceeds the tasks that have succeeded.                            *)
(***************************************************************************)
Succeeding ==
  {t \in request.tasks :
     \/ t \in successful
     \/ t \in DOMAIN original.outputs
     \/ t \in DOMAIN values}

ReplyTruthful ==
  phase = "replied" =>
    /\ reply.success => /\ Succeeding = request.tasks
                        /\ reply.completed = reply.total
                        /\ reply.total = Length(request)
    /\ reply.completed <= Cardinality(Succeeding)

(***************************************************************************)
(* A resumed graph starts from exactly the tasks that have succeeded: none *)
(* is lost, none is assumed, and validation does not refuse the seeds.     *)
(***************************************************************************)
ResumeComplete ==
  leg = "resume" =>
    /\ DOMAIN seeds = DOMAIN original.outputs \cup original.failed
    /\ \A t \in DOMAIN original.outputs : seeds[t] = original.outputs[t]
    /\ result.error # "resume_validation"

(***************************************************************************)
(* Every admitted plan is answered, if every handler returns.              *)
(***************************************************************************)
PlanAnswered == phase = "admit" ~> phase = "replied"

-----------------------------------------------------------------------------
\* What the legs have made of each task, for the abstract specification.
EngineStatus ==
  [t \in Name |->
     CASE leg = "none" -> "waiting"
       [] leg = "first" /\ strategy # "dependency_graph" -> List!TaskStatus[t]
       [] leg = "recovery" /\ t \in lost ->
            IF List!TaskStatus[t] = "waiting" THEN "failed"
                                              ELSE List!TaskStatus[t]
       [] leg = "resume" /\ t \in DOMAIN seeds -> "done"
       [] OTHER -> TaskStatus[t]]

\* The plan is opened when the first run has accepted it.
Opened ==
  /\ leg # "none"
  /\ leg = "first" =>
       IF strategy = "dependency_graph"
       THEN stage # "validate" /\ result.error # "validation"
       ELSE mode # "called"

EngineVerdict ==
  IF phase = "replied" THEN IF reply.success THEN "success" ELSE "failure"
  ELSE IF Opened THEN "open" ELSE "none"

EngineContract == INSTANCE PlanExecution WITH
  plan <- request, status <- EngineStatus, verdict <- EngineVerdict

(***************************************************************************)
(* An execution, whatever its strategy and its legs, does what executing a *)
(* plan promises, and repeats no task but a failed one that is             *)
(* recovery_safe.                                                          *)
(***************************************************************************)
ImplementsEngineContract == EngineContract!Spec

-----------------------------------------------------------------------------
\* The payload prepare_recovery_tasks rebuilds from the saved outputs.
RebuiltPayload(t) ==
  LET inputs == [d \in request.deps[t] |-> original.outputs[d]]
  IN  [source |-> IF request.deps[t] = {} THEN "own"
                  ELSE IF Cardinality(request.deps[t]) = 1 THEN "dependency"
                  ELSE "merged",
       inputs |-> inputs]

(***************************************************************************)
(* The docstring of prepare_recovery_tasks: "Their saved outputs are used  *)
(* to reconstruct the same effective payload originally supplied to the    *)
(* failed task."                                                           *)
(***************************************************************************)
SamePayload ==
  leg = "recovery" /\ strategy = "dependency_graph" =>
    \A t \in lost : dispatched[t] = 1 => RebuiltPayload(t) = payload[t]
=============================================================================
