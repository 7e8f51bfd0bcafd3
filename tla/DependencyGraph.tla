-------------------------- MODULE DependencyGraph --------------------------
(***************************************************************************)
(* DependencyGraphAEM (execution/aem.py): execute() and resume() run a     *)
(* graph of tasks wave by wave.  Each wave holds every pending task whose  *)
(* dependencies have all succeeded; its tasks run concurrently on a thread *)
(* pool, and the next wave is chosen only when the pool has drained.       *)
(*                                                                         *)
(* The scheduler and the worker behind _dispatch are reduced to their      *)
(* outcome (WorkerDispatch models them): a worker's success with some      *)
(* output, a worker's failure, no capable worker, or an exception.         *)
(***************************************************************************)
EXTENDS TaskGraph

CONSTANTS
  Output,     \* values a handler can return
  None,       \* Python's None, a value a handler can return
  Worker,     \* names of the registered workers
  Rank,       \* Rank[n]: place of n in the order (-priority, name)
  MaxWorkers, \* the constructor's max_workers, 0 standing for None
  Plans,      \* the plans callers submit
  Seeds       \* the outputs callers pass to resume()

\* The dictionaries with keys in D and values in R.
PartialFunction(D, R) == UNION {[S -> R] : S \in SUBSET D}

\* f is one of them; cheaper to evaluate than membership.
IsPartial(f, D, R) == DOMAIN f \subseteq D /\ f \in [DOMAIN f -> R]

ASSUME NoneAssumption == None \in Output
ASSUME RankAssumption ==
  /\ Rank \in [Name -> Nat]
  /\ \A m, n \in Name : Rank[m] = Rank[n] => m = n
ASSUME NameAssumption == IsFiniteSet(Name)
ASSUME PoolAssumption == MaxWorkers \in Nat
ASSUME CallAssumption ==
  /\ Plans \subseteq Plan
  /\ Seeds \subseteq PartialFunction(Name, Output)

VARIABLES
  stage,      \* where the call is: "idle" before it, "returned" after it
  plan,       \* the tasks argument
  seeds,      \* the completed_outputs argument, {} for execute()
  outputs,    \* dependency_outputs
  successful, \* successful_tasks
  completed,  \* completed: the WorkerResult of every task run in this call
  blocked,    \* names in the blocked dictionary
  pending,    \* pending
  queued,     \* tasks of the wave submitted to the pool and not started
  running,    \* tasks of the wave a pool thread is dispatching
  settled,    \* wave_results
  result,     \* the AEMResult handed back
  dispatched, \* history: how often this call dispatched each task
  payload     \* history: the payload the task's last dispatch carried

locals == <<plan, seeds, outputs, successful, completed, blocked, pending>>
pool   == <<queued, running, settled>>
graphVars == <<stage, locals, pool, result, dispatched, payload>>

Nothing == [n \in {} |-> None]

Stage == {"idle", "validate", "scan", "wave", "returned"}

\* The names a failed WorkerResult carries when no worker produced it.
WorkerName == Worker \cup {"scheduler", "dependency_graph"}

WorkerResult == [success: BOOLEAN, worker: WorkerName, output: Output]

Error == {"none", "validation", "resume_validation", "no_progress",
          "task_failed", "blocked_tasks"}

AEMResult ==
  [success: BOOLEAN, completed: Nat, total: Nat, error: Error,
   failed: SUBSET Name, remaining: SUBSET Name, blocked: SUBSET Name,
   workers: SUBSET WorkerName, outputs: PartialFunction(Name, Output)]

\* The payload that reached the worker: the task's own, its only
\* dependency's output, or the record of all its dependencies' outputs.
Payload ==
  [source: {"unset", "own", "dependency", "merged"},
   inputs: PartialFunction(Name, Output)]

TypeOK ==
  /\ stage \in Stage
  /\ plan \in Plan
  /\ IsPartial(seeds, Name, Output)
  /\ IsPartial(outputs, Name, Output)
  /\ successful \in SUBSET Name
  /\ IsPartial(completed, Name, WorkerResult)
  /\ blocked \in SUBSET Name
  /\ pending \in SUBSET Name
  /\ queued \in SUBSET Name
  /\ running \in SUBSET Name
  /\ IsPartial(settled, Name, WorkerResult)
  /\ result \in AEMResult
  /\ dispatched \in [Name -> Nat]
  /\ payload \in [Name -> Payload]

-----------------------------------------------------------------------------
\* Tasks whose WorkerResult in r reports success, or failure.
Succeeded(r) == {t \in DOMAIN r : r[t].success}
Failed(r)    == DOMAIN r \ Succeeded(r)

\* The wave's tasks, whatever the pool has done with them.
Ready == queued \cup running \cup DOMAIN settled

WorkerCount ==
  IF MaxWorkers = 0 \/ MaxWorkers > Length(plan) THEN Length(plan)
                                                 ELSE MaxWorkers

\* Mutant of PoolSize: one thread short for a small wave.
PoolSizeShort ==
  IF WorkerCount < Cardinality(Ready) THEN WorkerCount
                                      ELSE Cardinality(Ready) - 1

\* max_workers of the wave's ThreadPoolExecutor.
PoolSize ==
  IF WorkerCount < Cardinality(Ready) THEN WorkerCount
                                      ELSE Cardinality(Ready)

(***************************************************************************)
(* _build_payload followed by AEMTask.to_worker_task(payload=...), which   *)
(* puts the task's own payload in place of a payload that is None.         *)
(***************************************************************************)
EffectivePayload(t) ==
  LET inputs == [d \in plan.deps[t] |-> outputs[d]]
      own    == [source |-> "own", inputs |-> Nothing]
  IN  IF plan.deps[t] = {} THEN own
      ELSE IF Cardinality(plan.deps[t]) = 1
           THEN IF \A d \in plan.deps[t] : outputs[d] = None THEN own
                ELSE [source |-> "dependency", inputs |-> inputs]
           ELSE [source |-> "merged", inputs |-> inputs]

NoResult ==
  [success |-> FALSE, completed |-> 0, total |-> 0, error |-> "none",
   failed |-> {}, remaining |-> {}, blocked |-> {}, workers |-> {},
   outputs |-> Nothing]

\* A result that carries no more than its counts.
Plain(success, done, error) ==
  [NoResult EXCEPT !.success = success, !.completed = done,
                   !.total = Length(plan), !.error = error]

-----------------------------------------------------------------------------
Init ==
  /\ stage = "idle"
  /\ plan = [tasks |-> {}, deps |-> [n \in Name |-> {}], extra |-> 0]
  /\ seeds = Nothing
  /\ outputs = Nothing
  /\ successful = {}
  /\ completed = Nothing
  /\ blocked = {}
  /\ pending = {}
  /\ queued = {}
  /\ running = {}
  /\ settled = Nothing
  /\ result = NoResult
  /\ dispatched = [n \in Name |-> 0]
  /\ payload = [n \in Name |-> [source |-> "unset", inputs |-> Nothing]]

\* _execute_graph(p, s) is entered; its locals are not set yet.
Enter(p, s) ==
  /\ stage = "idle"
  /\ stage' = "validate"
  /\ plan' = p
  /\ seeds' = s
  /\ UNCHANGED <<outputs, successful, completed, blocked, pending, pool,
                 result, dispatched, payload>>

\* execute(tasks)
Execute(p) == Enter(p, Nothing)

\* resume(tasks, completed_outputs)
Resume(p, s) == Enter(p, s)

Return(r) ==
  /\ stage' = "returned"
  /\ result' = r

\* An empty list succeeds at once, whatever outputs come with it.
ReturnEmpty ==
  /\ stage = "validate"
  /\ Length(plan) = 0
  /\ Return(Plain(TRUE, 0, "none"))
  /\ UNCHANGED <<locals, pool, dispatched, payload>>

\* The seeded tasks are tasks of the plan, with their dependencies.
SeedsAccepted ==
  DOMAIN seeds \subseteq plan.tasks /\ ClosedUnder(plan, DOMAIN seeds)

\* The checks made before anything runs: _validate_graph, then the search
\* for unknown seeded tasks and for seeded tasks without a prerequisite.
Verdict == IF ~Valid(plan) THEN "validation"
           ELSE IF ~SeedsAccepted THEN "resume_validation"
           ELSE "none"

RejectCall ==
  /\ stage = "validate"
  /\ Length(plan) # 0
  /\ Verdict # "none"
  /\ Return(Plain(FALSE, 0, Verdict))
  /\ UNCHANGED <<locals, pool, dispatched, payload>>

\* Mutant of Unseeded: the seeded tasks stay pending.
UnseededAll == plan.tasks

\* set(task_map) - successful_tasks, when the loop is reached.
Unseeded == plan.tasks \ DOMAIN seeds

\* The locals are initialised and the while loop is reached.
Accept ==
  /\ stage = "validate"
  /\ Length(plan) # 0
  /\ Verdict = "none"
  /\ stage' = "scan"
  /\ outputs' = seeds
  /\ successful' = DOMAIN seeds
  /\ completed' = Nothing
  /\ blocked' = {}
  /\ pending' = Unseeded
  /\ UNCHANGED <<plan, seeds, pool, result, dispatched, payload>>

(***************************************************************************)
(* The tasks one pass over the set `pending' adds to `blocked'.  A task    *)
(* with a failed or already blocked dependency is always added; one whose  *)
(* dependency is blocked during the same pass is added only if the set's   *)
(* iteration order visits it later, so the pass may add any set that       *)
(* holds the first kind and gives each other member a blocked dependency.  *)
(***************************************************************************)
MustBlock ==
  {t \in pending : plan.deps[t] \cap (Failed(completed) \cup blocked) # {}}

BlocksInOnePass(B) ==
  /\ MustBlock \subseteq B
  /\ \A t \in B \ MustBlock : plan.deps[t] \cap B # {}

(***************************************************************************)
(* One turn of the while loop up to the submission of the wave, or the     *)
(* exit from the loop and the result that follows it.                      *)
(***************************************************************************)
Scan ==
  /\ stage = "scan"
  /\ \E B \in SUBSET pending :
       /\ BlocksInOnePass(B)
       /\ blocked' = blocked \cup B
       /\ pending' = pending \ (blocked \cup B)
       /\ LET ready == {t \in pending' : plan.deps[t] \subseteq successful}
              done  == Cardinality(successful)
          IN  IF ready # {}
              THEN /\ stage' = "wave"
                   /\ queued' = ready
                   /\ UNCHANGED result
              ELSE /\ Return(
                        IF pending' # {}
                        THEN [Plain(FALSE, done, "no_progress")
                                EXCEPT !.blocked = blocked']
                        ELSE IF blocked' # {}
                        THEN [Plain(FALSE, done, "blocked_tasks")
                                EXCEPT !.blocked = blocked',
                                       !.outputs = outputs]
                        ELSE [Plain(TRUE, done, "none")
                                EXCEPT !.outputs = outputs])
                   /\ UNCHANGED queued
  /\ UNCHANGED <<plan, seeds, outputs, successful, completed, running,
                 settled, dispatched, payload>>

\* A pool thread takes the oldest submitted task and calls _dispatch; the
\* tasks were submitted in the order of Rank.
StartTask(t) ==
  /\ stage = "wave"
  /\ t \in queued
  /\ \A u \in queued : Rank[t] <= Rank[u]
  /\ Cardinality(running) < PoolSize
  /\ queued' = queued \ {t}
  /\ running' = running \cup {t}
  /\ dispatched' = [dispatched EXCEPT ![t] = @ + 1]
  /\ payload' = [payload EXCEPT ![t] = EffectivePayload(t)]
  /\ UNCHANGED <<stage, locals, settled, result>>

\* Mutant of DispatchOutcome: an exception is blamed on an unnamed worker.
DispatchOutcomeUnnamed ==
  {[success |-> FALSE, worker |-> "unknown", output |-> None]}

\* What _dispatch can come back with.
DispatchOutcome ==
  {r \in WorkerResult :
     /\ r.success => r.worker \in Worker
     /\ ~r.success => r.output = None}

\* The task's future completes and as_completed hands it over.
FinishTask(t) ==
  /\ stage = "wave"
  /\ t \in running
  /\ running' = running \ {t}
  /\ \E r \in DispatchOutcome :
       settled' = [u \in DOMAIN settled \cup {t} |->
                     IF u = t THEN r ELSE settled[u]]
  /\ UNCHANGED <<stage, locals, queued, result, dispatched, payload>>

\* Mutant of WaveFailed: the call ends only if the whole wave failed.
WaveFailedWhole == Succeeded(settled) = {}

\* The test of failed_tasks.
WaveFailed == Failed(settled) # {}

\* The pool has drained: the wave's results are recorded, and a failure
\* among them ends the call.
CollectWave ==
  /\ stage = "wave"
  /\ queued = {} /\ running = {}
  /\ pending' = pending \ DOMAIN settled
  /\ completed' = [t \in DOMAIN completed \cup DOMAIN settled |->
                     IF t \in DOMAIN settled THEN settled[t]
                                             ELSE completed[t]]
  /\ outputs' = [t \in DOMAIN outputs \cup Succeeded(settled) |->
                   IF t \in Succeeded(settled) THEN settled[t].output
                                               ELSE outputs[t]]
  /\ successful' = successful \cup Succeeded(settled)
  /\ settled' = Nothing
  /\ IF WaveFailed
     THEN Return([Plain(FALSE, Cardinality(successful'), "task_failed")
                    EXCEPT !.failed = Failed(settled),
                           !.remaining = pending',
                           !.blocked = blocked,
                           !.workers = {settled[t].worker :
                                          t \in Failed(settled)},
                           !.outputs = outputs'])
     ELSE stage' = "scan" /\ UNCHANGED result
  /\ UNCHANGED <<plan, seeds, blocked, queued, running, dispatched, payload>>

Call == \/ \E p \in Plans : Execute(p)
        \/ \E p \in Plans, s \in Seeds : Resume(p, s)

\* The steps of a call in progress.
GraphStep ==
  \/ ReturnEmpty
  \/ RejectCall
  \/ Accept
  \/ Scan
  \/ \E t \in Name : StartTask(t)
  \/ \E t \in Name : FinishTask(t)
  \/ CollectWave

Next == Call \/ GraphStep

Spec == Init /\ [][Next]_graphVars

(***************************************************************************)
(* The interpreter keeps executing the call, and every handler returns:    *)
(* the code waits for a future without a timeout.                          *)
(***************************************************************************)
FairSpec == Spec /\ WF_graphVars(GraphStep)

-----------------------------------------------------------------------------
(***************************************************************************)
(* A worker is given a task only when every dependency of the task has     *)
(* succeeded, in this call or in the one it resumes, whatever the waves    *)
(* and the pool threads did in between ("A task cannot execute until all   *)
(* of its dependencies have successfully completed").                      *)
(***************************************************************************)
DependencyOrder ==
  \A t \in Name : dispatched[t] > 0 =>
    \A u \in plan.deps[t] :
      u \in DOMAIN seeds \/ (u \in DOMAIN completed /\ completed[u].success)

(***************************************************************************)
(* A call dispatches no task twice, and a seeded task not at all ("Seeded  *)
(* tasks are treated as successfully complete and are never dispatched     *)
(* again").                                                                *)
(***************************************************************************)
DispatchedOnce ==
  \A t \in Name : dispatched[t] <= (IF t \in DOMAIN seeds THEN 0 ELSE 1)

(***************************************************************************)
(* The payload a task was dispatched with is the one its dependencies'     *)
(* recorded outputs still give: no output a task consumed is replaced by a *)
(* later wave, and none leaks in from a task it does not depend on.        *)
(***************************************************************************)
PayloadFaithful ==
  \A t \in Name : dispatched[t] > 0 => payload[t] = EffectivePayload(t)

(***************************************************************************)
(* "Dependency graph could not make progress" is never the answer: when    *)
(* validation and the check of the seeds have passed, the loop always      *)
(* finds a task to run or has run them all.                                *)
(***************************************************************************)
AlwaysProgress == result.error # "no_progress"

(***************************************************************************)
(* The AEMResult tells what happened.  Success means every task succeeded  *)
(* in this call or was seeded; after a failed task, the succeeded, failed  *)
(* and remaining tasks partition the plan, and the count and the outputs   *)
(* handed to recovery are those of the succeeded ones.                     *)
(***************************************************************************)
ResultTruthful ==
  LET done == DOMAIN seeds \cup Succeeded(completed)
  IN  stage = "returned" =>
        /\ result.success =>
             /\ result.completed = result.total
             /\ Length(plan) = 0 \/ plan.tasks = done
        /\ result.error = "task_failed" =>
             /\ result.failed # {}
             /\ result.failed = Failed(completed)
             /\ result.remaining = plan.tasks \ (done \cup result.failed)
             /\ result.completed = Cardinality(done)
             /\ DOMAIN result.outputs = done
             /\ \A t \in result.remaining : dispatched[t] = 0

(***************************************************************************)
(* Once a wave with a failed task has been recorded, the call starts no    *)
(* other task, not even one that does not depend on the failed one.        *)
(***************************************************************************)
FailStop ==
  [][\A t \in Name :
       dispatched'[t] > dispatched[t] => Failed(completed) = {}]_graphVars

(***************************************************************************)
(* Every call returns, if every handler does.                              *)
(***************************************************************************)
CallReturns == stage = "validate" ~> stage = "returned"

-----------------------------------------------------------------------------
\* What a call has made of each task, for the abstract specification.
TaskStatus ==
  [t \in Name |->
     IF t \in successful \cup Succeeded(settled) THEN "done"
     ELSE IF t \in Failed(completed) \cup Failed(settled) THEN "failed"
     ELSE IF t \in running THEN "active"
     ELSE "waiting"]

CallVerdict ==
  IF stage \in {"idle", "validate"} THEN "none"
  ELSE IF stage # "returned" THEN "open"
  ELSE IF result.success THEN "success"
  ELSE "failure"

Contract == INSTANCE PlanExecution WITH
              status <- TaskStatus, verdict <- CallVerdict, safe <- {}

(***************************************************************************)
(* A call does what executing a plan promises, and repeats no task.        *)
(***************************************************************************)
ImplementsContract == Contract!Spec
=============================================================================
