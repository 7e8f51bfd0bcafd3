---------------------------- MODULE ListExecution ----------------------------
(***************************************************************************)
(* The execution methods of execution/aem.py that take a list of tasks and *)
(* look at no dependency: SequentialAEM, PriorityAEM and PipelineAEM run   *)
(* one task after another, RetryAEM repeats a failed task, FallbackAEM     *)
(* offers it to one candidate worker after another, and ParallelAEM runs   *)
(* the list on a thread pool.                                              *)
(*                                                                         *)
(* As in DependencyGraph, the scheduler is reduced to what a dispatch can  *)
(* come back with: a worker's success or failure, no WorkerResult (no      *)
(* worker is capable), or an exception.                                    *)
(***************************************************************************)
EXTENDS Integers, FiniteSets

CONSTANTS
  Name,        \* the tasks a list may hold
  Output,      \* values a handler can return
  None,        \* Python's None
  Worker,      \* names of the registered workers
  MaxRetries,  \* RetryAEM's max_retries
  PoolLimit,   \* ParallelAEM's max_workers, 0 standing for None
  Calls        \* the calls made: [method, place, priority, excluded]

Method == {"sequential", "priority", "pipeline", "retry", "fallback",
           "parallel"}

ASSUME ListNoneAssumption == None \in Output
ASSUME RetryAssumption == MaxRetries \in Nat
ASSUME PoolLimitAssumption == PoolLimit \in Nat
ASSUME ListNameAssumption == IsFiniteSet(Name)
ASSUME ListWorkerAssumption == IsFiniteSet(Worker)

VARIABLES
  mode,        \* "idle", "called", "running", "returned" or "raised"
  method,      \* the execution method called
  place,       \* place[t]: position of t in the list
  priority,    \* AEMTask.priority
  excluded,    \* metadata["recovery_exclude_workers"]
  at,          \* what the method has made of each task
  attempts,    \* failed attempts at each task
  candidates,  \* FallbackAEM: candidates not tried yet
  values,      \* outputs of the successful WorkerResults in results
  failures,    \* the failed WorkerResults in results
  answer,      \* the AEMResult handed back
  runs         \* history: how often each task was dispatched

arguments == <<method, place, priority, excluded>>
listVars == <<mode, arguments, at, attempts, candidates, values, failures,
              answer, runs>>

\* The list as a set.
Listed == DOMAIN place

TaskState == {"waiting", "searching", "running", "done", "failed"}

\* Who a failed WorkerResult may name, here or in DependencyGraph.
ListWorkerName ==
  Worker \cup {"scheduler", "parallel_executor", "dependency_graph"}

\* A list that is called with priorities and an exclusion list.
ASSUME CallsAssumption ==
  \A c \in Calls :
    /\ c.method \in Method
    /\ DOMAIN c.place \subseteq Name /\ c.place \in [DOMAIN c.place -> Nat]
    /\ c.priority \in [Name -> Int]
    /\ c.excluded \subseteq ListWorkerName

\* A failed WorkerResult; only a worker's own names the task.
Failure == [task: Name, named: BOOLEAN, worker: ListWorkerName]

Answer == [success: BOOLEAN, completed: Nat, total: Nat,
           failed: SUBSET Name, workers: SUBSET ListWorkerName]

NoAnswer == [success |-> FALSE, completed |-> 0, total |-> 0,
             failed |-> {}, workers |-> {}]

TypeOK ==
  /\ mode \in {"idle", "called", "running", "returned", "raised"}
  /\ method \in Method
  /\ DOMAIN place \subseteq Name /\ place \in [DOMAIN place -> Nat]
  /\ priority \in [Name -> Int]
  /\ excluded \in SUBSET ListWorkerName
  /\ at \in [Name -> TaskState]
  /\ attempts \in [Name -> 0 .. MaxRetries + 1]
  /\ candidates \in SUBSET Worker
  /\ DOMAIN values \subseteq Name /\ values \in [DOMAIN values -> Output]
  /\ failures \in SUBSET Failure
  /\ answer \in Answer
  /\ runs \in [Name -> Nat]

-----------------------------------------------------------------------------
In(s) == {t \in Listed : at[t] = s}

\* Mutant of Earlier: the sort by priority is forgotten.
EarlierUnsorted(t, u) == place[t] < place[u]

\* The order the method takes the tasks in: sorted() is stable, with
\* reverse=True too.
Earlier(t, u) ==
  IF method = "priority" /\ priority[t] # priority[u]
  THEN priority[t] > priority[u]
  ELSE place[t] < place[u]

\* max_workers of ParallelAEM's ThreadPoolExecutor.
Threads ==
  IF PoolLimit = 0 \/ PoolLimit > Cardinality(Listed)
  THEN Cardinality(Listed) ELSE PoolLimit

\* A failed task makes every method but ParallelAEM return.
Stopped == method # "parallel" /\ In("failed") # {}

\* t is the task the loop, or a free thread of the pool, takes next.
MayStart(t) ==
  /\ mode = "running"
  /\ at[t] = "waiting" /\ t \in Listed
  /\ \A u \in In("waiting") \ {t} : Earlier(t, u)
  /\ ~Stopped
  /\ Cardinality(In("running") \cup In("searching"))
       < IF method = "parallel" THEN Threads ELSE 1

-----------------------------------------------------------------------------
Init ==
  /\ mode = "idle"
  /\ method = "sequential"
  /\ place = [t \in {} |-> 0]
  /\ priority = [t \in Name |-> 0]
  /\ excluded = {}
  /\ at = [t \in Name |-> "waiting"]
  /\ attempts = [t \in Name |-> 0]
  /\ candidates = {}
  /\ values = [t \in {} |-> None]
  /\ failures = {}
  /\ answer = NoAnswer
  /\ runs = [t \in Name |-> 0]

\* execute(tasks) of the method m is called on a new AEM object.
CallMethod(m, list, prio, excl) ==
  /\ mode' = "called"
  /\ method' = m
  /\ place' = list
  /\ priority' = prio
  /\ excluded' = excl
  /\ at' = [t \in Name |-> "waiting"]
  /\ attempts' = [t \in Name |-> 0]
  /\ candidates' = {}
  /\ values' = [t \in {} |-> None]
  /\ failures' = {}
  /\ answer' = NoAnswer
  /\ runs' = [t \in Name |-> 0]

\* An empty list succeeds at once; any other is worked through.
EnterLoop ==
  /\ mode = "called"
  /\ IF Listed = {}
     THEN mode' = "returned" /\ answer' = [NoAnswer EXCEPT !.success = TRUE]
     ELSE mode' = "running" /\ UNCHANGED answer
  /\ UNCHANGED <<arguments, at, attempts, candidates, values, failures,
                 runs>>

\* scheduler.dispatch(task) is called.
StartListed(t) ==
  /\ MayStart(t)
  /\ method # "fallback"
  /\ at' = [at EXCEPT ![t] = "running"]
  /\ runs' = [runs EXCEPT ![t] = @ + 1]
  /\ UNCHANGED <<mode, arguments, attempts, candidates, values, failures,
                 answer>>

\* Mutant of Eligible: the exclusion list is ignored.
EligibleAll(C) == C

\* The candidates left when the excluded workers are taken out.
Eligible(C) == C \ excluded

\* FallbackAEM: find_candidates(task) returns the capable workers enabled
\* at this moment.
FindCandidates(t) ==
  /\ MayStart(t)
  /\ method = "fallback"
  /\ \E C \in SUBSET Worker :
       /\ candidates' = Eligible(C)
       /\ at' = [at EXCEPT ![t] = IF Eligible(C) = {} THEN "failed"
                                                      ELSE "searching"]
  /\ UNCHANGED <<mode, arguments, attempts, values, failures, answer, runs>>

\* FallbackAEM: dispatch_to_worker(w, task).
TryWorker(t, w) ==
  /\ mode = "running"
  /\ at[t] = "searching"
  /\ w \in candidates
  /\ candidates' = candidates \ {w}
  /\ at' = [at EXCEPT ![t] = "running"]
  /\ runs' = [runs EXCEPT ![t] = @ + 1]
  /\ UNCHANGED <<mode, arguments, attempts, values, failures, answer>>

\* The dispatch comes back with a worker's success.
Succeed(t) ==
  /\ mode = "running"
  /\ at[t] = "running"
  /\ at' = [at EXCEPT ![t] = "done"]
  /\ \E o \in Output :
       values' = [u \in DOMAIN values \cup {t} |->
                    IF u = t THEN o ELSE values[u]]
  /\ UNCHANGED <<mode, arguments, attempts, candidates, failures, answer,
                 runs>>

\* RetryAEM: attempts <= max_retries still holds after this failure.
MayRepeat(t) == method = "retry" /\ attempts[t] + 1 <= MaxRetries

\* What a failure leaves of the task: another attempt, another candidate,
\* or nothing.
AfterFailure(t) ==
  IF MayRepeat(t) THEN "waiting"
  ELSE IF method = "fallback" /\ candidates # {} THEN "searching"
  ELSE "failed"

\* The methods that put a failed WorkerResult in results.
KeepsFailures == method \in {"sequential", "priority", "parallel"}

\* The dispatch comes back with a worker's failure.
FailBy(t, w) ==
  /\ mode = "running"
  /\ at[t] = "running"
  /\ at' = [at EXCEPT ![t] = AfterFailure(t)]
  /\ attempts' = IF method = "retry" THEN [attempts EXCEPT ![t] = @ + 1]
                                     ELSE attempts
  /\ failures' = IF KeepsFailures
                 THEN failures \cup {[task |-> t, named |-> TRUE,
                                      worker |-> w]}
                 ELSE failures
  /\ UNCHANGED <<mode, arguments, candidates, values, answer, runs>>

\* The dispatch comes back without a WorkerResult.
Unserved(t) ==
  /\ mode = "running"
  /\ at[t] = "running"
  /\ at' = [at EXCEPT ![t] = IF method = "fallback" /\ candidates # {}
                             THEN "searching" ELSE "failed"]
  /\ failures' = IF method = "parallel"
                 THEN failures \cup {[task |-> t, named |-> FALSE,
                                      worker |-> "scheduler"]}
                 ELSE failures
  /\ UNCHANGED <<mode, arguments, attempts, candidates, values, answer,
                 runs>>

\* The dispatch raises; only ParallelAEM catches it.
Raise(t) ==
  /\ mode = "running"
  /\ at[t] = "running"
  /\ at' = [at EXCEPT ![t] = "failed"]
  /\ IF method = "parallel"
     THEN /\ failures' = failures \cup {[task |-> t, named |-> FALSE,
                                         worker |-> "parallel_executor"]}
          /\ UNCHANGED mode
     ELSE /\ mode' = "raised"
          /\ UNCHANGED failures
  /\ UNCHANGED <<arguments, attempts, candidates, values, answer, runs>>

\* Mutant of Drained: the pool is not waited for.
DrainedEarly == Listed = In("done") \/ In("failed") # {}

\* The loop is over, or every future of the pool has completed.
Drained == Listed = In("done") \cup In("failed") \/ Stopped

\* The AEMResult is built from results and returned.
ReturnAnswer ==
  /\ mode = "running"
  /\ Drained
  /\ mode' = "returned"
  /\ answer' = [success   |-> In("failed") = {},
                completed |-> Cardinality(DOMAIN values),
                total     |-> Cardinality(Listed),
                failed    |-> {f.task : f \in {g \in failures : g.named}},
                workers   |-> {f.worker : f \in failures}]
  /\ UNCHANGED <<arguments, at, attempts, candidates, values, failures,
                 runs>>

\* The steps of a call in progress.
ListStep ==
  \/ EnterLoop
  \/ \E t \in Name : \/ StartListed(t)
                     \/ FindCandidates(t)
                     \/ \E w \in Worker : TryWorker(t, w) \/ FailBy(t, w)
                     \/ Succeed(t)
                     \/ Unserved(t)
                     \/ Raise(t)
  \/ ReturnAnswer

Call ==
  /\ mode = "idle"
  /\ \E c \in Calls : CallMethod(c.method, c.place, c.priority, c.excluded)

Next == Call \/ ListStep

Spec == Init /\ [][Next]_listVars

-----------------------------------------------------------------------------
(***************************************************************************)
(* The methods that take one task after another give a task to a worker    *)
(* only when every task before it has succeeded; PriorityAEM's order is    *)
(* "from highest priority to lowest", and the list's among equals.         *)
(***************************************************************************)
Precedes(u, t) ==
  \/ method = "priority" /\ priority[u] > priority[t]
  \/ (method = "priority" => priority[u] = priority[t]) /\ place[u] < place[t]

OrderKept ==
  method # "parallel" =>
    \A t, u \in Listed : runs[t] > 0 /\ Precedes(u, t) => at[u] = "done"

(***************************************************************************)
(* No method gives a task to a worker more often than it says: RetryAEM    *)
(* max_retries times after the first, FallbackAEM once per worker that is  *)
(* not excluded, the others once.                                          *)
(***************************************************************************)
AttemptsBounded ==
  \A t \in Name :
    runs[t] <= CASE method = "retry"    -> MaxRetries + 1
                 [] method = "fallback" -> Cardinality(Worker \ excluded)
                 [] OTHER               -> 1

(***************************************************************************)
(* The loops of the list methods as a whole: what they count and collect   *)
(* keeps its type, in the order and within the attempts stated above.      *)
(***************************************************************************)
DispatchInOrder == TypeOK /\ OrderKept /\ AttemptsBounded

(***************************************************************************)
(* The AEMResult tells what happened: it counts the tasks that succeeded,  *)
(* reports success exactly if all did, names as failed only tasks that     *)
(* failed, and leaves no dispatch running.  After a failure ParallelAEM    *)
(* has settled every task, and the others have not touched the tasks that  *)
(* come after the failed one.                                              *)
(***************************************************************************)
AnswerTruthful ==
  mode = "returned" =>
    /\ answer.success <=> \A t \in Listed : at[t] = "done"
    /\ answer.completed = Cardinality(In("done"))
    /\ answer.total = Cardinality(Listed)
    /\ answer.failed \subseteq In("failed")
    /\ In("running") = {}
    /\ IF method = "parallel"
       THEN In("waiting") = {}
       ELSE \A t, u \in Listed :
              at[u] = "failed" /\ Precedes(u, t) => runs[t] = 0

-----------------------------------------------------------------------------
\* What a call has made of each task, for the abstract specification.
TaskStatus ==
  [t \in Name |->
     CASE at[t] = "running" -> "active"
       [] at[t] \in {"done", "failed"} -> at[t]
       [] OTHER -> IF runs[t] > 0 THEN "failed" ELSE "waiting"]

CallVerdict ==
  CASE mode \in {"idle", "called"}     -> "none"
    [] mode \in {"running", "raised"} -> "open"
    [] OTHER -> IF answer.success THEN "success" ELSE "failure"

Contract == INSTANCE PlanExecution WITH
  plan    <- [tasks |-> Listed, deps |-> [t \in Name |-> {}], extra |-> 0],
  safe    <- IF method \in {"retry", "fallback"} THEN Listed ELSE {},
  status  <- TaskStatus,
  verdict <- CallVerdict

(***************************************************************************)
(* A call does what executing a plan without dependencies promises; only   *)
(* RetryAEM and FallbackAEM repeat a task, and only one that has failed.   *)
(***************************************************************************)
ImplementsContract == Contract!Spec
=============================================================================
