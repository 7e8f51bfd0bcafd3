---------------------------- MODULE WorkerDispatch ----------------------------
(***************************************************************************)
(* WorkerScheduler.dispatch (execution/scheduler.py) and Worker.execute    *)
(* (execution/workers.py) as the threads of an execution method run them:  *)
(* no lock is taken, so the threads share the workers' flags and counters, *)
(* the round-robin index and the dispatch history, and a control thread    *)
(* may disable and enable workers meanwhile.                               *)
(*                                                                         *)
(* A step is one statement or one turn of a loop.  An augmented assignment *)
(* such as `tasks_started += 1' is one step: CPython 3.11 switches threads *)
(* at calls and at the end of loop bodies only.                            *)
(***************************************************************************)
EXTENDS Integers, FiniteSets, Sequences

CONSTANTS
  Thread,        \* threads that dispatch tasks
  Worker,        \* registered workers
  Order,         \* the workers in the order they were registered
  NoHandler,     \* workers registered without a handler
  Fits,          \* for each kind of task, the workers whose task types and
                 \* capabilities fit it
  Strategies,    \* bound: the scheduling strategies set meanwhile
  Switched,      \* bound: the workers disabled and enabled meanwhile
  MaxDispatches  \* bound: how many tasks each thread dispatches

\* A program has finitely many threads, and the default catalogue registers
\* workers: without any, dispatch() returns before it looks at one.
ASSUME ThreadAssumption == IsFiniteSet(Thread)
ASSUME OrderAssumption ==
  /\ Order \in Seq(Worker)
  /\ Order # << >>
  /\ \A w \in Worker : \E i \in 1 .. Len(Order) : Order[i] = w
ASSUME FitsAssumption == Fits \subseteq SUBSET Worker /\ NoHandler \subseteq Worker
ASSUME SwitchedAssumption == Switched \subseteq Worker
ASSUME StrategyAssumption ==
  /\ Strategies # {}
  /\ Strategies \subseteq {"round_robin", "least_busy", "priority"}
ASSUME DispatchAssumption == MaxDispatches \in [Thread -> Nat]

VARIABLES
  enabled,     \* Worker.enabled
  status,      \* Worker.status
  started,     \* WorkerMetrics.tasks_started
  completed,   \* WorkerMetrics.tasks_completed
  failed,      \* WorkerMetrics.tasks_failed
  strategy,    \* WorkerScheduler.strategy
  index,       \* _round_robin_index
  records,     \* _history: records of successes and failures per worker
  pc,          \* where each thread is in dispatch()
  fits,        \* the workers that fit the thread's task
  listed,      \* the list the thread iterates: registry, then list_enabled()
  candidates,  \* the list it builds
  weights,     \* loads of the candidates weighed so far
  chosen,      \* the worker selected
  success,     \* WorkerResult.success
  outcome,     \* how the thread's last dispatch ended
  count,       \* dispatches made by each thread
  control,     \* the operation the control thread is in the middle of
  steady       \* history: fitting workers usable since the dispatch began

workerVars == <<enabled, status>>
metrics    == <<started, completed, failed>>
selection  == <<fits, listed, candidates, weights>>
scheduler  == <<strategy, index>>
vars == <<workerVars, metrics, scheduler, records, pc, selection, chosen, success,
          outcome, count, control, steady>>

Status == {"idle", "running", "success", "failed", "disabled"}

Place == {"returned", "listing", "screening", "picking", "advancing",
          "least_busy", "priority", "checking", "entering", "marking", "counting", "handling",
          "tallying", "settling", "leaving", "resting", "recording"}

Control == [op: {"none", "disable", "enable"}, worker: Worker]

TypeOK ==
  /\ enabled \in [Worker -> BOOLEAN]
  /\ status \in [Worker -> Status]
  /\ started \in [Worker -> Nat]
  /\ completed \in [Worker -> Nat]
  /\ failed \in [Worker -> Nat]
  /\ strategy \in Strategies
  /\ index \in Nat
  /\ records \in [Worker -> [{"success", "failure"} -> Nat]]
  /\ pc \in [Thread -> Place]
  /\ fits \in [Thread -> SUBSET Worker]
  /\ listed \in [Thread -> Seq(Worker)]
  /\ candidates \in [Thread -> Seq(Worker)]
  /\ weights \in [Thread -> Seq(Int)]
  /\ chosen \in [Thread -> Worker]
  /\ success \in [Thread -> BOOLEAN]
  /\ outcome \in [Thread -> {"none", "no_worker", "rejected", "result"}]
  /\ count \in [Thread -> Nat]
  /\ \A th \in Thread : count[th] <= MaxDispatches[th]
  /\ control \in Control
  /\ steady \in [Thread -> SUBSET Worker]

-----------------------------------------------------------------------------
\* started - completed - failed
Load(w) == started[w] - completed[w] - failed[w]

\* The flags can_handle looks at.
Usable(w) == enabled[w] /\ status[w] # "disabled"

\* Worker.can_handle(task) of the thread's task
CanHandle(th, w) == Usable(w) /\ w \in fits[th]

Min(S) == CHOOSE n \in S : \A m \in S : n <= m

Go(th, place) == pc' = [pc EXCEPT ![th] = place]

\* dispatch() returns; o tells how.
Return(th, o) ==
  /\ pc' = [pc EXCEPT ![th] = "returned"]
  /\ outcome' = [outcome EXCEPT ![th] = o]

\* The workers usable after this step stay steady, the others do not.
Watch == steady' = [th \in Thread |->
                      IF pc[th] = "returned" THEN steady[th]
                      ELSE {w \in steady[th] : Usable(w)'}]

Init ==
  /\ enabled \in [Worker -> BOOLEAN]
  /\ status = [w \in Worker |-> IF enabled[w] THEN "idle" ELSE "disabled"]
  /\ started = [w \in Worker |-> 0]
  /\ completed = [w \in Worker |-> 0]
  /\ failed = [w \in Worker |-> 0]
  /\ strategy \in Strategies
  /\ index = 0
  /\ records = [w \in Worker |-> [v \in {"success", "failure"} |-> 0]]
  /\ pc = [th \in Thread |-> "returned"]
  /\ fits = [th \in Thread |-> {}]
  /\ listed = [th \in Thread |-> << >>]
  /\ candidates = [th \in Thread |-> << >>]
  /\ weights = [th \in Thread |-> << >>]
  /\ chosen = [th \in Thread |-> Order[1]]
  /\ success = [th \in Thread |-> FALSE]
  /\ outcome = [th \in Thread |-> "none"]
  /\ count = [th \in Thread |-> 0]
  /\ control = [op |-> "none", worker |-> Order[1]]
  /\ steady = [th \in Thread |-> {}]

\* dispatch(task) is called: select_worker, find_candidates, list_enabled.
Begin(th) ==
  /\ pc[th] = "returned"
  /\ count[th] < MaxDispatches[th]
  /\ count' = [count EXCEPT ![th] = @ + 1]
  /\ \E F \in Fits :
       /\ fits' = [fits EXCEPT ![th] = F]
       /\ steady' = [steady EXCEPT ![th] = {w \in F : Usable(w)}]
  /\ listed' = [listed EXCEPT ![th] = Order]
  /\ candidates' = [candidates EXCEPT ![th] = << >>]
  /\ weights' = [weights EXCEPT ![th] = << >>]
  /\ Go(th, "listing")
  /\ UNCHANGED <<workerVars, metrics, scheduler, records, chosen, success,
                 outcome, control>>

\* The loop of the thread appends w to the list it builds, or skips it.
Visit(th, keep) ==
  /\ listed[th] # << >>
  /\ listed' = [listed EXCEPT ![th] = Tail(@)]
  /\ candidates' = IF keep THEN [candidates EXCEPT ![th] =
                                   Append(@, Head(listed[th]))]
                           ELSE candidates
  /\ UNCHANGED <<pc, fits, weights, outcome>>

\* list_enabled() is complete: find_candidates iterates it.
Listed(th) ==
  /\ listed[th] = << >>
  /\ listed' = [listed EXCEPT ![th] = candidates[th]]
  /\ candidates' = [candidates EXCEPT ![th] = << >>]
  /\ Go(th, "screening")
  /\ UNCHANGED <<fits, weights, outcome>>

\* Mutant of ListEnabled: the last worker of the registry is not listed.
ListEnabledShort(th) ==
  /\ pc[th] = "listing"
  /\ Visit(th, enabled[Head(listed[th])] /\ Len(listed[th]) > 1) \/ Listed(th)
  /\ UNCHANGED <<workerVars, metrics, scheduler, records, chosen, success, count,
                 control, steady>>

\* registry.list_enabled()
ListEnabled(th) ==
  /\ pc[th] = "listing"
  /\ Visit(th, enabled[Head(listed[th])]) \/ Listed(th)
  /\ UNCHANGED <<workerVars, metrics, scheduler, records, chosen, success, count,
                 control, steady>>

\* The candidates are complete; dispatch() returns if there are none.
Screened(th) ==
  /\ listed[th] = << >>
  /\ IF candidates[th] = << >>
     THEN Return(th, "no_worker")
     ELSE Go(th, "picking") /\ UNCHANGED outcome
  /\ UNCHANGED selection

\* The loop of find_candidates.
Screen(th) ==
  /\ pc[th] = "screening"
  /\ Visit(th, CanHandle(th, Head(listed[th]))) \/ Screened(th)
  /\ UNCHANGED <<workerVars, metrics, scheduler, records, chosen, success, count,
                 control, steady>>

\* candidates[index % len(candidates)], before the index is advanced.
PickRoundRobin(th) ==
  /\ pc[th] = "picking"
  /\ strategy = "round_robin"
  /\ chosen' = [chosen EXCEPT ![th] =
                  candidates[th][1 + (index % Len(candidates[th]))]]
  /\ Go(th, "advancing")
  /\ UNCHANGED <<workerVars, metrics, scheduler, records, selection, success,
                 outcome, count, control, steady>>

AdvanceIndex(th) ==
  /\ pc[th] = "advancing"
  /\ index' = index + 1
  /\ Go(th, "checking")
  /\ UNCHANGED <<workerVars, metrics, strategy, records, selection, chosen, success,
                 outcome, count, control, steady>>

\* The two other strategies weigh the candidates.
StartWeighing(th) ==
  /\ pc[th] = "picking"
  /\ strategy # "round_robin"
  /\ Go(th, strategy)
  /\ UNCHANGED <<workerVars, metrics, scheduler, records, selection, chosen,
                 success, outcome, count, control, steady>>

\* min() reads the load of one candidate after another.
Weigh(th) ==
  /\ pc[th] \in {"least_busy", "priority"}
  /\ Len(weights[th]) < Len(candidates[th])
  /\ weights' = [weights EXCEPT ![th] =
                   Append(@, Load(candidates[th][Len(@) + 1]))]
  /\ UNCHANGED <<workerVars, metrics, scheduler, records, pc, fits, listed,
                 candidates, chosen, success, outcome, count, control, steady>>

\* The first candidate of the least load; PRIORITY looks at the average
\* execution times of those next, which are not modelled.
PickLeastBusy(th) ==
  LET Least == {i \in 1 .. Len(weights[th]) :
                  \A j \in 1 .. Len(weights[th]) :
                    weights[th][i] <= weights[th][j]}
  IN  /\ pc[th] \in {"least_busy", "priority"}
      /\ Len(weights[th]) = Len(candidates[th])
      /\ \E i \in Least :
           /\ pc[th] = "least_busy" => i = Min(Least)
           /\ chosen' = [chosen EXCEPT ![th] = candidates[th][i]]
      /\ Go(th, "checking")
      /\ UNCHANGED <<workerVars, metrics, scheduler, records, selection,
                     success, outcome, count, control, steady>>

\* dispatch_to_worker asks can_handle() again.
Check(th) ==
  /\ pc[th] = "checking"
  /\ IF CanHandle(th, chosen[th])
     THEN Go(th, "entering") /\ UNCHANGED outcome
     ELSE Return(th, "rejected")
  /\ UNCHANGED <<workerVars, metrics, scheduler, records, selection, chosen,
                 success, count, control, steady>>

\* Worker.execute: disabled by now, cannot handle the task by now, or no
\* handler; otherwise the task is run.
Enter(th) ==
  /\ pc[th] = "entering"
  /\ IF CanHandle(th, chosen[th]) /\ chosen[th] \notin NoHandler
     THEN Go(th, "marking") /\ UNCHANGED success
     ELSE /\ Go(th, "recording")
          /\ success' = [success EXCEPT ![th] = FALSE]
  /\ UNCHANGED <<workerVars, metrics, scheduler, records, selection, chosen,
                 outcome, count, control, steady>>

\* self.status = value
SetStatus(w, value) == status' = [status EXCEPT ![w] = value]

\* A step of the thread that writes the status of its worker.
WriteStatus(th, from, value, to) ==
  /\ pc[th] = from
  /\ SetStatus(chosen[th], value)
  /\ Go(th, to)
  /\ UNCHANGED <<enabled, metrics, scheduler, records, selection, chosen, success,
                 outcome, count, control>>
  /\ Watch

MarkRunning(th) == WriteStatus(th, "marking", "running", "counting")

CountStarted(th) ==
  /\ pc[th] = "counting"
  /\ started' = [started EXCEPT ![chosen[th]] = @ + 1]
  /\ Go(th, "handling")
  /\ UNCHANGED <<workerVars, completed, failed, scheduler, records, selection,
                 chosen, success, outcome, count, control, steady>>

\* The handler returns or raises.
Handle(th) ==
  /\ pc[th] = "handling"
  /\ \E ok \in BOOLEAN : success' = [success EXCEPT ![th] = ok]
  /\ Go(th, "tallying")
  /\ UNCHANGED <<workerVars, metrics, scheduler, records, selection, chosen,
                 outcome, count, control, steady>>

\* Mutant of Tally: a failure is not counted.
TallyLost(w, ok) ==
  /\ completed' = IF ok THEN [completed EXCEPT ![w] = @ + 1] ELSE completed
  /\ UNCHANGED failed

\* Mutant of Tally: a failure is counted as a completed task.
TallyCompleted(w, ok) ==
  /\ completed' = [completed EXCEPT ![w] = @ + 1]
  /\ UNCHANGED failed

\* tasks_completed or tasks_failed is incremented.
Tally(w, ok) ==
  IF ok THEN completed' = [completed EXCEPT ![w] = @ + 1] /\ UNCHANGED failed
        ELSE failed' = [failed EXCEPT ![w] = @ + 1] /\ UNCHANGED completed

CountFinished(th) ==
  /\ pc[th] = "tallying"
  /\ Tally(chosen[th], success[th])
  /\ Go(th, "settling")
  /\ UNCHANGED <<workerVars, started, scheduler, records, selection, chosen,
                 success, outcome, count, control, steady>>

FinalStatus(ok) == IF ok THEN "success" ELSE "failed"

MarkFinished(th) ==
  WriteStatus(th, "settling", FinalStatus(success[th]), "leaving")

\* Mutant of MustRest: the status is reset after a success only.
MustRestSuccess(th) == enabled[chosen[th]] /\ success[th]

\* The condition of the finally clause.
MustRest(th) == enabled[chosen[th]]

\* finally: if self.enabled
Leave(th) ==
  /\ pc[th] = "leaving"
  /\ Go(th, IF MustRest(th) THEN "resting" ELSE "recording")
  /\ UNCHANGED <<workerVars, metrics, scheduler, records, selection, chosen,
                 success, outcome, count, control, steady>>

Rest(th) == WriteStatus(th, "resting", "idle", "recording")

\* DispatchRecord.success
Verdict(ok) == IF ok THEN "success" ELSE "failure"

\* A DispatchRecord is appended and dispatch() returns.
Record(th) ==
  /\ pc[th] = "recording"
  /\ records' = [records EXCEPT ![chosen[th]][Verdict(success[th])] = @ + 1]
  /\ Return(th, "result")
  /\ UNCHANGED <<workerVars, metrics, scheduler, selection, chosen, success,
                 count, control, steady>>

\* Worker.disable() and Worker.enable(): two statements each.
StartControl(op, w) ==
  /\ control.op = "none"
  /\ control' = [op |-> op, worker |-> w]
  /\ enabled' = [enabled EXCEPT ![w] = (op = "enable")]
  /\ UNCHANGED <<status, metrics, scheduler, records, pc, selection, chosen,
                 success, outcome, count>>
  /\ Watch

EndControl ==
  /\ control.op # "none"
  /\ control' = [control EXCEPT !.op = "none"]
  /\ SetStatus(control.worker,
               IF control.op = "enable" THEN "idle" ELSE "disabled")
  /\ UNCHANGED <<enabled, metrics, scheduler, records, pc, selection, chosen,
                 success, outcome, count>>
  /\ Watch

\* set_strategy()
SetStrategy(s) ==
  /\ strategy' = s
  /\ UNCHANGED <<workerVars, metrics, index, records, pc, selection, chosen,
                 success, outcome, count, control, steady>>

\* The steps of a dispatch in progress.
DispatchStep(th) ==
  \/ ListEnabled(th) \/ Screen(th)
  \/ PickRoundRobin(th) \/ AdvanceIndex(th)
  \/ StartWeighing(th) \/ Weigh(th) \/ PickLeastBusy(th)
  \/ Check(th) \/ Enter(th)
  \/ MarkRunning(th) \/ CountStarted(th) \/ Handle(th)
  \/ CountFinished(th) \/ MarkFinished(th) \/ Leave(th) \/ Rest(th)
  \/ Record(th)

Next ==
  \/ \E th \in Thread : Begin(th) \/ DispatchStep(th)
  \/ \E w \in Switched, op \in {"disable", "enable"} : StartControl(op, w)
  \/ EndControl
  \/ \E s \in Strategies : SetStrategy(s)

Spec == Init /\ [][Next]_vars

-----------------------------------------------------------------------------
\* The threads that have chosen w and are at one of the places P.
At(w, P) == {th \in Thread : chosen[th] = w /\ pc[th] \in P}

(***************************************************************************)
(* The load the strategies and worker_load() compute from three counters   *)
(* that all threads update is the number of threads running the worker's   *)
(* handler at that moment, never less and never a leftover of a failure.   *)
(***************************************************************************)
Handling == {"handling", "tallying"}

LoadExact == \A w \in Worker : Load(w) = Cardinality(At(w, Handling))

(***************************************************************************)
(* The metrics and the history agree: a worker's completed tasks are the   *)
(* successes in its records and the ones about to be recorded, and its     *)
(* failed tasks are all recorded as failures.                              *)
(***************************************************************************)
Finished == {"settling", "leaving", "resting", "recording"}

Unrecorded(w, verdict) ==
  {th \in At(w, Finished) : Verdict(success[th]) = verdict}

HistoryMatchesMetrics ==
  \A w \in Worker :
    /\ completed[w] =
         records[w]["success"] + Cardinality(Unrecorded(w, "success"))
    /\ failed[w] <=
         records[w]["failure"] + Cardinality(Unrecorded(w, "failure"))

(***************************************************************************)
(* What WorkerMetrics and WorkerRegistry count, without a lock, is what    *)
(* the threads did and do: no update is lost or left behind.               *)
(***************************************************************************)
CountersExact == TypeOK /\ LoadExact /\ HistoryMatchesMetrics

(***************************************************************************)
(* Whatever was disabled, enabled and run in between, a worker that is     *)
(* enabled when nobody is using or switching it is idle: no thread leaves  *)
(* it marked as running, finished or disabled.                             *)
(***************************************************************************)
Executing == {"marking", "counting", "handling", "tallying", "settling",
              "leaving", "resting"}

IdleWhenQuiet ==
  \A w \in Worker :
    /\ enabled[w]
    /\ At(w, Executing) = {}
    /\ ~(control.op # "none" /\ control.worker = w)
    => status[w] = "idle"

(***************************************************************************)
(* "No capable worker is available" and "Worker cannot handle task" are    *)
(* answered only if no worker that fits, or not the selected one, was      *)
(* usable throughout the dispatch.                                         *)
(***************************************************************************)
RefusalJustified ==
  \A th \in Thread : pc[th] = "returned" =>
    /\ outcome[th] = "no_worker" => steady[th] = {}
    /\ outcome[th] = "rejected" => chosen[th] \notin steady[th]
=============================================================================
