--------------------------- MODULE PlanExecution ---------------------------
(***************************************************************************)
(* What executing a plan promises, whatever strategy carries it out: only  *)
(* a valid plan is opened; a task starts when its dependencies are done; a *)
(* finished task is not run again, except that one that failed may be when *)
(* repeating it is declared safe; nothing runs on once the plan has been   *)
(* answered, and the answer is a success only when every task is done.     *)
(***************************************************************************)
EXTENDS TaskGraph

VARIABLES
  plan,       \* the plan submitted
  safe,       \* the tasks that may be repeated after a failure
  status,     \* what has become of each task
  verdict     \* "none" before the plan is opened, "open" while it runs

vars == <<plan, safe, status, verdict>>

Status == {"waiting", "active", "done", "failed"}

TypeOK ==
  /\ plan \in Plan
  /\ safe \in SUBSET Name
  /\ status \in [Name -> Status]
  /\ verdict \in {"none", "open", "success", "failure"}

Init ==
  /\ plan \in Plan
  /\ safe \in SUBSET Name
  /\ status = [t \in Name |-> "waiting"]
  /\ verdict = "none"

\* A caller submits a plan.
Submit ==
  /\ verdict = "none"
  /\ plan' \in Plan
  /\ safe' \in SUBSET Name
  /\ UNCHANGED <<status, verdict>>

\* The plan is found valid; the tasks in D are done already.
Open(D) ==
  /\ verdict = "none"
  /\ Valid(plan)
  /\ ClosedUnder(plan, D)
  /\ status' = [t \in Name |-> IF t \in D THEN "done" ELSE "waiting"]
  /\ verdict' = "open"
  /\ UNCHANGED <<plan, safe>>

\* The plan is not opened.
Refuse ==
  /\ verdict = "none"
  /\ verdict' \in {"success", "failure"}
  /\ verdict' = "success" => Empty(plan)
  /\ UNCHANGED <<plan, safe, status>>

Start(t) ==
  /\ verdict = "open"
  /\ status[t] = "waiting" \/ (status[t] = "failed" /\ t \in safe)
  /\ \A u \in plan.deps[t] : status[u] = "done"
  /\ status' = [status EXCEPT ![t] = "active"]
  /\ UNCHANGED <<plan, safe, verdict>>

Finish(t) ==
  /\ status[t] = "active"
  /\ \E s \in {"done", "failed"} : status' = [status EXCEPT ![t] = s]
  /\ UNCHANGED <<plan, safe, verdict>>

\* No worker can be found for a task that has not started.
Abandon(t) ==
  /\ verdict = "open"
  /\ status[t] = "waiting"
  /\ status' = [status EXCEPT ![t] = "failed"]
  /\ UNCHANGED <<plan, safe, verdict>>

Close(v) ==
  /\ verdict = "open"
  /\ \A t \in Name : status[t] # "active"
  /\ v = "success" => \A t \in plan.tasks : status[t] = "done"
  /\ verdict' = v
  /\ UNCHANGED <<plan, safe, status>>

Next ==
  \/ Submit
  \/ \E D \in SUBSET plan.tasks : Open(D)
  \/ Refuse
  \/ \E t \in Name : Start(t)
  \/ \E t \in Name : Finish(t)
  \/ \E t \in Name : Abandon(t)
  \/ \E v \in {"success", "failure"} : Close(v)

Spec == Init /\ [][Next]_vars
=============================================================================
