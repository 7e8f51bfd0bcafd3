-------------------------- MODULE GraphValidation --------------------------
(***************************************************************************)
(* DependencyGraphAEM._validate_graph (execution/aem.py), step by step:    *)
(* the checks of the names and the references, then the depth-first        *)
(* search `visit' over the dependencies.  DependencyGraph uses its result  *)
(* as the predicate Valid; this module shows that the search computes it.  *)
(***************************************************************************)
EXTENDS TaskGraph, Sequences

CONSTANT Plans      \* the plans submitted

ASSUME PlansAssumption == Plans \subseteq Plan
ASSUME FiniteAssumption == IsFiniteSet(Name)

VARIABLES
  plan,       \* the tasks argument
  verdict,    \* what the call reports, "checking" and "searching" before
  visitState, \* visit_state: 0 for a name not in the dictionary
  path,       \* the activations of `visit', outermost first
  todo,       \* the dependencies each activation has not iterated yet
  roots       \* the names the outer loop has not visited yet

vars == <<plan, verdict, visitState, path, todo, roots>>

Verdict == {"checking", "searching", "accepted",
            "bad_name", "bad_reference", "circular"}

TypeOK ==
  /\ plan \in Plan
  /\ verdict \in Verdict
  /\ visitState \in [Name -> {0, 1, 2}]
  /\ path \in Seq(Name)
  /\ todo \in [Name -> SUBSET Name]
  /\ roots \in SUBSET Name

Init ==
  /\ plan \in Plans
  /\ verdict = "checking"
  /\ visitState = [n \in Name |-> 0]
  /\ path = << >>
  /\ todo = [n \in Name |-> {}]
  /\ roots = {}

\* The loops over the list: an empty or repeated name, a dependency on
\* itself or on a name outside the plan.
CheckList ==
  /\ verdict = "checking"
  /\ verdict' = IF ~WellNamed(plan) THEN "bad_name"
                ELSE IF ~References(plan) THEN "bad_reference"
                ELSE "searching"
  /\ roots' = plan.tasks
  /\ UNCHANGED <<plan, visitState, path, todo>>

Top == path[Len(path)]

\* Mutant of Push: the name is marked finished on entry.
PushFinished(n) ==
  /\ path' = Append(path, n)
  /\ visitState' = [visitState EXCEPT ![n] = 2]
  /\ todo' = [todo EXCEPT ![n] = plan.deps[n]]

\* visit(n) is entered with n not in visit_state.
Push(n) ==
  /\ path' = Append(path, n)
  /\ visitState' = [visitState EXCEPT ![n] = 1]
  /\ todo' = [todo EXCEPT ![n] = plan.deps[n]]

\* The outer loop calls visit(n); a visited name returns at once.
VisitRoot(n) ==
  /\ verdict = "searching"
  /\ path = << >>
  /\ n \in roots
  /\ roots' = roots \ {n}
  /\ IF visitState[n] = 0
     THEN Push(n)
     ELSE UNCHANGED <<path, visitState, todo>>
  /\ UNCHANGED <<plan, verdict>>

\* The innermost activation calls visit(d) for its next dependency; a name
\* that is being visited makes every activation return False.
VisitDependency(d) ==
  /\ verdict = "searching"
  /\ path # << >>
  /\ d \in todo[Top]
  /\ CASE visitState[d] = 1 ->
            /\ verdict' = "circular"
            /\ UNCHANGED <<visitState, path, todo>>
       [] visitState[d] = 2 ->
            /\ todo' = [todo EXCEPT ![Top] = @ \ {d}]
            /\ UNCHANGED <<verdict, visitState, path>>
       [] visitState[d] = 0 ->
            /\ path' = Append(path, d)
            /\ visitState' = [visitState EXCEPT ![d] = 1]
            /\ todo' = [todo EXCEPT ![Top] = @ \ {d}, ![d] = plan.deps[d]]
            /\ UNCHANGED verdict
  /\ UNCHANGED <<plan, roots>>

\* Mutant of FinishVisit: the activation does not return.
FinishVisitStays ==
  /\ verdict = "searching"
  /\ path # << >>
  /\ todo[Top] = {}
  /\ visitState' = [visitState EXCEPT ![Top] = 2]
  /\ UNCHANGED <<plan, verdict, path, todo, roots>>

\* Mutant of FinishVisit: the name is not marked as finished.
FinishVisitUnmarked ==
  /\ verdict = "searching"
  /\ path # << >>
  /\ todo[Top] = {}
  /\ path' = SubSeq(path, 1, Len(path) - 1)
  /\ UNCHANGED <<plan, verdict, visitState, todo, roots>>

\* The innermost activation has iterated its dependencies: return True.
FinishVisit ==
  /\ verdict = "searching"
  /\ path # << >>
  /\ todo[Top] = {}
  /\ visitState' = [visitState EXCEPT ![Top] = 2]
  /\ path' = SubSeq(path, 1, Len(path) - 1)
  /\ UNCHANGED <<plan, verdict, todo, roots>>

Accept ==
  /\ verdict = "searching"
  /\ path = << >>
  /\ roots = {}
  /\ verdict' = "accepted"
  /\ UNCHANGED <<plan, visitState, path, todo, roots>>

Next ==
  \/ CheckList
  \/ \E n \in Name : VisitRoot(n)
  \/ \E d \in Name : VisitDependency(d)
  \/ FinishVisit
  \/ Accept

Spec == Init /\ [][Next]_vars

\* One thread runs the validation to its end.
FairSpec == Spec /\ WF_vars(Next)

-----------------------------------------------------------------------------
\* visit_state is 1 exactly for the names of the active calls of visit, which
\* is what makes meeting such a name a cycle; every variable has its type.
ActiveOnPath ==
  \A n \in Name : visitState[n] = 1 <=> \E i \in 1..Len(path) : path[i] = n

MarksExact == TypeOK /\ ActiveOnPath

(***************************************************************************)
(* Whatever order the interpreter iterates the dependency sets in, an      *)
(* accepted plan is valid, no valid plan is refused, and the reported      *)
(* reason is the true one: _validate_graph decides Valid.                  *)
(***************************************************************************)
VerdictCorrect ==
  /\ verdict = "accepted"      => Valid(plan)
  /\ verdict = "circular"      => ~Acyclic(plan)
  /\ verdict = "bad_name"      => ~WellNamed(plan)
  /\ verdict = "bad_reference" => ~References(plan)

(***************************************************************************)
(* While the search runs, the names marked 2 are closed under dependencies *)
(* and hold no cycle, so nothing has to be visited a second time.          *)
(***************************************************************************)
Finished == {n \in Name : visitState[n] = 2}

FinishedSound ==
  /\ ClosedUnder(plan, Finished)
  /\ \A S \in SUBSET Finished :
       S # {} => \E t \in S : plan.deps[t] \cap S = {}

\* The validation of a finite plan ends.
Ends == <>(verdict \notin {"checking", "searching"})
=============================================================================
