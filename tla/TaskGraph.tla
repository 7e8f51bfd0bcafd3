----------------------------- MODULE TaskGraph -----------------------------
(***************************************************************************)
(* The plan a caller submits to an execution method: a list of AEMTask     *)
(* objects, each with a name and the names of the tasks it depends on.     *)
(* Only what the execution methods branch on is kept.                      *)
(***************************************************************************)
EXTENDS Naturals, FiniteSets

CONSTANT Name       \* the names a task or a dependency may carry

(***************************************************************************)
(* tasks: the distinct, non-empty names in the list.                       *)
(* deps:  AEMTask.dependencies of each task, names that may not be tasks   *)
(*        of the plan ({} for a name that is not in the list).             *)
(* extra: the list entries that add no name of their own, because their    *)
(*        name is empty or repeats an earlier one.                         *)
(***************************************************************************)
Plan == [tasks: SUBSET Name, deps: [Name -> SUBSET Name], extra: Nat]

\* len(tasks)
Length(p) == Cardinality(p.tasks) + p.extra

\* Nothing is listed.
Empty(p) == p.tasks = {} /\ p.extra = 0

\* No entry has an empty name or the name of an earlier entry.
WellNamed(p) == p.extra = 0

\* No task names itself, or a name outside the plan, as a dependency.
References(p) ==
  \A t \in p.tasks : t \notin p.deps[t] /\ p.deps[t] \subseteq p.tasks

(***************************************************************************)
(* Reference definition of "no cycle": every non-empty set of tasks has a  *)
(* member none of whose dependencies is in the set.  GraphValidation shows *)
(* that the depth-first search of the code decides exactly this.           *)
(***************************************************************************)
Acyclic(p) ==
  \A S \in SUBSET p.tasks :
    S # {} => \E t \in S : p.deps[t] \cap S = {}

\* Mutant of Valid: the search for cycles is forgotten.
ValidUnsearched(p) == WellNamed(p) /\ References(p)

\* What _validate_graph accepts.
Valid(p) == WellNamed(p) /\ References(p) /\ Acyclic(p)

\* Every dependency of a member of S is a member of S.
ClosedUnder(p, S) == \A t \in S : p.deps[t] \subseteq S

\* All plans whose tasks and dependencies have names in N.
PlansOver(N) ==
  {[tasks |-> T, deps |-> [n \in Name |-> IF n \in T THEN f[n] ELSE {}],
    extra |-> 0] : T \in SUBSET N, f \in [N -> SUBSET N]}
=============================================================================
