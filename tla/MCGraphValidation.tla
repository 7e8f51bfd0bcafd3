------------------------- MODULE MCGraphValidation -------------------------
EXTENDS GraphValidation

CONSTANTS a, b, c, d

NoDeps == [n \in Name |-> {}]

\* Every plan over three names, every graph over four names that reaches
\* the search, and lists with an empty or repeated name.
EveryPlan ==
  PlansOver({a, b, c})
    \cup {p \in [tasks: {Name}, deps: [Name -> SUBSET Name], extra: {0}] :
            \A n \in Name : n \notin p.deps[n]}
    \cup {[tasks |-> T, deps |-> NoDeps, extra |-> 1] : T \in SUBSET {a, b}}
=============================================================================
