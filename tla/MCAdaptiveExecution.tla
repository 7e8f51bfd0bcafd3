------------------------- MODULE MCAdaptiveExecution -------------------------
(***************************************************************************)
(* Instances of AdaptiveExecution for TLC.                                 *)
(***************************************************************************)
EXTENDS AdaptiveExecution

CONSTANTS a, b, c, value, none, w1, w2

\* c has a lower priority than a and b.
MCRank == [n \in Name |-> CASE n = a -> 1 [] n = b -> 2 [] OTHER -> 3]
MCPriority == [n \in Name |-> IF n = c THEN 1 ELSE 2]

Edges(E) == [n \in Name |-> {e[2] : e \in {f \in E : f[1] = n}}]
PlanOf(T, E, k) == [tasks |-> T, deps |-> Edges(E), extra |-> k]

\* A plan for every strategy, and graphs that are refused.
Strategies ==
  {PlanOf({}, {}, 0), PlanOf({a}, {}, 0), PlanOf({a, b}, {}, 0),
   PlanOf({a, c}, {}, 0), PlanOf({a, b}, {<<b, a>>}, 0),
   PlanOf({a, b}, {<<b, a>>, <<a, b>>}, 0), PlanOf({a, b}, {<<b, a>>}, 1)}

\* Graphs whose recovery leaves work for the resumed run.
Graphs ==
  {PlanOf({a, b, c}, E, 0) : E \in {{<<b, a>>, <<c, b>>},     \* chain
                                    {<<b, a>>, <<c, a>>},     \* fork
                                    {<<c, a>>, <<c, b>>},     \* join
                                    {<<b, a>>}}}

StrategiesAndGraphs == Strategies \cup Graphs
=============================================================================
