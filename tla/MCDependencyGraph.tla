------------------------- MODULE MCDependencyGraph -------------------------
(***************************************************************************)
(* Instances of DependencyGraph for TLC.                                   *)
(***************************************************************************)
EXTENDS DependencyGraph

CONSTANTS a, b, c, d, value, none, w1

MCRank == [n \in Name |->
             CASE n = a -> 1 [] n = b -> 2 [] n = c -> 3 [] OTHER -> 4]

NoDeps == [n \in Name |-> {}]

\* A well-formed and a malformed list around every interesting graph.
Malformed == {[tasks |-> T, deps |-> NoDeps, extra |-> 1] :
                T \in {{}, {a}, {a, b}}}

\* Every plan over three names, cyclic and dangling ones included.
EveryPlan == PlansOver(Name \cap {a, b, c}) \cup Malformed

\* Graphs over four names with several waves, and waves of several tasks.
Edges(E) == [n \in Name |-> {e[2] : e \in {f \in E : f[1] = n}}]
Shapes ==
  {[tasks |-> Name, deps |-> Edges(E), extra |-> 0] :
     E \in {{},
            {<<b, a>>, <<c, a>>, <<d, b>>, <<d, c>>},   \* diamond
            {<<b, a>>, <<c, b>>, <<d, c>>},             \* chain
            {<<b, a>>, <<d, c>>},                       \* two chains
            {<<b, a>>, <<c, b>>},                       \* chain, one task
            {<<d, a>>, <<d, b>>, <<d, c>>}}}            \* join

\* What callers submit.
PlansAndShapes == EveryPlan \cup Shapes

\* Every set of saved outputs, those of unknown or incomplete tasks
\* included; some of them None.
EverySeed == PartialFunction(Name, {value})
               \cup PartialFunction({a, b}, {value, none})
=============================================================================
