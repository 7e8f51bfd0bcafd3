--------------------------- MODULE MCListExecution ---------------------------
(***************************************************************************)
(* Instances of ListExecution for TLC.                                     *)
(***************************************************************************)
EXTENDS ListExecution, Sequences

CONSTANTS a, b, c, value, none, w1, w2

\* place of a list without repetitions
Places(s) == [t \in {s[i] : i \in DOMAIN s} |->
                CHOOSE i \in DOMAIN s : s[i] = t]

Lists == {Places(s) : s \in {<< >>, <<a>>, <<b, a>>, <<a, b, c>>}}

\* Every method on every list, every priority, every exclusion list.
EveryCall ==
  LET flat == [t \in Name |-> 0]
  IN  [method: Method, place: Lists, priority: {flat}, excluded: {{}}]
        \cup [method: {"priority"}, place: Lists,
              priority: [Name -> {1, 2}], excluded: {{}}]
        \cup [method: {"fallback"}, place: Lists,
              priority: {flat}, excluded: SUBSET {w1, w2, "scheduler"}]
=============================================================================
