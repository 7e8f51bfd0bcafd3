---------------------------- MODULE Subsequences ----------------------------
(* The part of a sequence at given positions, which the segmenter, the      *)
(* sanitizers and the list of sources all select in order, and the order a  *)
(* sort puts a set in, which the ranking of documents needs besides.        *)
EXTENDS FiniteSets, Naturals, Sequences

\* The finite set S as the sequence that the total order R makes of it.
InOrder(S, R) ==
  [k \in 1..Cardinality(S) |->
     CHOOSE x \in S : Cardinality({y \in S : <<y, x>> \in R}) = k]

\* The positions of seq in S, increasing.
Positions(seq, S) ==
  LET taken == S \cap DOMAIN seq
  IN [k \in 1..Cardinality(taken) |->
        CHOOSE x \in taken : Cardinality(taken \cap 1..x) = k]

Picked(seq, S) ==
  LET order == Positions(seq, S) IN [k \in DOMAIN order |-> seq[order[k]]]
=============================================================================
