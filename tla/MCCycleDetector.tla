-------------------------- MODULE MCCycleDetector --------------------------
(***************************************************************************)
(* The graphs of the model-checking runs of CycleDetector and, in it, of   *)
(* DepthFirstSearch.                                                       *)
(***************************************************************************)
EXTENDS CycleDetector

\* Every graph on three nodes that has no self-loop but at the first, with
\* no State node or one, and possibly one disabled edge.
Arcs == {<<m, n>> \in Nodes \X Nodes : m # n \/ m = 1}

SomeGraphs == [arcs : SUBSET Arcs, disabled : {{}, {<<1, 2>>}},
               states : {{}, {3}}, comb : BOOLEAN]
=============================================================================
