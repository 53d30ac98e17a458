-------------------------- MODULE MCDirectedGraph --------------------------
(***************************************************************************)
(* The requests of the model-checking runs of DirectedGraph, over three    *)
(* nodes and two threads.                                                  *)
(***************************************************************************)
EXTENDS DirectedGraph, TLC

CONSTANTS n1, n2, n3, t1, t2

Add(s, t) == [fn |-> "addEdge", source |-> s, target |-> t]
AddNew(s, t) == [fn |-> "addNewEdge", source |-> s, target |-> t]

\* Both threads add edges, none against another's direction; the parallel
\* edges to one target are one thread's work, as the resolver's partition of
\* its queue by target guarantees.
AcyclicRequests ==
  (t1 :> {Add(n1, n2), AddNew(n1, n2), Add(n1, n3), Add(n1, n1)}
   @@ t2 :> {Add(n1, n2), Add(n2, n3), AddNew(n2, n3), AddNew(n2, n2)})

\* Each thread adds the edges to one target, and the two targets feed each
\* other: a combinational loop across two pending references.
ReciprocalRequests == (t1 :> {Add(n2, n1)} @@ t2 :> {Add(n1, n2)})
=============================================================================
