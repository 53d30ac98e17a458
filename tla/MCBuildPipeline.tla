-------------------------- MODULE MCBuildPipeline --------------------------
(***************************************************************************)
(* The design of the model-checking run of BuildPipeline.                  *)
(***************************************************************************)
EXTENDS BuildPipeline

CONSTANTS x, y, q, w

Drv(s, l, h, n) == [op |-> "drive", sym |-> s, lo |-> l, hi |-> h, node |-> n,
                   source |-> Null]
Reg(s, l, h, n) == [op |-> "state", sym |-> s, lo |-> l, hi |-> h, node |-> n,
                   source |-> Null]
Rd(s, l, h, n) == [op |-> "read", sym |-> s, lo |-> l, hi |-> h, node |-> n,
                   source |-> Null]
Lnk(s, l, h, m, n) == [op |-> "link", sym |-> s, lo |-> l, hi |-> h, node |-> n,
                       source |-> m]

\* The input port 1 drives x[0].  The output ports of an instance drive y[1]
\* (node 8) and w[2:1] (node 9), both hooked up to the output port 7.  An
\* unconnected port reads x.
SomePorts ==
  <<Drv(x, 0, 0, 1), Drv(y, 1, 1, 8), Lnk(y, 1, 1, 8, 7),
    Drv(w, 1, 2, 9), Lnk(w, 1, 2, 9, 7), Rd(x, 0, 2, Null)>>

\* Block 1 drives x[2:1] with 2 from a read of y[2:0]; block 2 drives y[0]
\* and y[2] with 3, hooks them up to the output port 7, drives x[2:1] too and
\* may throw; block 3 registers in 6 what 4 computes for q from x[1] and
\* x[2]; block 4 reads x[2:0] and q in 5, and y[2] again in 2.
SomeBlocks ==
  <<<<Rd(y, 0, 2, 2), Drv(x, 1, 2, 2)>>,
    <<Drv(y, 0, 0, 3), Lnk(y, 0, 0, 3, 7), Drv(y, 2, 2, 3), Lnk(y, 2, 2, 3, 7),
      Drv(x, 1, 2, 3)>>,
    <<Rd(x, 1, 1, 4), Rd(x, 2, 2, 4), Reg(q, 0, 2, 6), Lnk(q, 0, 2, 4, 6)>>,
    <<Rd(q, 0, 2, 5), Rd(x, 0, 2, 5), Rd(y, 2, 2, 2)>>>>

\* Ports and registers have bounds: 1, 6 and 7 those of what they drive or
\* hold; 8 is the whole of a one-bit port, 9 of a two-bit port.
Bounded(lo, hi) == [lo |-> lo, hi |-> hi]
SomeBounds ==
  [n \in {1, 6, 7, 8, 9} |->
     CASE n \in {1, 8} -> Bounded(0, 0)
       [] n \in {6, 7} -> Bounded(0, 2)
       [] n = 9 -> Bounded(0, 1)]

SomeFaults == [blocks |-> {2}, targets |-> {5}]
=============================================================================
