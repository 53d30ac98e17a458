----------------------------- MODULE MCNetlist -----------------------------
(***************************************************************************)
(* A register with its same-named port, an output, a constant, an          *)
(* assignment, a merge and an interface variable, named so that paths      *)
(* share prefixes of letters and of segments.                              *)
(***************************************************************************)
EXTENDS Netlist

Node(kind, path) == [kind |-> kind, path |-> path, lo |-> 0, hi |-> 2]

Top == <<"a">>
MCNodeList ==
  << Node("port", <<"a", "b">>),
     Node("assignment", <<>>),
     Node("state", <<"a", ".", "b">>),
     Node("constant", <<>>),
     Node("port", <<"a", ".", "b">>),
     Node("variable", <<"a", ".", "b", ".", "a">>),
     Node("merge", <<>>) >>

MCBlackBoxes == << <<"a">>, <<"a", ".", "b">> >>

Call(from, to, sym, lo, hi, kind) ==
  [from |-> from, to |-> to, sym |-> sym, lo |-> lo, hi |-> hi, kind |-> kind,
   role |-> "data"]

\* The register feeds the merge by a short way (2) and a long one (6, 5), is
\* fed back and clocked, and is read in two separate bits and as two symbols.
MCCalls ==
  { Call(3, 2, "x", 0, 0, "none"), Call(3, 2, "x", 2, 3, "none"),
    Call(3, 2, "y", 0, 1, "none"), Call(3, 6, "x", 0, 2, "none"),
    Call(6, 5, "y", 1, 2, "none"), Call(5, 7, "y", 0, 2, "none"),
    Call(2, 7, NoSym, 0, 0, "none"), Call(7, 1, "y", 0, 1, "none"),
    Call(4, 2, NoSym, 0, 0, "none"), Call(7, 3, "x", 0, 1, "none"),
    Call(1, 3, "y", 0, 0, "posedge") }

\* Patterns of up to three segments.  `...' is not first, where its dots run
\* into the separator, and no two recursive wildcards are adjacent: both
\* would claim the dot between them.
SegmentPatterns ==
  { <<"a">>, <<"*">>, <<"?">>, <<"a", "*">>, <<"a", "?">>, <<"*", "b">> }
Recursive == { <<"*", "*">>, <<".", ".", ".">> }
MCPatterns ==
  UNION {{p \in [1 .. k -> SegmentPatterns \cup Recursive] :
            /\ p[1] # <<".", ".", ".">>
            /\ \A i \in 1 .. k - 1 : ~({p[i], p[i + 1]} \subseteq Recursive)} :
           k \in 1 .. 3}

MCQueries ==
  { [sym |-> sym, bounds |-> [lo |-> b, hi |-> 3], depth |-> d, limit |-> limit,
     scopes |-> f[1], names |-> f[2]] :
      sym \in {"x", "y"}, b \in {0, 2}, d \in 0 .. 2, limit \in {0, 2},
      f \in { <<{}, {}>>, <<{Top}, {}>>, <<{}, {<<"*", "*", ".", "b">>}>> } }
=============================================================================
