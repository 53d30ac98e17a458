----------------------------- MODULE MCDataFlow -----------------------------
(***************************************************************************)
(* Blocks over two variables x and y and an input a, of three bits: the    *)
(* fewest that an assignment can split in the middle, and that two ranges  *)
(* can overlap in part.                                                    *)
(***************************************************************************)
EXTENDS DataFlow

Path(s, lo, hi) == [k |-> "lsp", sym |-> s, lo |-> lo, hi |-> hi]
Whole(s) == Path(s, 0, 2)
Bit(s, b) == Path(s, b, b)
Concat(p, q) == [k |-> "concat", ops |-> <<p, q>>]
Op(w, p, q) == [k |-> "op", w |-> w, ops |-> <<p, q>>]
Conv(w, p) == [k |-> "conv", w |-> w, op |-> p, signed |-> FALSE]
SignExtend(w, p) == [k |-> "conv", w |-> w, op |-> p, signed |-> TRUE]
Cond(c, p, q) == [k |-> "cond", pred |-> c, left |-> p, right |-> q]
Repl(n, p) == [k |-> "repl", count |-> n, known |-> TRUE, op |-> p]
Const(w) == [k |-> "const", value |-> "k", w |-> w]

Blocking(l, r) == [lhs |-> l, rhs |-> r, blocking |-> TRUE, force |-> FALSE]
NonBlocking(l, r) == [lhs |-> l, rhs |-> r, blocking |-> FALSE, force |-> FALSE]
Force(l, r) == [lhs |-> l, rhs |-> r, blocking |-> TRUE, force |-> TRUE]

MCSymbols == {"x", "y", "a"}
MCCuts == [s \in MCSymbols |-> IF s = "y" THEN {1} ELSE {}]

\* For joins and reads: whole, overlapping and single ranges of x are
\* written, blocking and not, and read.
JoinAssignments ==
  { Blocking(Whole("x"), Whole("a")),
    Blocking(Path("x", 0, 1), Path("a", 1, 2)),
    Blocking(Path("x", 1, 2), Path("x", 0, 1)),
    Blocking(Bit("x", 1), Bit("a", 0)),
    Blocking(Bit("x", 0), Op(1, Whole("x"), Bit("a", 0))),
    Blocking(Whole("y"), Whole("x")),
    NonBlocking(Path("x", 1, 2), Path("x", 1, 2)),
    NonBlocking(Bit("x", 1), Bit("a", 2)) }

\* For alignment: every kind of expression, and a legacy assignment.
AlignedAssignments ==
  { Blocking(Whole("x"), Op(3, Whole("x"), Bit("a", 0))),
    Blocking(Whole("x"), SignExtend(3, Bit("y", 1))),
    Blocking(Whole("y"), Concat(Cond(Bit("a", 0), Bit("x", 1), Bit("a", 1)),
                                Path("x", 1, 2))),
    Blocking(Concat(Bit("y", 0), Path("x", 1, 2)), Repl(3, Bit("y", 1))),
    Blocking(Whole("y"), Conv(3, Path("x", 1, 2))),
    Blocking(Path("y", 0, 1), Conv(2, Const(4))),
    Blocking(Whole("y"), Op(1, Whole("x"), Const(1))),
    NonBlocking(Whole("x"), Op(3, Whole("y"), Whole("x"))),
    NonBlocking(Path("y", 1, 2), Path("x", 0, 1)),
    Force(Whole("x"), Whole("y")) }

\* One block that mixes the former, and one for each of the latter.
MCBlocks == {JoinAssignments} \cup {{a} : a \in AlignedAssignments}

MCExpressions == {Op(1, Bit("x", 1), Bit("y", 0))}

If(e) == [kind |-> "if", constant |-> FALSE, value |-> FALSE, expr |-> e]
Case(e) == [kind |-> "case", constant |-> FALSE, value |-> FALSE, expr |-> e]
Constant(kind, value) ==
  [kind |-> kind, constant |-> TRUE, value |-> value, expr |-> Const(1)]

MCConditions ==
  {If(Bit("x", 1)), Case(Bit("a", 1)), Constant("if", FALSE), Constant("case", TRUE)}
=============================================================================
