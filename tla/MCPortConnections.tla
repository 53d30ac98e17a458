------------------------- MODULE MCPortConnections -------------------------
(***************************************************************************)
(* top, with inputs a, b (one bit) and v (two) and outputs p, q, w (two)   *)
(* and u (three), has an instance of mid, with ports i and o of three      *)
(* bits, which may have one of leaf, with ports x and y.                   *)
(***************************************************************************)
EXTENDS PortConnections

Path(s, lo, hi) == [k |-> "lsp", sym |-> s, lo |-> lo, hi |-> hi]
Bit(s, b) == Path(s, b, b)
Concat(ops) == [k |-> "concat", ops |-> ops]
Op(w, ops) == [k |-> "op", w |-> w, ops |-> ops]
Extend(w, e, sign) == [k |-> "conv", w |-> w, op |-> e, signed |-> sign]
Repl(n, e) == [k |-> "repl", count |-> n, known |-> TRUE, op |-> e]
Cond(c, l, r) == [k |-> "cond", pred |-> c, left |-> l, right |-> r]
Const(w) == [k |-> "const", value |-> "k", w |-> w]
Assign(l, r) == [lhs |-> l, rhs |-> r]

a == Bit("a", 0)
b == Bit("b", 0)
v == Path("v", 0, 1)

\* What top connects to mid's input and output.
InActuals ==
  { Concat(<<a, v>>), Concat(<<Bit("v", 0), b, Bit("v", 1)>>),
    Concat(<<Const(1), Repl(2, b)>>), Extend(3, v, FALSE), Extend(3, v, TRUE),
    Op(3, <<v, a>>), Cond(b, Concat(<<a, v>>), Concat(<<v, b>>)) }
OutActuals ==
  { NoExpr, Path("u", 0, 2), Concat(<<Bit("p", 0), Path("w", 0, 1)>>),
    Concat(<<Bit("w", 0), Bit("q", 0), Bit("w", 1)>>) }

\* What mid contains: assignments, and a leaf of width w with its actuals.
Body(assigns, w, x, y) == [assigns |-> assigns, w |-> w, x |-> x, y |-> y]
I == Path("i", 0, 2)
O == Path("o", 0, 2)
Bodies ==
  { Body(<<Assign(O, I)>>, 1, NoExpr, NoExpr),
    Body(<<Assign(Path("t", 0, 2), I),
           Assign(O, Concat(<<Bit("t", 0), Path("t", 1, 2)>>))>>, 1, Const(1), NoExpr),
    Body(<<>>, 3, I, O),
    Body(<<Assign(Bit("o", 0), Op(1, <<Bit("i", 0), Bit("i", 2)>>))>>,
         2, Path("i", 1, 2), Path("o", 1, 2)),
    Body(<<>>, 3, Concat(<<Bit("i", 0), Path("i", 1, 2)>>),
         Concat(<<Path("o", 0, 1), Bit("o", 2)>>)),
    Body(<<>>, 2, Path("i", 0, 1), O) }

Design(resolve, prop, black, in, out, m, inout) ==
  [ resolve |-> resolve, prop |-> prop, black |-> black,
    ports |-> [top |-> <<"a", "b", "v", "p", "q", "w", "u">>,
               mid |-> <<"i", "o">>, leaf |-> <<"x", "y">>],
    children |-> [top |-> <<"mid">>, mid |-> <<"leaf">>, leaf |-> <<>>],
    assigns |-> [top |-> <<>>, mid |-> m.assigns,
                 leaf |-> <<Assign(Path("y", 0, m.w - 1), Path("x", 0, m.w - 1))>>
                          \o IF inout /\ m.w > 1 THEN <<Assign(Bit("x", 1), Const(1))>>
                             ELSE <<>>],
    width |-> [s \in {"a", "b", "v", "p", "q", "w", "u", "i", "o", "t", "x", "y"} |->
                 CASE s \in {"a", "b", "p", "q"} -> 1
                   [] s \in {"v", "w"} -> 2
                   [] s \in {"u", "i", "o", "t"} -> 3
                   [] OTHER -> m.w],
    conn |-> [s \in {"a", "b", "v", "p", "q", "w", "u", "i", "o", "x", "y"} |->
                CASE s = "i" -> in [] s = "o" -> out
                  [] s = "x" -> m.x [] s = "y" -> m.y
                  [] OTHER -> NoExpr],
    dir |-> [s \in {"a", "b", "v", "p", "q", "w", "u", "i", "o", "x", "y"} |->
               CASE s \in {"p", "q", "w", "u", "o", "y"} -> "out"
                 [] s = "x" /\ inout -> "inout"
                 [] OTHER -> "in"] ]

\* An inout port is written inside a black box.
MCDesigns ==
  {Design(resolve, prop, {}, in, out, m, FALSE) :
     resolve \in BOOLEAN, prop \in BOOLEAN, in \in InActuals, out \in OutActuals,
     m \in Bodies}
  \cup {Design(TRUE, prop, {"leaf"}, in, out, m, TRUE) :
          prop \in BOOLEAN, in \in InActuals, out \in OutActuals, m \in Bodies}

\* The options as they are by default, and no sign extension.
DefaultDesigns ==
  {d \in MCDesigns : /\ d.resolve /\ d.prop /\ d.black = {}
                     /\ d.conn["i"] # Extend(3, v, TRUE)}
=============================================================================
