----------------------------- MODULE BitSlices -----------------------------
(***************************************************************************)
(* Bit-aligned decomposition of expressions: BitSliceList and              *)
(* alignSegments (source/BitSliceList.cpp), BitSliceSource                 *)
(* (source/BitSlice.hpp) and the cut hints of CutRegistry.                 *)
(*                                                                         *)
(* An expression is a record whose field k is its kind:                    *)
(*   "lsp"     a value path: symbol sym, bits lo .. hi                     *)
(*   "concat"  operands ops, the most significant first                    *)
(*   "repl"    count copies of op, if the count is known to be constant    *)
(*   "conv"    op converted to width w, sign-extended if signed            *)
(*   "cond"    pred ? left : right                                         *)
(*   "const"   the constant called value, of width w                       *)
(*   "op"      any other operator, of width w over the operands ops        *)
(* A slice list is a sequence of [lo, hi, sources], half open, in the      *)
(* coordinates of the decomposed expression.                               *)
(***************************************************************************)
EXTENDS Integers, Sequences, SequencesExt, FiniteSetsExt

RECURSIVE ExprWidth(_)
ExprWidth(e) ==
  CASE e.k = "lsp"    -> e.hi - e.lo + 1
    [] e.k = "concat" -> FoldLeft(LAMBDA n, op : n + ExprWidth(op), 0, e.ops)
    [] e.k = "repl"   -> e.count * ExprWidth(e.op)
    [] e.k = "cond"   -> Max({ExprWidth(e.left), ExprWidth(e.right)})
    [] OTHER          -> e.w

\* What eval folds, as a set of at most one: a constant, or a conversion of
\* one.  Bits are those of the constant, whatever the width it is given.
RECURSIVE Folded(_)
Folded(e) ==
  CASE e.k = "const" -> {e.value}
    [] e.k = "conv"  -> Folded(e.op)
    [] OTHER         -> {}

IsConstant(e) == Folded(e) # {}

Zero == "zero"  \* the constant of a zero extension

\* The value paths inside an expression: what a visit of it refers to.
RECURSIVE Paths(_)
Paths(e) ==
  CASE e.k = "lsp"   -> {[sym |-> e.sym, lo |-> e.lo, hi |-> e.hi]}
    [] e.k \in {"concat", "op"} -> UNION {Paths(e.ops[n]) : n \in DOMAIN e.ops}
    [] e.k \in {"repl", "conv"} -> Paths(e.op)
    [] e.k = "cond"  -> Paths(e.pred) \cup Paths(e.left) \cup Paths(e.right)
    [] OTHER         -> {}
-----------------------------------------------------------------------------
(***************************************************************************)
(* BitSliceSource.  srcLo is where the source begins in the coordinates of *)
(* the list; it survives every cut of the slice.                           *)
(***************************************************************************)
MakeLsp(e, srcLo) ==
  [k |-> "lsp", sym |-> e.sym, base |-> e.lo, srcLo |-> srcLo]
MakeOpaque(e) == [k |-> "opaque", expr |-> e]
MakePadding == [k |-> "pad"]
MakeConstant(value, srcLo) ==
  [k |-> "const", sym |-> value, base |-> 0, srcLo |-> srcLo]
MakePortNode(n, base, srcLo) ==
  [k |-> "port", node |-> n, base |-> base, srcLo |-> srcLo]

Slice(lo, hi, sources) == [lo |-> lo, hi |-> hi, sources |-> sources]

ListWidth(list) == IF list = <<>> THEN 0 ELSE Last(list).hi

\* pushOpaque, pushConstant: one slice of width w at the end, none if w = 0.
Push(list, w, source) ==
  IF w = 0 THEN list
  ELSE Append(list, Slice(ListWidth(list), ListWidth(list) + w, {source}))

CollectCuts(list) == {0} \cup {list[n].hi : n \in DOMAIN list}

\* The neighbours of a sorted vector of cuts, as pairs.
Gaps(cuts) ==
  LET sorted == SetToSortSeq(cuts, <)
  IN [n \in 1 .. Len(sorted) - 1 |-> <<sorted[n], sorted[n + 1]>>]

\* findSliceContaining, and the sources of what it finds.
SourcesAt(list, bit) ==
  UNION {list[n].sources :
           n \in {m \in DOMAIN list : list[m].lo <= bit /\ bit < list[m].hi}}

\* pushLsp: the path is split at the hints strictly inside its bounds; the
\* parts keep the origin of the whole path.
PushLsp(list, e, hints) ==
  LET at == ListWidth(list)
      inside == {c \in hints : e.lo < c /\ c <= e.hi}
      gaps == Gaps({e.lo, e.hi + 1} \cup inside)
      Part(g) == Slice(at + g[1] - e.lo, at + g[2] - e.lo, {MakeLsp(e, at)})
  IN list \o [n \in DOMAIN gaps |-> Part(gaps[n])]

\* Sources of a conditional's arm move into the frame of the whole list.
Translate(s, offset) ==
  IF s.k \in {"lsp", "port", "const"} THEN [s EXCEPT !.srcLo = @ + offset] ELSE s

\* The arms of a conditional on a common grid of cuts, the predicate a
\* source of every slice.
PushUnified(list, l, r, pred) ==
  LET gaps == Gaps(CollectCuts(l) \cup CollectCuts(r))
      at == ListWidth(list)
      Unified(g) ==
        Slice(at + g[1], at + g[2],
              {Translate(s, at) : s \in SourcesAt(l, g[1]) \cup SourcesAt(r, g[1])}
                \cup {MakeOpaque(pred)})
  IN list \o [n \in DOMAIN gaps |-> Unified(gaps[n])]

\* The operands of a concatenation are appended least significant first.
RECURSIVE BuildInto(_, _, _)
BuildInto(list, e, cuts) ==
  CASE e.k = "lsp" -> PushLsp(list, e, cuts[e.sym])
    [] e.k = "concat" ->
         FoldLeft(LAMBDA out, op : BuildInto(out, op, cuts), list,
                  Reverse(e.ops))
    [] e.k = "repl" /\ e.known ->
         FoldLeft(LAMBDA out, n : BuildInto(out, e.op, cuts), list,
                  [n \in 1 .. e.count |-> n])
    [] IsConstant(e) ->
         Push(list, ExprWidth(e),
              MakeConstant(CHOOSE v \in Folded(e) : TRUE, ListWidth(list)))
    [] e.k = "conv" /\ ~IsConstant(e) /\ e.w >= ExprWidth(e.op) ->
         LET inner == BuildInto(list, e.op, cuts)
             lo == ListWidth(inner)
         IN Push(inner, e.w - ExprWidth(e.op),
                 IF e.signed THEN MakePadding ELSE MakeConstant(Zero, lo))
    [] e.k = "cond" /\ ExprWidth(e.left) = ExprWidth(e.right) ->
         LET l == BuildInto(<<>>, e.left, cuts)
             r == BuildInto(<<>>, e.right, cuts)
         IN IF ListWidth(l) # ListWidth(r)
            THEN Push(list, ExprWidth(e), MakeOpaque(e))
            ELSE PushUnified(list, l, r, e.pred)
    [] OTHER -> Push(list, ExprWidth(e), MakeOpaque(e))

Build(e, cuts) == BuildInto(<<>>, e, cuts)

\* alignSegments: both lists cut at the cuts of both.
AlignSegments(lhs, rhs) ==
  LET gaps == Gaps(CollectCuts(lhs) \cup CollectCuts(rhs))
  IN [n \in DOMAIN gaps |->
        [lo |-> gaps[n][1], hi |-> gaps[n][2],
         lhs |-> SourcesAt(lhs, gaps[n][1]),
         rhs |-> SourcesAt(rhs, gaps[n][1])]]

SegmentRangeWhole(src, seg) ==
  [sym |-> src.sym, lo |-> src.base, hi |-> src.base + seg.hi - seg.lo - 1]

\* The bits of a path or of a constant that a segment covers
\* (driveLhsLspSegment, driveRhsLspSegment and createConstantForSegment).
SegmentRange(src, seg) ==
  LET lo == src.base + (seg.lo - src.srcLo)
  IN [sym |-> src.sym, lo |-> lo, hi |-> lo + (seg.hi - seg.lo) - 1]
-----------------------------------------------------------------------------
(***************************************************************************)
(* Reference definitions: what bit b of an expression is made of, bit by   *)
(* bit, as <<symbol or constant, bit>>.                                    *)
(***************************************************************************)
AllBits(e) == UNION {{<<p.sym, b>> : b \in p.lo .. p.hi} : p \in Paths(e)}

\* The bits of a sign extension are copies of the sign if copied, else they
\* are made of nothing.
RECURSIVE MadeOf(_, _, _)
MadeOf(e, b, copied) ==
  CASE e.k = "lsp" -> {<<e.sym, e.lo + b>>}
    [] e.k = "concat" ->
         LET last == Len(e.ops)
             w == ExprWidth(e.ops[last])
         IN IF b < w THEN MadeOf(e.ops[last], b, copied)
            ELSE MadeOf([e EXCEPT !.ops = Front(@)], b - w, copied)
    [] e.k = "repl" /\ e.known -> MadeOf(e.op, b % ExprWidth(e.op), copied)
    [] IsConstant(e) -> {<<v, b>> : v \in Folded(e)}
    [] e.k = "conv" /\ ~IsConstant(e) /\ e.w >= ExprWidth(e.op) ->
         LET w == ExprWidth(e.op)
         IN IF b < w THEN MadeOf(e.op, b, copied)
            ELSE IF ~e.signed THEN {<<Zero, b - w>>}
            ELSE IF copied THEN MadeOf(e.op, w - 1, copied) ELSE {}
    [] e.k = "cond" /\ ExprWidth(e.left) = ExprWidth(e.right) ->
         AllBits(e.pred) \cup MadeOf(e.left, b, copied) \cup MadeOf(e.right, b, copied)
    [] OTHER -> AllBits(e)

\* By the meaning of the language; and by the rule the user guide gives, that
\* the bits of a sign extension have no driver (docs/user-guide.dox:502).
BitsOf(e, b) == MadeOf(e, b, TRUE)
TracedBits(e, b) == MadeOf(e, b, FALSE)
=============================================================================
