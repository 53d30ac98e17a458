------------------------------- MODULE Names -------------------------------
(***************************************************************************)
(* Hierarchical names: wildcardMatch and pathInScope of Wildcard.hpp, and  *)
(* the black-box coverage of a path.  A name or a pattern is a sequence of *)
(* characters, "." separating the segments of a path.                      *)
(***************************************************************************)
EXTENDS Integers, Sequences, SequencesExt

CharAt(s, i) == IF i \in DOMAIN s THEN s[i] ELSE "end"
Drop(s, n) == SubSeq(s, n + 1, Len(s))
StartsWith(s, prefix) == IsPrefix(prefix, s)

\* The length of the recursive wildcard that a pattern starts with, or 0.
RecurLen(p) ==
  CASE CharAt(p, 1) = "*" /\ CharAt(p, 2) = "*" -> 2
    [] \A i \in 1 .. 3 : CharAt(p, i) = "." -> 3
    [] OTHER -> 0

\* The loops that advance text and try the rest of the pattern are
\* existential quantifiers over how far they advance.
RECURSIVE WildcardMatch(_, _)
WildcardMatch(text, pattern) ==
  LET hasLead == CharAt(pattern, 1) = "." /\ RecurLen(Tail(pattern)) # 0
      p == IF hasLead THEN Tail(pattern) ELSE pattern
      afterRecur == Drop(p, RecurLen(p))
      hasTrail == CharAt(afterRecur, 1) = "."
      rest == IF hasTrail THEN Tail(afterRecur) ELSE afterRecur
      AnySuffix(t) == \E n \in 0 .. Len(t) : WildcardMatch(Drop(t, n), rest)
      AfterDot(t) == \E n \in DOMAIN t : t[n] = "." /\ WildcardMatch(Drop(t, n), rest)
      AtDot == CharAt(text, 1) = "."
      Recursive ==
        CASE hasLead /\ hasTrail ->
               /\ AtDot
               /\ WildcardMatch(Tail(text), rest) \/ AfterDot(Tail(text))
          [] hasLead /\ ~hasTrail ->
               WildcardMatch(text, rest) \/ (AtDot /\ AnySuffix(Tail(text)))
          [] ~hasLead /\ hasTrail ->
               WildcardMatch(text, rest) \/ AfterDot(text)
          [] OTHER -> AnySuffix(text)
      Single ==
        \E n \in 0 .. Len(text) :
          /\ \A m \in 1 .. n : text[m] # "."
          /\ WildcardMatch(Drop(text, n), Tail(pattern))
      OneChar ==
        /\ IF Head(pattern) = "?" THEN CharAt(text, 1) \notin {".", "end"}
           ELSE CharAt(text, 1) = Head(pattern)
        /\ WildcardMatch(Tail(text), Tail(pattern))
  IN IF pattern = <<>> THEN text = <<>>
     ELSE IF RecurLen(p) # 0 THEN Recursive
     ELSE IF Head(pattern) = "*" THEN Single
     ELSE OneChar

PathInScope(path, scope) ==
  StartsWith(path, scope) /\ CharAt(path, Len(scope) + 1) \in {".", "end"}

\* getBlackBoxCoverage: the paths of the black boxes in order; a path that
\* contains the node ends the loop, a boundary does not.
RECURSIVE BlackBoxCoverage(_, _, _, _)
BlackBoxCoverage(kind, path, blackBoxes, result) ==
  IF blackBoxes = <<>> THEN result
  ELSE LET bb == Head(blackBoxes)
           next == CharAt(path, Len(bb) + 1)
           remainder == Drop(path, Len(bb) + 1)
           Continue(r) == BlackBoxCoverage(kind, path, Tail(blackBoxes), r)
       IN IF ~StartsWith(path, bb) THEN Continue(result)
          ELSE IF next = "end" THEN "contained"
          ELSE IF next # "." THEN Continue(result)
          ELSE IF kind = "port" /\ "." \notin Range(remainder) THEN Continue("boundary")
          ELSE "contained"
-----------------------------------------------------------------------------
(***************************************************************************)
(* Reference definitions, by segments.                                     *)
(***************************************************************************)
RECURSIVE Segments(_)
Segments(path) ==
  LET dots == {i \in DOMAIN path : path[i] = "."}
      first == CHOOSE i \in dots : \A j \in dots : i <= j
  IN IF dots = {} THEN <<path>>
     ELSE <<SubSeq(path, 1, first - 1)>> \o Segments(Drop(path, first))

\* A segment without "." against a segment pattern of letters, * and ?.
RECURSIVE SegmentMatch(_, _)
SegmentMatch(s, p) ==
  IF p = <<>> THEN s = <<>>
  ELSE \E n \in (IF Head(p) = "*" THEN 0 .. Len(s) ELSE {1}) :
         /\ n <= Len(s)
         /\ Head(p) \in {"*", "?"} \/ s[1] = Head(p)
         /\ SegmentMatch(Drop(s, n), Tail(p))

\* A recursive wildcard that is a whole segment stands for any number of
\* segments, none included.
RECURSIVE SegmentsMatch(_, _)
SegmentsMatch(segs, pats) ==
  IF pats = <<>> THEN segs = <<>>
  ELSE IF RecurLen(Head(pats)) # 0
  THEN \E n \in 0 .. Len(segs) : SegmentsMatch(Drop(segs, n), Tail(pats))
  ELSE segs # <<>> /\ SegmentMatch(Head(segs), Head(pats))
         /\ SegmentsMatch(Tail(segs), Tail(pats))

\* The text of a pattern that is given by its segments.
Joined(pats) ==
  FoldLeft(LAMBDA acc, p : IF acc = <<>> THEN p ELSE acc \o <<".">> \o p, <<>>, pats)

InScope(path, scope) == IsPrefix(Segments(scope), Segments(path))

Coverage(kind, path, blackBoxes) ==
  LET around == {b \in Range(blackBoxes) : InScope(path, b)}
      Direct(b) == kind = "port" /\ Len(Segments(path)) = Len(Segments(b)) + 1
  IN IF around = {} THEN "outside"
     ELSE IF \A b \in around : Direct(b) THEN "boundary"
     ELSE "contained"
=============================================================================
