------------------------------- MODULE Sorting -------------------------------
(***************************************************************************)
(* What Go code does with a slice before it is reported: it is sorted,     *)
(* some of its elements are taken, or slices are appended to each other.   *)
(***************************************************************************)
EXTENDS Integers, Sequences, FiniteSets

\* The elements of a finite set in the order of a relation: the n-th is the one with
\* n elements at or before it.
Ranked(S, order) ==
  [n \in 1 .. Cardinality(S) |->
     CHOOSE x \in S : Cardinality({y \in S : <<y, x>> \in order}) = n]

\* The orders in which the elements of S a finite set can come.
Orders(S) ==
  {o \in [1 .. Cardinality(S) -> S] :
     \A m, n \in 1 .. Cardinality(S) : m # n => o[m] # o[n]}

\* The pairs of positions of a slice.
Pairs(s) == (DOMAIN s) \X (DOMAIN s)

\* sort.SliceStable: elements of which neither comes before the other stay in the
\* order they had.  As in Go, less compares two positions: it is a set of pairs.
StableSort(s, less) ==
  LET before == {p \in Pairs(s) : p \in less \/ (<<p[2], p[1]>> \notin less /\ p[1] <= p[2])}
      places == Ranked(DOMAIN s, before)
  IN [n \in DOMAIN s |-> s[places[n]]]

\* A loop that appends the elements at some positions to a new slice.
Selected(s, positions) ==
  LET taken[n \in 0 .. Len(s)] ==
        IF n = 0 THEN <<>>
        ELSE IF n \in positions THEN Append(taken[n - 1], s[n]) ELSE taken[n - 1]
  IN taken[Len(s)]

\* A loop that appends one slice after the other to a new one (the FlattenSeq of
\* SequencesExt, without the bags that module brings into every proof).
Joined(slices) ==
  LET joined[n \in 0 .. Len(slices)] == IF n = 0 THEN <<>> ELSE joined[n - 1] \o slices[n]
  IN joined[Len(slices)]
=============================================================================
