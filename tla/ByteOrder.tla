----------------------------- MODULE ByteOrder -----------------------------
(***************************************************************************)
(* Equality and the reference order on byte sequences: what operator==    *)
(* computes with std::equal, and the three-way lexicographic order that   *)
(* operator<=> is meant to compute (the TODO in type.cpp names            *)
(* std::lexicographical_compare_three_way).                               *)
(***************************************************************************)
EXTENDS Integers, Sequences

\* operator==: std::equal over both byte ranges.
TypeEq(a, b) == Len(a) = Len(b) /\ \A i \in 1..Len(a) : a[i] = b[i]

\* The positions, within both sequences, where they differ.
Diff(a, b) == {i \in 1..Len(a) : i <= Len(b) /\ a[i] # b[i]}

\* The first of them.
FirstDiff(a, b) == CHOOSE j \in Diff(a, b) : \A k \in Diff(a, b) : j <= k

\* The reference three-way order: the first differing byte decides,
\* otherwise the shorter sequence is smaller.
LexRef(a, b) ==
    IF Diff(a, b) # {}
    THEN IF a[FirstDiff(a, b)] < b[FirstDiff(a, b)] THEN "less" ELSE "greater"
    ELSE IF Len(a) < Len(b) THEN "less"
    ELSE IF Len(a) > Len(b) THEN "greater"
    ELSE "eq"
=============================================================================
