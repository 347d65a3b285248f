-------------------------------- MODULE Ascending -------------------------------
(***************************************************************************)
(* Finite sets of numbers as sequences, the subsequence of a sequence at a *)
(* set of positions and the sum of a sequence: what SetToSortSeq,          *)
(* SelectSeq and a fold compute, in forms that can be proved about.        *)
(***************************************************************************)
EXTENDS Naturals, Sequences, FiniteSets

(* The members of S, the smallest first: the i-th has i - 1 below it.      *)
Ascending(S) ==
    [i \in 1 .. Cardinality(S) |-> CHOOSE n \in S : Cardinality({m \in S : m < n}) = i - 1]

(* What s has at these positions, in its order.                            *)
At(s, positions) == [i \in 1 .. Cardinality(positions) |-> s[Ascending(positions)[i]]]

(* The sum of a sequence of numbers.                                       *)
Total(v) ==
    LET sum[n \in 0 .. Len(v)] == IF n = 0 THEN 0 ELSE sum[n - 1] + v[n]
    IN  sum[Len(v)]
===============================================================================
