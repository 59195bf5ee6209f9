------------------------------- MODULE Lists -------------------------------
(* Loops over a list: one that copies the elements it keeps, and one that adds up. *)
EXTENDS Integers, Sequences, FiniteSets

\* The elements of s at the places in S, in their order.
Subsequence(s, S) ==
    [k \in 1 .. Cardinality(S) |-> s[CHOOSE i \in S : Cardinality({j \in S : j <= i}) = k]]

\* The sum of the numbers in s.
Total(s) ==
    LET sum[i \in 0 .. Len(s)] == IF i = 0 THEN 0 ELSE sum[i - 1] + s[i]
    IN  sum[Len(s)]

=============================================================================
