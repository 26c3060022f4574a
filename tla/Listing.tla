------------------------------- MODULE Listing -------------------------------
(***************************************************************************)
(* Sets as sequences, by counting the members that come before each one;   *)
(* sums of sequences; a function laid over another.                        *)
(***************************************************************************)
EXTENDS Integers, Sequences, FiniteSets

\* A set of numbers as a sequence.
Ascending(S) ==
  [i \in 1..Cardinality(S) |-> CHOOSE x \in S : Cardinality({y \in S : y < x}) = i - 1]

\* A set as a sequence, in the order of a set of pairs.
Ordered(S, before) ==
  [i \in 1..Cardinality(S) |->
     CHOOSE x \in S : Cardinality({y \in S : <<y, x>> \in before}) = i - 1]

\* The sum of a sequence of numbers.
Total(seq) ==
  LET sum[i \in 0..Len(seq)] == IF i = 0 THEN 0 ELSE sum[i - 1] + seq[i]
  IN  sum[Len(seq)]

\* The function f, and elsewhere the function g.
Over(f, g) == [x \in DOMAIN f \union DOMAIN g |-> IF x \in DOMAIN f THEN f[x] ELSE g[x]]
=============================================================================
