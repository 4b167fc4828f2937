------------------------------- MODULE Totals -------------------------------
(***************************************************************************)
(* Sums over a list of positions 1..n.  The solver adds up arc costs, the  *)
(* number of changed orders and the weighted late days over the orders in  *)
(* their fixed key order (solver.py, "integer node positions from the      *)
(* fixed sort"); Total is that sum.  It is a recursive function, not a     *)
(* RECURSIVE operator, so the provers can reason about it (SumLemmas).     *)
(***************************************************************************)
EXTENDS Integers

\* The running sums of a over 1..n: PrefixSum(a, n)[i] = a[1] + ... + a[i].
PrefixSum(a, n) ==
  LET sum[i \in 0..n] == IF i = 0 THEN 0 ELSE sum[i - 1] + a[i]
  IN  sum

\* a[1] + ... + a[n]
Total(a, n) == PrefixSum(a, n)[n]
=============================================================================
