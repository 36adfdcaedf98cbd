------------------------------- MODULE Totals -------------------------------
(***************************************************************************)
(* The sum of a function with natural values over a finite set of indices. *)
(*                                                                         *)
(* The aggregates that a run keeps (workers, cores, committed_games, ...)  *)
(* are sums over its list of tasks.  A sum is defined here by counting:    *)
(* an index x contributes the units <<x, 1>>, ..., <<x, f[x]>>, and the    *)
(* sum is the number of units.  That this is the sum that a loop computes, *)
(* one index after the other, is shown in TotalsProofs.                    *)
(***************************************************************************)
EXTENDS Integers, FiniteSets

Units(f, S) == UNION {{x} \X (1 .. f[x]) : x \in S}

SumOver(f, S) == Cardinality(Units(f, S))

=============================================================================
