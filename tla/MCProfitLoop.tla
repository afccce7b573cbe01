---------------------------- MODULE MCProfitLoop ----------------------------
(* Two jobs that share a board and a file; an amount of six cents makes the  *)
(* five rounded shares add up to seven.                                      *)
EXTENDS ProfitLoop

Symmetry == Permutations(Jobs)
=============================================================================
