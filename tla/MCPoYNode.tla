----------------------------- MODULE MCPoYNode -----------------------------
(* The answers of the node, all different in their hash, have one estimate;  *)
(* the votes of other agents may carry any estimate.                         *)
EXTENDS PoYNode

MCYieldOf == [i \in Inferences |-> 1]
=============================================================================
