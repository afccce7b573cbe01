---------------------------- MODULE MCMembraCore ----------------------------
(* Two keys, each a possible creator, validator and authority, and one job  *)
(* id, so two jobs.  The tallies are the empty one, two thirds, the exact   *)
(* threshold and one whose u16 sum saturates.                               *)
EXTENDS MembraCore, TLC

MCTallies == {<<0, 0>>, <<2, 1>>, <<6667, 3333>>, <<65535, 65535>>}
KeySymmetry == Permutations(Keys)
=============================================================================
