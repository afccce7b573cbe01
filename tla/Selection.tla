----------------------------- MODULE Selection -----------------------------
(* The indices that a loop with a filter visits: `keep' says of every index  *)
(* of a sequence whether the filter lets it pass.                            *)
EXTENDS Integers, Sequences

Selected(keep) ==
  LET upto[n \in 0 .. Len(keep)] ==
        IF n = 0 THEN <<>> ELSE IF keep[n] THEN Append(upto[n - 1], n) ELSE upto[n - 1]
  IN  upto[Len(keep)]
=============================================================================
