---------------------------- MODULE JobLifecycle ----------------------------
(***************************************************************************)
(* What the Proof-of-Job program promises about a job, with no accounts,   *)
(* votes, thresholds or signers: a job is judged at most once, is paid for *)
(* at most once and only after an accepting verdict, and is closed for     *)
(* good only when it was rejected or paid.  MembraCore implements it.      *)
(***************************************************************************)
CONSTANT Jobs

VARIABLES verdict,  \* verdict[j]: "undecided", "accepted" or "rejected"
          paid,     \* the jobs with a payment on record
          closed    \* the jobs closed by their creator

vars == <<verdict, paid, closed>>

Init ==
  /\ verdict = [j \in Jobs |-> "undecided"]
  /\ paid = {}
  /\ closed = {}

Decide(j) ==
  /\ verdict[j] = "undecided"
  /\ \E v \in {"accepted", "rejected"} : verdict' = [verdict EXCEPT ![j] = v]
  /\ UNCHANGED <<paid, closed>>

Pay(j) ==
  /\ verdict[j] = "accepted"
  /\ j \notin paid \cup closed
  /\ paid' = paid \cup {j}
  /\ UNCHANGED <<verdict, closed>>

Close(j) ==
  /\ verdict[j] = "rejected" \/ j \in paid
  /\ j \notin closed
  /\ closed' = closed \cup {j}
  /\ UNCHANGED <<verdict, paid>>

Next == \E j \in Jobs : Decide(j) \/ Pay(j) \/ Close(j)

Spec == Init /\ [][Next]_vars
=============================================================================
