----------------------------- MODULE MCServices -----------------------------
(* The two services whose progress is checked, which share no state: a       *)
(* behaviour runs the coordinator, or the checkout and its webhook server.   *)
(*                                                                           *)
(* Two workers, two jobs of two task types, three tasks in all, so that a    *)
(* job can be claimed by both workers and a dispatch meets older tasks.      *)
EXTENDS Coordinator, MCStripe

VARIABLE part

servicesVars == <<part, vars, stripeVars>>

ServicesInit == part \in {"coordinator", "stripe"} /\ Init /\ StripeInit

CoordinatorPart == part = "coordinator" /\ Next /\ UNCHANGED <<part, stripeVars>>
StripePart == part = "stripe" /\ StripeNext /\ UNCHANGED <<part, vars>>

\* Only the coordinator is expected never to stop: the bounds end the other.
Rest == part = "stripe" /\ UNCHANGED servicesVars

\* The fair actions of the part that does not run are never enabled: they
\* continue calls and deliveries that have begun.
ServicesSpec ==
  /\ ServicesInit /\ [][CoordinatorPart \/ StripePart \/ Rest]_servicesVars
  /\ Fairness /\ StripeFairness

\* The type invariants of the two.
ServicesTypeOK == TypeOK /\ StripeTypeOK
=============================================================================
