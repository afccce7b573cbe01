------------------------------ MODULE MCStripe ------------------------------
(* A production environment with and without the webhook secret, and one     *)
(* without production mode, in which no checkout can be made.                *)
EXTENDS StripePayments

MCEnvironments ==
  {[production |-> TRUE, key |-> TRUE, secret |-> TRUE],
   [production |-> TRUE, key |-> TRUE, secret |-> FALSE],
   [production |-> FALSE, key |-> TRUE, secret |-> TRUE]}
=============================================================================
