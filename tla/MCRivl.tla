------------------------------- MODULE MCRivl -------------------------------
(* Two prompts: the words of "p" occur in no reason, those of "q" in two.    *)
EXTENDS Rivl, TLC

MCKeywordsOf == ("p" :> {}) @@ ("q" :> {"tests_failed", "tests_passed"})

Paid == [complete |-> TRUE, status |-> "succeeded", amount |-> 1]
Simulation == [defi_enabled |-> FALSE, mode |-> "simulation", mainnet_enabled |-> FALSE, require_human_approval |-> TRUE]

\* Code that does not parse, though paid for and agreed on; and a trade that
\* the policy forbids and the validators did not agree on.
MCSubmissions ==
  {[code |-> {"syntax"}, mentions |-> {}, receipt |-> {Paid}, votes |-> {[yes |-> 2, total |-> 3]},
    policy |-> {}, circumstances |-> {}],
   [code |-> {}, mentions |-> {"defi"}, receipt |-> {Paid}, votes |-> {[yes |-> 1, total |-> 3]},
    policy |-> {Simulation}, circumstances |-> {"refund_requested"}]}
=============================================================================
