--------------------------------- MODULE MCL3 ---------------------------------
(* The parts of the L3 process that share no state: a behaviour runs one of  *)
(* them.                                                                      *)
EXTENDS L3Relay, Governance, VolatilityOracle

VARIABLE part

l3Vars == <<part, relayVars, govVars, oracleVars>>

Init == part \in {"relay", "governance", "oracle"} /\ RelayInit /\ GovInit /\ OracleInit

RelayPart == part = "relay" /\ RelayNext /\ UNCHANGED <<part, govVars, oracleVars>>
GovernancePart == part = "governance" /\ GovNext /\ UNCHANGED <<part, relayVars, oracleVars>>
OraclePart == part = "oracle" /\ OracleNext /\ UNCHANGED <<part, relayVars, govVars>>

Spec == Init /\ [][RelayPart \/ GovernancePart \/ OraclePart]_l3Vars

Symmetry == Permutations(Users) \cup Permutations(Voters)
=============================================================================
