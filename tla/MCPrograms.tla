----------------------------- MODULE MCPrograms -----------------------------
(* The two on-chain programs, which share no account: a behaviour runs one.  *)
(*                                                                           *)
(* Proof-of-Job: two keys, each a possible creator, validator and authority, *)
(* and one job id, so two jobs.  The token sale: as in MCTokenSale.          *)
EXTENDS MCMembraCore, MCTokenSale

VARIABLE program

programsVars == <<program, vars, saleVars>>

ProgramsInit == program \in {"membra_core", "token_sale"} /\ Init /\ SaleInit

MembraCoreProgram == program = "membra_core" /\ Next /\ UNCHANGED <<program, saleVars>>
TokenSaleProgram == program = "token_sale" /\ SaleNext /\ UNCHANGED <<program, vars>>

\* A sale ends.
Rest == program = "token_sale" /\ UNCHANGED programsVars

ProgramsSpec == ProgramsInit /\ [][MembraCoreProgram \/ TokenSaleProgram \/ Rest]_programsVars
=============================================================================
