------------------------------ MODULE MCRadio ------------------------------
(* Every start state, with and without simple collisions. *)
EXTENDS Radio

MCSender == {1, 2}
MCPars == Parameters
=============================================================================
