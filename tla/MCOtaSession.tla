---------------------------- MODULE MCOtaSession ----------------------------
(* A small instance of OtaSession: one demo command, one of the operator's, *)
(* two connections.                                                         *)
EXTENDS OtaSession, TLC

CONSTANTS demo, op

MCDemo     == <<demo>>
MCOperator == {op}
=============================================================================
