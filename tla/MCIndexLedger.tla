---------------------------- MODULE MCIndexLedger ----------------------------
(***************************************************************************)
(* IndexLedger over the history of MCIndexScenario.                        *)
(***************************************************************************)
EXTENDS IndexLedger, MCIndexScenario
=============================================================================
