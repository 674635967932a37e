------------------------------ MODULE MCReadApi ------------------------------
(* ReadApi with the verdicts of MCLoanPipeline.                            *)
EXTENDS MCLoanPipeline, ReadApi
=============================================================================
