------------------------------ MODULE MCIntake ------------------------------
(* Intake on small sets of model values, see Intake_all.cfg.  There is no  *)
(* symmetry, since the run checks a liveness property too.                 *)
EXTENDS Intake
=============================================================================
