----------------------------- MODULE MCEvidence -----------------------------
EXTENDS Evidence

(* Steps of 2.2 points of the risk score; both sides of every ratio that a *)
(* rule compares with.                                                     *)
Scores == {50 * k : k \in 0..18}
Stabilities == {0, 50, 75, 100}
Ratios == {0, 5, 20, 49, 50, 60, 61, 80, 120}
=============================================================================
