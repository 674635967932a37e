-------------------------- MODULE MCCircuitBreaker --------------------------
(* CircuitBreaker with a handful of ticks for each duration, in the order  *)
(* of the configured ones: the probe lock (10 s) is shorter than a request *)
(* (30 s), that than the window (60 s), that than the cooldown (120 s).    *)
EXTENDS CircuitBreaker
=============================================================================
