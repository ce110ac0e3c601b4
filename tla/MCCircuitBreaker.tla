-------------------------- MODULE MCCircuitBreaker --------------------------
(***************************************************************************)
(* Instance of CircuitBreaker for TLC: three callers, so that a late       *)
(* result can meet two probes, two attempts each, and thresholds of two,   *)
(* the smallest that tell "one" from "in a row".                           *)
(***************************************************************************)
EXTENDS CircuitBreaker
=============================================================================
