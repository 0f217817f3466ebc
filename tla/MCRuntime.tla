------------------------------ MODULE MCRuntime ------------------------------
(* Runtime for TLC.  out only records what was told and no action reads it, *)
(* so states that differ in it alone are the same state to the checks that *)
(* do not mention it.                                                       *)
EXTENDS Runtime

WithoutOut == <<rt, wall, soul, mic, job, turn>>
=============================================================================
