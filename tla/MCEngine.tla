------------------------------ MODULE MCEngine ------------------------------
(* EngineLifecycle on a few tool calls; the calls are interchangeable.     *)
EXTENDS EngineLifecycle, TLC

CallSymmetry == Permutations(Calls)
=============================================================================
