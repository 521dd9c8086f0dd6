------------------------------ MODULE MCEngine -------------------------------
(* Model checking the cache engine: callers and keys are model values.      *)
EXTENDS EngineFlights, TLC

Symmetry == Permutations(Calls) \cup Permutations(Keys)
==============================================================================
