------------------------------- MODULE MCChain -------------------------------
(* Model checking the chain of tiers: callers and keys are model values.    *)
EXTENDS ChainStore, TLC

Symmetry == Permutations(Calls) \cup Permutations(Keys)
==============================================================================
