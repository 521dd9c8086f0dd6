------------------------------- MODULE MCLoader ------------------------------
(* Model checking the loader.                                               *)
EXTENDS Loader
==============================================================================
