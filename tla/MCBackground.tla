----------------------------- MODULE MCBackground ----------------------------
(* Model checking the pipeline from Keep to Mirror.                         *)
EXTENDS Background
==============================================================================
