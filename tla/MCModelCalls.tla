------------------------------ MODULE MCModelCalls ------------------------------
(* Model-checking instance of ModelCalls.                                  *)
EXTENDS ModelCalls
=============================================================================
