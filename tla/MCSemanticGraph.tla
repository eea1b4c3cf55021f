--------------------------- MODULE MCSemanticGraph ---------------------------
(* Model-checking instance of SemanticGraph.                               *)
EXTENDS SemanticGraph, TLC

CONSTANTS first, second

(* One file has functions of both units, the other only of the second.     *)
MCUnitsOf == (first :> {1, 2}) @@ (second :> {2})
=============================================================================
