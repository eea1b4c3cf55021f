---------------------------- MODULE MCSemanticWeb ----------------------------
(* Model-checking instances of SemanticWeb.                                *)
EXTENDS SemanticWeb
=============================================================================
