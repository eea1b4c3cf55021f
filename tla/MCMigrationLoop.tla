--------------------------- MODULE MCMigrationLoop ---------------------------
(* Model-checking instances of MigrationLoop.                              *)
EXTENDS MigrationSteps

(* MigrationPlanBuilder makes one unit per connected component, so the     *)
(* units of a real plan do not depend on each other.                       *)
MCIndependent == [u \in Units |-> {}]

(* The plan of the scheduler tests: a caller after its dependency.  Unit 1 *)
(* is the caller, so that plan order and dependency order disagree.        *)
MCCallerFirst == [u \in Units |-> IF u = 1 THEN {2} ELSE {}]

(* ReasonFallbackPolicy turns every rebuild request into "convert".        *)
MCRuntimeAnswers == ReasonAction \ {"rebuild_context"}
=============================================================================
