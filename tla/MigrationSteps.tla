---------------------------- MODULE MigrationSteps ----------------------------
(***************************************************************************)
(* The agent loop with the count of its supersteps: LangGraph raises in a  *)
(* session that takes more of them than the recursion_limit with which     *)
(* _run_graph invokes the graph.                                           *)
(***************************************************************************)
EXTENDS MigrationLedger

VARIABLE steps    \* nodes of the graph that have run in this session

stepVars == <<vars, steps>>

(* Mutant of RecursionLimit: the default of LangGraph is left in place.    *)
RecursionLimitDefault == 25
RecursionLimit == 20 + UnitCount * (12 + 8 * MaxRetries)

(* One node ran to its end; anything else ends or begins the graph.        *)
NodeRan == node \in GraphNodes /\ node' \in GraphNodes \cup {"end"}

(* The count stops at the limit.                                           *)
CountSteps ==
  steps' = IF ~NodeRan THEN 0 ELSE IF steps < RecursionLimit THEN steps + 1 ELSE steps

CountedInit == Init /\ steps = 0
CountedNext == Next /\ CountSteps
CountedSpec == CountedInit /\ [][CountedNext]_stepVars

(* As in FairSpec: a process that lives keeps executing its session.       *)
FairCountedSpec == CountedSpec /\ WF_vars(SessionStep)

-----------------------------------------------------------------------------
(* Properties.                                                             *)

(* A session is never ended by its recursion limit: whatever Reason        *)
(* answers and the checks say, the repairs and rebuilds of all units fit   *)
(* in the steps the agent allows for them (_run_graph), and they fit       *)
(* because retries are bounded unit by unit (_after_reason).               *)
WorkIsBounded == RetryBudget /\ steps < RecursionLimit
=============================================================================
