---------------------------- MODULE MigrationLedger ----------------------------
(***************************************************************************)
(* The agent loop keeps the ledger of its units: MigrationLoop implements  *)
(* UnitLedger.  The ledger is read from the files alone, which is all that *)
(* a later session or a reader of the job has.                             *)
(***************************************************************************)
EXTENDS MigrationLoop

OutcomeOf(s) ==
  CASE s.status = "frozen" -> "frozen"
    [] s.status = "manual_review" -> "review"
    [] OTHER -> "open"

(* The state file names a complete attempt when its three references are   *)
(* of one attempt; the report on disk says whether it passed.              *)
VerdictOn(u) ==
  IF ~(HasEvidence(unit[u]) /\ OneAttempt(unit[u])) THEN "none"
  ELSE IF <<u, unit[u].observation>> \in passing THEN "passed" ELSE "failed"

Ledger == INSTANCE UnitLedger WITH
  outcome <- [u \in Units |-> OutcomeOf(unit[u])],
  verdict <- [u \in Units |-> VerdictOn(u)],
  listed <- checkpoint.completed,
  closed <- checkpoint.status = "completed"

(* Every step of a session, of its exceptions and of its crashes is one    *)
(* entry of the ledger or none: state file, reports and checkpoint, each   *)
(* written at its own moment, never tell a reader of a frozen unit that    *)
(* did not pass, of a listed unit that was reopened, or of a completed job *)
(* with a unit that is not frozen (_freeze_chain, _manual_review,          *)
(* restart_unfinished, _run_graph, MigrationCheckpointStore.save).         *)
ImplementsLedger == Ledger!Spec
=============================================================================
