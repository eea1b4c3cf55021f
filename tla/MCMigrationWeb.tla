---------------------------- MODULE MCMigrationWeb ----------------------------
(* Instance of MigrationWeb for TLC.                                       *)
EXTENDS MigrationWeb

CONSTANTS j1, j2

MCJobs == {j1, j2}

(* The record of one job may fail to be written, and never that of the     *)
(* other.                                                                  *)
MCUnwritable == {j2}
=============================================================================
