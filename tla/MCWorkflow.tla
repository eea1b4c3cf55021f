----------------------------- MODULE MCWorkflow -----------------------------
EXTENDS Workflow
=============================================================================
