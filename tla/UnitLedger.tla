------------------------------- MODULE UnitLedger -------------------------------
(***************************************************************************)
(* What a migration job promises about its units, whatever becomes of its  *)
(* sessions: the outcome of every unit, the verdict on the one attempt     *)
(* that its files describe, and the list that outlives the process.        *)
(*                                                                         *)
(* Only open units are worked on; a unit is frozen on a passed verdict and *)
(* handed to a human without one.  A unit that failed or was handed over   *)
(* may be taken up again.  A frozen unit may only lose its state to an     *)
(* exception that hits before it was listed; a listed unit keeps it.       *)
(***************************************************************************)
CONSTANT Units

VARIABLES
  outcome,    \* of every unit: "open", "frozen" or "review"
  verdict,    \* on its attempt: "none", "failed" or "passed"
  listed,     \* the units on the list
  closed      \* whether the job is declared completed

vars == <<outcome, verdict, listed, closed>>

Outcome == {"open", "frozen", "review"}
Verdict == {"none", "failed", "passed"}
Frozen == {u \in Units : outcome[u] = "frozen"}

TypeOK ==
  /\ outcome \in [Units -> Outcome]
  /\ verdict \in [Units -> Verdict]
  /\ listed \subseteq Units
  /\ closed \in BOOLEAN

Init ==
  /\ outcome = [u \in Units |-> "open"]
  /\ verdict = [u \in Units |-> "none"]
  /\ listed = {}
  /\ closed = FALSE

(* One attempt at an open unit goes on: its verdict is lost or reached.    *)
Work(u) ==
  /\ outcome[u] = "open"
  /\ \E v \in Verdict : verdict' = [verdict EXCEPT ![u] = v]
  /\ UNCHANGED <<outcome, listed, closed>>

Freeze(u) ==
  /\ outcome[u] = "open" /\ verdict[u] = "passed"
  /\ outcome' = [outcome EXCEPT ![u] = "frozen"]
  /\ UNCHANGED <<verdict, listed, closed>>

HandOver(u) ==
  /\ outcome[u] = "open" /\ verdict[u] # "passed"
  /\ outcome' = [outcome EXCEPT ![u] = "review"]
  /\ UNCHANGED <<verdict, listed, closed>>

(* An exception reopens one unit that is not listed.                       *)
Demote(u) ==
  /\ u \notin listed
  /\ outcome' = [outcome EXCEPT ![u] = "open"]
  /\ UNCHANGED <<verdict, listed, closed>>

(* A new session takes up units that are not frozen from the beginning.    *)
TakeUp(S) ==
  /\ S \cap Frozen = {}
  /\ outcome' = [u \in Units |-> IF u \in S THEN "open" ELSE outcome[u]]
  /\ verdict' = [u \in Units |-> IF u \in S THEN "none" ELSE verdict[u]]
  /\ UNCHANGED <<listed, closed>>

(* The list is brought up to date; a job is completed when every unit is   *)
(* frozen.                                                                 *)
List ==
  /\ listed' = Frozen
  /\ closed' \in {FALSE, Frozen = Units}
  /\ UNCHANGED <<outcome, verdict>>

Next ==
  \/ \E u \in Units : Work(u) \/ Freeze(u) \/ HandOver(u) \/ Demote(u)
  \/ \E S \in SUBSET Units : TakeUp(S)
  \/ List

Spec == Init /\ [][Next]_vars
=============================================================================
