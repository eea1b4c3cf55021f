------------------------- MODULE MigrationLoopProofs -------------------------
(***************************************************************************)
(* Proofs about MigrationLoop, for every plan, dependency graph, retry     *)
(* limit, set of Reason answers and number of sessions.                    *)
(*                                                                         *)
(* First the invariants of the loop: types, evidence, checkpoint, budget,  *)
(* the unit in flight, the ends of a session.  Then what holds of the loop *)
(* as MigrationSteps and MigrationLedger see it.  It implements the ledger *)
(* of its units: each step of a session, of its exceptions and of its      *)
(* crashes is one entry of UnitLedger or none.  And no session reaches its *)
(* recursion limit: every state has an upper bound of the steps that are   *)
(* left, and each step uses up one of them.                                *)
(***************************************************************************)
EXTENDS MigrationSteps, FiniteSetTheorems, TLAPS

(* The initial state is well typed.                                        *)
LEMMA TypeInit == Init => TypeOK
BY UnitCountIsNat DEF Init, TypeOK, FreshUnit, UnitState, UnitStatus, Ref, GraphInput,
   GraphState, CheckpointStatus, Nodes, ChainNodes, MaybeUnit, None

(* Every step of the code's handlers keeps the types.                      *)
LEMMA TypeStep == TypeOK /\ [Next]_vars => TypeOK'
<1> SUFFICES ASSUME TypeOK, [Next]_vars PROVE TypeOK'
  OBVIOUS
<1> USE UnitCountIsNat, DependsOnIsGraph, ReasonAnswers DEF TypeOK
<1>1. CASE OpenNew
  BY <1>1 DEF OpenNew, memory, FreshUnit, UnitState, UnitStatus, Ref, None, Nodes,
              ChainNodes
<1>2. CASE OpenResume
  <2>1. ASSUME NEW s \in UnitState
        PROVE  [s EXCEPT !.status = "pending", !.translation = None, !.assembly = None,
                         !.observation = None, !.retry = 0] \in UnitState
    BY DEF UnitState, UnitStatus, Ref, None
  <2>2. RestartUnfinished \in [Units -> UnitState]
    BY <2>1 DEF RestartUnfinished
  <2>. QED
    BY <1>2, <2>2 DEF OpenResume, memory, Nodes, ChainNodes
<1>3. CASE OpenCheckpoint
  BY <1>3 DEF OpenCheckpoint, SaveCheckpoint, Frozen, CheckpointStatus, GraphInput,
              GraphState, Ref, None, MaybeUnit, Nodes, GraphNodes, QuietNodes, ChainNodes
<1>4. CASE Initialize
  BY <1>4 DEF Initialize, Enter, Recorded, GraphState, disk, Nodes, GraphNodes, QuietNodes,
              ChainNodes
<1>5. CASE SelectUnit
  BY <1>5 DEF SelectUnit, Enter, Recorded, Ready, GraphInput, GraphState, MaybeUnit, disk,
              Ref, None, Nodes, GraphNodes, QuietNodes, ChainNodes
<1>6. CASE SelectNothing
  BY <1>6 DEF SelectNothing, Enter, Recorded, GraphState, MaybeUnit, disk,
              None, Nodes, GraphNodes, QuietNodes, ChainNodes
<1>7. CASE BuildContext
  BY <1>7 DEF BuildContext, Enter, Recorded, GraphState, disk, Nodes, GraphNodes,
              QuietNodes, ChainNodes
<1>8. CASE Reason
  <2> PICK action \in Answers : graph' = [graph EXCEPT !.stratagem = action]
                                /\ node' = AfterReason(action)
    BY <1>8 DEF Reason
  <2>1. action \in ReasonAction
    BY DEF Answers, ReasonAction
  <2>2. AfterReason(action) \in ChainNodes
    BY DEF AfterReason, ChainNodes
  <2>3. graph' \in GraphState /\ graph'.chain = graph.chain
    BY <2>1 DEF GraphState
  <2>. QED
    BY <1>8, <2>2, <2>3 DEF Reason, Enter, Recorded, GraphState, disk, Nodes,
              GraphNodes, ChainNodes
<1>9. CASE Act
  <2>1. PICK v \in ContextAdvance(graph.chain) :
          contextVersion' = [contextVersion EXCEPT ![graph.chain] = v]
    BY <1>9 DEF Act
  <2>2. graph.chain \in Units /\ graph'.chain = graph.chain
    BY <1>9 DEF Act, Enter, ChainNodes, GraphState
  <2>3. v \in Nat
    BY <2>2 DEF ContextAdvance
  <2>4. contextVersion' \in [Units -> Nat]
    BY <2>1, <2>3
  <2>5. attempt' \in [Units -> Nat] /\ attempt'[graph.chain] \in Nat
    BY <1>9, <2>2 DEF Act
  <2>6. graph' \in GraphState
    BY <1>9, <2>5 DEF Act, GraphState, Ref
  <2>7. unit' \in [Units -> UnitState]
    <3>1. unit[graph.chain] \in UnitState
      BY <2>2
    <3>2. [unit[graph.chain] EXCEPT !.status = "generated",
                                    !.translation = attempt'[graph.chain]] \in UnitState
      BY <2>5, <3>1 DEF UnitState, UnitStatus, Ref
    <3>. QED
      BY <1>9, <2>2, <3>2 DEF Act
  <2>. QED
    BY <1>9, <2>2, <2>4, <2>5, <2>6, <2>7 DEF Act, Enter, Recorded, QuietNodes, Nodes,
              GraphNodes, ChainNodes, MaybeUnit
<1>10. CASE Assemble
  BY <1>10 DEF Assemble, Enter, Recorded, GraphState, UnitState, Ref, Nodes, GraphNodes,
              QuietNodes, ChainNodes
<1>11. CASE Observe
  <2>1. graph.chain \in Units
    BY <1>11 DEF Observe, Enter, ChainNodes
  <2>2. PICK passed \in BOOLEAN :
          /\ WriteReport(graph.chain, attempt[graph.chain], passed)
          /\ graph' = [graph EXCEPT !.observation = attempt[graph.chain], !.retry = @ + 1]
          /\ unit' = [unit EXCEPT
                   ![graph.chain].status = IF passed THEN "verified" ELSE "failed",
                   ![graph.chain].observation = attempt[graph.chain],
                   ![graph.chain].retry = graph.retry + 1]
    BY <1>11 DEF Observe
  <2>3. passing' \subseteq Units \X Nat
    BY <2>1, <2>2 DEF WriteReport
  <2>4. graph' \in GraphState /\ graph'.chain = graph.chain
    <3>1. attempt[graph.chain] \in Nat /\ graph.retry + 1 \in Nat
      BY <2>1 DEF GraphState
    <3>. QED
      BY <2>2, <3>1 DEF GraphState, Ref
  <2>5. unit' \in [Units -> UnitState]
    BY <2>1, <2>2 DEF UnitState, UnitStatus, GraphState, Ref
  <2>. QED
    BY <1>11, <2>3, <2>4, <2>5 DEF Observe, Enter, Recorded, Nodes, GraphNodes,
              QuietNodes, ChainNodes, GraphState
<1>12. CASE FreezeChain
  BY <1>12 DEF FreezeChain, Enter, Recorded, UnitState, UnitStatus, GraphState, Nodes,
              GraphNodes, QuietNodes, ChainNodes
<1>13. CASE ManualReview
  BY <1>13 DEF ManualReview, Enter, Recorded, UnitState, UnitStatus, GraphState, Nodes,
              GraphNodes, QuietNodes, ChainNodes
<1>14. CASE ProjectValidate
  BY <1>14 DEF ProjectValidate, Enter, Recorded, GraphState, disk, Nodes, GraphNodes,
              QuietNodes, ChainNodes
<1>15. CASE Publish
  BY <1>15 DEF Publish, Enter, Recorded, GraphState, disk, Nodes, GraphNodes,
              QuietNodes, ChainNodes
<1>16. Leave => /\ node' = "idle" /\ graph' \in GraphState
                /\ attempt' \in [Units -> Nat] /\ tracked' \in MaybeUnit
  BY DEF Leave, GraphInput, GraphState, Ref, None, MaybeUnit
<1>17. CASE Complete
  BY <1>17, <1>16 DEF Complete, SaveCheckpoint, FinalStatus, Frozen, CheckpointStatus,
              Nodes, ChainNodes
<1>18. CASE Demote
  BY <1>18 DEF Demote, memory, MaybeUnit, None, UnitState, UnitStatus, Nodes, ChainNodes
<1>19. CASE Interrupt
  BY <1>19, <1>16 DEF Interrupt, SaveCheckpoint, Frozen, CheckpointStatus, Nodes,
              ChainNodes
<1>20. PartialEffects => /\ contextVersion' \in [Units -> Nat]
                         /\ passing' \subseteq Units \X Nat
  <2> SUFFICES ASSUME PartialEffects
               PROVE  contextVersion' \in [Units -> Nat] /\ passing' \subseteq Units \X Nat
    OBVIOUS
  <2>1. CASE UNCHANGED <<contextVersion, passing>>
    BY <2>1
  <2>2. ASSUME node = "act", NEW v \in ContextAdvance(graph.chain),
               contextVersion' = [contextVersion EXCEPT ![graph.chain] = v],
               UNCHANGED passing
        PROVE  contextVersion' \in [Units -> Nat] /\ passing' \subseteq Units \X Nat
    <3>1. v \in Nat
      BY <2>2 DEF ContextAdvance, ChainNodes
    <3>. QED
      BY <2>2, <3>1
  <2>3. ASSUME node = "observe", NEW passed \in BOOLEAN,
               WriteReport(graph.chain, attempt[graph.chain], passed),
               UNCHANGED contextVersion
        PROVE  contextVersion' \in [Units -> Nat] /\ passing' \subseteq Units \X Nat
    BY <2>3 DEF WriteReport, ChainNodes
  <2>. QED
    BY <2>1, <2>2, <2>3 DEF PartialEffects
<1>21. CASE Raise
  BY <1>21, <1>20 DEF Raise, Recorded, GraphState, Nodes, ChainNodes
<1>22. CASE Crash
  BY <1>22, <1>16, <1>20 DEF Crash, Nodes, ChainNodes
<1>23. CASE UNCHANGED vars
  BY <1>23 DEF vars
<1>. QED
  BY <1>1, <1>2, <1>3, <1>4, <1>5, <1>6, <1>7, <1>8, <1>9, <1>10, <1>11, <1>12, <1>13,
     <1>14, <1>15, <1>17, <1>18, <1>19, <1>21, <1>22, <1>23
     DEF Next, SessionStep, GraphStep

(* Every action keeps every variable in its type; in particular a chain    *)
(* node never runs without a selected unit (the routing of                 *)
(* _after_select).                                                         *)
THEOREM TypeCorrect == Spec => []TypeOK
BY TypeInit, TypeStep, PTL DEF Spec
-----------------------------------------------------------------------------
(* The evidence of a unit: what links the graph state, which dies with the *)
(* session, to the state file and the reports, which survive.              *)

NoEvidence(s) == s.translation = None /\ s.assembly = None /\ s.observation = None

(* The unit the loop works on.                                             *)
Current == unit[graph.chain]

(* A unit that waits to be selected carries nothing over.                  *)
PendingIsFresh ==
  \A u \in Units : unit[u].status \in {"pending", "ready"} => NoEvidence(unit[u])

(* The loop never works on a unit that is done.                            *)
CurrentNotTerminal ==
  node \in ChainNodes => Current.status \notin {"frozen", "manual_review"}

ReportsAreNumbered == \A p \in passing : p[2] # None

(* Between Act and Observe the translation, then the assembly, are of the  *)
(* running attempt; elsewhere graph and state file agree on one attempt.   *)
AttemptInProgress ==
  /\ node \in {"assemble", "observe"} =>
       /\ attempt[graph.chain] # None
       /\ Current.status = "generated"
       /\ graph.translation = attempt[graph.chain]
       /\ Current.translation = attempt[graph.chain]
  /\ node = "observe" =>
       /\ graph.assembly = attempt[graph.chain]
       /\ Current.assembly = attempt[graph.chain]
GraphAgrees ==
  node \in ChainNodes \ {"assemble", "observe"} =>
    /\ graph.translation = Current.translation
    /\ graph.assembly = Current.assembly
    /\ graph.observation = Current.observation
    /\ NoEvidence(Current) \/ (HasEvidence(Current) /\ OneAttempt(Current))

RoutedByReport ==
  /\ node = "freeze_chain" => ObservationPassed
  /\ node = "manual_review" => ~ObservationPassed

(* What holds of the files, and what holds of the running loop.            *)
DurableEvidence == FrozenVerified /\ ReviewJustified /\ PendingIsFresh /\ ReportsAreNumbered
WorkingEvidence == CurrentNotTerminal /\ AttemptInProgress /\ GraphAgrees /\ RoutedByReport

EvidenceInv == TypeOK /\ DurableEvidence /\ WorkingEvidence

(* Steps that write neither the state file nor a report keep what the      *)
(* files say.                                                              *)
LEMMA DurableKept ==
  ASSUME DurableEvidence, UNCHANGED <<unit, passing>>
  PROVE  DurableEvidence'
BY DEF DurableEvidence, FrozenVerified, ReviewJustified, PendingIsFresh, ReportsAreNumbered,
       Frozen, HasEvidence, OneAttempt, NoEvidence

(* Steps that rewrite the state or a report of one unit only.              *)
LEMMA DurableKeptElsewhere ==
  ASSUME TypeOK, DurableEvidence, NEW c \in Units,
         \A u \in Units \ {c} : unit'[u] = unit[u],
         \A p : p[1] # c => (p \in passing' <=> p \in passing),
         \A p \in passing' : p[2] # None,
         unit'[c].status = "frozen" =>
           /\ HasEvidence(unit'[c]) /\ OneAttempt(unit'[c])
           /\ <<c, unit'[c].observation>> \in passing',
         unit'[c].status = "manual_review" /\ HasEvidence(unit'[c]) =>
           /\ OneAttempt(unit'[c])
           /\ <<c, unit'[c].observation>> \notin passing',
         unit'[c].status \in {"pending", "ready"} => NoEvidence(unit'[c])
  PROVE  DurableEvidence'
<1>1. \A u \in Units \ {c} : \A n : <<u, n>> \in passing' <=> <<u, n>> \in passing
  OBVIOUS
<1>2. FrozenVerified'
  BY <1>1 DEF DurableEvidence, FrozenVerified, Frozen, HasEvidence, OneAttempt
<1>3. ReviewJustified'
  BY <1>1 DEF DurableEvidence, ReviewJustified, HasEvidence, OneAttempt
<1>4. PendingIsFresh'
  BY DEF DurableEvidence, PendingIsFresh, NoEvidence
<1>5. ReportsAreNumbered'
  BY DEF ReportsAreNumbered
<1>. QED
  BY <1>2, <1>3, <1>4, <1>5 DEF DurableEvidence

(* Outside the chain nodes nothing is asked of the loop.                   *)
LEMMA WorkingOutside ==
  ASSUME node' \notin ChainNodes
  PROVE  WorkingEvidence'
BY DEF WorkingEvidence, CurrentNotTerminal, AttemptInProgress, GraphAgrees, RoutedByReport,
       ChainNodes

(* No step of the code breaks the evidence invariant.                      *)
LEMMA EvidenceStep == EvidenceInv /\ [Next]_vars => EvidenceInv'
<1> SUFFICES ASSUME EvidenceInv, [Next]_vars PROVE EvidenceInv'
  OBVIOUS
<1>1. TypeOK /\ TypeOK' /\ DurableEvidence /\ WorkingEvidence
  BY TypeStep DEF EvidenceInv
<1>2. SUFFICES DurableEvidence' /\ WorkingEvidence'
  BY <1>1 DEF EvidenceInv
<1>3. CASE UNCHANGED vars
  BY <1>1, <1>3, DurableKept DEF vars, WorkingEvidence, CurrentNotTerminal, Current,
     AttemptInProgress, GraphAgrees, RoutedByReport, ObservationPassed, NoEvidence,
     HasEvidence, OneAttempt
<1>4. CASE OpenNew
  <2>1. unit' = [u \in Units |-> FreshUnit] /\ passing' = passing /\ node' = "opening"
    BY <1>4 DEF OpenNew
  <2>2. DurableEvidence'
    BY <1>1, <2>1 DEF DurableEvidence, FrozenVerified, ReviewJustified, PendingIsFresh,
       ReportsAreNumbered, Frozen, HasEvidence, NoEvidence, FreshUnit
  <2>. QED
    BY <2>1, <2>2, WorkingOutside DEF ChainNodes
<1>5. CASE OpenResume
  <2>1. unit' = RestartUnfinished /\ passing' = passing /\ node' = "opening"
    BY <1>5 DEF OpenResume
  <2>2. ASSUME NEW u \in Units
        PROVE  \/ unit'[u] = unit[u] /\ unit[u].status \in {"frozen", "manual_review"}
               \/ unit'[u].status = "pending" /\ NoEvidence(unit'[u])
    BY <1>1, <2>1 DEF RestartUnfinished, KeptOnResume, NoEvidence, TypeOK, UnitState
  <2>3. DurableEvidence'
    BY <1>1, <2>1, <2>2 DEF DurableEvidence, FrozenVerified, ReviewJustified,
       PendingIsFresh, ReportsAreNumbered, Frozen, HasEvidence, OneAttempt, NoEvidence
  <2>. QED
    BY <2>1, <2>3, WorkingOutside DEF ChainNodes
<1>6. CASE OpenCheckpoint \/ Initialize \/ SelectNothing \/ ProjectValidate \/ Publish
           \/ Complete \/ Interrupt
  <2>1. UNCHANGED <<unit, passing>> /\ node' \notin ChainNodes
    BY <1>6 DEF OpenCheckpoint, Initialize, SelectNothing, ProjectValidate, Publish,
       Complete, Interrupt, Leave, disk, ChainNodes
  <2>. QED
    BY <1>1, <2>1, DurableKept, WorkingOutside
<1>7. CASE SelectUnit
  <2>1. PICK u \in Ready : graph' = [GraphInput EXCEPT !.chain = u]
    BY <1>7 DEF SelectUnit
  <2>2. u \in Units /\ unit[u].status \in {"pending", "ready"} /\ NoEvidence(unit[u])
    BY <1>1 DEF Ready, DurableEvidence, PendingIsFresh
  <2>3. /\ UNCHANGED <<unit, passing>>
        /\ node' = "build_context" /\ graph'.chain = u
        /\ graph'.translation = None /\ graph'.assembly = None /\ graph'.observation = None
    BY <1>7, <2>1 DEF SelectUnit, disk, GraphInput
  <2>4. WorkingEvidence'
    BY <2>2, <2>3 DEF WorkingEvidence, CurrentNotTerminal, Current, AttemptInProgress,
       GraphAgrees, RoutedByReport, NoEvidence
  <2>. QED
    BY <1>1, <2>3, <2>4, DurableKept
<1>8. CASE BuildContext
  <2>1. /\ UNCHANGED <<unit, passing, attempt>> /\ node = "build_context" /\ node' = "reason"
        /\ graph'.chain = graph.chain /\ graph'.translation = graph.translation
        /\ graph'.assembly = graph.assembly /\ graph'.observation = graph.observation
    BY <1>1, <1>8 DEF BuildContext, Enter, disk, TypeOK, GraphState
  <2>2. WorkingEvidence'
    BY <1>1, <2>1 DEF WorkingEvidence, CurrentNotTerminal, Current, AttemptInProgress,
       GraphAgrees, RoutedByReport, NoEvidence, HasEvidence, OneAttempt, ChainNodes
  <2>. QED
    BY <1>1, <2>1, <2>2, DurableKept
<1>9. CASE Reason
  <2>1. PICK action \in Answers : graph' = [graph EXCEPT !.stratagem = action]
                                  /\ node' = AfterReason(action)
    BY <1>9 DEF Reason
  <2>2. /\ UNCHANGED <<unit, passing, attempt>> /\ node = "reason"
        /\ graph'.chain = graph.chain /\ graph'.translation = graph.translation
        /\ graph'.assembly = graph.assembly /\ graph'.observation = graph.observation
    BY <1>1, <1>9, <2>1 DEF Reason, Enter, disk, TypeOK, GraphState
  <2>3. ObservationPassed => graph.translation # None /\ graph.assembly # None
    BY <1>1, <2>2 DEF ObservationPassed, DurableEvidence, ReportsAreNumbered, WorkingEvidence,
       GraphAgrees, NoEvidence, HasEvidence, ChainNodes
  <2>4. ObservationPassed => node' = "freeze_chain"
    BY <2>1, <2>3 DEF Answers, AfterReason
  <2>5. ~ObservationPassed => node' \in {"manual_review", "act", "build_context"}
    BY <2>1 DEF AfterReason
  <2>6. ObservationPassed' <=> ObservationPassed
    BY <2>2 DEF ObservationPassed
  <2>7. WorkingEvidence'
    BY <1>1, <2>2, <2>4, <2>5, <2>6 DEF WorkingEvidence, CurrentNotTerminal, Current,
       AttemptInProgress, GraphAgrees, RoutedByReport, NoEvidence, HasEvidence, OneAttempt,
       ChainNodes
  <2>. QED
    BY <1>1, <2>2, <2>7, DurableKept
<1>10. CASE Act
  <2> DEFINE c == graph.chain
  <2>1. /\ node = "act" /\ node' = "assemble" /\ c \in Units /\ passing' = passing
        /\ graph'.chain = c /\ graph'.translation = attempt'[c]
        /\ attempt'[c] = attempt[c] + 1 /\ attempt'[c] # None
    BY <1>1, <1>10 DEF Act, Enter, TypeOK, GraphState, ChainNodes, None
  <2>2. /\ \A u \in Units \ {c} : unit'[u] = unit[u]
        /\ unit'[c].status = "generated" /\ unit'[c].translation = attempt'[c]
    BY <1>1, <1>10, <2>1 DEF Act, TypeOK, UnitState
  <2>3. DurableEvidence'
    BY <1>1, <2>1, <2>2, DurableKeptElsewhere DEF DurableEvidence, ReportsAreNumbered
  <2>4. WorkingEvidence'
    BY <2>1, <2>2 DEF WorkingEvidence, CurrentNotTerminal, Current, AttemptInProgress,
       GraphAgrees, RoutedByReport
  <2>. QED
    BY <2>3, <2>4
<1>11. CASE Assemble
  <2> DEFINE c == graph.chain
  <2>1. /\ node = "assemble" /\ node' = "observe" /\ c \in Units /\ passing' = passing
        /\ attempt' = attempt /\ graph'.chain = c /\ graph'.translation = graph.translation
        /\ graph'.assembly = attempt[c]
    BY <1>1, <1>11 DEF Assemble, Enter, TypeOK, GraphState, ChainNodes
  <2>2. /\ \A u \in Units \ {c} : unit'[u] = unit[u]
        /\ unit'[c].status = unit[c].status /\ unit'[c].translation = unit[c].translation
        /\ unit'[c].assembly = attempt[c]
    BY <1>1, <1>11, <2>1 DEF Assemble, TypeOK, UnitState
  <2>3. /\ unit[c].status = "generated" /\ attempt[c] # None
        /\ graph.translation = attempt[c] /\ unit[c].translation = attempt[c]
    BY <1>1, <2>1 DEF WorkingEvidence, AttemptInProgress, Current
  <2>4. DurableEvidence'
    BY <1>1, <2>1, <2>2, <2>3, DurableKeptElsewhere DEF DurableEvidence, ReportsAreNumbered
  <2>5. WorkingEvidence'
    BY <2>1, <2>2, <2>3 DEF WorkingEvidence, CurrentNotTerminal, Current, AttemptInProgress,
       GraphAgrees, RoutedByReport
  <2>. QED
    BY <2>4, <2>5
<1>12. CASE Observe
  <2> DEFINE c == graph.chain
             n == attempt[c]
  <2>1. PICK passed \in BOOLEAN :
          /\ WriteReport(c, n, passed)
          /\ graph' = [graph EXCEPT !.observation = n, !.retry = @ + 1]
          /\ unit' = [unit EXCEPT ![c].status = IF passed THEN "verified" ELSE "failed",
                                  ![c].observation = n,
                                  ![c].retry = graph.retry + 1]
    BY <1>12 DEF Observe
  <2>2. /\ node = "observe" /\ node' = "reason" /\ c \in Units /\ graph'.chain = c
        /\ graph'.translation = graph.translation /\ graph'.assembly = graph.assembly
        /\ graph'.observation = n
    BY <1>1, <1>12, <2>1 DEF Observe, Enter, TypeOK, GraphState, ChainNodes
  <2>3. /\ n # None /\ graph.translation = n /\ graph.assembly = n
        /\ unit[c].translation = n /\ unit[c].assembly = n
    BY <1>1, <2>2 DEF WorkingEvidence, AttemptInProgress, Current
  <2>4. \A u \in Units \ {c} : unit'[u] = unit[u]
    BY <1>1, <2>1 DEF TypeOK
  <2>5. /\ unit'[c].status \in {"verified", "failed"}
        /\ unit'[c].translation = n /\ unit'[c].assembly = n /\ unit'[c].observation = n
    BY <1>1, <2>1, <2>2, <2>3 DEF TypeOK, UnitState
  <2>6. /\ \A p : p[1] # c => (p \in passing' <=> p \in passing)
        /\ \A p \in passing' : p[2] # None
    BY <1>1, <2>1, <2>3 DEF WriteReport, DurableEvidence, ReportsAreNumbered
  <2>7. DurableEvidence'
    BY <1>1, <2>2, <2>4, <2>5, <2>6, DurableKeptElsewhere
  <2>8. WorkingEvidence'
    BY <2>2, <2>3, <2>5 DEF WorkingEvidence, CurrentNotTerminal, Current, AttemptInProgress,
       GraphAgrees, RoutedByReport, HasEvidence, OneAttempt
  <2>. QED
    BY <2>7, <2>8
<1>13. CASE FreezeChain
  <2> DEFINE c == graph.chain
  <2>1. node = "freeze_chain" /\ node' \notin ChainNodes /\ c \in Units /\ passing' = passing
    BY <1>1, <1>13 DEF FreezeChain, Enter, TypeOK, ChainNodes
  <2>2. /\ \A u \in Units \ {c} : unit'[u] = unit[u]
        /\ unit'[c].status = "frozen" /\ unit'[c].translation = unit[c].translation
        /\ unit'[c].assembly = unit[c].assembly /\ unit'[c].observation = unit[c].observation
    BY <1>1, <1>13, <2>1 DEF FreezeChain, TypeOK, UnitState
  <2>3. <<c, graph.observation>> \in passing /\ graph.observation # None
    BY <1>1, <2>1 DEF WorkingEvidence, RoutedByReport, ObservationPassed, DurableEvidence,
       ReportsAreNumbered
  <2>4. graph.observation = unit[c].observation /\ HasEvidence(unit[c]) /\ OneAttempt(unit[c])
    BY <1>1, <2>1, <2>3 DEF WorkingEvidence, GraphAgrees, Current, NoEvidence, ChainNodes
  <2>5. DurableEvidence'
    BY <1>1, <2>1, <2>2, <2>3, <2>4, DurableKeptElsewhere
       DEF DurableEvidence, ReportsAreNumbered, HasEvidence, OneAttempt
  <2>. QED
    BY <2>1, <2>5, WorkingOutside
<1>14. CASE ManualReview
  <2> DEFINE c == graph.chain
  <2>1. node = "manual_review" /\ node' \notin ChainNodes /\ c \in Units /\ passing' = passing
    BY <1>1, <1>14 DEF ManualReview, Enter, TypeOK, ChainNodes
  <2>2. /\ \A u \in Units \ {c} : unit'[u] = unit[u]
        /\ unit'[c].status = "manual_review" /\ unit'[c].translation = unit[c].translation
        /\ unit'[c].assembly = unit[c].assembly /\ unit'[c].observation = unit[c].observation
    BY <1>1, <1>14, <2>1 DEF ManualReview, TypeOK, UnitState
  <2>3. <<c, unit[c].observation>> \notin passing
    BY <1>1, <2>1 DEF WorkingEvidence, RoutedByReport, GraphAgrees, Current, ObservationPassed,
       ChainNodes
  <2>4. HasEvidence(unit[c]) => OneAttempt(unit[c])
    BY <1>1, <2>1 DEF WorkingEvidence, GraphAgrees, Current, NoEvidence, HasEvidence, ChainNodes
  <2>5. DurableEvidence'
    BY <1>1, <2>1, <2>2, <2>3, <2>4, DurableKeptElsewhere
       DEF DurableEvidence, ReportsAreNumbered, HasEvidence, OneAttempt
  <2>. QED
    BY <2>1, <2>5, WorkingOutside
<1>15. PartialEffects /\ node \in GraphNodes /\ unit' = unit => DurableEvidence'
  <2> SUFFICES ASSUME PartialEffects, node \in GraphNodes, unit' = unit
               PROVE  DurableEvidence'
    OBVIOUS
  <2>1. CASE passing' = passing
    BY <1>1, <2>1, DurableKept
  <2>2. ASSUME node = "observe", NEW passed \in BOOLEAN,
               WriteReport(graph.chain, attempt[graph.chain], passed)
        PROVE  DurableEvidence'
    <3> DEFINE c == graph.chain
               n == attempt[c]
    <3>1. c \in Units /\ n # None /\ unit[c].status = "generated"
      BY <1>1, <2>2 DEF TypeOK, ChainNodes, WorkingEvidence, AttemptInProgress, Current
    <3>2. /\ \A p : p[1] # c => (p \in passing' <=> p \in passing)
          /\ \A p \in passing' : p[2] # None
      BY <1>1, <2>2, <3>1 DEF WriteReport, DurableEvidence, ReportsAreNumbered
    <3>. QED
      BY <1>1, <3>1, <3>2, DurableKeptElsewhere
  <2>. QED
    BY <2>1, <2>2 DEF PartialEffects
<1>16. CASE Raise
  BY <1>15, <1>16, WorkingOutside DEF Raise, ChainNodes
<1>17. CASE Crash
  <2>1. unit' = unit /\ node' \notin ChainNodes
    BY <1>17 DEF Crash, Leave, ChainNodes
  <2>2. node \notin GraphNodes => passing' = passing
    BY <1>17 DEF Crash
  <2>. QED
    BY <1>1, <1>15, <1>17, <2>1, <2>2, DurableKept, WorkingOutside DEF Crash
<1>18. CASE Demote
  <2>1. node' \notin ChainNodes /\ passing' = passing
    BY <1>18 DEF Demote, ChainNodes
  <2>2. CASE tracked = None
    BY <1>1, <1>18, <2>1, <2>2, DurableKept, WorkingOutside DEF Demote
  <2>3. CASE tracked # None
    <3>1. tracked \in Units
      BY <1>1, <2>3 DEF TypeOK, MaybeUnit
    <3>2. /\ \A u \in Units \ {tracked} : unit'[u] = unit[u]
          /\ unit'[tracked].status = "failed"
      BY <1>1, <1>18, <2>3, <3>1 DEF Demote, TypeOK, UnitState
    <3>. QED
      BY <1>1, <2>1, <3>1, <3>2, DurableKeptElsewhere, WorkingOutside
         DEF DurableEvidence, ReportsAreNumbered
  <2>. QED
    BY <2>2, <2>3
<1>. QED
  BY <1>3, <1>4, <1>5, <1>6, <1>7, <1>8, <1>9, <1>10, <1>11, <1>12, <1>13, <1>14, <1>16,
     <1>17, <1>18 DEF Next, SessionStep, GraphStep

(* A job without units in progress has nothing to be evident.              *)
LEMMA EvidenceInit == Init => EvidenceInv
<1> SUFFICES ASSUME Init PROVE EvidenceInv
  OBVIOUS
<1>1. TypeOK
  BY TypeInit
<1>2. DurableEvidence
  BY DEF Init, DurableEvidence, FrozenVerified, ReviewJustified, PendingIsFresh,
     ReportsAreNumbered, Frozen, FreshUnit, NoEvidence
<1>3. WorkingEvidence
  BY DEF Init, WorkingEvidence, CurrentNotTerminal, AttemptInProgress, GraphAgrees,
     RoutedByReport, ChainNodes
<1>. QED
  BY <1>1, <1>2, <1>3 DEF EvidenceInv

(* A frozen unit has the translation, assembly and passing report of one   *)
(* and the same attempt, whatever crashed, raised or was resumed before.   *)
THEOREM FrozenIsVerified == Spec => []FrozenVerified
<1>1. EvidenceInv => FrozenVerified
  BY DEF EvidenceInv, DurableEvidence
<1>. QED
  BY <1>1, EvidenceInit, EvidenceStep, PTL DEF Spec

(* What a resume keeps for human review is one complete attempt that       *)
(* failed its check.                                                       *)
THEOREM ReviewIsJustified == Spec => []ReviewJustified
<1>1. EvidenceInv => ReviewJustified
  BY DEF EvidenceInv, DurableEvidence
<1>. QED
  BY <1>1, EvidenceInit, EvidenceStep, PTL DEF Spec

(* The evidence recorded for a decided unit is evidence of that decision:  *)
(* what freeze_chain and manual_review write is true of the attempt.       *)
THEOREM EvidenceIsComplete == Spec => []EvidenceHolds
<1>1. FrozenVerified /\ ReviewJustified => EvidenceHolds
  BY DEF EvidenceHolds
<1>. QED
  BY <1>1, FrozenIsVerified, ReviewIsJustified, PTL

-----------------------------------------------------------------------------
(* The checkpoint.                                                         *)

(* What the session works on, or may demote, is not listed.                *)
CurrentNotListed ==
  /\ graph.chain \notin checkpoint.completed
  /\ tracked \notin checkpoint.completed

(* A completed checkpoint is rewritten before the graph runs again.        *)
CompletedIsClosed == checkpoint.status = "completed" => node \in {"idle", "opening"}

NothingListedBeforeFirstSession ==
  sessions = 0 => node = "idle" /\ checkpoint.status = "absent" /\ checkpoint.completed = {}

CheckpointInv ==
  /\ TypeOK
  /\ CheckpointTruthful
  /\ CurrentNotListed
  /\ CompletedIsClosed
  /\ NothingListedBeforeFirstSession

(* A step that leaves the checkpoint alone, works on nothing listed and    *)
(* unfreezes nothing listed keeps the checkpoint truthful.                 *)
LEMMA CheckpointKept ==
  ASSUME CheckpointInv, TypeOK', checkpoint' = checkpoint, sessions' = sessions,
         node # "idle",
         node' \in {"idle", "opening"} \/ checkpoint.status # "completed",
         \A u \in Frozen : u \in checkpoint.completed => unit'[u].status = "frozen",
         checkpoint.status = "completed" => unit' = unit,
         graph'.chain \notin checkpoint.completed,
         tracked' \notin checkpoint.completed
  PROVE  CheckpointInv'
<1>1. CheckpointTruthful'
  BY DEF CheckpointInv, CheckpointTruthful, Frozen
<1>2. CurrentNotListed' /\ CompletedIsClosed' /\ NothingListedBeforeFirstSession'
  BY DEF CheckpointInv, CurrentNotListed, CompletedIsClosed, NothingListedBeforeFirstSession
<1>. QED
  BY <1>1, <1>2 DEF CheckpointInv

(* No unit is called None.                                                 *)
LEMMA NoneIsNoUnit == None \notin Units
BY UnitCountIsNat DEF None, Units

(* No step of the code breaks the checkpoint invariant.                    *)
LEMMA CheckpointStep == CheckpointInv /\ [Next]_vars => CheckpointInv'
<1> SUFFICES ASSUME CheckpointInv, [Next]_vars PROVE CheckpointInv'
  OBVIOUS
<1>1. TypeOK /\ TypeOK'
  BY TypeStep DEF CheckpointInv
<1>2. /\ checkpoint.completed \subseteq Frozen /\ checkpoint.completed \subseteq Units
      /\ None \notin checkpoint.completed
      /\ graph.chain \notin checkpoint.completed /\ tracked \notin checkpoint.completed
      /\ Recorded(node) \notin checkpoint.completed
  BY <1>1, NoneIsNoUnit DEF CheckpointInv, CheckpointTruthful, CurrentNotListed, Frozen,
     Recorded
<1>3. node \notin {"idle", "opening"} => checkpoint.status # "completed"
  BY DEF CheckpointInv, CompletedIsClosed
<1>4. CASE UNCHANGED vars
  BY <1>1, <1>4 DEF vars, CheckpointInv, CheckpointTruthful, Frozen, CurrentNotListed,
     CompletedIsClosed, NothingListedBeforeFirstSession
<1>5. CASE OpenNew
  <2>1. /\ checkpoint.completed = {} /\ checkpoint.status = "absent"
        /\ checkpoint' = checkpoint /\ node' = "opening" /\ sessions' # 0
    BY <1>1, <1>5 DEF OpenNew, CheckpointInv, NothingListedBeforeFirstSession
  <2>. QED
    BY <1>1, <2>1 DEF CheckpointInv, CheckpointTruthful, CurrentNotListed, CompletedIsClosed,
       NothingListedBeforeFirstSession
<1>6. CASE OpenResume
  <2>1. /\ checkpoint' = checkpoint /\ graph' = graph /\ tracked' = tracked
        /\ node' = "opening" /\ sessions' = sessions + 1 /\ unit' = RestartUnfinished
    BY <1>6 DEF OpenResume, memory
  <2>2. \A u \in Frozen : u \in Units /\ unit'[u].status = "frozen"
    BY <1>1, <2>1 DEF Frozen, RestartUnfinished, KeptOnResume
  <2>3. Frozen \subseteq Frozen'
    BY <2>2 DEF Frozen
  <2>4. CheckpointTruthful'
    BY <1>2, <2>1, <2>3 DEF CheckpointInv, CheckpointTruthful, Frozen
  <2>5. sessions' # 0
    BY <1>1, <2>1 DEF TypeOK
  <2>. QED
    BY <1>1, <2>1, <2>4, <2>5 DEF CheckpointInv, CurrentNotListed, CompletedIsClosed,
       NothingListedBeforeFirstSession
<1>7. CASE OpenCheckpoint
  <2>1. /\ checkpoint' = [status |-> "running", completed |-> Frozen] /\ unit' = unit
        /\ graph'.chain = None /\ tracked' = None /\ sessions' = sessions /\ node # "idle"
    BY <1>7 DEF OpenCheckpoint, SaveCheckpoint, GraphInput
  <2>2. Frozen' = Frozen /\ Frozen \subseteq Units
    BY <2>1 DEF Frozen
  <2>. QED
    BY <1>1, <2>1, <2>2, NoneIsNoUnit DEF CheckpointInv, CheckpointTruthful, CurrentNotListed,
       CompletedIsClosed, NothingListedBeforeFirstSession
<1>8. CASE Complete \/ Interrupt
  <2>1. PICK status \in {"completed", "manual_review", "interrupted"} :
          /\ checkpoint' = [status |-> status, completed |-> Frozen]
          /\ status = "completed" => Frozen = Units
    BY <1>8 DEF Complete, Interrupt, SaveCheckpoint, FinalStatus
  <2>2. /\ unit' = unit /\ graph'.chain = None /\ tracked' = None /\ sessions' = sessions
        /\ node # "idle" /\ node' = "idle"
    BY <1>8 DEF Complete, Interrupt, Leave, GraphInput
  <2>3. Frozen' = Frozen /\ Frozen \subseteq Units
    BY <2>2 DEF Frozen
  <2>. QED
    BY <1>1, <2>1, <2>2, <2>3, NoneIsNoUnit DEF CheckpointInv, CheckpointTruthful,
       CurrentNotListed, CompletedIsClosed, NothingListedBeforeFirstSession
<1>9. CASE SelectUnit
  <2>1. PICK u \in Ready : graph' = [GraphInput EXCEPT !.chain = u]
    BY <1>9 DEF SelectUnit
  <2>2. graph'.chain \notin checkpoint.completed
    BY <1>2, <2>1 DEF Ready, Frozen, GraphInput
  <2>. QED
    BY <1>1, <1>2, <1>3, <1>9, <2>2, CheckpointKept DEF SelectUnit, Enter, disk, Frozen
<1>10. CASE Initialize \/ SelectNothing \/ BuildContext \/ Reason \/ ProjectValidate \/ Publish
  <2>1. /\ checkpoint' = checkpoint /\ sessions' = sessions /\ unit' = unit
        /\ node \in GraphNodes /\ tracked' = Recorded(node)
    BY <1>10 DEF Initialize, SelectNothing, BuildContext, Reason, ProjectValidate, Publish,
       Enter, disk, GraphNodes, ChainNodes, QuietNodes
  <2>2. graph'.chain \in {graph.chain, None}
    BY <1>1, <1>10 DEF Initialize, SelectNothing, BuildContext, Reason, ProjectValidate,
       Publish, TypeOK, GraphState
  <2>. QED
    BY <1>1, <1>2, <1>3, <2>1, <2>2, CheckpointKept
       DEF Frozen, GraphNodes, ChainNodes, QuietNodes
<1>11. CASE Act \/ Assemble \/ Observe \/ FreezeChain \/ ManualReview
  <2>1. /\ checkpoint' = checkpoint /\ sessions' = sessions
        /\ node \in ChainNodes /\ tracked' = Recorded(node)
    BY <1>11 DEF Act, Assemble, Observe, FreezeChain, ManualReview, Enter, ChainNodes
  <2>2. graph'.chain = graph.chain
    BY <1>1, <1>11 DEF Act, Assemble, Observe, FreezeChain, ManualReview, TypeOK, GraphState
  <2>3. \A u \in Units \ {graph.chain} : unit'[u] = unit[u]
    BY <1>1, <1>11 DEF Act, Assemble, Observe, FreezeChain, ManualReview, TypeOK
  <2>4. \A u \in Frozen : u \in checkpoint.completed => unit'[u].status = "frozen"
    BY <1>2, <2>3 DEF Frozen
  <2>. QED
    BY <1>1, <1>2, <1>3, <2>1, <2>2, <2>4, CheckpointKept DEF ChainNodes
<1>12. CASE Raise
  <2>1. /\ checkpoint' = checkpoint /\ sessions' = sessions /\ unit' = unit /\ graph' = graph
        /\ node \in GraphNodes /\ tracked' \in {tracked, Recorded(node)}
    BY <1>12 DEF Raise
  <2>. QED
    BY <1>1, <1>2, <1>3, <2>1, CheckpointKept DEF Frozen, GraphNodes, ChainNodes, QuietNodes
<1>13. CASE Demote
  <2>1. /\ checkpoint' = checkpoint /\ sessions' = sessions /\ node = "demote"
        /\ graph' = graph /\ tracked' = tracked
    BY <1>13 DEF Demote, memory
  <2>2. \A u \in Units \ {tracked} : unit'[u] = unit[u]
    BY <1>1, <1>13 DEF Demote, TypeOK
  <2>3. \A u \in Frozen : u \in checkpoint.completed => unit'[u].status = "frozen"
    BY <1>2, <2>2 DEF Frozen
  <2>. QED
    BY <1>1, <1>2, <1>3, <2>1, <2>3, CheckpointKept
<1>14. CASE Crash
  <2>1. /\ checkpoint' = checkpoint /\ sessions' = sessions /\ unit' = unit /\ node # "idle"
        /\ node' = "idle" /\ graph'.chain = None /\ tracked' = None
    BY <1>14 DEF Crash, Leave, GraphInput
  <2>. QED
    BY <1>1, <1>2, <2>1, CheckpointKept DEF Frozen
<1>. QED
  BY <1>4, <1>5, <1>6, <1>7, <1>8, <1>9, <1>10, <1>11, <1>12, <1>13, <1>14
     DEF Next, SessionStep, GraphStep

(* Before the first session the checkpoint claims nothing.                 *)
LEMMA CheckpointInit == Init => CheckpointInv
BY TypeInit DEF Init, CheckpointInv, CheckpointTruthful, CurrentNotListed, CompletedIsClosed,
   NothingListedBeforeFirstSession

(* Wherever the process dies, what the checkpoint file claims is true of   *)
(* the state file.                                                         *)
THEOREM CheckpointIsTruthful == Spec => []CheckpointTruthful
<1>1. CheckpointInv => CheckpointTruthful
  BY DEF CheckpointInv
<1>. QED
  BY <1>1, CheckpointInit, CheckpointStep, PTL DEF Spec

(* Once the checkpoint lists a unit no later step of any session changes   *)
(* its state or its reports.                                               *)
THEOREM ListedIsUntouched == Spec => ListedUnitsUntouched
<1> DEFINE Untouched == \A u \in checkpoint.completed :
       /\ unit'[u] = unit[u]
       /\ {p \in passing' : p[1] = u} = {p \in passing : p[1] = u}
<1>1. CheckpointInv /\ [Next]_vars => [Untouched]_vars
  <2> SUFFICES ASSUME CheckpointInv, [Next]_vars, NEW u \in checkpoint.completed
               PROVE  /\ unit'[u] = unit[u]
                      /\ {p \in passing' : p[1] = u} = {p \in passing : p[1] = u}
    BY DEF Untouched
  <2>1. /\ TypeOK /\ u \in Frozen /\ u \in Units /\ unit[u].status = "frozen"
        /\ u # graph.chain /\ u # tracked
    BY DEF CheckpointInv, CheckpointTruthful, CurrentNotListed, Frozen
  <2>2. CASE UNCHANGED vars
    BY <2>2 DEF vars
  <2>3. CASE OpenNew
    BY <2>3 DEF OpenNew, CheckpointInv, NothingListedBeforeFirstSession
  <2>4. CASE OpenResume
    BY <2>1, <2>4 DEF OpenResume, RestartUnfinished, KeptOnResume
  <2>5. CASE \/ OpenCheckpoint \/ Initialize \/ SelectUnit \/ SelectNothing \/ BuildContext
             \/ Reason \/ ProjectValidate \/ Publish \/ Complete \/ Interrupt
    BY <2>5 DEF OpenCheckpoint, Initialize, SelectUnit, SelectNothing, BuildContext, Reason,
       ProjectValidate, Publish, Complete, Interrupt, disk
  <2>6. CASE Act \/ Assemble \/ FreezeChain \/ ManualReview
    BY <2>1, <2>6 DEF Act, Assemble, FreezeChain, ManualReview, TypeOK
  <2>7. ASSUME NEW passed \in BOOLEAN, WriteReport(graph.chain, attempt[graph.chain], passed)
        PROVE  {p \in passing' : p[1] = u} = {p \in passing : p[1] = u}
    BY <2>1, <2>7 DEF WriteReport
  <2>8. CASE Observe
    <3>1. unit'[u] = unit[u]
      BY <2>1, <2>8 DEF Observe, TypeOK
    <3>. QED
      BY <2>7, <2>8, <3>1 DEF Observe
  <2>9. CASE Demote
    BY <2>1, <2>9 DEF Demote, TypeOK
  <2>10. CASE Raise \/ Crash
    BY <2>7, <2>10 DEF Raise, Crash, PartialEffects
  <2>. QED
    BY <2>2, <2>3, <2>4, <2>5, <2>6, <2>8, <2>9, <2>10 DEF Next, SessionStep, GraphStep
<1>. QED
  BY <1>1, CheckpointInit, CheckpointStep, PTL DEF Spec, ListedUnitsUntouched

-----------------------------------------------------------------------------
(* The retry budget: the work that uses up a retry starts below the limit. *)

BudgetInv ==
  /\ TypeOK
  /\ RetryBudget
  /\ node \in {"act", "assemble", "observe"} => graph.retry < MaxRetries
  /\ node = "build_context" /\ graph.stratagem = "rebuild_context" => graph.retry < MaxRetries

(* No step of the code overdraws the retry budget.                         *)
LEMMA BudgetStep == BudgetInv /\ [Next]_vars => BudgetInv'
<1> SUFFICES ASSUME BudgetInv, [Next]_vars PROVE BudgetInv'
  OBVIOUS
<1>1. TypeOK /\ TypeOK' /\ MaxRetries \in Nat
  BY TypeStep, MaxRetriesIsNat DEF BudgetInv
<1>2. graph.retry \in Nat /\ \A u \in Units : unit[u].retry <= MaxRetries
  BY <1>1 DEF TypeOK, GraphState, BudgetInv, RetryBudget
<1>3. Leave => graph'.retry = 0 /\ node' = "idle"
  BY DEF Leave, GraphInput
<1>4. CASE UNCHANGED vars
  BY <1>1, <1>4 DEF vars, BudgetInv, RetryBudget
<1>5. CASE OpenNew
  BY <1>1, <1>5 DEF OpenNew, memory, FreshUnit, BudgetInv, RetryBudget
<1>6. CASE OpenResume
  <2>1. \A u \in Units : unit'[u].retry \in {0, unit[u].retry}
    BY <1>1, <1>6 DEF OpenResume, RestartUnfinished, TypeOK, UnitState
  <2>. QED
    BY <1>1, <1>2, <1>6, <2>1 DEF OpenResume, memory, BudgetInv, RetryBudget
<1>7. CASE OpenCheckpoint
  BY <1>1, <1>7 DEF OpenCheckpoint, GraphInput, BudgetInv, RetryBudget
<1>8. CASE Initialize \/ SelectNothing \/ ProjectValidate \/ Publish
  <2>1. UNCHANGED unit /\ graph'.retry = graph.retry
        /\ node' \in {"select_call_chain", "project_validate", "publish", "end"}
    BY <1>1, <1>8 DEF Initialize, SelectNothing, ProjectValidate, Publish, disk, TypeOK,
       GraphState
  <2>. QED
    BY <1>1, <2>1 DEF BudgetInv, RetryBudget
<1>9. CASE SelectUnit
  <2>1. PICK u \in Ready : graph' = [GraphInput EXCEPT !.chain = u]
    BY <1>9 DEF SelectUnit
  <2>2. graph'.retry = 0 /\ graph'.stratagem = "none" /\ node' = "build_context"
        /\ unit' = unit
    BY <1>9, <2>1 DEF SelectUnit, GraphInput, disk
  <2>. QED
    BY <1>1, <2>2 DEF BudgetInv, RetryBudget
<1>10. CASE BuildContext
  <2>1. /\ unit' = unit /\ node = "build_context" /\ node' = "reason"
        /\ graph'.retry = IF graph.stratagem = "rebuild_context"
                          THEN graph.retry + 1 ELSE graph.retry
    BY <1>1, <1>10 DEF BuildContext, Enter, disk, TypeOK, GraphState
  <2>2. graph'.retry <= MaxRetries
    BY <1>1, <1>2, <2>1 DEF BudgetInv, RetryBudget
  <2>. QED
    BY <1>1, <2>1, <2>2 DEF BudgetInv, RetryBudget
<1>11. CASE Reason
  <2>1. PICK action \in Answers : graph' = [graph EXCEPT !.stratagem = action]
                                  /\ node' = AfterReason(action)
    BY <1>11 DEF Reason
  <2>2. unit' = unit /\ graph'.retry = graph.retry
    BY <1>1, <1>11, <2>1 DEF Reason, disk, TypeOK, GraphState
  <2>3. /\ node' \in {"freeze_chain", "manual_review", "act", "build_context"}
        /\ node' \in {"act", "build_context"} => graph.retry < MaxRetries
    BY <1>1, <1>2, <2>1 DEF AfterReason
  <2>. QED
    BY <1>1, <2>2, <2>3 DEF BudgetInv, RetryBudget
<1>12. CASE Act \/ Assemble
  <2>1. /\ graph.chain \in Units /\ graph'.retry = graph.retry
        /\ graph.retry < MaxRetries /\ node' \in {"assemble", "observe"}
    BY <1>1, <1>12 DEF Act, Assemble, Enter, TypeOK, GraphState, ChainNodes, BudgetInv
  <2>2. \A u \in Units : unit'[u].retry = unit[u].retry
    BY <1>1, <1>12, <2>1 DEF Act, Assemble, TypeOK, UnitState
  <2>. QED
    BY <1>1, <1>2, <2>1, <2>2 DEF BudgetInv, RetryBudget
<1>13. CASE Observe
  <2>1. /\ graph.chain \in Units /\ graph'.retry = graph.retry + 1
        /\ graph.retry + 1 <= MaxRetries /\ node' = "reason"
    BY <1>1, <1>2, <1>13 DEF Observe, Enter, TypeOK, GraphState, ChainNodes, BudgetInv
  <2>2. \A u \in Units : unit'[u].retry \in {unit[u].retry, graph.retry + 1}
    BY <1>1, <1>13, <2>1 DEF Observe, TypeOK, UnitState
  <2>. QED
    BY <1>1, <1>2, <2>1, <2>2 DEF BudgetInv, RetryBudget
<1>14. CASE FreezeChain \/ ManualReview
  <2>1. graph.chain \in Units /\ graph' = graph /\ node' = "select_call_chain"
    BY <1>1, <1>14 DEF FreezeChain, ManualReview, Enter, TypeOK, ChainNodes
  <2>2. \A u \in Units : unit'[u].retry = unit[u].retry
    BY <1>1, <1>14, <2>1 DEF FreezeChain, ManualReview, TypeOK, UnitState
  <2>. QED
    BY <1>1, <1>2, <2>1, <2>2 DEF BudgetInv, RetryBudget
<1>15. CASE Complete \/ Interrupt \/ Crash
  BY <1>1, <1>2, <1>3, <1>15 DEF Complete, Interrupt, Crash, BudgetInv, RetryBudget
<1>16. CASE Raise
  BY <1>1, <1>2, <1>16 DEF Raise, BudgetInv, RetryBudget
<1>17. CASE Demote
  <2>1. graph' = graph /\ node' = "interrupt"
    BY <1>17 DEF Demote, memory
  <2>2. \A u \in Units : unit'[u].retry = unit[u].retry
    BY <1>1, <1>17 DEF Demote, TypeOK, UnitState, MaybeUnit
  <2>. QED
    BY <1>1, <1>2, <2>1, <2>2 DEF BudgetInv, RetryBudget
<1>. QED
  BY <1>4, <1>5, <1>6, <1>7, <1>8, <1>9, <1>10, <1>11, <1>12, <1>13, <1>14, <1>15, <1>16,
     <1>17 DEF Next, SessionStep, GraphStep

(* Repairs and context rebuilds together stay within max_retries.          *)
THEOREM RetriesAreBounded == Spec => []RetryBudget
<1>1. Init => BudgetInv
  BY TypeInit, MaxRetriesIsNat DEF Init, BudgetInv, RetryBudget, GraphInput, FreshUnit
<1>2. BudgetInv => RetryBudget
  BY DEF BudgetInv
<1>. QED
  BY <1>1, <1>2, BudgetStep, PTL DEF Spec

-----------------------------------------------------------------------------
(* Work in flight: at most one unit, and the one an exception demotes.     *)

InFlightInv ==
  /\ TypeOK
  /\ \A u, v \in InFlight : u = v
  /\ node \in {"opening", "end"} \cup QuietNodes => InFlight = {}
  /\ node \in ChainNodes => InFlight \subseteq {graph.chain}
  /\ node \in ChainNodes \ {"build_context"} => tracked = graph.chain
  /\ node = "build_context" /\ InFlight # {} => tracked = graph.chain
  /\ node = "demote" => InFlight \subseteq {tracked}

(* No step of the code starts a unit while another is half done.           *)
LEMMA InFlightStep == InFlightInv /\ [Next]_vars => InFlightInv'
<1> SUFFICES ASSUME InFlightInv, [Next]_vars PROVE InFlightInv'
  OBVIOUS
<1>1. TypeOK /\ TypeOK'
  BY TypeStep DEF InFlightInv
<1>2. unit' = unit => InFlight' = InFlight
  BY DEF InFlight
<1>3. CASE UNCHANGED vars
  BY <1>1, <1>2, <1>3 DEF vars, InFlightInv
<1>4. CASE OpenNew \/ OpenResume
  <2>1. node' = "opening" /\ \A u \in Units : unit'[u].status \in
                               {"pending", "frozen", "manual_review"}
    <3>1. CASE OpenNew
      BY <3>1 DEF OpenNew, FreshUnit
    <3>2. CASE OpenResume
      <4>1. \A u \in Units : unit[u] \in UnitState
        BY <1>1 DEF TypeOK
      <4>2. \A u \in Units : RestartUnfinished[u].status \in
                               {"pending", "frozen", "manual_review"}
        BY <4>1 DEF RestartUnfinished, KeptOnResume, UnitState
      <4>. QED
        BY <3>2, <4>2 DEF OpenResume
    <3>. QED
      BY <1>4, <3>1, <3>2
  <2>2. InFlight' = {}
    BY <2>1 DEF InFlight
  <2>. QED
    BY <1>1, <2>1, <2>2 DEF InFlightInv, ChainNodes
<1>5. CASE OpenCheckpoint \/ Initialize \/ SelectNothing \/ ProjectValidate \/ Publish
  <2>1. /\ unit' = unit /\ node \in {"opening"} \cup QuietNodes
        /\ node' \in {"end"} \cup QuietNodes
    BY <1>5 DEF OpenCheckpoint, Initialize, SelectNothing, ProjectValidate, Publish, Enter,
       disk, QuietNodes
  <2>. QED
    BY <1>1, <1>2, <2>1 DEF InFlightInv, ChainNodes, QuietNodes
<1>6. CASE SelectUnit
  <2>1. unit' = unit /\ node = "select_call_chain" /\ node' = "build_context"
    BY <1>6 DEF SelectUnit, Enter, disk
  <2>. QED
    BY <1>1, <1>2, <2>1 DEF InFlightInv, ChainNodes, QuietNodes
<1>7. CASE BuildContext \/ Reason
  <2>1. /\ unit' = unit /\ node \in ChainNodes /\ node \notin QuietNodes
        /\ node' \in ChainNodes /\ graph'.chain = graph.chain /\ tracked' = graph.chain
    BY <1>1, <1>7 DEF BuildContext, Reason, AfterReason, Enter, Recorded, disk, TypeOK,
       GraphState, ChainNodes, QuietNodes
  <2>. QED
    BY <1>1, <1>2, <2>1 DEF InFlightInv, ChainNodes, QuietNodes
<1>8. CASE Act \/ Assemble \/ Observe \/ FreezeChain \/ ManualReview
  <2>1. /\ node \in ChainNodes /\ tracked' = graph.chain /\ graph'.chain = graph.chain
        /\ graph.chain \in Units /\ InFlight \subseteq {graph.chain}
    BY <1>1, <1>8 DEF Act, Assemble, Observe, FreezeChain, ManualReview, Enter, Recorded,
       TypeOK, GraphState, ChainNodes, QuietNodes, InFlightInv
  <2>2. \A u \in Units \ {graph.chain} : unit'[u] = unit[u]
    BY <1>1, <1>8 DEF Act, Assemble, Observe, FreezeChain, ManualReview, TypeOK
  <2>3. InFlight' \subseteq {graph.chain}
    BY <2>1, <2>2 DEF InFlight
  <2>4. CASE Act \/ Assemble \/ Observe
    BY <1>1, <2>1, <2>3, <2>4
       DEF Act, Assemble, Observe, InFlightInv, ChainNodes, QuietNodes
  <2>5. CASE FreezeChain \/ ManualReview
    <3>1. unit'[graph.chain].status \in {"frozen", "manual_review"}
      BY <1>1, <2>1, <2>5 DEF FreezeChain, ManualReview, TypeOK, UnitState
    <3>2. InFlight' = {} /\ node' = "select_call_chain"
      BY <2>3, <2>5, <3>1 DEF InFlight, FreezeChain, ManualReview
    <3>. QED
      BY <1>1, <3>2 DEF InFlightInv, ChainNodes
  <2>. QED
    BY <1>8, <2>4, <2>5
<1>9. CASE Complete \/ Interrupt \/ Crash
  BY <1>1, <1>2, <1>9 DEF Complete, Interrupt, Crash, Leave, InFlightInv, ChainNodes,
     QuietNodes
<1>10. CASE Raise
  <2>1. /\ unit' = unit /\ node \in ChainNodes \cup QuietNodes /\ node' = "demote"
        /\ tracked' \in {tracked, Recorded(node)}
    BY <1>10 DEF Raise, GraphNodes
  <2>2. node \in ChainNodes => Recorded(node) = graph.chain
    BY DEF Recorded, ChainNodes, QuietNodes
  <2>3. InFlight \subseteq {tracked'}
    BY <2>1, <2>2 DEF InFlightInv, ChainNodes, QuietNodes
  <2>. QED
    BY <1>1, <1>2, <2>1, <2>3 DEF InFlightInv, ChainNodes, QuietNodes
<1>11. CASE Demote
  <2>1. node = "demote" /\ node' = "interrupt" /\ InFlight \subseteq {tracked}
    BY <1>11 DEF Demote, InFlightInv
  <2>2. \A u \in Units \ {tracked} : unit'[u] = unit[u]
    BY <1>1, <1>11 DEF Demote, TypeOK
  <2>3. InFlight' \subseteq {tracked}
    BY <2>1, <2>2 DEF InFlight
  <2>. QED
    BY <1>1, <2>1, <2>3 DEF InFlightInv, ChainNodes, QuietNodes
<1>. QED
  BY <1>3, <1>4, <1>5, <1>6, <1>7, <1>8, <1>9, <1>10, <1>11
     DEF Next, SessionStep, GraphStep

(* Work in progress is confined to one unit, across exceptions, crashes    *)
(* and resumes.                                                            *)
THEOREM OnlyOneInFlight == Spec => []OneInFlight
<1>1. Init => InFlightInv
  BY TypeInit DEF Init, InFlightInv, InFlight, FreshUnit, ChainNodes, QuietNodes
<1>2. InFlightInv => OneInFlight
  BY DEF InFlightInv, OneInFlight
<1>. QED
  BY <1>1, <1>2, InFlightStep, PTL DEF Spec

-----------------------------------------------------------------------------
(* The end of the graph.                                                   *)

EndsInv ==
  /\ EvidenceInv
  /\ InFlightInv
  /\ node \in {"project_validate", "publish", "end"} => Ready = {}
  /\ node = "publish" => Frozen = Units

(* The graph comes to its end only when no unit is ready.                  *)
LEMMA EndsStep == EndsInv /\ [Next]_vars => EndsInv'
<1> SUFFICES ASSUME EndsInv, [Next]_vars PROVE EndsInv'
  OBVIOUS
<1>1. EvidenceInv' /\ InFlightInv'
  BY EvidenceStep, InFlightStep DEF EndsInv
<1>2. unit' = unit => Ready' = Ready /\ Frozen' = Frozen
  BY DEF Ready, Terminal, Frozen
<1>3. CASE UNCHANGED vars
  BY <1>1, <1>2, <1>3 DEF vars, EndsInv
<1>4. CASE \/ OpenNew \/ OpenResume \/ OpenCheckpoint \/ Initialize \/ SelectUnit \/ BuildContext
           \/ Reason \/ Act \/ Assemble \/ Observe \/ FreezeChain \/ ManualReview
           \/ Complete \/ Demote \/ Interrupt \/ Raise \/ Crash
  <2>1. node' \notin {"project_validate", "publish", "end"}
    BY <1>4 DEF OpenNew, OpenResume, OpenCheckpoint, Initialize, SelectUnit, BuildContext,
       Reason, AfterReason, Act, Assemble, Observe, FreezeChain, ManualReview, Complete,
       Demote, Interrupt, Raise, Crash, Leave
  <2>. QED
    BY <1>1, <2>1 DEF EndsInv
<1>5. CASE SelectNothing \/ ProjectValidate \/ Publish
  <2>1. unit' = unit /\ Ready = {} /\ (node' = "publish" => Frozen = Units)
    BY <1>5 DEF SelectNothing, ProjectValidate, Publish, Enter, disk, EndsInv
  <2>. QED
    BY <1>1, <1>2, <2>1 DEF EndsInv
<1>. QED
  BY <1>3, <1>4, <1>5 DEF Next, SessionStep, GraphStep

(* The graph ends with every unit frozen or in review, and publishes only  *)
(* when all are frozen and the reports of what was assembled pass.         *)
THEOREM EndsAreDecided == Spec => []EndsDecided
<1>1. Init => EndsInv
  <2> SUFFICES ASSUME Init PROVE EndsInv
    OBVIOUS
  <2>1. EvidenceInv /\ TypeOK
    BY EvidenceInit, TypeInit
  <2>2. InFlightInv
    BY <2>1 DEF Init, InFlightInv, InFlight, FreshUnit, ChainNodes, QuietNodes
  <2>. QED
    BY <2>1, <2>2 DEF Init, EndsInv
<1>2. EndsInv => EndsDecided
  <2> SUFFICES ASSUME EndsInv PROVE NothingStarves /\ PublishGate
    BY DEF EndsDecided
  <2>1. TypeOK /\ FrozenVerified
    BY DEF EndsInv, EvidenceInv, DurableEvidence
  <2>2. ASSUME node = "end" PROVE Terminal = Units
    <3> DEFINE Open == Units \ Terminal
    <3>1. InFlight = {} /\ Ready = {}
      BY <2>2 DEF EndsInv, InFlightInv
    <3>2. \A u \in Open : unit[u].status \in {"pending", "ready"}
      BY <2>1, <3>1 DEF TypeOK, UnitState, UnitStatus, InFlight, Terminal
    <3>3. \A u \in Open : DependsOn[u] \cap Open # {}
      <4> SUFFICES ASSUME NEW u \in Open, DependsOn[u] \cap Open = {} PROVE FALSE
        OBVIOUS
      <4>1. DependsOn[u] \subseteq Units
        BY DependsOnIsGraph
      <4>2. DependsOn[u] \subseteq Terminal
        BY <4>1
      <4>. QED
        BY <3>1, <3>2, <4>2 DEF Ready
    <3>4. Open = {}
      BY <3>3, DependsOnIsAcyclic
    <3>. QED
      BY <3>4 DEF Terminal
  <2>3. ASSUME Frozen = Units PROVE AllAssembledPassed
    BY <2>1, <2>3 DEF FrozenVerified, OneAttempt, AllAssembledPassed
  <2>. QED
    BY <2>2, <2>3 DEF NothingStarves, PublishGate, EndsInv
<1>. QED
  BY <1>1, <1>2, EndsStep, PTL DEF Spec

-----------------------------------------------------------------------------
(* The ledger.                                                             *)

(* The state file is new until the first session opens it.                 *)
UntouchedBeforeFirstSession ==
  sessions = 0 => unit = [u \in Units |-> FreshUnit]

LedgerInv == EvidenceInv /\ CheckpointInv /\ UntouchedBeforeFirstSession

(* A step that leaves the three files alone makes no entry.                *)
LEMMA FilesAlone ==
  ASSUME UNCHANGED <<unit, passing, checkpoint>>
  PROVE  UNCHANGED Ledger!vars
BY DEF Ledger!vars, OutcomeOf, VerdictOn, HasEvidence, OneAttempt

(* What the files say of a unit depends on its own entries only.           *)
LEMMA SameVerdict ==
  ASSUME NEW u \in Units,
         HasEvidence(unit'[u]) <=> HasEvidence(unit[u]),
         OneAttempt(unit'[u]) <=> OneAttempt(unit[u]),
         unit'[u].observation = unit[u].observation,
         \A n : <<u, n>> \in passing' <=> <<u, n>> \in passing
  PROVE  VerdictOn(u)' = VerdictOn(u)
BY DEF VerdictOn

(* Rewriting the references or the report of one open unit is work on it.  *)
LEMMA OneUnitWorks ==
  ASSUME NEW c \in Units, OutcomeOf(unit[c]) = "open", OutcomeOf(unit'[c]) = "open",
         \A u \in Units \ {c} : unit'[u] = unit[u],
         \A p : p[1] # c => (p \in passing' <=> p \in passing),
         checkpoint' = checkpoint
  PROVE  Ledger!Work(c)
<1>1. \A u \in Units \ {c} : \A n : <<u, n>> \in passing' <=> <<u, n>> \in passing
  OBVIOUS
<1>2. \A u \in Units \ {c} : VerdictOn(u)' = VerdictOn(u)
  BY <1>1, SameVerdict
<1>3. \A u \in Units : OutcomeOf(unit'[u]) = OutcomeOf(unit[u])
  BY DEF OutcomeOf
<1>4. PICK v \in Ledger!Verdict : v = VerdictOn(c)'
  BY DEF VerdictOn, Ledger!Verdict
<1>5. [u \in Units |-> VerdictOn(u)]' = [[u \in Units |-> VerdictOn(u)] EXCEPT ![c] = v]
  BY <1>2, <1>4
<1>6. [u \in Units |-> OutcomeOf(unit[u])]' = [u \in Units |-> OutcomeOf(unit[u])]
  BY <1>3
<1>. QED
  BY <1>4, <1>5, <1>6 DEF Ledger!Work

(* A new status of one unit leaves all verdicts alone.                     *)
LEMMA StatusOnly ==
  ASSUME TypeOK, NEW c \in Units, NEW s \in UnitStatus,
         unit' = [unit EXCEPT ![c].status = s], passing' = passing
  PROVE  /\ [u \in Units |-> VerdictOn(u)]' = [u \in Units |-> VerdictOn(u)]
         /\ [u \in Units |-> OutcomeOf(unit[u])]' =
              [[u \in Units |-> OutcomeOf(unit[u])] EXCEPT
                 ![c] = IF s = "frozen" THEN "frozen"
                        ELSE IF s = "manual_review" THEN "review" ELSE "open"]
<1>1. /\ unit \in [Units -> UnitState] /\ unit[c] \in UnitState
      /\ unit'[c] = [unit[c] EXCEPT !.status = s]
      /\ \A u \in Units \ {c} : unit'[u] = unit[u]
  BY DEF TypeOK
<1>2. /\ unit'[c].translation = unit[c].translation
      /\ unit'[c].assembly = unit[c].assembly
      /\ unit'[c].observation = unit[c].observation
      /\ unit'[c].status = s
  BY <1>1 DEF UnitState
<1>3. \A u \in Units : VerdictOn(u)' = VerdictOn(u)
  BY <1>1, <1>2 DEF VerdictOn, HasEvidence, OneAttempt
<1>4. /\ \A u \in Units \ {c} : OutcomeOf(unit[u])' = OutcomeOf(unit[u])
      /\ OutcomeOf(unit[c])' = IF s = "frozen" THEN "frozen"
                               ELSE IF s = "manual_review" THEN "review" ELSE "open"
  BY <1>1, <1>2 DEF OutcomeOf
<1>. QED
  BY <1>3, <1>4

(* Saving the checkpoint lists what is frozen.                             *)
LEMMA SavingLists ==
  ASSUME NEW status, SaveCheckpoint(status), UNCHANGED <<unit, passing>>,
         status = "completed" => Frozen = Units
  PROVE  Ledger!List
<1>1. Ledger!Frozen = Frozen
  BY DEF Ledger!Frozen, Frozen, OutcomeOf
<1>2. checkpoint'.completed = Frozen /\ checkpoint'.status = status
  BY DEF SaveCheckpoint
<1>3. UNCHANGED [u \in Units |-> OutcomeOf(unit[u])] /\ UNCHANGED [u \in Units |-> VerdictOn(u)]
  BY DEF OutcomeOf, VerdictOn, HasEvidence, OneAttempt
<1>4. (checkpoint'.status = "completed") \in {FALSE, Frozen = Units}
  BY <1>2
<1>. QED
  BY <1>1, <1>2, <1>3, <1>4 DEF Ledger!List

-----------------------------------------------------------------------------
(* The steps of the loop, one by one.                                      *)

(* Whatever is left of a node that raised or died with its process.        *)
LEMMA PartialWorks ==
  ASSUME LedgerInv, PartialEffects, node \in GraphNodes, UNCHANGED <<unit, checkpoint>>
  PROVE  [Ledger!Next]_(Ledger!vars)
<1>1. CASE UNCHANGED passing
  BY <1>1, FilesAlone
<1>2. ASSUME node = "observe", NEW passed \in BOOLEAN,
             WriteReport(graph.chain, attempt[graph.chain], passed)
      PROVE  Ledger!Next
  <2>1. PICK c \in Units : c = graph.chain
    BY <1>2 DEF LedgerInv, EvidenceInv, TypeOK, ChainNodes
  <2>2. OutcomeOf(unit[c]) = "open"
    BY <1>2, <2>1 DEF LedgerInv, EvidenceInv, WorkingEvidence, CurrentNotTerminal, Current,
       ChainNodes, OutcomeOf
  <2>3. \A p : p[1] # c => (p \in passing' <=> p \in passing)
    BY <1>2, <2>1 DEF WriteReport
  <2>4. Ledger!Work(c)
    BY <2>2, <2>3, OneUnitWorks
  <2>. QED
    BY <2>4 DEF Ledger!Next
<1>. QED
  BY <1>1, <1>2 DEF PartialEffects

(* A resume takes up what it does not keep.                                *)
LEMMA ResumeTakesUp ==
  ASSUME TypeOK, OpenResume
  PROVE  Ledger!TakeUp({u \in Units : ~KeptOnResume(unit[u])})
<1>. DEFINE S == {u \in Units : ~KeptOnResume(unit[u])}
<1>1. passing' = passing /\ checkpoint' = checkpoint
  BY DEF OpenResume
<1>2. \A u \in Units \ S : unit'[u] = unit[u]
  BY DEF OpenResume, RestartUnfinished
<1>3. \A u \in S : unit'[u].status = "pending" /\ unit'[u].translation = None
  BY DEF OpenResume, RestartUnfinished, TypeOK, UnitState
<1>4. \A u \in Units :
        OutcomeOf(unit[u])' = IF u \in S THEN "open" ELSE OutcomeOf(unit[u])
  BY <1>2, <1>3 DEF OutcomeOf
<1>5. \A u \in Units : VerdictOn(u)' = IF u \in S THEN "none" ELSE VerdictOn(u)
  <2>1. \A u \in S : VerdictOn(u)' = "none"
    BY <1>3 DEF VerdictOn, HasEvidence
  <2>2. \A u \in Units \ S : VerdictOn(u)' = VerdictOn(u)
    BY <1>1, <1>2 DEF VerdictOn, HasEvidence, OneAttempt
  <2>. QED
    BY <2>1, <2>2
<1>6. S \cap Ledger!Frozen = {}
  BY DEF KeptOnResume, Ledger!Frozen, OutcomeOf
<1>. QED
  BY <1>1, <1>4, <1>5, <1>6 DEF Ledger!TakeUp

(* Every step of the loop is one of the ledger.                            *)
LEMMA LedgerStep == LedgerInv /\ [Next]_vars => [Ledger!Next]_(Ledger!vars)
<1> SUFFICES ASSUME LedgerInv, [Next]_vars PROVE [Ledger!Next]_(Ledger!vars)
  OBVIOUS
<1>1. /\ TypeOK /\ DurableEvidence /\ WorkingEvidence /\ CurrentNotListed
      /\ NothingListedBeforeFirstSession
  BY DEF LedgerInv, EvidenceInv, CheckpointInv
<1>2. node \in ChainNodes => \E c \in Units : c = graph.chain /\ OutcomeOf(unit[c]) = "open"
  BY <1>1 DEF TypeOK, WorkingEvidence, CurrentNotTerminal, Current, OutcomeOf
<1>3. CASE UNCHANGED vars
  BY <1>3, FilesAlone DEF vars
<1>4. CASE OpenNew
  <2>1. unit' = unit
    BY <1>4 DEF OpenNew, LedgerInv, UntouchedBeforeFirstSession
  <2>. QED
    BY <1>4, <2>1, FilesAlone DEF OpenNew
<1>5. CASE OpenResume
  <2>1. {u \in Units : ~KeptOnResume(unit[u])} \in SUBSET Units
    OBVIOUS
  <2>. QED
    BY <1>1, <1>5, <2>1, ResumeTakesUp DEF Ledger!Next
<1>6. CASE OpenCheckpoint
  <2>1. Ledger!List
    BY <1>6, SavingLists DEF OpenCheckpoint
  <2>. QED
    BY <2>1 DEF Ledger!Next
<1>7. CASE Complete
  <2>1. Ledger!List
    BY <1>7, SavingLists DEF Complete, FinalStatus
  <2>. QED
    BY <2>1 DEF Ledger!Next
<1>8. CASE Interrupt
  <2>1. Ledger!List
    BY <1>8, SavingLists DEF Interrupt
  <2>. QED
    BY <2>1 DEF Ledger!Next
<1>9. CASE Initialize \/ SelectUnit \/ SelectNothing \/ BuildContext \/ Reason
           \/ ProjectValidate \/ Publish
  BY <1>9, FilesAlone DEF Initialize, SelectUnit, SelectNothing, BuildContext, Reason,
     ProjectValidate, Publish, disk
<1>10. CASE Act
  <2>1. PICK c \in Units : c = graph.chain /\ OutcomeOf(unit[c]) = "open"
    BY <1>2, <1>10 DEF Act, Enter, ChainNodes
  <2>2. /\ unit'[c].status = "generated"
        /\ \A u \in Units \ {c} : unit'[u] = unit[u]
        /\ passing' = passing /\ checkpoint' = checkpoint
    BY <1>1, <1>10, <2>1 DEF Act, TypeOK, UnitState
  <2>3. Ledger!Work(c)
    BY <2>1, <2>2, OneUnitWorks DEF OutcomeOf
  <2>. QED
    BY <2>1, <2>3 DEF Ledger!Next
<1>11. CASE Assemble
  <2>1. PICK c \in Units : c = graph.chain /\ OutcomeOf(unit[c]) = "open"
    BY <1>2, <1>11 DEF Assemble, Enter, ChainNodes
  <2>2. /\ unit'[c].status = unit[c].status
        /\ \A u \in Units \ {c} : unit'[u] = unit[u]
        /\ passing' = passing /\ checkpoint' = checkpoint
    BY <1>1, <1>11, <2>1 DEF Assemble, TypeOK, UnitState
  <2>3. Ledger!Work(c)
    BY <2>1, <2>2, OneUnitWorks DEF OutcomeOf
  <2>. QED
    BY <2>1, <2>3 DEF Ledger!Next
<1>12. CASE Observe
  <2>1. PICK c \in Units : c = graph.chain /\ OutcomeOf(unit[c]) = "open"
    BY <1>2, <1>12 DEF Observe, Enter, ChainNodes
  <2>2. /\ unit'[c].status \in {"verified", "failed"}
        /\ \A u \in Units \ {c} : unit'[u] = unit[u]
        /\ checkpoint' = checkpoint
    BY <1>1, <1>12, <2>1 DEF Observe, TypeOK, UnitState
  <2>3. \A p : p[1] # c => (p \in passing' <=> p \in passing)
    BY <1>12, <2>1 DEF Observe, WriteReport
  <2>4. Ledger!Work(c)
    BY <2>1, <2>2, <2>3, OneUnitWorks DEF OutcomeOf
  <2>. QED
    BY <2>1, <2>4 DEF Ledger!Next
<1>13. CASE FreezeChain
  <2>1. PICK c \in Units : c = graph.chain /\ OutcomeOf(unit[c]) = "open"
    BY <1>2, <1>13 DEF FreezeChain, Enter, ChainNodes
  <2>2. /\ unit' = [unit EXCEPT ![c].status = "frozen"]
        /\ passing' = passing /\ checkpoint' = checkpoint
    BY <1>13, <2>1 DEF FreezeChain
  <2>3. VerdictOn(c) = "passed"
    BY <1>1, <1>13, <2>1 DEF FreezeChain, Enter, WorkingEvidence, RoutedByReport, GraphAgrees,
       ObservationPassed, ChainNodes, Current, DurableEvidence, ReportsAreNumbered,
       NoEvidence, VerdictOn
  <2>4. Ledger!Freeze(c)
    BY <1>1, <2>1, <2>2, <2>3, StatusOnly DEF UnitStatus, Ledger!Freeze
  <2>. QED
    BY <2>1, <2>4 DEF Ledger!Next
<1>14. CASE ManualReview
  <2>1. PICK c \in Units : c = graph.chain /\ OutcomeOf(unit[c]) = "open"
    BY <1>2, <1>14 DEF ManualReview, Enter, ChainNodes
  <2>2. /\ unit' = [unit EXCEPT ![c].status = "manual_review"]
        /\ passing' = passing /\ checkpoint' = checkpoint
    BY <1>14, <2>1 DEF ManualReview
  <2>3. VerdictOn(c) # "passed"
    BY <1>1, <1>14, <2>1 DEF ManualReview, Enter, WorkingEvidence, RoutedByReport, GraphAgrees,
       ObservationPassed, ChainNodes, Current, VerdictOn
  <2>4. Ledger!HandOver(c)
    BY <1>1, <2>1, <2>2, <2>3, StatusOnly DEF UnitStatus, Ledger!HandOver
  <2>. QED
    BY <2>1, <2>4 DEF Ledger!Next
<1>15. CASE Demote
  <2>1. CASE tracked = None
    BY <1>15, <2>1, FilesAlone DEF Demote
  <2>2. CASE tracked # None
    <3>1. PICK c \in Units : c = tracked /\ c \notin checkpoint.completed
      BY <1>1, <2>2 DEF TypeOK, MaybeUnit, CurrentNotListed
    <3>2. /\ unit' = [unit EXCEPT ![c].status = "failed"]
          /\ passing' = passing /\ checkpoint' = checkpoint
      BY <1>15, <2>2, <3>1 DEF Demote
    <3>3. Ledger!Demote(c)
      BY <1>1, <3>1, <3>2, StatusOnly DEF UnitStatus, Ledger!Demote
    <3>. QED
      BY <3>1, <3>3 DEF Ledger!Next
  <2>. QED
    BY <2>1, <2>2
<1>16. CASE Raise
  BY <1>16, PartialWorks DEF Raise
<1>17. CASE Crash
  <2>1. CASE node \in GraphNodes
    BY <1>17, <2>1, PartialWorks DEF Crash
  <2>2. CASE node \notin GraphNodes
    BY <1>17, <2>2, FilesAlone DEF Crash
  <2>. QED
    BY <2>1, <2>2
<1>. QED
  BY <1>3, <1>4, <1>5, <1>6, <1>7, <1>8, <1>9, <1>10, <1>11, <1>12, <1>13, <1>14, <1>15,
     <1>16, <1>17 DEF Next, SessionStep, GraphStep

(* Before the first session nothing but the two ways to open a job moves.  *)
LEMMA UntouchedStep ==
  CheckpointInv /\ UntouchedBeforeFirstSession /\ [Next]_vars => UntouchedBeforeFirstSession'
<1> SUFFICES ASSUME CheckpointInv, UntouchedBeforeFirstSession, [Next]_vars, sessions' = 0
             PROVE  unit' = unit /\ sessions = 0
  BY DEF UntouchedBeforeFirstSession
<1>1. sessions \in Nat /\ (sessions = 0 => node = "idle")
  BY DEF CheckpointInv, TypeOK, NothingListedBeforeFirstSession
<1>2. CASE UNCHANGED vars
  BY <1>2 DEF vars
<1>3. CASE OpenNew \/ OpenResume
  BY <1>1, <1>3 DEF OpenNew, OpenResume
<1>4. CASE node # "idle" /\ sessions' = sessions
  BY <1>1, <1>4
<1>5. CASE SessionStep \/ Raise \/ Crash
  <2>1. sessions' = sessions /\ node # "idle"
    BY <1>5 DEF SessionStep, OpenCheckpoint, GraphStep, Initialize, SelectUnit, SelectNothing,
       BuildContext, Reason, Act, Assemble, Observe, FreezeChain, ManualReview,
       ProjectValidate, Publish, Complete, Demote, Interrupt, Raise, Crash, Enter,
       GraphNodes, ChainNodes, QuietNodes
  <2>. QED
    BY <1>4, <2>1
<1>. QED
  BY <1>2, <1>3, <1>5 DEF Next

(* The files of a job, read at any moment and across every exception,      *)
(* crash and resume, keep the promises of the ledger (the order of the     *)
(* writes in _freeze_chain, _manual_review, restart_unfinished, _run_graph *)
(* and MigrationCheckpointStore.save).                                     *)
THEOREM LoopKeepsLedger == Spec => ImplementsLedger
<1>1. Init => LedgerInv
  BY EvidenceInit, CheckpointInit DEF LedgerInv, Init, UntouchedBeforeFirstSession
<1>2. Init => Ledger!Init
  BY DEF Init, Ledger!Init, OutcomeOf, VerdictOn, HasEvidence, FreshUnit
<1>3. LedgerInv /\ [Next]_vars => LedgerInv'
  BY EvidenceStep, CheckpointStep, UntouchedStep DEF LedgerInv
<1>. QED
  BY <1>1, <1>2, <1>3, LedgerStep, PTL DEF Spec, ImplementsLedger, Ledger!Spec
-----------------------------------------------------------------------------
(* The supersteps.                                                         *)

(* A unit is selected, and then takes at most one round of context and     *)
(* Reason, one of Act, Assemble, Observe and Reason per retry, and the     *)
(* node that decides it.                                                   *)
PerUnit == 4 + 4 * MaxRetries

Waiting ==
  {u \in Units : /\ unit[u].status \in {"pending", "ready"}
                 /\ node \in ChainNodes => u # graph.chain}

Retries == MaxRetries - graph.retry

(* Steps left to the end of the graph if no other unit waited.             *)
Rest ==
  CASE node = "initialize" -> 4
    [] node = "select_call_chain" -> 3
    [] node = "build_context" /\ graph.stratagem # "rebuild_context" -> 6 + 4 * Retries
    [] node = "build_context" /\ graph.stratagem = "rebuild_context" -> 4 + 4 * Retries
    [] node = "reason" -> 5 + 4 * Retries
    [] node = "act" -> 4 + 4 * Retries
    [] node = "assemble" -> 3 + 4 * Retries
    [] node = "observe" -> 2 + 4 * Retries
    [] node \in {"freeze_chain", "manual_review"} -> 4
    [] node = "project_validate" -> 2
    [] node = "publish" -> 1
    [] OTHER -> 0

InGraph == node \in GraphNodes \cup {"end"}
Longest == 4 + UnitCount * PerUnit

StepsInv ==
  /\ BudgetInv
  /\ steps \in Nat
  /\ ~InGraph => steps = 0
  /\ InGraph => steps + Rest + PerUnit * Cardinality(Waiting) <= Longest

(* What the arithmetic needs of the constants and of products.             *)
LEMMA PerUnitIsNat ==
  /\ PerUnit \in Nat /\ Longest \in Nat /\ RecursionLimit \in Nat
  /\ Longest < RecursionLimit
<1>1. UnitCount \in Nat /\ MaxRetries \in Nat
  BY UnitCountIsNat, MaxRetriesIsNat
<1>2. PerUnit \in Nat /\ PerUnit <= 12 + 8 * MaxRetries
  BY <1>1 DEF PerUnit
<1>3. \A a, b, n \in Nat : a <= b => n * a \in Nat /\ n * b \in Nat /\ n * a <= n * b
  OBVIOUS
<1>4. 12 + 8 * MaxRetries \in Nat
  BY <1>1
<1>5. UnitCount * PerUnit \in Nat /\ UnitCount * PerUnit <= UnitCount * (12 + 8 * MaxRetries)
  BY <1>1, <1>2, <1>3, <1>4
<1>6. UnitCount * (12 + 8 * MaxRetries) \in Nat
  BY <1>1, <1>2, <1>3, <1>4
<1>. QED
  BY <1>2, <1>5, <1>6 DEF Longest, RecursionLimit

LEMMA WaitingIsFinite ==
  /\ IsFiniteSet(Waiting) /\ Cardinality(Waiting) \in Nat
  /\ Cardinality(Waiting) <= UnitCount
<1>1. IsFiniteSet(Units) /\ Cardinality(Units) = UnitCount
  BY UnitCountIsNat, FS_Interval DEF Units
<1>2. Waiting \in SUBSET Units
  BY DEF Waiting
<1>. QED
  BY <1>1, <1>2, FS_Subset, FS_CardinalityType

(* The product of the cost of a unit and the units that wait.              *)
LEMMA CostOfWaiting ==
  /\ PerUnit * Cardinality(Waiting) \in Nat
  /\ PerUnit * Cardinality(Waiting) <= UnitCount * PerUnit
<1>1. \A a, b, n \in Nat : a <= b => n * a \in Nat /\ n * a <= b * n
  OBVIOUS
<1>. QED
  BY <1>1, PerUnitIsNat, WaitingIsFinite, UnitCountIsNat

(* A node that leaves the waiting units as they are uses up a step.        *)
LEMMA NodeUsesStep ==
  ASSUME StepsInv, BudgetInv', CountSteps, node \in GraphNodes, InGraph',
         Waiting' = Waiting, Rest \in Nat, Rest' \in Nat, Rest' < Rest
  PROVE  StepsInv'
<1>1. steps + Rest + PerUnit * Cardinality(Waiting) <= Longest /\ steps \in Nat
  BY DEF StepsInv, InGraph
<1>2. steps < RecursionLimit
  BY <1>1, CostOfWaiting, PerUnitIsNat
<1>3. steps' = steps + 1
  BY <1>2 DEF CountSteps, NodeRan, InGraph
<1>. QED
  BY <1>1, <1>3, CostOfWaiting, PerUnitIsNat DEF StepsInv, InGraph

(* A node that works on the selected unit leaves the others waiting.       *)
LEMMA OthersWait ==
  ASSUME TypeOK, node \in ChainNodes, graph'.chain = graph.chain,
         \A u \in Units \ {graph.chain} : unit'[u] = unit[u],
         \/ node' \in ChainNodes
         \/ unit'[graph.chain].status \notin {"pending", "ready"}
  PROVE  Waiting' = Waiting
BY DEF Waiting, TypeOK

(* Every step of a session takes one step of what is left of it.           *)
LEMMA StepsStep == StepsInv /\ [CountedNext]_stepVars => StepsInv'
<1> SUFFICES ASSUME StepsInv, [CountedNext]_stepVars PROVE StepsInv'
  OBVIOUS
<1>1. [Next]_vars /\ BudgetInv /\ BudgetInv' /\ TypeOK /\ TypeOK'
  <2>1. [Next]_vars
    BY DEF CountedNext, stepVars
  <2>2. BudgetInv
    BY DEF StepsInv
  <2>3. BudgetInv'
    BY <2>1, <2>2, BudgetStep
  <2>. QED
    BY <2>1, <2>2, <2>3 DEF BudgetInv
<1>2. Retries \in Nat /\ Retries' \in Nat /\ graph.retry \in Nat /\ graph'.retry \in Nat
  BY <1>1, MaxRetriesIsNat DEF Retries, BudgetInv, RetryBudget, TypeOK, GraphState
<1>3. Rest \in Nat /\ Rest' \in Nat
  BY <1>2 DEF Rest
<1>4. ASSUME ~InGraph', CountSteps PROVE StepsInv'
  BY <1>1, <1>4 DEF StepsInv, CountSteps, NodeRan, InGraph
<1>5. CASE UNCHANGED stepVars
  BY <1>1, <1>5 DEF stepVars, vars, StepsInv, InGraph, Rest, Retries, Waiting
<1>6. SUFFICES ASSUME Next, CountSteps PROVE StepsInv'
  BY <1>5 DEF CountedNext
<1>7. CASE OpenNew \/ OpenResume \/ Complete \/ Demote \/ Interrupt \/ Raise \/ Crash
  <2>1. ~InGraph'
    BY <1>7 DEF OpenNew, OpenResume, Complete, Demote, Interrupt, Raise, Crash, Leave, InGraph,
       GraphNodes, ChainNodes, QuietNodes
  <2>. QED
    BY <1>4, <1>6, <2>1
<1>8. CASE OpenCheckpoint
  <2>1. node = "opening" /\ node' = "initialize"
    BY <1>8 DEF OpenCheckpoint
  <2>2. steps' = 0 /\ Rest' = 4 /\ InGraph'
    BY <1>6, <2>1 DEF CountSteps, NodeRan, Rest, InGraph, GraphNodes, ChainNodes, QuietNodes
  <2>3. (PerUnit * Cardinality(Waiting) \in Nat
         /\ PerUnit * Cardinality(Waiting) <= UnitCount * PerUnit)'
    BY CostOfWaiting, PTL
  <2>4. UnitCount * PerUnit = Longest - 4
    BY PerUnitIsNat, UnitCountIsNat DEF Longest
  <2>5. Rest' + PerUnit * Cardinality(Waiting)' <= Longest
    BY <2>2, <2>3, <2>4, PerUnitIsNat
  <2>. QED
    BY <1>1, <2>2, <2>5 DEF StepsInv
<1>9. CASE Initialize \/ SelectNothing \/ ProjectValidate \/ Publish
  <2>1. /\ node \in QuietNodes /\ unit' = unit
        /\ node = "initialize" => node' = "select_call_chain"
        /\ node = "select_call_chain" => node' = "project_validate"
        /\ node = "project_validate" => node' \in {"publish", "end"}
        /\ node = "publish" => node' = "end"
    BY <1>9 DEF Initialize, SelectNothing, ProjectValidate, Publish, Enter, disk, QuietNodes
  <2>2. Rest' < Rest
    BY <2>1 DEF Rest, QuietNodes
  <2>3. Waiting' = Waiting /\ InGraph' /\ node \in GraphNodes
    BY <2>1 DEF Waiting, InGraph, GraphNodes, ChainNodes, QuietNodes
  <2>. QED
    BY <1>1, <1>3, <1>6, <2>2, <2>3, NodeUsesStep
<1>10. CASE BuildContext \/ Reason
  <2>1. /\ node \in ChainNodes /\ node' \in ChainNodes /\ unit' = unit
        /\ graph'.chain = graph.chain
    BY <1>1, <1>10 DEF BuildContext, Reason, AfterReason, Enter, disk, TypeOK, GraphState,
       ChainNodes
  <2>2. Rest' < Rest
    <3>1. CASE BuildContext
      <4>1. /\ node = "build_context" /\ node' = "reason"
            /\ graph'.retry = IF graph.stratagem = "rebuild_context"
                              THEN graph.retry + 1 ELSE graph.retry
        BY <1>1, <3>1 DEF BuildContext, Enter, TypeOK, GraphState
      <4>. QED
        BY <1>2, <4>1, MaxRetriesIsNat DEF Rest, Retries
    <3>2. CASE Reason
      <4>1. PICK action \in Answers : graph' = [graph EXCEPT !.stratagem = action]
                                      /\ node' = AfterReason(action)
        BY <3>2 DEF Reason
      <4>2. /\ node = "reason" /\ graph'.retry = graph.retry
            /\ node' \in {"freeze_chain", "manual_review", "act", "build_context"}
            /\ node' = "build_context" => graph'.stratagem = "rebuild_context"
        BY <1>1, <3>2, <4>1, ReasonAnswers
           DEF Reason, Enter, AfterReason, Answers, ReasonAction, TypeOK, GraphState
      <4>. QED
        BY <1>2, <4>2, MaxRetriesIsNat DEF Rest, Retries
    <3>. QED
      BY <1>10, <3>1, <3>2
  <2>3. Waiting' = Waiting
    BY <1>1, <2>1, OthersWait
  <2>. QED
    BY <1>1, <1>3, <1>6, <2>1, <2>2, <2>3, NodeUsesStep DEF InGraph, GraphNodes
<1>11. CASE Act \/ Assemble \/ Observe \/ FreezeChain \/ ManualReview
  <2>1. /\ node \in ChainNodes /\ graph'.chain = graph.chain /\ graph.chain \in Units
        /\ node' \in GraphNodes
        /\ \A u \in Units \ {graph.chain} : unit'[u] = unit[u]
    BY <1>1, <1>11 DEF Act, Assemble, Observe, FreezeChain, ManualReview, Enter, TypeOK,
       GraphState, ChainNodes, GraphNodes, QuietNodes
  <2>2. node' \in ChainNodes \/ unit'[graph.chain].status \notin {"pending", "ready"}
    <3>1. CASE Act \/ Assemble \/ Observe
      BY <3>1 DEF Act, Assemble, Observe, ChainNodes
    <3>2. CASE FreezeChain \/ ManualReview
      BY <1>1, <2>1, <3>2 DEF FreezeChain, ManualReview, TypeOK, UnitState
    <3>. QED
      BY <1>11, <3>1, <3>2
  <2>3. Rest' < Rest
    <3>1. CASE Act \/ Assemble
      <4>1. /\ graph'.retry = graph.retry
            /\ \/ node = "act" /\ node' = "assemble"
               \/ node = "assemble" /\ node' = "observe"
        BY <1>1, <3>1 DEF Act, Assemble, Enter, TypeOK, GraphState
      <4>. QED
        BY <1>2, <4>1, MaxRetriesIsNat DEF Rest, Retries
    <3>2. CASE Observe
      <4>1. node = "observe" /\ node' = "reason" /\ graph'.retry = graph.retry + 1
        BY <1>1, <3>2 DEF Observe, Enter, TypeOK, GraphState
      <4>. QED
        BY <1>2, <4>1, MaxRetriesIsNat DEF Rest, Retries
    <3>3. CASE FreezeChain \/ ManualReview
      BY <3>3 DEF FreezeChain, ManualReview, Enter, Rest
    <3>. QED
      BY <1>11, <3>1, <3>2, <3>3
  <2>4. Waiting' = Waiting
    BY <1>1, <2>1, <2>2, OthersWait
  <2>. QED
    BY <1>1, <1>3, <1>6, <2>1, <2>3, <2>4, NodeUsesStep DEF InGraph, GraphNodes
<1>12. CASE SelectUnit
  <2>1. PICK u \in Ready : graph' = [GraphInput EXCEPT !.chain = u]
    BY <1>12 DEF SelectUnit
  <2>2. /\ graph'.chain = u /\ graph'.retry = 0 /\ graph'.stratagem = "none"
        /\ node = "select_call_chain" /\ node' = "build_context" /\ unit' = unit
    BY <1>12, <2>1 DEF SelectUnit, Enter, GraphInput, disk
  <2>3. u \in Waiting /\ Waiting' = Waiting \ {u}
    BY <2>1, <2>2 DEF Waiting, Ready, ChainNodes
  <2>4. Cardinality(Waiting)' = Cardinality(Waiting) - 1
    BY <2>3, WaitingIsFinite, FS_RemoveElement
  <2>5. \A p, c \in Nat : p * (c - 1) = p * c - p
    OBVIOUS
  <2>6. PerUnit * Cardinality(Waiting)' = PerUnit * Cardinality(Waiting) - PerUnit
    BY <2>4, <2>5, PerUnitIsNat, WaitingIsFinite
  <2>7. InGraph /\ InGraph' /\ NodeRan
    BY <2>2 DEF InGraph, NodeRan, GraphNodes, ChainNodes, QuietNodes
  <2>8. Rest = 3 /\ Rest' = 2 + PerUnit
    BY <2>2, MaxRetriesIsNat DEF Rest, Retries, PerUnit
  <2>9. steps \in Nat /\ steps + 3 + PerUnit * Cardinality(Waiting) <= Longest
    BY <2>7, <2>8 DEF StepsInv
  <2>10. steps' = steps + 1
    BY <1>6, <2>7, <2>9, CostOfWaiting, PerUnitIsNat DEF CountSteps
  <2>. QED
    BY <1>1, <2>6, <2>7, <2>8, <2>9, <2>10, CostOfWaiting, PerUnitIsNat DEF StepsInv
<1>. QED
  BY <1>6, <1>7, <1>8, <1>9, <1>10, <1>11, <1>12 DEF Next, SessionStep, GraphStep

(* The recursion limit that _run_graph computes is never reached, and the  *)
(* retries of every unit stay within theirs.                               *)
THEOREM SessionsFitTheirLimit == CountedSpec => []WorkIsBounded
<1>1. CountedInit => StepsInv
  <2> SUFFICES ASSUME CountedInit PROVE StepsInv
    OBVIOUS
  <2>1. TypeOK
    BY TypeInit DEF CountedInit
  <2>. QED
    BY <2>1, MaxRetriesIsNat DEF CountedInit, Init, StepsInv, BudgetInv, RetryBudget, InGraph,
       GraphInput, FreshUnit, GraphNodes, ChainNodes, QuietNodes
<1>2. StepsInv => WorkIsBounded
  <2> SUFFICES ASSUME StepsInv PROVE WorkIsBounded
    OBVIOUS
  <2>1. RetryBudget /\ TypeOK
    BY DEF StepsInv, BudgetInv
  <2>2. Retries \in Nat
    BY <2>1, MaxRetriesIsNat DEF Retries, RetryBudget, TypeOK, GraphState
  <2>3. Rest \in Nat
    BY <2>2 DEF Rest
  <2>4. steps < RecursionLimit
    <3>1. CASE InGraph
      BY <2>3, <3>1, CostOfWaiting, PerUnitIsNat DEF StepsInv
    <3>2. CASE ~InGraph
      BY <3>2, PerUnitIsNat DEF StepsInv
    <3>. QED
      BY <3>1, <3>2
  <2>. QED
    BY <2>1, <2>4 DEF WorkIsBounded
<1>. QED
  BY <1>1, <1>2, StepsStep, PTL DEF CountedSpec
=============================================================================
