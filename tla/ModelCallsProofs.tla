--------------------------- MODULE ModelCallsProofs ---------------------------
(***************************************************************************)
(* Proofs about ModelCalls for every number of callers, of slots and of    *)
(* retries.  Each invariant speaks of one kind of resource: what a call    *)
(* has counted, slots, streams and the log.                                *)
(***************************************************************************)
EXTENDS ModelCalls, FiniteSetTheorems, TLAPS

-----------------------------------------------------------------------------
(* Types.  The upper bound of free is a matter of the slots.               *)

Typed ==
  /\ phase \in [Callers -> Phases] /\ late \in [Callers -> BOOLEAN]
  /\ timer \in [Callers -> {"off", "armed", "firing", "fired"}]
  /\ stream \in [Callers -> {"none", "open", "closed"}]
  /\ held \in [Callers -> BOOLEAN]
  /\ transient \in [Callers -> 0 .. TransientRetries]
  /\ round \in [Callers -> 0 .. ResponseRetries]
  /\ sent \in [Callers -> Nat]
  /\ outcome \in [Callers -> Errors \cup {"none", "answer"}]
  /\ free \in Nat
  /\ read \in [Callers -> {Unread} \cup 0 .. LogLimit]
  /\ written \in Nat /\ log \in 0 .. LogLimit

(* Every step keeps the types.                                             *)
LEMMA TypesKept ==
  ASSUME Typed, [Next]_vars
  PROVE  Typed'
PROOF
<1>1. ASSUME NEW c \in Callers, Call(c) PROVE Typed'
  BY <1>1 DEF Call, Go, Typed, Phases
<1>2. ASSUME NEW c \in Callers, RefuseTooLong(c) PROVE Typed'
  BY <1>2 DEF RefuseTooLong, Go, Typed, Phases, Errors
<1>3. ASSUME NEW c \in Callers, Acquire(c) PROVE Typed'
  BY <1>3 DEF Acquire, Go, Typed, Phases
<1>4. ASSUME NEW c \in Callers, Begin(c) PROVE Typed'
  <2>1. CASE late[c]
    BY <1>4, <2>1 DEF Begin, End, Go, Typed, Phases, Errors
  <2>2. CASE ~late[c]
    <3>1. held' = [held EXCEPT ![c] = FALSE]
      BY <1>4, <2>2 DEF Begin, End, Go
    <3>2. held' \in [Callers -> BOOLEAN]
      BY <3>1, Zenon DEF Typed
    <3>3. QED
      BY <1>4, <2>2, <3>2 DEF Begin, End, Go, Typed, Phases
  <2>3. QED
    BY <1>4, <2>1, <2>2 DEF Begin
<1>5. ASSUME NEW c \in Callers, Created(c) PROVE Typed'
  BY <1>5 DEF Created, Go, Typed, Phases
<1>6. ASSUME NEW c \in Callers, CreateFails(c) PROVE Typed'
  BY <1>6 DEF CreateFails, Failure, End, Go, Typed, Phases, Errors
<1>7. ASSUME NEW c \in Callers, CreateTimesOut(c) PROVE Typed'
  BY <1>7 DEF CreateTimesOut, Failure, End, Go, Typed, Phases, Errors
<1>8. ASSUME NEW c \in Callers, CheckHeld(c) PROVE Typed'
  <2>1. CASE Expired(c)
    BY <1>8, <2>1 DEF CheckHeld, End, Go, Typed, Phases, Errors
  <2>2. CASE ~Expired(c)
    BY <1>8, <2>2 DEF CheckHeld, End, Go, Typed, Phases, Errors
  <2>3. QED
    BY <1>8, <2>1, <2>2
<1>9. ASSUME NEW c \in Callers, ReadEnds(c) PROVE Typed'
  BY <1>9 DEF ReadEnds, Failure, Closed, End, Go, Typed, Phases, Errors
<1>10. ASSUME NEW c \in Callers, ReadCutOff(c) PROVE Typed'
  BY <1>10 DEF ReadCutOff, Closed, End, Go, Typed, Phases, Errors
<1>11. ASSUME NEW c \in Callers, ReadLog(c) PROVE Typed'
  BY <1>11 DEF ReadLog, callVars, Typed, Phases, Unread
<1>12. ASSUME NEW c \in Callers, Observe(c) PROVE Typed'
  <2>1. CASE Retry(c)
    BY <1>12, <2>1, RetriesAreNats, LimitAssumption DEF Observe, Retry,
    Repair, Finish, MayRetry, MayRepair, Go, Typed, Phases, Unread, Smaller
  <2>2. CASE Repair(c)
    BY <1>12, <2>2, RetriesAreNats, LimitAssumption DEF Observe, Retry,
    Repair, Finish, MayRetry, MayRepair, Go, Typed, Phases, Unread, Smaller
  <2>3. CASE Finish(c)
    BY <1>12, <2>3, RetriesAreNats, LimitAssumption DEF Observe, Retry,
    Repair, Finish, MayRetry, MayRepair, Go, Typed, Phases, Unread, Smaller
  <2>4. QED
    BY <1>12, <2>1, <2>2, <2>3 DEF Observe
<1>13. ASSUME NEW c \in Callers, WakeUp(c) PROVE Typed'
  BY <1>13 DEF WakeUp, Go, Typed, Phases
<1>14. ASSUME NEW c \in Callers, Fire(c) PROVE Typed'
  BY <1>14 DEF Fire, Typed, Phases
<1>15. ASSUME NEW c \in Callers, CloseHeld(c) PROVE Typed'
  BY <1>15 DEF CloseHeld, Typed, Phases
<1>16. ASSUME NEW c \in Callers, DeadlinePasses(c) PROVE Typed'
  BY <1>16 DEF DeadlinePasses, Typed, Phases
<1>17. CASE UNCHANGED vars
  BY <1>17 DEF vars, Typed, Phases
<1>18. QED
  BY <1>1, <1>2, <1>3, <1>4, <1>5, <1>6, <1>7, <1>8, <1>9, <1>10, <1>11,
  <1>12, <1>13, <1>14, <1>15, <1>16, <1>17 DEF Next, CallerStep, TimerStep

-----------------------------------------------------------------------------
(* Slots.  A step takes a slot, returns one, or does neither.              *)

Holders == {c \in Callers : phase[c] \in HoldsSlot}

SlotStep ==
  \/ Holders' = Holders /\ free' = free
  \/ \E c \in Callers \ Holders : Holders' = Holders \cup {c} /\ free' = free - 1
  \/ \E c \in Holders : Holders' = Holders \ {c} /\ free' = free + 1

(* Whatever a step does with the slot of a call, it does it once: the      *)
(* phases a call holds a slot in begin with Acquire and stop with End.     *)
LEMMA SlotsMove ==
  ASSUME Typed, [Next]_vars
  PROVE  SlotStep
PROOF
<1>1. ASSUME NEW c \in Callers, Call(c) PROVE SlotStep
  BY <1>1 DEF Call, Go, SlotStep, Holders, HoldsSlot, Typed, Phases
<1>2. ASSUME NEW c \in Callers, RefuseTooLong(c) PROVE SlotStep
  BY <1>2 DEF RefuseTooLong, Go, SlotStep, Holders, HoldsSlot, Typed, Phases
<1>3. ASSUME NEW c \in Callers, Acquire(c) PROVE SlotStep
  BY <1>3 DEF Acquire, Go, SlotStep, Holders, HoldsSlot, Typed, Phases
<1>4. ASSUME NEW c \in Callers, Begin(c) PROVE SlotStep
  <2>1. CASE late[c]
    BY <1>4, <2>1 DEF Begin, End, Go, SlotStep, Holders, HoldsSlot, Typed,
    Phases
  <2>2. CASE ~late[c]
    BY <1>4, <2>2 DEF Begin, End, Go, SlotStep, Holders, HoldsSlot, Typed,
    Phases
  <2>3. QED
    BY <1>4, <2>1, <2>2 DEF Begin
<1>5. ASSUME NEW c \in Callers, Created(c) PROVE SlotStep
  BY <1>5 DEF Created, Go, SlotStep, Holders, HoldsSlot, Typed, Phases
<1>6. ASSUME NEW c \in Callers, CreateFails(c) PROVE SlotStep
  BY <1>6 DEF CreateFails, Failure, End, Go, SlotStep, Holders, HoldsSlot,
  Typed, Phases
<1>7. ASSUME NEW c \in Callers, CreateTimesOut(c) PROVE SlotStep
  BY <1>7 DEF CreateTimesOut, Failure, End, Go, SlotStep, Holders,
  HoldsSlot, Typed, Phases
<1>8. ASSUME NEW c \in Callers, CheckHeld(c) PROVE SlotStep
  <2>1. CASE Expired(c)
    BY <1>8, <2>1 DEF CheckHeld, End, Go, SlotStep, Holders, HoldsSlot,
    Typed, Phases
  <2>2. CASE ~Expired(c)
    BY <1>8, <2>2 DEF CheckHeld, End, Go, SlotStep, Holders, HoldsSlot,
    Typed, Phases
  <2>3. QED
    BY <1>8, <2>1, <2>2
<1>9. ASSUME NEW c \in Callers, ReadEnds(c) PROVE SlotStep
  BY <1>9 DEF ReadEnds, Failure, Closed, End, Go, SlotStep, Holders,
  HoldsSlot, Typed, Phases
<1>10. ASSUME NEW c \in Callers, ReadCutOff(c) PROVE SlotStep
  BY <1>10 DEF ReadCutOff, Closed, End, Go, SlotStep, Holders, HoldsSlot,
  Typed, Phases
<1>11. ASSUME NEW c \in Callers, ReadLog(c) PROVE SlotStep
  BY <1>11 DEF ReadLog, callVars, SlotStep, Holders, HoldsSlot, Typed,
  Phases
<1>12. ASSUME NEW c \in Callers, Observe(c) PROVE SlotStep
  <2>1. CASE Retry(c)
    BY <1>12, <2>1 DEF Observe, Retry, Repair, Finish, MayRetry, MayRepair,
    Go, SlotStep, Holders, HoldsSlot, Typed, Phases
  <2>2. CASE Repair(c)
    BY <1>12, <2>2 DEF Observe, Retry, Repair, Finish, MayRetry, MayRepair,
    Go, SlotStep, Holders, HoldsSlot, Typed, Phases
  <2>3. CASE Finish(c)
    BY <1>12, <2>3 DEF Observe, Retry, Repair, Finish, MayRetry, MayRepair,
    Go, SlotStep, Holders, HoldsSlot, Typed, Phases
  <2>4. QED
    BY <1>12, <2>1, <2>2, <2>3 DEF Observe
<1>13. ASSUME NEW c \in Callers, WakeUp(c) PROVE SlotStep
  BY <1>13 DEF WakeUp, Go, SlotStep, Holders, HoldsSlot, Typed, Phases
<1>14. ASSUME NEW c \in Callers, Fire(c) PROVE SlotStep
  BY <1>14 DEF Fire, SlotStep, Holders, HoldsSlot, Typed, Phases
<1>15. ASSUME NEW c \in Callers, CloseHeld(c) PROVE SlotStep
  BY <1>15 DEF CloseHeld, SlotStep, Holders, HoldsSlot, Typed, Phases
<1>16. ASSUME NEW c \in Callers, DeadlinePasses(c) PROVE SlotStep
  BY <1>16 DEF DeadlinePasses, SlotStep, Holders, HoldsSlot, Typed, Phases
<1>17. CASE UNCHANGED vars
  BY <1>17 DEF vars, SlotStep, Holders, HoldsSlot, Typed, Phases
<1>18. QED
  BY <1>1, <1>2, <1>3, <1>4, <1>5, <1>6, <1>7, <1>8, <1>9, <1>10, <1>11,
  <1>12, <1>13, <1>14, <1>15, <1>16, <1>17 DEF Next, CallerStep, TimerStep

(* So the free slots and the calls that hold one are always all of them.   *)
LEMMA SlotsKept ==
  ASSUME Typed, SlotsAccounted, SlotStep
  PROVE  SlotsAccounted'
PROOF
<1>1. IsFiniteSet(Holders)
  BY CallersAreFinite, FS_Subset DEF Holders
<1>2. free \in Nat /\ Cardinality(Holders) \in Nat /\ free + Cardinality(Holders) = Slots
  BY <1>1, FS_CardinalityType DEF Typed, SlotsAccounted, Holders
<1>3. SUFFICES free' + Cardinality(Holders') = Slots
  BY DEF SlotsAccounted, Holders
<1>4. CASE Holders' = Holders /\ free' = free
  BY <1>2, <1>4
<1>5. CASE \E c \in Callers \ Holders : Holders' = Holders \cup {c} /\ free' = free - 1
  <2>1. Cardinality(Holders') = Cardinality(Holders) + 1
    BY <1>1, <1>5, FS_AddElement
  <2>2. QED
    BY <1>2, <1>5, <2>1
<1>6. CASE \E c \in Holders : Holders' = Holders \ {c} /\ free' = free + 1
  <2>1. Cardinality(Holders') = Cardinality(Holders) - 1
    BY <1>1, <1>6, FS_RemoveElement
  <2>2. QED
    BY <1>2, <1>6, <2>1
<1>7. QED
  BY <1>4, <1>5, <1>6 DEF SlotStep

-----------------------------------------------------------------------------
(* Requests.  Every round allows TransientRetries + 1 of them; in a round  *)
(* that goes on one was sent, and one more for every transient failure.    *)

Resting == {"idle", "slot", "begin", "backoff"}
RequestInv ==
  \A c \in Callers :
    sent[c] <= (TransientRetries + 1) * round[c] + transient[c]
                 + (IF phase[c] \in Resting THEN 0 ELSE 1)

(* A new round starts with a full budget for its transient failures.       *)
LEMMA RoundsAdd ==
  ASSUME NEW k \in Nat, NEW r \in Nat
  PROVE  (k + 1) * (r + 1) = (k + 1) * r + k + 1
  OBVIOUS

(* A request is sent only from a resting phase, which it leaves; a retry   *)
(* comes back to one and counts a failure, a repair counts a round.        *)
LEMMA RequestsKept ==
  ASSUME Typed, RequestInv, [Next]_vars
  PROVE  RequestInv'
PROOF
<1>1. ASSUME NEW c \in Callers, Call(c) PROVE RequestInv'
  BY <1>1 DEF Call, Go, RequestInv, Typed, Resting
<1>2. ASSUME NEW c \in Callers, RefuseTooLong(c) PROVE RequestInv'
  BY <1>2, RetriesAreNats DEF RefuseTooLong, Go, RequestInv, Typed, Resting
<1>3. ASSUME NEW c \in Callers, Acquire(c) PROVE RequestInv'
  BY <1>3 DEF Acquire, Go, RequestInv, Typed, Resting
<1>4. ASSUME NEW c \in Callers, Begin(c) PROVE RequestInv'
  <2>1. CASE late[c]
    BY <1>4, <2>1, RetriesAreNats DEF Begin, End, Go, RequestInv, Typed,
    Resting
  <2>2. CASE ~late[c]
    BY <1>4, <2>2, RetriesAreNats DEF Begin, End, Go, RequestInv, Typed,
    Resting
  <2>3. QED
    BY <1>4, <2>1, <2>2 DEF Begin
<1>5. ASSUME NEW c \in Callers, Created(c) PROVE RequestInv'
  BY <1>5 DEF Created, Go, RequestInv, Typed, Resting
<1>6. ASSUME NEW c \in Callers, CreateFails(c) PROVE RequestInv'
  BY <1>6 DEF CreateFails, Failure, End, Go, RequestInv, Typed, Resting
<1>7. ASSUME NEW c \in Callers, CreateTimesOut(c) PROVE RequestInv'
  BY <1>7 DEF CreateTimesOut, Failure, End, Go, RequestInv, Typed, Resting
<1>8. ASSUME NEW c \in Callers, CheckHeld(c) PROVE RequestInv'
  <2>1. CASE Expired(c)
    BY <1>8, <2>1 DEF CheckHeld, End, Go, RequestInv, Typed, Resting
  <2>2. CASE ~Expired(c)
    BY <1>8, <2>2 DEF CheckHeld, End, Go, RequestInv, Typed, Resting
  <2>3. QED
    BY <1>8, <2>1, <2>2
<1>9. ASSUME NEW c \in Callers, ReadEnds(c) PROVE RequestInv'
  BY <1>9 DEF ReadEnds, Failure, Closed, End, Go, RequestInv, Typed, Resting
<1>10. ASSUME NEW c \in Callers, ReadCutOff(c) PROVE RequestInv'
  BY <1>10 DEF ReadCutOff, Closed, End, Go, RequestInv, Typed, Resting
<1>11. ASSUME NEW c \in Callers, ReadLog(c) PROVE RequestInv'
  BY <1>11 DEF ReadLog, callVars, RequestInv, Typed, Resting
<1>12. ASSUME NEW c \in Callers, Observe(c) PROVE RequestInv'
  <2>1. CASE Retry(c)
    BY <1>12, <2>1, RetriesAreNats DEF Observe, Retry, Repair, Finish,
    MayRetry, MayRepair, Go, RequestInv, Typed, Resting
  <2>2. CASE Repair(c)
    BY <1>12, <2>2, RetriesAreNats DEF Observe, Retry, Repair, Finish,
    MayRetry, MayRepair, Go, RequestInv, Typed, Resting
  <2>3. CASE Finish(c)
    BY <1>12, <2>3, RetriesAreNats DEF Observe, Retry, Repair, Finish,
    MayRetry, MayRepair, Go, RequestInv, Typed, Resting
  <2>4. QED
    BY <1>12, <2>1, <2>2, <2>3 DEF Observe
<1>13. ASSUME NEW c \in Callers, WakeUp(c) PROVE RequestInv'
  BY <1>13 DEF WakeUp, Go, RequestInv, Typed, Resting
<1>14. ASSUME NEW c \in Callers, Fire(c) PROVE RequestInv'
  BY <1>14 DEF Fire, RequestInv, Typed, Resting
<1>15. ASSUME NEW c \in Callers, CloseHeld(c) PROVE RequestInv'
  BY <1>15 DEF CloseHeld, RequestInv, Typed, Resting
<1>16. ASSUME NEW c \in Callers, DeadlinePasses(c) PROVE RequestInv'
  BY <1>16 DEF DeadlinePasses, RequestInv, Typed, Resting
<1>17. CASE UNCHANGED vars
  BY <1>17 DEF vars, RequestInv, Typed, Resting
<1>18. QED
  BY <1>1, <1>2, <1>3, <1>4, <1>5, <1>6, <1>7, <1>8, <1>9, <1>10, <1>11,
  <1>12, <1>13, <1>14, <1>15, <1>16, <1>17 DEF Next, CallerStep, TimerStep

-----------------------------------------------------------------------------
(* Streams.  An armed timer belongs to a request under way, which has put  *)
(* its stream where the timer looks before it checks the timer.            *)

StreamInv ==
  \A c \in Callers :
    /\ timer[c] = "armed" => phase[c] \in {"create", "held", "read"}
    /\ phase[c] \in {"create", "held", "read"} => timer[c] # "off"
    /\ phase[c] = "create" => ~held[c] /\ stream[c] = "none"
    /\ phase[c] \in {"held", "read"} => held[c]
    /\ stream[c] = "open" => phase[c] \in {"held", "read"} \/ Expired(c)
    /\ phase[c] = "read" /\ timer[c] = "fired" => stream[c] = "closed"

(* The timer and the call pass each other in either order: the one that    *)
(* comes second sees what the first has done.                              *)
LEMMA StreamsKept ==
  ASSUME Typed, StreamInv, [Next]_vars
  PROVE  StreamInv'
PROOF
<1>1. ASSUME NEW c \in Callers, Call(c) PROVE StreamInv'
  BY <1>1 DEF Call, Go, StreamInv, Expired, Typed
<1>2. ASSUME NEW c \in Callers, RefuseTooLong(c) PROVE StreamInv'
  BY <1>2 DEF RefuseTooLong, Go, StreamInv, Expired, Typed
<1>3. ASSUME NEW c \in Callers, Acquire(c) PROVE StreamInv'
  BY <1>3 DEF Acquire, Go, StreamInv, Expired, Typed
<1>4. ASSUME NEW c \in Callers, Begin(c) PROVE StreamInv'
  <2>1. CASE late[c]
    BY <1>4, <2>1 DEF Begin, End, Go, StreamInv, Expired, Typed
  <2>2. CASE ~late[c]
    BY <1>4, <2>2 DEF Begin, End, Go, StreamInv, Expired, Typed
  <2>3. QED
    BY <1>4, <2>1, <2>2 DEF Begin
<1>5. ASSUME NEW c \in Callers, Created(c) PROVE StreamInv'
  BY <1>5 DEF Created, Go, StreamInv, Expired, Typed
<1>6. ASSUME NEW c \in Callers, CreateFails(c) PROVE StreamInv'
  BY <1>6 DEF CreateFails, Failure, End, Go, StreamInv, Expired, Typed
<1>7. ASSUME NEW c \in Callers, CreateTimesOut(c) PROVE StreamInv'
  BY <1>7 DEF CreateTimesOut, Failure, End, Go, StreamInv, Expired, Typed
<1>8. ASSUME NEW c \in Callers, CheckHeld(c) PROVE StreamInv'
  <2>1. CASE Expired(c)
    BY <1>8, <2>1 DEF CheckHeld, End, Go, StreamInv, Expired, Typed
  <2>2. CASE ~Expired(c)
    BY <1>8, <2>2 DEF CheckHeld, End, Go, StreamInv, Expired, Typed
  <2>3. QED
    BY <1>8, <2>1, <2>2
<1>9. ASSUME NEW c \in Callers, ReadEnds(c) PROVE StreamInv'
  BY <1>9 DEF ReadEnds, Failure, Closed, End, Go, StreamInv, Expired, Typed
<1>10. ASSUME NEW c \in Callers, ReadCutOff(c) PROVE StreamInv'
  BY <1>10 DEF ReadCutOff, Closed, End, Go, StreamInv, Expired, Typed
<1>11. ASSUME NEW c \in Callers, ReadLog(c) PROVE StreamInv'
  BY <1>11 DEF ReadLog, callVars, StreamInv, Expired, Typed
<1>12. ASSUME NEW c \in Callers, Observe(c) PROVE StreamInv'
  <2>1. CASE Retry(c)
    BY <1>12, <2>1 DEF Observe, Retry, Repair, Finish, MayRetry, MayRepair,
    Go, StreamInv, Expired, Typed
  <2>2. CASE Repair(c)
    BY <1>12, <2>2 DEF Observe, Retry, Repair, Finish, MayRetry, MayRepair,
    Go, StreamInv, Expired, Typed
  <2>3. CASE Finish(c)
    BY <1>12, <2>3 DEF Observe, Retry, Repair, Finish, MayRetry, MayRepair,
    Go, StreamInv, Expired, Typed
  <2>4. QED
    BY <1>12, <2>1, <2>2, <2>3 DEF Observe
<1>13. ASSUME NEW c \in Callers, WakeUp(c) PROVE StreamInv'
  BY <1>13 DEF WakeUp, Go, StreamInv, Expired, Typed
<1>14. ASSUME NEW c \in Callers, Fire(c) PROVE StreamInv'
  BY <1>14 DEF Fire, StreamInv, Expired, Typed
<1>15. ASSUME NEW c \in Callers, CloseHeld(c) PROVE StreamInv'
  BY <1>15 DEF CloseHeld, StreamInv, Expired, Typed
<1>16. ASSUME NEW c \in Callers, DeadlinePasses(c) PROVE StreamInv'
  BY <1>16 DEF DeadlinePasses, StreamInv, Expired, Typed
<1>17. CASE UNCHANGED vars
  BY <1>17 DEF vars, StreamInv, Expired, Typed
<1>18. QED
  BY <1>1, <1>2, <1>3, <1>4, <1>5, <1>6, <1>7, <1>8, <1>9, <1>10, <1>11,
  <1>12, <1>13, <1>14, <1>15, <1>16, <1>17 DEF Next, CallerStep, TimerStep

-----------------------------------------------------------------------------
(* The log.  One call at a time has read it, and nobody writes it until    *)
(* that call has.                                                          *)

LogInv ==
  /\ \A c, d \in Callers : read[c] # Unread /\ read[d] # Unread => c = d
  /\ \A c \in Callers : read[c] # Unread => read[c] = log
  /\ NoObservationLost

(* Only the holder of the lock extends the log, and by its observation.    *)
LEMMA LogKept ==
  ASSUME Typed, LogInv, [Next]_vars
  PROVE  LogInv'
PROOF
<1>1. ASSUME NEW c \in Callers, Call(c) PROVE LogInv'
  BY <1>1 DEF Call, Go, LogInv, NoObservationLost, Typed, Unread
<1>2. ASSUME NEW c \in Callers, RefuseTooLong(c) PROVE LogInv'
  BY <1>2 DEF RefuseTooLong, Go, LogInv, NoObservationLost, Typed, Unread
<1>3. ASSUME NEW c \in Callers, Acquire(c) PROVE LogInv'
  BY <1>3 DEF Acquire, Go, LogInv, NoObservationLost, Typed, Unread
<1>4. ASSUME NEW c \in Callers, Begin(c) PROVE LogInv'
  BY <1>4 DEF Begin, End, Go, LogInv, NoObservationLost, Typed, Unread
<1>5. ASSUME NEW c \in Callers, Created(c) PROVE LogInv'
  BY <1>5 DEF Created, Go, LogInv, NoObservationLost, Typed, Unread
<1>6. ASSUME NEW c \in Callers, CreateFails(c) PROVE LogInv'
  BY <1>6 DEF CreateFails, Failure, End, Go, LogInv, NoObservationLost,
  Typed, Unread
<1>7. ASSUME NEW c \in Callers, CreateTimesOut(c) PROVE LogInv'
  BY <1>7 DEF CreateTimesOut, Failure, End, Go, LogInv, NoObservationLost,
  Typed, Unread
<1>8. ASSUME NEW c \in Callers, CheckHeld(c) PROVE LogInv'
  BY <1>8 DEF CheckHeld, End, Go, LogInv, NoObservationLost, Typed, Unread
<1>9. ASSUME NEW c \in Callers, ReadEnds(c) PROVE LogInv'
  BY <1>9 DEF ReadEnds, Failure, Closed, End, Go, LogInv, NoObservationLost,
  Typed, Unread
<1>10. ASSUME NEW c \in Callers, ReadCutOff(c) PROVE LogInv'
  BY <1>10 DEF ReadCutOff, Closed, End, Go, LogInv, NoObservationLost,
  Typed, Unread
<1>11. ASSUME NEW c \in Callers, ReadLog(c) PROVE LogInv'
  BY <1>11 DEF ReadLog, callVars, LogInv, NoObservationLost, Typed, Unread
<1>12. ASSUME NEW c \in Callers, Observe(c) PROVE LogInv'
  BY <1>12, LimitAssumption DEF Observe, Retry, Repair, Finish, MayRetry,
  MayRepair, Go, LogInv, NoObservationLost, Typed, Unread, Smaller
<1>13. ASSUME NEW c \in Callers, WakeUp(c) PROVE LogInv'
  BY <1>13 DEF WakeUp, Go, LogInv, NoObservationLost, Typed, Unread
<1>14. ASSUME NEW c \in Callers, Fire(c) PROVE LogInv'
  BY <1>14 DEF Fire, LogInv, NoObservationLost, Typed, Unread
<1>15. ASSUME NEW c \in Callers, CloseHeld(c) PROVE LogInv'
  BY <1>15 DEF CloseHeld, LogInv, NoObservationLost, Typed, Unread
<1>16. ASSUME NEW c \in Callers, DeadlinePasses(c) PROVE LogInv'
  BY <1>16 DEF DeadlinePasses, LogInv, NoObservationLost, Typed, Unread
<1>17. CASE UNCHANGED vars
  BY <1>17 DEF vars, LogInv, NoObservationLost, Typed, Unread
<1>18. QED
  BY <1>1, <1>2, <1>3, <1>4, <1>5, <1>6, <1>7, <1>8, <1>9, <1>10, <1>11,
  <1>12, <1>13, <1>14, <1>15, <1>16, <1>17 DEF Next, CallerStep, TimerStep

-----------------------------------------------------------------------------
(* The theorems.                                                           *)

CallInv == Typed /\ SlotsAccounted /\ RequestInv /\ StreamInv /\ LogInv

(* Calls start without requests, slots, streams and observations.          *)
LEMMA CallsBegin == Init => CallInv
PROOF
<1> SUFFICES ASSUME Init PROVE CallInv
  OBVIOUS
<1>1. Typed
  BY SlotsAssumption, RetriesAreNats, LimitAssumption
     DEF Init, Typed, Phases, Errors, Unread
<1>2. SlotsAccounted
  <2>1. {c \in Callers : phase[c] \in HoldsSlot} = {}
    BY DEF Init, HoldsSlot
  <2>2. QED
    BY <2>1, FS_EmptySet, SlotsAssumption DEF Init, SlotsAccounted
<1>3. RequestInv
  BY RetriesAreNats DEF Init, RequestInv, Resting
<1>4. StreamInv
  BY DEF Init, StreamInv, Expired
<1>5. LogInv
  BY LimitAssumption DEF Init, LogInv, NoObservationLost, Smaller, Unread
<1>6. QED
  BY <1>1, <1>2, <1>3, <1>4, <1>5 DEF CallInv

(* What the calls and their timers share stays in order in every state.    *)
LEMMA CallsKept == Spec => []CallInv
PROOF
<1>1. CallInv /\ [Next]_vars => CallInv'
  <2> SUFFICES ASSUME CallInv, [Next]_vars PROVE CallInv'
    OBVIOUS
  <2>1. Typed' /\ RequestInv' /\ StreamInv' /\ LogInv' /\ SlotStep
    BY TypesKept, RequestsKept, StreamsKept, LogKept, SlotsMove DEF CallInv
  <2>2. SlotsAccounted'
    BY <2>1, SlotsKept DEF CallInv
  <2>3. QED
    BY <2>1, <2>2 DEF CallInv
<1>2. QED
  BY <1>1, CallsBegin, PTL DEF Spec

(* Types, the bound of the requests and the balance of the slots hold for  *)
(* any number of callers, slots and retries (complete, invoke).            *)
THEOREM CallsStayBounded == Spec => []CallsAreBounded
PROOF
<1>1. CallInv => CallsAreBounded
  <2> SUFFICES ASSUME CallInv PROVE CallsAreBounded
    OBVIOUS
  <2>1. free \in 0 .. Slots
    <3>1. Cardinality({c \in Callers : phase[c] \in HoldsSlot}) \in Nat
      BY CallersAreFinite, FS_Subset, FS_CardinalityType
    <3>2. QED
      BY <3>1, SlotsAssumption DEF CallInv, Typed, SlotsAccounted
  <2>2. TypeOK
    BY <2>1 DEF CallInv, Typed, TypeOK
  <2>3. RequestsAreBounded
    <3> SUFFICES ASSUME NEW c \in Callers
                 PROVE  sent[c] <= (TransientRetries + 1) * (round[c] + 1)
      BY DEF RequestsAreBounded
    <3>1. /\ sent[c] \in Nat /\ round[c] \in Nat /\ transient[c] \in 0 .. TransientRetries
          /\ sent[c] <= (TransientRetries + 1) * round[c] + transient[c] + 1
      BY RetriesAreNats DEF CallInv, Typed, RequestInv
    <3>2. QED
      BY <3>1, RoundsAdd, RetriesAreNats
  <2>4. QED
    BY <2>2, <2>3 DEF CallInv, CallsAreBounded
<1>2. QED
  BY <1>1, CallsKept, PTL

(* No stream is read without a working deadline, or left open behind a     *)
(* call that could still have closed it (_request_and_validate, expire).   *)
THEOREM StreamsComeToAnEnd == Spec => []StreamsEnd
PROOF
<1>1. CallInv => StreamsEnd
  BY DEF CallInv, StreamInv, Typed, StreamsEnd, NoReadWithoutDeadline, StreamsAreClosed,
         HoldsSlot
<1>2. QED
  BY <1>1, CallsKept, PTL

(* The log never loses an observation to a call that observes at the same  *)
(* time (CallObservationRecorder).                                         *)
THEOREM ObservationsAreKept == Spec => []NoObservationLost
PROOF
<1>1. CallInv => NoObservationLost
  BY DEF CallInv, LogInv
<1>2. QED
  BY <1>1, CallsKept, PTL
=============================================================================
