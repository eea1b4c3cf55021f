------------------------------ MODULE ModelCalls ------------------------------
(***************************************************************************)
(* Model calls: OpenAICompatibleLLMClient.complete on CallLifecycle.invoke *)
(* and the recorder of call observations.                                  *)
(*                                                                         *)
(* Threads call complete at the same time.  Every request of a call holds  *)
(* one slot of a semaphore, a timer thread closes its stream when the hard *)
(* deadline of the call passes, a transient failure is retried after a     *)
(* pause without the slot, and an answer that fails validation starts      *)
(* another round of requests.                                              *)
(***************************************************************************)
EXTENDS Integers, FiniteSets

CONSTANTS
  Callers,           \* threads that call complete, once each
  Slots,             \* max_concurrent_calls
  TransientRetries,  \* sdk_max_retries
  ResponseRetries,   \* response_retries
  LogLimit           \* limit: observations that the log keeps

ASSUME CallersAreFinite == IsFiniteSet(Callers)
ASSUME SlotsAssumption == Slots \in Nat \ {0}
ASSUME RetriesAreNats == TransientRetries \in Nat /\ ResponseRetries \in Nat
ASSUME LimitAssumption == LogLimit \in Nat \ {0}

VARIABLES
  phase,      \* where a call is
  late,       \* the hard deadline of a call has passed
  timer,      \* its timer: off, armed, firing (expired is set), fired
  stream,     \* the stream of its last request: none, open or closed
  held,       \* stream_holder of that request is not empty
  transient,  \* transient_failures of the running invoke
  round,      \* response_attempt
  sent,       \* requests that the server has seen
  outcome,    \* how the last attempt ended, and in the end the call
  free,       \* value of the semaphore
  read,       \* the log that the holder of _OBSERVATION_LOCK has read
  written,    \* observations that could be written so far
  log         \* observations in call-observations.json

callVars == <<phase, late, timer, stream, held, transient, round, sent, outcome>>
vars == <<phase, late, timer, stream, held, transient, round, sent, outcome,
          free, read, written, log>>

Phases == {"idle", "slot", "begin", "create", "held", "read", "observe", "backoff", "over"}
HoldsSlot == {"begin", "create", "held", "read"}
Errors == {"transient", "permanent", "deadline", "invalid", "truncated"}
Unread == -1

Expired(c) == timer[c] \in {"firing", "fired"}
Smaller(a, b) == IF a < b THEN a ELSE b
Go(c, p) == phase' = [phase EXCEPT ![c] = p]

Init ==
  /\ phase = [c \in Callers |-> "idle"] /\ late = [c \in Callers |-> FALSE]
  /\ timer = [c \in Callers |-> "off"] /\ stream = [c \in Callers |-> "none"]
  /\ held = [c \in Callers |-> FALSE]
  /\ transient = [c \in Callers |-> 0] /\ round = [c \in Callers |-> 0]
  /\ sent = [c \in Callers |-> 0] /\ outcome = [c \in Callers |-> "none"]
  /\ free = Slots
  /\ read = [c \in Callers |-> Unread] /\ written = 0 /\ log = 0

-----------------------------------------------------------------------------
(* One call.                                                               *)

(* complete fixes the hard deadline before the first wait for a slot.      *)
Call(c) ==
  /\ phase[c] = "idle"
  /\ Go(c, "slot")
  /\ UNCHANGED <<late, timer, stream, held, transient, round, sent, outcome,
                 free, read, written, log>>

(* A prompt that leaves no room for the answer is refused unsent.          *)
RefuseTooLong(c) ==
  /\ phase[c] = "idle"
  /\ Go(c, "observe")
  /\ outcome' = [outcome EXCEPT ![c] = "permanent"]
  /\ UNCHANGED <<late, timer, stream, held, transient, round, sent,
                 free, read, written, log>>

Acquire(c) ==
  /\ phase[c] = "slot" /\ free > 0
  /\ Go(c, "begin")
  /\ free' = free - 1
  /\ UNCHANGED <<late, timer, stream, held, transient, round, sent, outcome,
                 read, written, log>>

(* An attempt ends: the timer is cancelled, unless it fires already, the   *)
(* slot is returned and the result observed.                               *)
(* Mutant of End: a failed attempt keeps its slot.                         *)
EndKeepingSlot(c, result) ==
  /\ Go(c, "observe")
  /\ outcome' = [outcome EXCEPT ![c] = result]
  /\ timer' = [timer EXCEPT ![c] = IF @ = "armed" THEN "off" ELSE @]
  /\ free' = IF result = "answer" THEN free + 1 ELSE free
End(c, result) ==
  /\ Go(c, "observe")
  /\ outcome' = [outcome EXCEPT ![c] = result]
  /\ timer' = [timer EXCEPT ![c] = IF @ = "armed" THEN "off" ELSE @]
  /\ free' = free + 1

(* An exception while the timer has fired counts as the hard timeout.      *)
Failure(c, result) == IF Expired(c) THEN "deadline" ELSE result

(* _request_and_validate looks at the deadline, arms the timer and sends.  *)
Begin(c) ==
  /\ phase[c] = "begin"
  /\ \/ /\ late[c]
        /\ End(c, "deadline")
        /\ UNCHANGED <<stream, held, sent>>
     \/ /\ ~late[c]
        /\ Go(c, "create")
        /\ timer' = [timer EXCEPT ![c] = "armed"]
        /\ stream' = [stream EXCEPT ![c] = "none"]
        /\ held' = [held EXCEPT ![c] = FALSE]
        /\ sent' = [sent EXCEPT ![c] = @ + 1]
        /\ UNCHANGED <<outcome, free>>
  /\ UNCHANGED <<late, transient, round, read, written, log>>

(* The server accepts, and the stream is put where the timer finds it.     *)
Created(c) ==
  /\ phase[c] = "create"
  /\ Go(c, "held")
  /\ stream' = [stream EXCEPT ![c] = "open"]
  /\ held' = [held EXCEPT ![c] = TRUE]
  /\ UNCHANGED <<late, timer, transient, round, sent, outcome, free, read, written, log>>

CreateFails(c) ==
  /\ phase[c] = "create"
  /\ \E error \in {"transient", "permanent"} : End(c, Failure(c, error))
  /\ UNCHANGED <<late, stream, held, transient, round, sent, read, written, log>>

(* The client waits no longer than the time that was left when it sent.    *)
CreateTimesOut(c) ==
  /\ phase[c] = "create" /\ late[c]
  /\ End(c, Failure(c, "transient"))
  /\ UNCHANGED <<late, stream, held, transient, round, sent, read, written, log>>

(* Only then does the call look whether the timer came first.              *)
(* Mutant of CheckHeld: it does not look.                                  *)
CheckHeldNot(c) ==
  /\ phase[c] = "held"
  /\ Go(c, "read")
  /\ UNCHANGED <<late, timer, stream, held, transient, round, sent, outcome,
                 free, read, written, log>>
CheckHeld(c) ==
  /\ phase[c] = "held"
  /\ IF Expired(c)
     THEN End(c, "deadline")
     ELSE Go(c, "read") /\ UNCHANGED <<timer, outcome, free>>
  /\ UNCHANGED <<late, stream, held, transient, round, sent, read, written, log>>

(* Leaving the loop over the chunks closes the stream, whatever ended it.  *)
(* Mutant of Closed: only the end of the stream closes it.                 *)
ClosedAtEnd(c, result) ==
  stream' = [stream EXCEPT ![c] = IF result = "answer" THEN "closed" ELSE @]
Closed(c, result) == stream' = [stream EXCEPT ![c] = "closed"]

(* The stream ends and the answer is judged, or the server breaks off, or  *)
(* a chunk arrives after the timer has fired.                              *)
ReadEnds(c) ==
  /\ phase[c] = "read"
  /\ \E result \in {"answer", "invalid", "truncated", "transient", "permanent"} :
       End(c, Failure(c, result)) /\ Closed(c, result)
  /\ UNCHANGED <<late, held, transient, round, sent, read, written, log>>

(* A reader wakes up because the timer has closed its stream.              *)
ReadCutOff(c) ==
  /\ phase[c] = "read" /\ stream[c] = "closed"
  /\ End(c, "deadline") /\ Closed(c, "deadline")
  /\ UNCHANGED <<late, held, transient, round, sent, read, written, log>>

-----------------------------------------------------------------------------
(* The clock and the timer thread.                                         *)

DeadlinePasses(c) ==
  /\ phase[c] \notin {"idle", "over"} /\ ~late[c]
  /\ late' = [late EXCEPT ![c] = TRUE]
  /\ UNCHANGED <<phase, timer, stream, held, transient, round, sent, outcome,
                 free, read, written, log>>

(* expire sets the event first and closes the stream it finds after.       *)
(* Mutant of Fire: it sets the event only.                                 *)
FireSetOnly(c) ==
  /\ timer[c] = "armed" /\ late[c]
  /\ timer' = [timer EXCEPT ![c] = "fired"]
  /\ UNCHANGED <<phase, late, stream, held, transient, round, sent, outcome,
                 free, read, written, log>>
Fire(c) ==
  /\ timer[c] = "armed" /\ late[c]
  /\ timer' = [timer EXCEPT ![c] = "firing"]
  /\ UNCHANGED <<phase, late, stream, held, transient, round, sent, outcome,
                 free, read, written, log>>

CloseHeld(c) ==
  /\ timer[c] = "firing"
  /\ timer' = [timer EXCEPT ![c] = "fired"]
  /\ stream' = [stream EXCEPT ![c] = IF held[c] THEN "closed" ELSE @]
  /\ UNCHANGED <<phase, late, held, transient, round, sent, outcome,
                 free, read, written, log>>

-----------------------------------------------------------------------------
(* The observation, and what follows it.                                   *)

(* The recorder reads the log under a lock of the module.                  *)
(* Mutant of ReadLog: the lock is one of the recorder of each call.        *)
ReadLogAnyway(c) ==
  /\ phase[c] = "observe" /\ read[c] = Unread
  /\ read' = [read EXCEPT ![c] = log]
  /\ UNCHANGED <<callVars, free, written, log>>
ReadLog(c) ==
  /\ phase[c] = "observe" /\ \A d \in Callers : read[d] = Unread
  /\ read' = [read EXCEPT ![c] = log]
  /\ UNCHANGED <<callVars, free, written, log>>

(* Another request of the same invoke, after a pause without the slot.     *)
(* Mutant of MayRetry: one more than the policy allows.                    *)
MayRetryOnceMore(c) ==
  outcome[c] = "transient" /\ transient[c] <= TransientRetries
MayRetry(c) ==
  outcome[c] = "transient" /\ transient[c] + 1 <= TransientRetries
MayRepair(c) ==
  outcome[c] \in {"invalid", "truncated"} /\ round[c] < ResponseRetries

Retry(c) ==
  /\ MayRetry(c)
  /\ Go(c, "backoff")
  /\ transient' = [transient EXCEPT ![c] = @ + 1]
  /\ UNCHANGED round

(* complete asks again and quotes the error: a fresh invoke.               *)
Repair(c) ==
  /\ MayRepair(c)
  /\ Go(c, "slot")
  /\ round' = [round EXCEPT ![c] = @ + 1]
  /\ transient' = [transient EXCEPT ![c] = 0]

Finish(c) ==
  /\ ~MayRetry(c) /\ ~MayRepair(c)
  /\ Go(c, "over")
  /\ UNCHANGED <<transient, round>>

(* It writes the log back and lets the lock go; the call goes on, also     *)
(* when the file could not be read or written: the recorder only warns.    *)
Observe(c) ==
  /\ phase[c] = "observe" /\ read[c] # Unread
  /\ read' = [read EXCEPT ![c] = Unread]
  /\ \/ written' = written + 1 /\ log' = Smaller(read[c] + 1, LogLimit)
     \/ UNCHANGED <<written, log>>
  /\ Retry(c) \/ Repair(c) \/ Finish(c)
  /\ UNCHANGED <<late, timer, stream, held, sent, outcome, free>>

WakeUp(c) ==
  /\ phase[c] = "backoff"
  /\ Go(c, "slot")
  /\ UNCHANGED <<late, timer, stream, held, transient, round, sent, outcome,
                 free, read, written, log>>

-----------------------------------------------------------------------------
CallerStep(c) ==
  \/ Call(c) \/ RefuseTooLong(c) \/ Acquire(c) \/ Begin(c)
  \/ Created(c) \/ CreateFails(c) \/ CreateTimesOut(c) \/ CheckHeld(c)
  \/ ReadEnds(c) \/ ReadCutOff(c)
  \/ ReadLog(c) \/ Observe(c) \/ WakeUp(c)
TimerStep(c) == Fire(c) \/ CloseHeld(c)
Next == \E c \in Callers : CallerStep(c) \/ TimerStep(c) \/ DeadlinePasses(c)
Spec == Init /\ [][Next]_vars

(* Threads run, time passes, and a request that was sent ends when its     *)
(* transport times out or its stream is closed.  Nothing makes the server  *)
(* answer: ReadEnds and Created have no fairness.                          *)
Fairness ==
  \A c \in Callers :
    /\ WF_vars(Acquire(c)) /\ WF_vars(Begin(c)) /\ WF_vars(CreateTimesOut(c))
    /\ WF_vars(CheckHeld(c)) /\ WF_vars(ReadCutOff(c))
    /\ WF_vars(ReadLog(c)) /\ WF_vars(Observe(c)) /\ WF_vars(WakeUp(c))
    /\ WF_vars(TimerStep(c)) /\ WF_vars(DeadlinePasses(c))
FairSpec == Spec /\ Fairness

-----------------------------------------------------------------------------
(* Properties.                                                             *)

TypeOK ==
  /\ phase \in [Callers -> Phases] /\ late \in [Callers -> BOOLEAN]
  /\ timer \in [Callers -> {"off", "armed", "firing", "fired"}]
  /\ stream \in [Callers -> {"none", "open", "closed"}]
  /\ held \in [Callers -> BOOLEAN]
  /\ transient \in [Callers -> 0 .. TransientRetries]
  /\ round \in [Callers -> 0 .. ResponseRetries]
  /\ sent \in [Callers -> Nat]
  /\ outcome \in [Callers -> Errors \cup {"none", "answer"}]
  /\ free \in 0 .. Slots
  /\ read \in [Callers -> {Unread} \cup 0 .. LogLimit]
  /\ written \in Nat /\ log \in 0 .. LogLimit

(* Retries nest, transient ones inside rounds of repair, and still a call  *)
(* sends no more requests than both allow (invoke and complete).           *)
RequestsAreBounded ==
  \A c \in Callers : sent[c] <= (TransientRetries + 1) * (round[c] + 1)

(* Every way out of an attempt, the hard timeout and the refused deadline  *)
(* included, returns the slot once (invoke's `with self._limiter`).        *)
SlotsAccounted ==
  free + Cardinality({c \in Callers : phase[c] \in HoldsSlot}) = Slots

(* The state is well typed, and calls keep to their requests and their     *)
(* slots.                                                                  *)
CallsAreBounded == TypeOK /\ RequestsAreBounded /\ SlotsAccounted

(* Nobody reads an open stream whose timer has run: either expire found    *)
(* the stream, or the call found expired set after it had stored the       *)
(* stream (_request_and_validate and expire).                              *)
NoReadWithoutDeadline ==
  \A c \in Callers : phase[c] = "read" /\ timer[c] \in {"off", "fired"}
                       => stream[c] = "closed"

(* A call leaves no stream open behind it, save one that was created after *)
(* its timer had looked for it (`with stream` is not entered then).        *)
StreamsAreClosed ==
  \A c \in Callers : stream[c] = "open" /\ phase[c] \notin HoldsSlot => Expired(c)

(* A stream is read under a deadline that works and closed afterwards.     *)
StreamsEnd == NoReadWithoutDeadline /\ StreamsAreClosed

(* Calls that observe at the same time overwrite none of each other's      *)
(* observations: the log holds the last of those that could be written, up *)
(* to its limit (CallObservationRecorder).                                 *)
NoObservationLost == log = Smaller(written, LogLimit)

(* Every call ends, even if the server never answers and slots are fewer   *)
(* than callers.                                                           *)
EveryCallEnds == \A c \in Callers : phase[c] = "slot" ~> phase[c] = "over"
=============================================================================
