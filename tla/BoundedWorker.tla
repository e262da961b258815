---------------------------- MODULE BoundedWorker ----------------------------
(***************************************************************************)
(* BoundedWorker of hsl_core/perception/bounded_worker.py: one thread, one *)
(* request in flight, and an owner that polls and never waits.             *)
(*                                                                         *)
(* Four parties interleave: the owner that polls, the threads that submit, *)
(* invalidate and close, the worker thread, and the clock.  Every method   *)
(* holds the lock, but poll reads the clock before it takes it, and its    *)
(* caller the versions before that: a poll is two steps.                   *)
(***************************************************************************)
EXTENDS Integers

CONSTANTS
    Timeout,      \* timeout_s
    LastRequest,  \* bound: the largest request id
    LastTick,     \* bound: the clock goes on to LastTick and stays there
    LastVersion,  \* bound: the version context changes so often
    LastWork      \* bound: calls of invalidate

ASSUME WorkerAssumption ==
    /\ Timeout \in Nat \ {0}
    /\ {LastRequest, LastTick, LastVersion, LastWork} \subseteq Nat

VARIABLES
    item,        \* _item: the request in flight
    task,        \* the Future of each request
    nextId,      \* _next_id
    generation,  \* _generation
    closed,      \* _closed
    tick,        \* the clock
    versions,    \* the version context of the callers
    reading,     \* what the poll in progress has read
    answers      \* history: the statuses each request was answered with

workerVars ==
    <<item, task, nextId, generation, closed, tick, versions, reading, answers>>

Requests == 1..LastRequest

NoItem == [id |-> 0, deadline |-> 0, versions |-> 0, generation |-> 0]
NoReading == [tick |-> -1, versions |-> 0]

Unfinished == {"PENDING", "RUNNING"}
Done(r) == task[r] \notin Unfinished
Delivered == {"COMPLETED", "FAILED"}

WorkerTypeOK ==
    /\ item \in {NoItem} \cup [id : Requests, deadline : Nat,
                               versions : 0..LastVersion, generation : 0..LastWork]
    /\ item # NoItem => item.id = nextId - 1
    /\ task \in [Requests -> {"NONE", "RETURNED", "RAISED", "CANCELLED"} \cup Unfinished]
    /\ nextId \in 1..(LastRequest + 1)
    /\ generation \in 0..LastWork
    /\ closed \in BOOLEAN
    /\ tick \in 0..LastTick
    /\ versions \in 0..LastVersion
    /\ reading \in {NoReading} \cup [tick : 0..LastTick, versions : 0..LastVersion]
    /\ answers \in [Requests -> SUBSET (Delivered \cup {"DISCARDED", "TIMEOUT"})]

WorkerInit ==
    /\ item = NoItem
    /\ task = [r \in Requests |-> "NONE"]
    /\ nextId = 1
    /\ generation = 0
    /\ closed = FALSE
    /\ tick = 0
    /\ versions = 0
    /\ reading = NoReading
    /\ answers = [r \in Requests |-> {}]

-----------------------------------------------------------------------------
(* A submit that takes the place of a request once its time is over.       *)
FreeOnceOverdue == item # NoItem => Done(item.id) \/ tick >= item.deadline

(* submit does not raise WorkerBusyError.                                  *)
Free == item # NoItem => Done(item.id)

(* A submit that numbers every request the same.                           *)
SameId == nextId' = nextId

FreshId == nextId' = nextId + 1

(* The bounds leave the clock room for the deadline.                       *)
Submit ==
    /\ ~closed
    /\ Free
    /\ nextId <= LastRequest
    /\ tick + Timeout <= LastTick
    /\ FreshId
    /\ item' = [id |-> nextId, deadline |-> tick + Timeout,
                versions |-> versions, generation |-> generation]
    /\ task' = [task EXCEPT ![nextId] = "PENDING"]
    /\ UNCHANGED <<generation, closed, tick, versions, reading, answers>>

Invalidate ==
    /\ generation < LastWork
    /\ generation' = generation + 1
    /\ UNCHANGED <<item, task, nextId, closed, tick, versions, reading, answers>>

(* shutdown cancels what the thread has not begun, and so does close.      *)
Close ==
    /\ ~closed
    /\ closed' = TRUE
    /\ task' = [r \in Requests |-> IF task[r] = "PENDING" THEN "CANCELLED" ELSE task[r]]
    /\ UNCHANGED <<item, nextId, generation, tick, versions, reading, answers>>

-----------------------------------------------------------------------------
BeginPoll ==
    /\ reading = NoReading
    /\ reading' = [tick |-> tick, versions |-> versions]
    /\ UNCHANGED <<item, task, nextId, generation, closed, tick, versions, answers>>

(* A poll that asks for the result before it looks at the deadline.        *)
PatientStatus ==
    IF reading.versions # item.versions \/ generation # item.generation THEN "DISCARDED"
    ELSE IF ~Done(item.id) THEN "NONE"
    ELSE IF reading.tick >= item.deadline THEN "TIMEOUT"
    ELSE IF task[item.id] = "RETURNED" THEN "COMPLETED"
    ELSE "FAILED"

(* What poll returns for the request in flight: the status, or nothing.    *)
(* The result of a cancelled future is an exception.                       *)
Status ==
    IF reading.versions # item.versions \/ generation # item.generation THEN "DISCARDED"
    ELSE IF reading.tick >= item.deadline THEN "TIMEOUT"
    ELSE IF ~Done(item.id) THEN "NONE"
    ELSE IF task[item.id] = "RETURNED" THEN "COMPLETED"
    ELSE "FAILED"

(* A poll that keeps the request it delivers.                              *)
KeptDelivered ==
    IF Done(item.id) /\ Status \notin Delivered THEN NoItem ELSE item

Kept == IF Done(item.id) THEN NoItem ELSE item

EndPoll ==
    /\ reading # NoReading
    /\ reading' = NoReading
    /\ IF item = NoItem THEN UNCHANGED <<item, answers>>
       ELSE /\ item' = Kept
            /\ answers' = [answers EXCEPT ![item.id] = @ \cup ({Status} \ {"NONE"})]
    /\ UNCHANGED <<task, nextId, generation, closed, tick, versions>>

-----------------------------------------------------------------------------
(* The worker thread and the function, which may hang.                     *)
Run(r, from, to) ==
    /\ task[r] = from
    /\ task' = [task EXCEPT ![r] = to]
    /\ UNCHANGED <<item, nextId, generation, closed, tick, versions, reading, answers>>

Thread ==
    \E r \in Requests :
        \/ /\ \A q \in Requests : task[q] # "RUNNING"
           /\ Run(r, "PENDING", "RUNNING")
        \/ Run(r, "RUNNING", "RETURNED")
        \/ Run(r, "RUNNING", "RAISED")

Tick ==
    /\ tick < LastTick
    /\ tick' = tick + 1
    /\ UNCHANGED <<item, task, nextId, generation, closed, versions, reading, answers>>

NewVersions ==
    /\ versions < LastVersion
    /\ versions' = versions + 1
    /\ UNCHANGED <<item, task, nextId, generation, closed, tick, reading, answers>>

WorkerNext ==
    \/ Submit \/ Invalidate \/ Close
    \/ BeginPoll \/ EndPoll
    \/ Thread \/ Tick \/ NewVersions

(* The owner goes on polling and time passes.  Nothing is asked of the     *)
(* thread, so that the function may hang for good.                         *)
WorkerFairness ==
    /\ WF_workerVars(BeginPoll)
    /\ WF_workerVars(EndPoll)
    /\ WF_workerVars(Tick)

WorkerSpec == WorkerInit /\ [][WorkerNext]_workerVars /\ WorkerFairness

-----------------------------------------------------------------------------
(* Whatever times out, is invalidated or is closed, the executor never     *)
(* holds two tasks that are not done: resource use stays bounded to one.   *)
OneTaskAtATime ==
    \A q, r \in Requests :
        task[q] \in Unfinished /\ task[r] \in Unfinished => q = r

(* A request that was reported as timed out is never delivered later, and  *)
(* what is delivered is delivered once: it is no longer in flight.         *)
AnswersAreFinal ==
    \A r \in Requests :
        answers[r] \cap Delivered # {} =>
            /\ "TIMEOUT" \notin answers[r]
            /\ ~(Delivered \subseteq answers[r])
            /\ item.id # r

(* Every request is answered, even when the function hangs, unless a later *)
(* request took the place of a finished one that nobody had polled.        *)
EveryRequestIsAnswered ==
    \A r \in Requests :
        (nextId = r + 1) ~> (answers[r] # {} \/ nextId > r + 1)
=============================================================================
