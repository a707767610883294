------------------------------ MODULE Coordinator ------------------------------
(***************************************************************************)
(* The process-wide InferenceCoordinator of src/src/coordinator.py: a      *)
(* bounded semaphore in front of the shared forecasting backend, a         *)
(* watchdog that fails closed, and the request log and diagnostics fields  *)
(* the pages read.                                                         *)
(*                                                                         *)
(* Every element of Request is one call of run(), made by one script       *)
(* thread; pc[r] is where that thread stands inside run() and worker[r]    *)
(* what the daemon thread that executes the backend call is doing.  An     *)
(* action is the code between two points at which another thread can be    *)
(* scheduled and observe a difference: a semaphore operation, a section    *)
(* under one of the two locks, the unlocked read of the health state, the  *)
(* start and the end of the worker.                                        *)
(***************************************************************************)
EXTENDS Naturals, Sequences, FiniteSets

CONSTANTS
  Request,            (* the calls of run(); ids are unique                 *)
  NoRequest,          (* the empty request id ""                            *)
  Capacity,           (* permits of the semaphore                           *)
  MaxHistory,         (* maxlen of the request log                          *)
  ThreadStartMayFail, (* TRUE: Thread.start() may raise RuntimeError        *)
  LogMayBeCleared     (* TRUE: somebody may call clear_log()                *)

ASSUME CoordinatorAssumption ==
  /\ NoRequest \notin Request
  /\ Capacity \in Nat \ {0}
  /\ MaxHistory \in Nat \ {0}
  /\ ThreadStartMayFail \in BOOLEAN
  /\ LogMayBeCleared \in BOOLEAN

VARIABLES
  health,              (* _health_state                                     *)
  lastFailureCategory, (* _last_failure_category                            *)
  activeRequestId,     (* _active_request_id                                *)
  queueWaiters,        (* _queue_waiters                                    *)
  permits,             (* the value of the BoundedSemaphore                 *)
  requestLog,          (* _request_log, oldest entry first                  *)
  pc,                  (* where the caller of each request stands           *)
  worker               (* the worker thread of each request                 *)

stateFields == <<lastFailureCategory, activeRequestId, queueWaiters>>
vars == <<health, stateFields, permits, requestLog, pc, worker>>

--------------------------------------------------------------------------------
(* Where a call of run() can stand.                                         *)

Ended == {"returned", "raised", "timed_out", "refused", "unresponsive",
          "start_failed", "lost"}

(* Between the successful acquire and the release of the permit.            *)
Owning == {"acquired", "owning", "starting", "executing", "overrun",
           "poisoning", "completed", "releasing"}

InQueue == {"queued", "acquired", "expired"}

InFlight == {"refusing", "admitted", "giving_up", "gave_up", "released",
             "failing"} \cup Owning \cup InQueue

(* The caller is gone but its permit was never given back: the watchdog     *)
(* keeps it on purpose, a failed Thread.start() loses it.                   *)
Retaining == {"unresponsive", "start_failed"}

Holders == {r \in Request : pc[r] \in Owning \cup Retaining}
Running == {r \in Request : worker[r] = "running"}

Categories == {"", "queue_timeout", "backend_failure",
               "backend_execution_unresponsive"}
ErrorCodes == {"", "CoordinatorPoisonedError", "CoordinatorTimeoutError",
               "BackendExecutionUnresponsiveError", "BackendError"}
LogEntry == [request_id : Request, error_code : ErrorCodes]

TypeOK ==
  /\ health \in {"healthy", "poisoned"}
  /\ lastFailureCategory \in Categories
  /\ activeRequestId \in Request \cup {NoRequest}
  /\ queueWaiters \in Nat
  /\ permits \in 0..Capacity
  /\ requestLog \in Seq(LogEntry)
  /\ Len(requestLog) <= MaxHistory
  /\ pc \in [Request -> {"idle"} \cup InFlight \cup Ended]
  /\ worker \in [Request -> {"none", "running", "ok", "error"}]

--------------------------------------------------------------------------------

Init ==
  /\ health = "healthy"
  /\ lastFailureCategory = ""
  /\ activeRequestId = NoRequest
  /\ queueWaiters = 0
  /\ permits = Capacity
  /\ requestLog = <<>>
  /\ pc = [r \in Request |-> "idle"]
  /\ worker = [r \in Request |-> "none"]

Goto(r, from, to) ==
  /\ pc[r] = from
  /\ pc' = [pc EXCEPT ![r] = to]

(* Slip: the history bound is off by one.                                   *)
Record_OffByOne(r, code) ==
  LET kept == IF Len(requestLog) < MaxHistory - 1 THEN requestLog
                                                  ELSE Tail(requestLog)
  IN requestLog' = Append(kept, [request_id |-> r, error_code |-> code])

(* Slip: a plain list in place of the bounded deque.                        *)
Record_Unbounded(r, code) ==
  requestLog' = Append(requestLog, [request_id |-> r, error_code |-> code])

(* _record_request: append to a deque that drops its oldest entry when full. *)
Record(r, code) ==
  LET kept == IF Len(requestLog) < MaxHistory THEN requestLog
                                              ELSE Tail(requestLog)
  IN requestLog' = Append(kept, [request_id |-> r, error_code |-> code])

(* The fail-closed gate reads the health state without the lock.            *)
Gate(r) ==
  /\ Goto(r, "idle", IF health = "poisoned" THEN "refusing" ELSE "admitted")
  /\ UNCHANGED <<health, stateFields, permits, requestLog, worker>>

RecordRefusal(r) ==
  /\ Goto(r, "refusing", "refused")
  /\ Record(r, "CoordinatorPoisonedError")
  /\ UNCHANGED <<health, stateFields, permits, worker>>

JoinQueue(r) ==
  /\ Goto(r, "admitted", "queued")
  /\ queueWaiters' = queueWaiters + 1
  /\ UNCHANGED <<health, lastFailureCategory, activeRequestId, permits,
                 requestLog, worker>>

(* acquire() takes a permit as soon as its thread sees one; its deadline    *)
(* counts only when a last look, under the semaphore's own lock, finds none. *)
Acquire(r) ==
  /\ Goto(r, "queued", "acquired")
  /\ permits > 0
  /\ permits' = permits - 1
  /\ UNCHANGED <<health, stateFields, requestLog, worker>>

(* Slip: acquire() without its timeout.                                     *)
QueueTimeout_Never(r) == FALSE

QueueTimeout(r) ==
  /\ Goto(r, "queued", "expired")
  /\ permits = 0
  /\ UNCHANGED <<health, stateFields, permits, requestLog, worker>>

(* Slip: the waiter is counted out only when it got a permit.               *)
LeaveQueue_OnlyIfAcquired(r) ==
  /\ \/ Goto(r, "acquired", "owning") /\ queueWaiters' = queueWaiters - 1
     \/ Goto(r, "expired", "giving_up") /\ UNCHANGED queueWaiters
  /\ UNCHANGED <<health, lastFailureCategory, activeRequestId, permits,
                 requestLog, worker>>

(* Slip: the result of acquire() is not looked at.                          *)
LeaveQueue_IgnoringResult(r) ==
  /\ Goto(r, "acquired", "owning") \/ Goto(r, "expired", "owning")
  /\ queueWaiters' = queueWaiters - 1
  /\ UNCHANGED <<health, lastFailureCategory, activeRequestId, permits,
                 requestLog, worker>>

LeaveQueue(r) ==
  /\ \/ Goto(r, "acquired", "owning")
     \/ Goto(r, "expired", "giving_up")
  /\ queueWaiters' = queueWaiters - 1
  /\ UNCHANGED <<health, lastFailureCategory, activeRequestId, permits,
                 requestLog, worker>>

RecordQueueTimeout(r) ==
  /\ Goto(r, "giving_up", "gave_up")
  /\ Record(r, "CoordinatorTimeoutError")
  /\ UNCHANGED <<health, stateFields, permits, worker>>

(* Slip: the timeout path shares the clean-up of the paths that own a permit. *)
RaiseQueueTimeout_Releasing(r) ==
  /\ Goto(r, "gave_up", "timed_out")
  /\ lastFailureCategory' = "queue_timeout"
  /\ permits' = permits + 1
  /\ UNCHANGED <<health, activeRequestId, queueWaiters, requestLog, worker>>

RaiseQueueTimeout_Clearing(r) ==
  /\ Goto(r, "gave_up", "timed_out")
  /\ lastFailureCategory' = "queue_timeout"
  /\ activeRequestId' = NoRequest
  /\ UNCHANGED <<health, queueWaiters, permits, requestLog, worker>>

RaiseQueueTimeout(r) ==
  /\ Goto(r, "gave_up", "timed_out")
  /\ lastFailureCategory' = "queue_timeout"
  /\ UNCHANGED <<health, activeRequestId, queueWaiters, permits, requestLog,
                 worker>>

SetActive(r) ==
  /\ Goto(r, "owning", "starting")
  /\ activeRequestId' = r
  /\ UNCHANGED <<health, lastFailureCategory, queueWaiters, permits,
                 requestLog, worker>>

StartWorker(r) ==
  /\ Goto(r, "starting", "executing")
  /\ worker' = [worker EXCEPT ![r] = "running"]
  /\ UNCHANGED <<health, stateFields, permits, requestLog>>

(* Thread.start() raises out of run(): nothing is recorded or released.     *)
StartWorkerFails(r) ==
  /\ ThreadStartMayFail
  /\ Goto(r, "starting", "start_failed")
  /\ UNCHANGED <<health, stateFields, permits, requestLog, worker>>

(* Slip: a late completion is taken for a recovery.                         *)
BackendEnds_Healing(r, result) ==
  /\ worker[r] = "running"
  /\ worker' = [worker EXCEPT ![r] = result]
  /\ health' = IF pc[r] = "unresponsive" THEN "healthy" ELSE health
  /\ UNCHANGED <<stateFields, permits, requestLog, pc>>

(* Slip: the worker writes the success record itself.                       *)
BackendEnds_Recording(r, result) ==
  /\ worker[r] = "running"
  /\ worker' = [worker EXCEPT ![r] = result]
  /\ IF result = "ok" THEN Record(r, "") ELSE UNCHANGED requestLog
  /\ UNCHANGED <<health, stateFields, permits, pc>>

(* The backend call ends, in time or long after the watchdog gave it up.    *)
BackendEnds(r, result) ==
  /\ worker[r] = "running"
  /\ worker' = [worker EXCEPT ![r] = result]
  /\ UNCHANGED <<health, stateFields, permits, requestLog, pc>>

ObserveCompletion(r) ==
  /\ Goto(r, "executing", "completed")
  /\ worker[r] # "running"
  /\ UNCHANGED <<health, stateFields, permits, requestLog, worker>>

(* Slip: done.wait() without a timeout.                                     *)
WatchdogExpires_Never(r) == FALSE

(* done.wait() expires; the worker may still end before the next step.      *)
WatchdogExpires(r) ==
  /\ Goto(r, "executing", "overrun")
  /\ worker[r] = "running"
  /\ UNCHANGED <<health, stateFields, permits, requestLog, worker>>

RecordUnresponsive(r) ==
  /\ Goto(r, "overrun", "poisoning")
  /\ Record(r, "BackendExecutionUnresponsiveError")
  /\ UNCHANGED <<health, stateFields, permits, worker>>

(* Slip: the watchdog releases the permit as every other path does.         *)
Poison_Releasing(r) ==
  /\ Goto(r, "poisoning", "unresponsive")
  /\ health' = "poisoned"
  /\ lastFailureCategory' = "backend_execution_unresponsive"
  /\ permits' = permits + 1
  /\ UNCHANGED <<activeRequestId, queueWaiters, requestLog, worker>>

(* Fail closed: the permit and the active request id stay as they are.      *)
Poison(r) ==
  /\ Goto(r, "poisoning", "unresponsive")
  /\ health' = "poisoned"
  /\ lastFailureCategory' = "backend_execution_unresponsive"
  /\ UNCHANGED <<activeRequestId, queueWaiters, permits, requestLog, worker>>

(* Slip: the permit is released and the active id left behind.              *)
ClearActive_Forgotten(r) ==
  /\ Goto(r, "completed", "releasing")
  /\ UNCHANGED <<health, stateFields, permits, requestLog, worker>>

(* _clear_active_and_release, first under the state lock, then release().   *)
ClearActive(r) ==
  /\ Goto(r, "completed", "releasing")
  /\ activeRequestId' = NoRequest
  /\ UNCHANGED <<health, lastFailureCategory, queueWaiters, permits,
                 requestLog, worker>>

Release(r) ==
  /\ Goto(r, "releasing", "released")
  /\ permits' = permits + 1
  /\ UNCHANGED <<health, stateFields, requestLog, worker>>

ReturnResult(r) ==
  /\ Goto(r, "released", "returned")
  /\ worker[r] = "ok"
  /\ Record(r, "")
  /\ UNCHANGED <<health, stateFields, permits, worker>>

RecordBackendFailure(r) ==
  /\ Goto(r, "released", "failing")
  /\ worker[r] = "error"
  /\ Record(r, "BackendError")
  /\ UNCHANGED <<health, stateFields, permits, worker>>

RaiseBackendFailure(r) ==
  /\ Goto(r, "failing", "raised")
  /\ lastFailureCategory' = "backend_failure"
  /\ UNCHANGED <<health, activeRequestId, queueWaiters, permits, requestLog,
                 worker>>

ClearLog ==
  /\ LogMayBeCleared
  /\ requestLog' = <<>>
  /\ UNCHANGED <<health, stateFields, permits, pc, worker>>

(* The process is rebooted: the cached coordinator is built anew and every  *)
(* thread of the old process, a zombie worker too, is gone.                 *)
Recycle ==
  /\ health' = "healthy"
  /\ lastFailureCategory' = ""
  /\ activeRequestId' = NoRequest
  /\ queueWaiters' = 0
  /\ permits' = Capacity
  /\ requestLog' = <<>>
  /\ pc' = [r \in Request |-> IF pc[r] = "idle" THEN "idle" ELSE "lost"]
  /\ worker' = [r \in Request |-> "none"]

--------------------------------------------------------------------------------

(* What the thread inside run() does next, once it has passed the gate.     *)
CallerStep(r) ==
  \/ RecordRefusal(r) \/ JoinQueue(r) \/ Acquire(r) \/ QueueTimeout(r)
  \/ LeaveQueue(r) \/ RecordQueueTimeout(r) \/ RaiseQueueTimeout(r)
  \/ SetActive(r) \/ StartWorker(r) \/ StartWorkerFails(r)
  \/ ObserveCompletion(r) \/ WatchdogExpires(r) \/ RecordUnresponsive(r)
  \/ Poison(r) \/ ClearActive(r) \/ Release(r) \/ ReturnResult(r)
  \/ RecordBackendFailure(r) \/ RaiseBackendFailure(r)

BackendStep(r) == \E result \in {"ok", "error"} : BackendEnds(r, result)

Next ==
  \/ \E r \in Request : Gate(r) \/ CallerStep(r) \/ BackendStep(r)
  \/ ClearLog
  \/ Recycle

Spec == Init /\ [][Next]_vars

(* A thread inside run() is scheduled again and both of its waits are       *)
(* bounded by a timer.  Nothing is assumed of the backend call, of the next *)
(* caller or of a reboot.                                                   *)
FairSpec == Spec /\ \A r \in Request : WF_vars(CallerStep(r))
--------------------------------------------------------------------------------
(* Safety.                                                                  *)

(* Every permit is either free or accounted for by a call: no path through  *)
(* run() releases a permit it does not own, releases one twice, or drops    *)
(* one without ending unresponsive or in a failed Thread.start().           *)
PermitAccounting ==
  /\ IsFiniteSet(Holders)
  /\ permits + Cardinality(Holders) = Capacity

(* The shared pipeline is never in use by more executions than the          *)
(* capacity, counting executions the watchdog has given up but which are    *)
(* still running.                                                           *)
BackendExclusion ==
  /\ IsFiniteSet(Running)
  /\ Cardinality(Running) <= Capacity

(* Poisoned exactly when some call ended unresponsive: neither a late       *)
(* completion of that call nor what other calls do afterwards heals the     *)
(* coordinator, and nothing else poisons it.                                *)
PoisonedIffUnresponsive ==
  health = "poisoned" <=> \E r \in Request : pc[r] = "unresponsive"

(* The request shown as active owns a permit: the id of a call that has     *)
(* released its permit is never left behind for the diagnostics page.       *)
ActiveOwnsPermit ==
  activeRequestId # NoRequest => activeRequestId \in Holders

(* queue_depth counts the callers between entering and leaving the wait,    *)
(* whichever way they leave it.                                             *)
QueueDepthExact ==
  queueWaiters = Cardinality({r \in Request : pc[r] \in InQueue})

(* What a call may have come to when the log holds this error code for it.  *)
FatesOf(code) ==
  CASE code = ""                                  -> {"returned"}
    [] code = "BackendError"                      -> {"failing", "raised"}
    [] code = "CoordinatorTimeoutError"           -> {"gave_up", "timed_out"}
    [] code = "CoordinatorPoisonedError"          -> {"refused"}
    [] code = "BackendExecutionUnresponsiveError" -> {"poisoning", "unresponsive"}

(* The request log tells the truth and tells it once: an entry agrees with  *)
(* what its caller was told, and no call has two entries.                   *)
LogIsTruthful ==
  /\ \A i \in DOMAIN requestLog :
       pc[requestLog[i].request_id] \in FatesOf(requestLog[i].error_code)
  /\ \A i, j \in DOMAIN requestLog :
       requestLog[i].request_id = requestLog[j].request_id => i = j

(* A caller that has its answer finds its record by get_request_record, as  *)
(* the Forecast page does after a queue timeout (when nothing was evicted   *)
(* or cleared).                                                             *)
AnsweredIsLogged ==
  \A r \in Request :
    pc[r] \in Ended \ {"start_failed", "lost"} =>
      \E i \in DOMAIN requestLog : requestLog[i].request_id = r

(* What ties the worker threads and the active id to the callers; with the  *)
(* accounting above this is preserved by every step.                        *)
MayRun == {"executing", "overrun", "poisoning", "unresponsive"}
MayBeActive == {"starting", "completed"} \cup MayRun \cup Retaining

WorkerFitsCaller == \A r \in Running : pc[r] \in MayRun
ActiveFitsCaller ==
  \A r \in Request : activeRequestId = r => pc[r] \in MayBeActive
QueueIsFinite == IsFiniteSet({r \in Request : pc[r] \in InQueue})

IInv ==
  /\ TypeOK
  /\ PermitAccounting
  /\ WorkerFitsCaller
  /\ PoisonedIffUnresponsive
  /\ ActiveFitsCaller
  /\ QueueIsFinite
  /\ QueueDepthExact

(* While the pipeline is in use the diagnostics page shows an owner.        *)
BusyIsShown == Running # {} => activeRequestId # NoRequest

(* "While poisoned ... no second inference can ever enter a still-running   *)
(* shared backend" (the class docstring): no backend call starts once the   *)
(* coordinator is poisoned, not even for a caller already in the queue.     *)
NoEntryWhilePoisoned ==
  [][\A r \in Request :
       worker'[r] = "running" /\ worker[r] # "running" => health = "healthy"]_vars

(* Liveness.                                                                *)

(* A call of run() always comes back to the page, however long the backend  *)
(* hangs and however long the queue is.                                     *)
EveryCallEnds ==
  \A r \in Request : pc[r] \in InFlight ~> pc[r] \in Ended

(* A permit is given back unless the coordinator is poisoned: a slow or     *)
(* failing backend call never blocks the queue silently.  There is one      *)
(* exception: when Thread.start() raises, run() leaves with the permit      *)
(* taken, the coordinator stays healthy and nobody gives the permit back.   *)
PermitComesBackOrPoisoned ==
  \A r \in Request :
    r \in Holders ~>
      (r \notin Holders \/ health = "poisoned" \/ pc[r] = "start_failed")

(* The coordinator implements the gate.                                     *)
Gatekeeper == INSTANCE InferenceGate WITH
  inside <- {r \in Request : pc[r] \in Owning},
  kept   <- {r \in Request : pc[r] \in Retaining},
  using  <- Running,
  closed <- health = "poisoned"

(* Seen from the pipeline, every step of the coordinator is a step of the   *)
(* gate or leaves it alone.                                                 *)
ImplementsGate == Gatekeeper!Spec
================================================================================
