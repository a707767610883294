--------------------------- MODULE CoordinatorProofs ---------------------------
(* Theorems about Coordinator, for every set of requests, every capacity    *)
(* and every log size, with failing threads and clearing of the log or      *)
(* without.                                                                 *)
EXTENDS Coordinator, FiniteSetTheorems, TLAPS

Places == {"idle"} \cup InFlight \cup Ended

(* How the set of the callers that stand in S changes when one caller moves. *)
LEMMA Moved ==
  ASSUME NEW S, NEW r \in Request, NEW v,
         pc \in [Request -> Places],
         pc' = [pc EXCEPT ![r] = v]
  PROVE  LET now  == {q \in Request : pc[q] \in S}
             then == {q \in Request : pc'[q] \in S}
         IN /\ (v \in S <=> pc[r] \in S) => then = now
            /\ v \in S /\ pc[r] \notin S => then = now \cup {r} /\ r \notin now
            /\ v \notin S /\ pc[r] \in S => then = now \ {r} /\ r \in now
<1>1. pc'[r] = v /\ \A q \in Request \ {r} : pc'[q] = pc[q]
  OBVIOUS
<1>2. QED
  BY <1>1

(* Accounting survives a step that moves one caller and moves a permit in   *)
(* the opposite direction, or none when the caller stays on its side.       *)
LEMMA AccountingMoved ==
  ASSUME TypeOK, PermitAccounting, NEW r \in Request, NEW v,
         pc' = [pc EXCEPT ![r] = v],
         \/ /\ permits' = permits
            /\ v \in Owning \cup Retaining <=> pc[r] \in Owning \cup Retaining
         \/ /\ permits > 0 /\ permits' = permits - 1
            /\ v \in Owning \cup Retaining
            /\ pc[r] \notin Owning \cup Retaining
         \/ /\ permits' = permits + 1
            /\ v \notin Owning \cup Retaining
            /\ pc[r] \in Owning \cup Retaining
  PROVE  PermitAccounting' /\ permits' \in 0..Capacity
<1> DEFINE S == Owning \cup Retaining
<1>1. pc \in [Request -> Places] /\ permits \in Nat /\ Capacity \in Nat
  BY CoordinatorAssumption DEF TypeOK, Places
<1>2. /\ (v \in S <=> pc[r] \in S) => Holders' = Holders
      /\ v \in S /\ pc[r] \notin S => Holders' = Holders \cup {r} /\ r \notin Holders
      /\ v \notin S /\ pc[r] \in S => Holders' = Holders \ {r} /\ r \in Holders
  <2> HIDE DEF S
  <2>1. Holders = {q \in Request : pc[q] \in S}
    BY DEF Holders, S
  <2>2. Holders' = {q \in Request : pc'[q] \in S}
    BY DEF Holders, S
  <2>3. QED
    BY <1>1, <2>1, <2>2, Moved
<1>3. IsFiniteSet(Holders) /\ permits + Cardinality(Holders) = Capacity
      /\ Cardinality(Holders) \in Nat
  BY FS_CardinalityType DEF PermitAccounting
<1>4. CASE permits' = permits /\ (v \in S <=> pc[r] \in S)
  BY <1>1, <1>2, <1>3, <1>4 DEF PermitAccounting
<1>5. CASE /\ permits > 0 /\ permits' = permits - 1
           /\ v \in S /\ pc[r] \notin S
  <2>1. Holders' = Holders \cup {r} /\ r \notin Holders
    BY <1>2, <1>5
  <2>2. IsFiniteSet(Holders') /\ Cardinality(Holders') = Cardinality(Holders) + 1
    BY <1>3, <2>1, FS_AddElement
  <2>3. QED
    BY <1>1, <1>3, <1>5, <2>2 DEF PermitAccounting
<1>6. CASE permits' = permits + 1 /\ v \notin S /\ pc[r] \in S
  <2>1. Holders' = Holders \ {r} /\ r \in Holders
    BY <1>2, <1>6
  <2>2. /\ IsFiniteSet(Holders')
        /\ Cardinality(Holders') = Cardinality(Holders) - 1
        /\ Cardinality(Holders') \in Nat
    BY <1>3, <2>1, FS_RemoveElement, FS_CardinalityType
  <2>3. QED
    BY <1>1, <1>3, <1>6, <2>2 DEF PermitAccounting
<1>7. QED
  BY <1>4, <1>5, <1>6

(* The queue counter survives a step that moves one caller and counts it.   *)
LEMMA QueueMoved ==
  ASSUME TypeOK, QueueIsFinite, QueueDepthExact, NEW r \in Request, NEW v,
         pc' = [pc EXCEPT ![r] = v],
         \/ /\ queueWaiters' = queueWaiters
            /\ v \in InQueue <=> pc[r] \in InQueue
         \/ /\ queueWaiters' = queueWaiters + 1
            /\ v \in InQueue /\ pc[r] \notin InQueue
         \/ /\ queueWaiters' = queueWaiters - 1
            /\ v \notin InQueue /\ pc[r] \in InQueue
  PROVE  QueueIsFinite' /\ QueueDepthExact' /\ queueWaiters' \in Nat
<1> DEFINE now  == {q \in Request : pc[q] \in InQueue}
           then == {q \in Request : pc'[q] \in InQueue}
<1>1. pc \in [Request -> Places]
  BY DEF TypeOK, Places
<1>2. /\ (v \in InQueue <=> pc[r] \in InQueue) => then = now
      /\ v \in InQueue /\ pc[r] \notin InQueue => then = now \cup {r} /\ r \notin now
      /\ v \notin InQueue /\ pc[r] \in InQueue => then = now \ {r} /\ r \in now
  BY <1>1, Moved
<1>3. IsFiniteSet(now) /\ queueWaiters = Cardinality(now) /\ Cardinality(now) \in Nat
  BY FS_CardinalityType DEF QueueIsFinite, QueueDepthExact
<1>4. SUFFICES /\ IsFiniteSet(then) /\ queueWaiters' = Cardinality(then)
               /\ Cardinality(then) \in Nat
  BY DEF QueueIsFinite, QueueDepthExact
<1>5. CASE queueWaiters' = queueWaiters /\ (v \in InQueue <=> pc[r] \in InQueue)
  <2>1. then = now
    BY <1>2, <1>5
  <2>2. QED
    BY <2>1, <1>3, <1>5
<1>6. CASE /\ queueWaiters' = queueWaiters + 1
           /\ v \in InQueue /\ pc[r] \notin InQueue
  <2>1. then = now \cup {r} /\ r \notin now
    BY <1>2, <1>6
  <2>2. IsFiniteSet(then) /\ Cardinality(then) = Cardinality(now) + 1
    BY <1>3, <2>1, FS_AddElement
  <2>3. QED
    BY <1>3, <1>6, <2>2
<1>7. CASE /\ queueWaiters' = queueWaiters - 1
           /\ v \notin InQueue /\ pc[r] \in InQueue
  <2>1. then = now \ {r} /\ r \in now
    BY <1>2, <1>7
  <2> HIDE DEF now, then
  <2>2. IsFiniteSet(then) /\ Cardinality(then) = Cardinality(now) - 1
    BY <1>3, <2>1, FS_RemoveElement
  <2>3. Cardinality(then) \in Nat
    BY <2>2, FS_CardinalityType
  <2>4. QED
    BY <1>3, <1>7, <2>2, <2>3
<1>8. QED
  BY <1>5, <1>6, <1>7

--------------------------------------------------------------------------------
(* One lemma per conjunct of the inductive invariant.                       *)

(* Permits: released only by their owner, taken only when free.             *)
LEMMA AccountingStep ==
  ASSUME IInv, [Next]_vars
  PROVE  PermitAccounting' /\ permits' \in 0..Capacity
<1> USE DEF Goto, Owning, Retaining
<1>0. TypeOK /\ PermitAccounting
  BY DEF IInv
<1>1. ASSUME NEW r \in Request, Gate(r)
      PROVE  PermitAccounting' /\ permits' \in 0..Capacity
  BY <1>0, <1>1, AccountingMoved DEF Gate
<1>2. ASSUME NEW r \in Request, RecordRefusal(r)
      PROVE  PermitAccounting' /\ permits' \in 0..Capacity
  BY <1>0, <1>2, AccountingMoved DEF RecordRefusal
<1>3. ASSUME NEW r \in Request, JoinQueue(r)
      PROVE  PermitAccounting' /\ permits' \in 0..Capacity
  BY <1>0, <1>3, AccountingMoved DEF JoinQueue
<1>4. ASSUME NEW r \in Request, Acquire(r)
      PROVE  PermitAccounting' /\ permits' \in 0..Capacity
  BY <1>0, <1>4, AccountingMoved DEF Acquire
<1>5. ASSUME NEW r \in Request, QueueTimeout(r)
      PROVE  PermitAccounting' /\ permits' \in 0..Capacity
  BY <1>0, <1>5, AccountingMoved DEF QueueTimeout
<1>6. ASSUME NEW r \in Request, LeaveQueue(r)
      PROVE  PermitAccounting' /\ permits' \in 0..Capacity
  <2>1. CASE Goto(r, "acquired", "owning")
    BY <1>0, <1>6, <2>1, AccountingMoved DEF LeaveQueue
  <2>2. CASE Goto(r, "expired", "giving_up")
    BY <1>0, <1>6, <2>2, AccountingMoved DEF LeaveQueue
  <2>3. QED
    BY <1>6, <2>1, <2>2 DEF LeaveQueue
<1>7. ASSUME NEW r \in Request, RecordQueueTimeout(r)
      PROVE  PermitAccounting' /\ permits' \in 0..Capacity
  BY <1>0, <1>7, AccountingMoved DEF RecordQueueTimeout
<1>8. ASSUME NEW r \in Request, RaiseQueueTimeout(r)
      PROVE  PermitAccounting' /\ permits' \in 0..Capacity
  BY <1>0, <1>8, AccountingMoved DEF RaiseQueueTimeout
<1>9. ASSUME NEW r \in Request, SetActive(r)
      PROVE  PermitAccounting' /\ permits' \in 0..Capacity
  BY <1>0, <1>9, AccountingMoved DEF SetActive
<1>10. ASSUME NEW r \in Request, StartWorker(r)
      PROVE  PermitAccounting' /\ permits' \in 0..Capacity
  BY <1>0, <1>10, AccountingMoved DEF StartWorker
<1>11. ASSUME NEW r \in Request, StartWorkerFails(r)
      PROVE  PermitAccounting' /\ permits' \in 0..Capacity
  BY <1>0, <1>11, AccountingMoved DEF StartWorkerFails
<1>12. ASSUME NEW r \in Request, ObserveCompletion(r)
      PROVE  PermitAccounting' /\ permits' \in 0..Capacity
  BY <1>0, <1>12, AccountingMoved DEF ObserveCompletion
<1>13. ASSUME NEW r \in Request, WatchdogExpires(r)
      PROVE  PermitAccounting' /\ permits' \in 0..Capacity
  BY <1>0, <1>13, AccountingMoved DEF WatchdogExpires
<1>14. ASSUME NEW r \in Request, RecordUnresponsive(r)
      PROVE  PermitAccounting' /\ permits' \in 0..Capacity
  BY <1>0, <1>14, AccountingMoved DEF RecordUnresponsive
<1>15. ASSUME NEW r \in Request, Poison(r)
      PROVE  PermitAccounting' /\ permits' \in 0..Capacity
  BY <1>0, <1>15, AccountingMoved DEF Poison
<1>16. ASSUME NEW r \in Request, ClearActive(r)
      PROVE  PermitAccounting' /\ permits' \in 0..Capacity
  BY <1>0, <1>16, AccountingMoved DEF ClearActive
<1>17. ASSUME NEW r \in Request, Release(r)
      PROVE  PermitAccounting' /\ permits' \in 0..Capacity
  BY <1>0, <1>17, AccountingMoved DEF Release
<1>18. ASSUME NEW r \in Request, ReturnResult(r)
      PROVE  PermitAccounting' /\ permits' \in 0..Capacity
  BY <1>0, <1>18, AccountingMoved DEF ReturnResult
<1>19. ASSUME NEW r \in Request, RecordBackendFailure(r)
      PROVE  PermitAccounting' /\ permits' \in 0..Capacity
  BY <1>0, <1>19, AccountingMoved DEF RecordBackendFailure
<1>20. ASSUME NEW r \in Request, RaiseBackendFailure(r)
      PROVE  PermitAccounting' /\ permits' \in 0..Capacity
  BY <1>0, <1>20, AccountingMoved DEF RaiseBackendFailure
<1>21. ASSUME NEW r \in Request, BackendStep(r)
      PROVE  PermitAccounting' /\ permits' \in 0..Capacity
  BY <1>0, <1>21 DEF BackendStep, BackendEnds, PermitAccounting, Holders, TypeOK
<1>22. ASSUME ClearLog
      PROVE  PermitAccounting' /\ permits' \in 0..Capacity
  BY <1>0, <1>22 DEF ClearLog, PermitAccounting, Holders, TypeOK
<1>23. ASSUME Recycle
      PROVE  PermitAccounting' /\ permits' \in 0..Capacity
  <2>1. Holders' = {}
    BY <1>23 DEF Recycle, Holders
  <2>2. IsFiniteSet(Holders') /\ Cardinality(Holders') = 0
    BY <2>1, FS_EmptySet
  <2>3. permits' = Capacity /\ Capacity \in Nat
    BY <1>23, CoordinatorAssumption DEF Recycle
  <2>4. QED
    BY <2>2, <2>3 DEF PermitAccounting
<1>24. CASE UNCHANGED vars
  BY <1>0, <1>24 DEF vars, PermitAccounting, Holders, TypeOK
<1>25. QED
  BY <1>1, <1>2, <1>3, <1>4, <1>5, <1>6, <1>7, <1>8, <1>9, <1>10, <1>11, <1>12,
     <1>13, <1>14, <1>15, <1>16, <1>17, <1>18, <1>19, <1>20, <1>21, <1>22, <1>23, <1>24
     DEF Next, CallerStep

(* The queue counter: every way out of the wait is counted.                 *)
LEMMA QueueStep ==
  ASSUME IInv, [Next]_vars
  PROVE  QueueIsFinite' /\ QueueDepthExact' /\ queueWaiters' \in Nat
<1> USE DEF Goto, InQueue
<1>0. TypeOK /\ QueueIsFinite /\ QueueDepthExact
  BY DEF IInv
<1>1. ASSUME NEW r \in Request, Gate(r)
      PROVE  QueueIsFinite' /\ QueueDepthExact' /\ queueWaiters' \in Nat
  BY <1>0, <1>1, QueueMoved DEF Gate, stateFields
<1>2. ASSUME NEW r \in Request, RecordRefusal(r)
      PROVE  QueueIsFinite' /\ QueueDepthExact' /\ queueWaiters' \in Nat
  BY <1>0, <1>2, QueueMoved DEF RecordRefusal, stateFields
<1>3. ASSUME NEW r \in Request, JoinQueue(r)
      PROVE  QueueIsFinite' /\ QueueDepthExact' /\ queueWaiters' \in Nat
  BY <1>0, <1>3, QueueMoved DEF JoinQueue, stateFields
<1>4. ASSUME NEW r \in Request, Acquire(r)
      PROVE  QueueIsFinite' /\ QueueDepthExact' /\ queueWaiters' \in Nat
  BY <1>0, <1>4, QueueMoved DEF Acquire, stateFields
<1>5. ASSUME NEW r \in Request, QueueTimeout(r)
      PROVE  QueueIsFinite' /\ QueueDepthExact' /\ queueWaiters' \in Nat
  BY <1>0, <1>5, QueueMoved DEF QueueTimeout, stateFields
<1>6. ASSUME NEW r \in Request, LeaveQueue(r)
      PROVE  QueueIsFinite' /\ QueueDepthExact' /\ queueWaiters' \in Nat
  <2>1. CASE Goto(r, "acquired", "owning")
    BY <1>0, <1>6, <2>1, QueueMoved DEF LeaveQueue
  <2>2. CASE Goto(r, "expired", "giving_up")
    BY <1>0, <1>6, <2>2, QueueMoved DEF LeaveQueue
  <2>3. QED
    BY <1>6, <2>1, <2>2 DEF LeaveQueue
<1>7. ASSUME NEW r \in Request, RecordQueueTimeout(r)
      PROVE  QueueIsFinite' /\ QueueDepthExact' /\ queueWaiters' \in Nat
  BY <1>0, <1>7, QueueMoved DEF RecordQueueTimeout, stateFields
<1>8. ASSUME NEW r \in Request, RaiseQueueTimeout(r)
      PROVE  QueueIsFinite' /\ QueueDepthExact' /\ queueWaiters' \in Nat
  BY <1>0, <1>8, QueueMoved DEF RaiseQueueTimeout, stateFields
<1>9. ASSUME NEW r \in Request, SetActive(r)
      PROVE  QueueIsFinite' /\ QueueDepthExact' /\ queueWaiters' \in Nat
  BY <1>0, <1>9, QueueMoved DEF SetActive, stateFields
<1>10. ASSUME NEW r \in Request, StartWorker(r)
      PROVE  QueueIsFinite' /\ QueueDepthExact' /\ queueWaiters' \in Nat
  BY <1>0, <1>10, QueueMoved DEF StartWorker, stateFields
<1>11. ASSUME NEW r \in Request, StartWorkerFails(r)
      PROVE  QueueIsFinite' /\ QueueDepthExact' /\ queueWaiters' \in Nat
  BY <1>0, <1>11, QueueMoved DEF StartWorkerFails, stateFields
<1>12. ASSUME NEW r \in Request, ObserveCompletion(r)
      PROVE  QueueIsFinite' /\ QueueDepthExact' /\ queueWaiters' \in Nat
  BY <1>0, <1>12, QueueMoved DEF ObserveCompletion, stateFields
<1>13. ASSUME NEW r \in Request, WatchdogExpires(r)
      PROVE  QueueIsFinite' /\ QueueDepthExact' /\ queueWaiters' \in Nat
  BY <1>0, <1>13, QueueMoved DEF WatchdogExpires, stateFields
<1>14. ASSUME NEW r \in Request, RecordUnresponsive(r)
      PROVE  QueueIsFinite' /\ QueueDepthExact' /\ queueWaiters' \in Nat
  BY <1>0, <1>14, QueueMoved DEF RecordUnresponsive, stateFields
<1>15. ASSUME NEW r \in Request, Poison(r)
      PROVE  QueueIsFinite' /\ QueueDepthExact' /\ queueWaiters' \in Nat
  BY <1>0, <1>15, QueueMoved DEF Poison, stateFields
<1>16. ASSUME NEW r \in Request, ClearActive(r)
      PROVE  QueueIsFinite' /\ QueueDepthExact' /\ queueWaiters' \in Nat
  BY <1>0, <1>16, QueueMoved DEF ClearActive, stateFields
<1>17. ASSUME NEW r \in Request, Release(r)
      PROVE  QueueIsFinite' /\ QueueDepthExact' /\ queueWaiters' \in Nat
  BY <1>0, <1>17, QueueMoved DEF Release, stateFields
<1>18. ASSUME NEW r \in Request, ReturnResult(r)
      PROVE  QueueIsFinite' /\ QueueDepthExact' /\ queueWaiters' \in Nat
  BY <1>0, <1>18, QueueMoved DEF ReturnResult, stateFields
<1>19. ASSUME NEW r \in Request, RecordBackendFailure(r)
      PROVE  QueueIsFinite' /\ QueueDepthExact' /\ queueWaiters' \in Nat
  BY <1>0, <1>19, QueueMoved DEF RecordBackendFailure, stateFields
<1>20. ASSUME NEW r \in Request, RaiseBackendFailure(r)
      PROVE  QueueIsFinite' /\ QueueDepthExact' /\ queueWaiters' \in Nat
  BY <1>0, <1>20, QueueMoved DEF RaiseBackendFailure, stateFields
<1>21. ASSUME NEW r \in Request, BackendStep(r)
      PROVE  QueueIsFinite' /\ QueueDepthExact' /\ queueWaiters' \in Nat
  BY <1>0, <1>21 DEF BackendStep, BackendEnds, QueueIsFinite, QueueDepthExact, TypeOK, stateFields
<1>22. ASSUME ClearLog
      PROVE  QueueIsFinite' /\ QueueDepthExact' /\ queueWaiters' \in Nat
  BY <1>0, <1>22 DEF ClearLog, QueueIsFinite, QueueDepthExact, TypeOK, stateFields
<1>23. ASSUME Recycle
      PROVE  QueueIsFinite' /\ QueueDepthExact' /\ queueWaiters' \in Nat
  <2>1. {q \in Request : pc'[q] \in InQueue} = {}
    BY <1>23 DEF Recycle
  <2>2. QED
    BY <1>23, <2>1, FS_EmptySet DEF Recycle, QueueIsFinite, QueueDepthExact
<1>24. CASE UNCHANGED vars
  BY <1>0, <1>24 DEF vars, QueueIsFinite, QueueDepthExact, TypeOK, stateFields
<1>25. QED
  BY <1>1, <1>2, <1>3, <1>4, <1>5, <1>6, <1>7, <1>8, <1>9, <1>10, <1>11, <1>12,
     <1>13, <1>14, <1>15, <1>16, <1>17, <1>18, <1>19, <1>20, <1>21, <1>22, <1>23, <1>24
     DEF Next, CallerStep

(* The log of a new process.                                              *)
LEMMA EmptyLogType == <<>> \in Seq(LogEntry) /\ Len(<<>>) <= MaxHistory
<1>1. Len(<<>>) = 0
  OBVIOUS
<1>2. QED
  BY <1>1, CoordinatorAssumption

(* The log: an append keeps the type and the bound.                         *)
LEMMA RecordType ==
  ASSUME TypeOK, NEW r \in Request, NEW code \in ErrorCodes, Record(r, code)
  PROVE  requestLog' \in Seq(LogEntry) /\ Len(requestLog') <= MaxHistory
<1> DEFINE e == [request_id |-> r, error_code |-> code]
<1>1. e \in LogEntry /\ requestLog \in Seq(LogEntry) /\ Len(requestLog) <= MaxHistory
      /\ MaxHistory \in Nat \ {0}
  BY CoordinatorAssumption DEF TypeOK, LogEntry
<1> HIDE DEF e
<1>2. CASE Len(requestLog) < MaxHistory
  <2>1. requestLog' = Append(requestLog, e)
    BY <1>2 DEF Record, e
  <2>2. QED
    BY <1>1, <1>2, <2>1
<1>3. CASE ~(Len(requestLog) < MaxHistory)
  <2>1. requestLog' = Append(Tail(requestLog), e)
    BY <1>3 DEF Record, e
  <2>2. requestLog # <<>>
    BY <1>1, <1>3
  <2>3. Tail(requestLog) \in Seq(LogEntry)
        /\ Len(Tail(requestLog)) = Len(requestLog) - 1
    BY <1>1, <2>2
  <2>4. QED
    BY <1>1, <2>1, <2>3
<1>4. QED
  BY <1>2, <1>3

(* Types, but for the two counters, which the lemmas above bound.           *)
OtherTypes ==
  /\ health \in {"healthy", "poisoned"}
  /\ lastFailureCategory \in Categories
  /\ activeRequestId \in Request \cup {NoRequest}
  /\ requestLog \in Seq(LogEntry)
  /\ Len(requestLog) <= MaxHistory
  /\ pc \in [Request -> {"idle"} \cup InFlight \cup Ended]
  /\ worker \in [Request -> {"none", "running", "ok", "error"}]

LEMMA TypeStep ==
  ASSUME IInv, [Next]_vars
  PROVE  OtherTypes'
<1> USE DEF Goto, stateFields, OtherTypes, InFlight, Ended, Owning, InQueue, Categories
<1>0. TypeOK /\ OtherTypes
  BY DEF IInv, TypeOK
<1>1. ASSUME NEW r \in Request, Gate(r)
      PROVE  OtherTypes'
  BY <1>0, <1>1 DEF Gate
<1>2. ASSUME NEW r \in Request, RecordRefusal(r)
      PROVE  OtherTypes'
  <2>1. requestLog' \in Seq(LogEntry) /\ Len(requestLog') <= MaxHistory
    BY <1>0, <1>2, RecordType DEF RecordRefusal, ErrorCodes
  <2>2. QED
    BY <1>0, <1>2, <2>1 DEF RecordRefusal
<1>3. ASSUME NEW r \in Request, JoinQueue(r)
      PROVE  OtherTypes'
  BY <1>0, <1>3 DEF JoinQueue
<1>4. ASSUME NEW r \in Request, Acquire(r)
      PROVE  OtherTypes'
  BY <1>0, <1>4 DEF Acquire
<1>5. ASSUME NEW r \in Request, QueueTimeout(r)
      PROVE  OtherTypes'
  BY <1>0, <1>5 DEF QueueTimeout
<1>6. ASSUME NEW r \in Request, LeaveQueue(r)
      PROVE  OtherTypes'
  BY <1>0, <1>6 DEF LeaveQueue
<1>7. ASSUME NEW r \in Request, RecordQueueTimeout(r)
      PROVE  OtherTypes'
  <2>1. requestLog' \in Seq(LogEntry) /\ Len(requestLog') <= MaxHistory
    BY <1>0, <1>7, RecordType DEF RecordQueueTimeout, ErrorCodes
  <2>2. QED
    BY <1>0, <1>7, <2>1 DEF RecordQueueTimeout
<1>8. ASSUME NEW r \in Request, RaiseQueueTimeout(r)
      PROVE  OtherTypes'
  BY <1>0, <1>8 DEF RaiseQueueTimeout
<1>9. ASSUME NEW r \in Request, SetActive(r)
      PROVE  OtherTypes'
  BY <1>0, <1>9 DEF SetActive
<1>10. ASSUME NEW r \in Request, StartWorker(r)
      PROVE  OtherTypes'
  BY <1>0, <1>10 DEF StartWorker
<1>11. ASSUME NEW r \in Request, StartWorkerFails(r)
      PROVE  OtherTypes'
  BY <1>0, <1>11 DEF StartWorkerFails
<1>12. ASSUME NEW r \in Request, ObserveCompletion(r)
      PROVE  OtherTypes'
  BY <1>0, <1>12 DEF ObserveCompletion
<1>13. ASSUME NEW r \in Request, WatchdogExpires(r)
      PROVE  OtherTypes'
  BY <1>0, <1>13 DEF WatchdogExpires
<1>14. ASSUME NEW r \in Request, RecordUnresponsive(r)
      PROVE  OtherTypes'
  <2>1. requestLog' \in Seq(LogEntry) /\ Len(requestLog') <= MaxHistory
    BY <1>0, <1>14, RecordType DEF RecordUnresponsive, ErrorCodes
  <2>2. QED
    BY <1>0, <1>14, <2>1 DEF RecordUnresponsive
<1>15. ASSUME NEW r \in Request, Poison(r)
      PROVE  OtherTypes'
  BY <1>0, <1>15 DEF Poison
<1>16. ASSUME NEW r \in Request, ClearActive(r)
      PROVE  OtherTypes'
  BY <1>0, <1>16 DEF ClearActive
<1>17. ASSUME NEW r \in Request, Release(r)
      PROVE  OtherTypes'
  BY <1>0, <1>17 DEF Release
<1>18. ASSUME NEW r \in Request, ReturnResult(r)
      PROVE  OtherTypes'
  <2>1. requestLog' \in Seq(LogEntry) /\ Len(requestLog') <= MaxHistory
    BY <1>0, <1>18, RecordType DEF ReturnResult, ErrorCodes
  <2>2. QED
    BY <1>0, <1>18, <2>1 DEF ReturnResult
<1>19. ASSUME NEW r \in Request, RecordBackendFailure(r)
      PROVE  OtherTypes'
  <2>1. requestLog' \in Seq(LogEntry) /\ Len(requestLog') <= MaxHistory
    BY <1>0, <1>19, RecordType DEF RecordBackendFailure, ErrorCodes
  <2>2. QED
    BY <1>0, <1>19, <2>1 DEF RecordBackendFailure
<1>20. ASSUME NEW r \in Request, RaiseBackendFailure(r)
      PROVE  OtherTypes'
  BY <1>0, <1>20 DEF RaiseBackendFailure
<1>21. ASSUME NEW r \in Request, BackendStep(r)
      PROVE  OtherTypes'
  BY <1>0, <1>21 DEF BackendStep, BackendEnds
<1>22. ASSUME ClearLog
      PROVE  OtherTypes'
  <2>1. requestLog' \in Seq(LogEntry) /\ Len(requestLog') <= MaxHistory
    BY <1>22, EmptyLogType DEF ClearLog
  <2>2. QED
    BY <1>0, <1>22, <2>1 DEF ClearLog
<1>23. ASSUME Recycle
      PROVE  OtherTypes'
  <2>1. requestLog' \in Seq(LogEntry) /\ Len(requestLog') <= MaxHistory
    BY <1>23, EmptyLogType DEF Recycle
  <2>2. QED
    BY <1>0, <1>23, <2>1 DEF Recycle
<1>24. CASE UNCHANGED vars
  BY <1>0, <1>24 DEF vars
<1>25. QED
  BY <1>1, <1>2, <1>3, <1>4, <1>5, <1>6, <1>7, <1>8, <1>9, <1>10, <1>11, <1>12,
     <1>13, <1>14, <1>15, <1>16, <1>17, <1>18, <1>19, <1>20, <1>21, <1>22, <1>23, <1>24
     DEF Next, CallerStep

(* A worker only runs for a caller that waits for it or has given it up.    *)
LEMMA WorkerStep ==
  ASSUME IInv, [Next]_vars
  PROVE  WorkerFitsCaller'
<1> USE DEF Goto, WorkerFitsCaller, Running, MayRun
<1>0. TypeOK /\ WorkerFitsCaller
  BY DEF IInv
<1>00. /\ pc \in [Request -> {"idle"} \cup InFlight \cup Ended]
       /\ worker \in [Request -> {"none", "running", "ok", "error"}]
  BY <1>0 DEF TypeOK
<1>1. ASSUME NEW r \in Request, Gate(r)
      PROVE  WorkerFitsCaller'
  BY <1>0, <1>00, <1>1 DEF Gate
<1>2. ASSUME NEW r \in Request, RecordRefusal(r)
      PROVE  WorkerFitsCaller'
  BY <1>0, <1>00, <1>2 DEF RecordRefusal
<1>3. ASSUME NEW r \in Request, JoinQueue(r)
      PROVE  WorkerFitsCaller'
  BY <1>0, <1>00, <1>3 DEF JoinQueue
<1>4. ASSUME NEW r \in Request, Acquire(r)
      PROVE  WorkerFitsCaller'
  BY <1>0, <1>00, <1>4 DEF Acquire
<1>5. ASSUME NEW r \in Request, QueueTimeout(r)
      PROVE  WorkerFitsCaller'
  BY <1>0, <1>00, <1>5 DEF QueueTimeout
<1>6. ASSUME NEW r \in Request, LeaveQueue(r)
      PROVE  WorkerFitsCaller'
  BY <1>0, <1>00, <1>6 DEF LeaveQueue
<1>7. ASSUME NEW r \in Request, RecordQueueTimeout(r)
      PROVE  WorkerFitsCaller'
  BY <1>0, <1>00, <1>7 DEF RecordQueueTimeout
<1>8. ASSUME NEW r \in Request, RaiseQueueTimeout(r)
      PROVE  WorkerFitsCaller'
  BY <1>0, <1>00, <1>8 DEF RaiseQueueTimeout
<1>9. ASSUME NEW r \in Request, SetActive(r)
      PROVE  WorkerFitsCaller'
  BY <1>0, <1>00, <1>9 DEF SetActive
<1>10. ASSUME NEW r \in Request, StartWorker(r)
      PROVE  WorkerFitsCaller'
  BY <1>0, <1>00, <1>10 DEF StartWorker
<1>11. ASSUME NEW r \in Request, StartWorkerFails(r)
      PROVE  WorkerFitsCaller'
  BY <1>0, <1>00, <1>11 DEF StartWorkerFails
<1>12. ASSUME NEW r \in Request, ObserveCompletion(r)
      PROVE  WorkerFitsCaller'
  BY <1>0, <1>00, <1>12 DEF ObserveCompletion
<1>13. ASSUME NEW r \in Request, WatchdogExpires(r)
      PROVE  WorkerFitsCaller'
  BY <1>0, <1>00, <1>13 DEF WatchdogExpires
<1>14. ASSUME NEW r \in Request, RecordUnresponsive(r)
      PROVE  WorkerFitsCaller'
  BY <1>0, <1>00, <1>14 DEF RecordUnresponsive
<1>15. ASSUME NEW r \in Request, Poison(r)
      PROVE  WorkerFitsCaller'
  BY <1>0, <1>00, <1>15 DEF Poison
<1>16. ASSUME NEW r \in Request, ClearActive(r)
      PROVE  WorkerFitsCaller'
  BY <1>0, <1>00, <1>16 DEF ClearActive
<1>17. ASSUME NEW r \in Request, Release(r)
      PROVE  WorkerFitsCaller'
  BY <1>0, <1>00, <1>17 DEF Release
<1>18. ASSUME NEW r \in Request, ReturnResult(r)
      PROVE  WorkerFitsCaller'
  BY <1>0, <1>00, <1>18 DEF ReturnResult
<1>19. ASSUME NEW r \in Request, RecordBackendFailure(r)
      PROVE  WorkerFitsCaller'
  BY <1>0, <1>00, <1>19 DEF RecordBackendFailure
<1>20. ASSUME NEW r \in Request, RaiseBackendFailure(r)
      PROVE  WorkerFitsCaller'
  BY <1>0, <1>00, <1>20 DEF RaiseBackendFailure
<1>21. ASSUME NEW r \in Request, BackendStep(r)
      PROVE  WorkerFitsCaller'
  BY <1>0, <1>00, <1>21 DEF BackendStep, BackendEnds
<1>22. ASSUME ClearLog
      PROVE  WorkerFitsCaller'
  BY <1>0, <1>00, <1>22 DEF ClearLog
<1>23. ASSUME Recycle
      PROVE  WorkerFitsCaller'
  BY <1>0, <1>00, <1>23 DEF Recycle
<1>24. CASE UNCHANGED vars
  BY <1>0, <1>00, <1>24 DEF vars
<1>25. QED
  BY <1>1, <1>2, <1>3, <1>4, <1>5, <1>6, <1>7, <1>8, <1>9, <1>10, <1>11, <1>12,
     <1>13, <1>14, <1>15, <1>16, <1>17, <1>18, <1>19, <1>20, <1>21, <1>22, <1>23, <1>24
     DEF Next, CallerStep

(* Poisoned exactly while some call has ended unresponsive.                 *)
LEMMA PoisonStep ==
  ASSUME IInv, [Next]_vars
  PROVE  PoisonedIffUnresponsive'
<1> USE DEF Goto, PoisonedIffUnresponsive
<1>0. PoisonedIffUnresponsive /\ health \in {"healthy", "poisoned"}
      /\ pc \in [Request -> {"idle"} \cup InFlight \cup Ended]
  BY DEF IInv, TypeOK
<1>1. ASSUME NEW r \in Request, Gate(r)
      PROVE  PoisonedIffUnresponsive'
  BY <1>0, <1>1 DEF Gate
<1>2. ASSUME NEW r \in Request, RecordRefusal(r)
      PROVE  PoisonedIffUnresponsive'
  BY <1>0, <1>2 DEF RecordRefusal
<1>3. ASSUME NEW r \in Request, JoinQueue(r)
      PROVE  PoisonedIffUnresponsive'
  BY <1>0, <1>3 DEF JoinQueue
<1>4. ASSUME NEW r \in Request, Acquire(r)
      PROVE  PoisonedIffUnresponsive'
  BY <1>0, <1>4 DEF Acquire
<1>5. ASSUME NEW r \in Request, QueueTimeout(r)
      PROVE  PoisonedIffUnresponsive'
  BY <1>0, <1>5 DEF QueueTimeout
<1>6. ASSUME NEW r \in Request, LeaveQueue(r)
      PROVE  PoisonedIffUnresponsive'
  BY <1>0, <1>6 DEF LeaveQueue
<1>7. ASSUME NEW r \in Request, RecordQueueTimeout(r)
      PROVE  PoisonedIffUnresponsive'
  BY <1>0, <1>7 DEF RecordQueueTimeout
<1>8. ASSUME NEW r \in Request, RaiseQueueTimeout(r)
      PROVE  PoisonedIffUnresponsive'
  BY <1>0, <1>8 DEF RaiseQueueTimeout
<1>9. ASSUME NEW r \in Request, SetActive(r)
      PROVE  PoisonedIffUnresponsive'
  BY <1>0, <1>9 DEF SetActive
<1>10. ASSUME NEW r \in Request, StartWorker(r)
      PROVE  PoisonedIffUnresponsive'
  BY <1>0, <1>10 DEF StartWorker
<1>11. ASSUME NEW r \in Request, StartWorkerFails(r)
      PROVE  PoisonedIffUnresponsive'
  BY <1>0, <1>11 DEF StartWorkerFails
<1>12. ASSUME NEW r \in Request, ObserveCompletion(r)
      PROVE  PoisonedIffUnresponsive'
  BY <1>0, <1>12 DEF ObserveCompletion
<1>13. ASSUME NEW r \in Request, WatchdogExpires(r)
      PROVE  PoisonedIffUnresponsive'
  BY <1>0, <1>13 DEF WatchdogExpires
<1>14. ASSUME NEW r \in Request, RecordUnresponsive(r)
      PROVE  PoisonedIffUnresponsive'
  BY <1>0, <1>14 DEF RecordUnresponsive
<1>15. ASSUME NEW r \in Request, Poison(r)
      PROVE  PoisonedIffUnresponsive'
  BY <1>0, <1>15 DEF Poison
<1>16. ASSUME NEW r \in Request, ClearActive(r)
      PROVE  PoisonedIffUnresponsive'
  BY <1>0, <1>16 DEF ClearActive
<1>17. ASSUME NEW r \in Request, Release(r)
      PROVE  PoisonedIffUnresponsive'
  BY <1>0, <1>17 DEF Release
<1>18. ASSUME NEW r \in Request, ReturnResult(r)
      PROVE  PoisonedIffUnresponsive'
  BY <1>0, <1>18 DEF ReturnResult
<1>19. ASSUME NEW r \in Request, RecordBackendFailure(r)
      PROVE  PoisonedIffUnresponsive'
  BY <1>0, <1>19 DEF RecordBackendFailure
<1>20. ASSUME NEW r \in Request, RaiseBackendFailure(r)
      PROVE  PoisonedIffUnresponsive'
  BY <1>0, <1>20 DEF RaiseBackendFailure
<1>21. ASSUME NEW r \in Request, BackendStep(r)
      PROVE  PoisonedIffUnresponsive'
  BY <1>0, <1>21 DEF BackendStep, BackendEnds
<1>22. ASSUME ClearLog
      PROVE  PoisonedIffUnresponsive'
  BY <1>0, <1>22 DEF ClearLog
<1>23. ASSUME Recycle
      PROVE  PoisonedIffUnresponsive'
  BY <1>0, <1>23 DEF Recycle
<1>24. CASE UNCHANGED vars
  BY <1>0, <1>24 DEF vars
<1>25. QED
  BY <1>1, <1>2, <1>3, <1>4, <1>5, <1>6, <1>7, <1>8, <1>9, <1>10, <1>11, <1>12,
     <1>13, <1>14, <1>15, <1>16, <1>17, <1>18, <1>19, <1>20, <1>21, <1>22, <1>23, <1>24
     DEF Next, CallerStep

(* The active id belongs to a call between _set_active and its clearing.    *)
LEMMA ActiveStep ==
  ASSUME IInv, [Next]_vars
  PROVE  ActiveFitsCaller'
<1> USE DEF Goto, ActiveFitsCaller, MayBeActive, MayRun, Retaining, stateFields
<1>0. /\ ActiveFitsCaller /\ NoRequest \notin Request
      /\ pc \in [Request -> {"idle"} \cup InFlight \cup Ended]
  BY CoordinatorAssumption DEF IInv, TypeOK
<1>1. ASSUME NEW r \in Request, Gate(r)
      PROVE  ActiveFitsCaller'
  BY <1>0, <1>1 DEF Gate
<1>2. ASSUME NEW r \in Request, RecordRefusal(r)
      PROVE  ActiveFitsCaller'
  BY <1>0, <1>2 DEF RecordRefusal
<1>3. ASSUME NEW r \in Request, JoinQueue(r)
      PROVE  ActiveFitsCaller'
  BY <1>0, <1>3 DEF JoinQueue
<1>4. ASSUME NEW r \in Request, Acquire(r)
      PROVE  ActiveFitsCaller'
  BY <1>0, <1>4 DEF Acquire
<1>5. ASSUME NEW r \in Request, QueueTimeout(r)
      PROVE  ActiveFitsCaller'
  BY <1>0, <1>5 DEF QueueTimeout
<1>6. ASSUME NEW r \in Request, LeaveQueue(r)
      PROVE  ActiveFitsCaller'
  BY <1>0, <1>6 DEF LeaveQueue
<1>7. ASSUME NEW r \in Request, RecordQueueTimeout(r)
      PROVE  ActiveFitsCaller'
  BY <1>0, <1>7 DEF RecordQueueTimeout
<1>8. ASSUME NEW r \in Request, RaiseQueueTimeout(r)
      PROVE  ActiveFitsCaller'
  BY <1>0, <1>8 DEF RaiseQueueTimeout
<1>9. ASSUME NEW r \in Request, SetActive(r)
      PROVE  ActiveFitsCaller'
  BY <1>0, <1>9 DEF SetActive
<1>10. ASSUME NEW r \in Request, StartWorker(r)
      PROVE  ActiveFitsCaller'
  BY <1>0, <1>10 DEF StartWorker
<1>11. ASSUME NEW r \in Request, StartWorkerFails(r)
      PROVE  ActiveFitsCaller'
  BY <1>0, <1>11 DEF StartWorkerFails
<1>12. ASSUME NEW r \in Request, ObserveCompletion(r)
      PROVE  ActiveFitsCaller'
  BY <1>0, <1>12 DEF ObserveCompletion
<1>13. ASSUME NEW r \in Request, WatchdogExpires(r)
      PROVE  ActiveFitsCaller'
  BY <1>0, <1>13 DEF WatchdogExpires
<1>14. ASSUME NEW r \in Request, RecordUnresponsive(r)
      PROVE  ActiveFitsCaller'
  BY <1>0, <1>14 DEF RecordUnresponsive
<1>15. ASSUME NEW r \in Request, Poison(r)
      PROVE  ActiveFitsCaller'
  BY <1>0, <1>15 DEF Poison
<1>16. ASSUME NEW r \in Request, ClearActive(r)
      PROVE  ActiveFitsCaller'
  BY <1>0, <1>16 DEF ClearActive
<1>17. ASSUME NEW r \in Request, Release(r)
      PROVE  ActiveFitsCaller'
  BY <1>0, <1>17 DEF Release
<1>18. ASSUME NEW r \in Request, ReturnResult(r)
      PROVE  ActiveFitsCaller'
  BY <1>0, <1>18 DEF ReturnResult
<1>19. ASSUME NEW r \in Request, RecordBackendFailure(r)
      PROVE  ActiveFitsCaller'
  BY <1>0, <1>19 DEF RecordBackendFailure
<1>20. ASSUME NEW r \in Request, RaiseBackendFailure(r)
      PROVE  ActiveFitsCaller'
  BY <1>0, <1>20 DEF RaiseBackendFailure
<1>21. ASSUME NEW r \in Request, BackendStep(r)
      PROVE  ActiveFitsCaller'
  BY <1>0, <1>21 DEF BackendStep, BackendEnds
<1>22. ASSUME ClearLog
      PROVE  ActiveFitsCaller'
  BY <1>0, <1>22 DEF ClearLog
<1>23. ASSUME Recycle
      PROVE  ActiveFitsCaller'
  BY <1>0, <1>23 DEF Recycle
<1>24. CASE UNCHANGED vars
  BY <1>0, <1>24 DEF vars
<1>25. QED
  BY <1>1, <1>2, <1>3, <1>4, <1>5, <1>6, <1>7, <1>8, <1>9, <1>10, <1>11, <1>12,
     <1>13, <1>14, <1>15, <1>16, <1>17, <1>18, <1>19, <1>20, <1>21, <1>22, <1>23, <1>24
     DEF Next, CallerStep

--------------------------------------------------------------------------------
(* The inductive invariant holds initially and is preserved.                *)
LEMMA InductiveInvariant == Spec => []IInv
<1>1. Init => IInv
  <2> SUFFICES ASSUME Init
               PROVE  IInv
    OBVIOUS
  <2>1. Holders = {} /\ Running = {} /\ {r \in Request : pc[r] \in InQueue} = {}
    BY DEF Init, Holders, Running, InQueue, Owning, Retaining
  <2>2. /\ IsFiniteSet(Holders) /\ Cardinality(Holders) = 0
        /\ IsFiniteSet({r \in Request : pc[r] \in InQueue})
        /\ Cardinality({r \in Request : pc[r] \in InQueue}) = 0
    BY <2>1, FS_EmptySet
  <2>3. PermitAccounting /\ QueueIsFinite /\ QueueDepthExact
    <3>1. permits = Capacity /\ queueWaiters = 0 /\ Capacity \in Nat
      BY CoordinatorAssumption DEF Init
    <3>2. QED
      BY <2>2, <3>1 DEF PermitAccounting, QueueIsFinite, QueueDepthExact
  <2>4. requestLog \in Seq(LogEntry) /\ Len(requestLog) <= MaxHistory
    BY EmptyLogType DEF Init
  <2>5. TypeOK
    <3>1. Capacity \in 0..Capacity /\ 0 \in Nat
      BY CoordinatorAssumption
    <3>2. QED
      BY <2>4, <3>1 DEF Init, TypeOK, Categories
  <2>6. WorkerFitsCaller /\ PoisonedIffUnresponsive /\ ActiveFitsCaller
    BY <2>1, CoordinatorAssumption
       DEF Init, WorkerFitsCaller, PoisonedIffUnresponsive, ActiveFitsCaller
  <2>7. QED
    BY <2>3, <2>5, <2>6 DEF IInv
<1>2. IInv /\ [Next]_vars => IInv'
  <2> SUFFICES ASSUME IInv, [Next]_vars
               PROVE  IInv'
    OBVIOUS
  <2>1. TypeOK'
    BY AccountingStep, QueueStep, TypeStep DEF TypeOK, OtherTypes
  <2>2. QED
    BY <2>1, AccountingStep, QueueStep, WorkerStep, PoisonStep, ActiveStep
       DEF IInv
<1>3. QED
  BY <1>1, <1>2, PTL DEF Spec

(* Every variable keeps its type: in particular the semaphore is never      *)
(* released above its capacity (BoundedSemaphore would raise ValueError     *)
(* inside _clear_active_and_release) and the log stays within maxlen.       *)
THEOREM TypeCorrect == Spec => []TypeOK
<1>1. IInv => TypeOK
  BY DEF IInv
<1>2. QED
  BY <1>1, InductiveInvariant, PTL

(* Free permits and permits held by calls always add up to the capacity:    *)
(* run() loses none, except to an unresponsive backend or a worker thread   *)
(* that could not be started.                                               *)
THEOREM PermitsAreConserved == Spec => []PermitAccounting
<1>1. IInv => PermitAccounting
  BY DEF IInv
<1>2. QED
  BY <1>1, InductiveInvariant, PTL

(* At most Capacity backend executions use the pipeline at a time, those    *)
(* the watchdog has given up included.                                      *)
THEOREM PipelineIsProtected == Spec => []BackendExclusion
<1>1. IInv => BackendExclusion
  <2> SUFFICES ASSUME IInv
               PROVE  BackendExclusion
    OBVIOUS
  <2>1. Running \subseteq Holders
    BY DEF IInv, WorkerFitsCaller, MayRun, Running, Holders, Owning, Retaining
  <2>2. /\ IsFiniteSet(Holders) /\ permits + Cardinality(Holders) = Capacity
        /\ permits \in 0..Capacity
    BY DEF IInv, PermitAccounting, TypeOK
  <2>3. IsFiniteSet(Running) /\ Cardinality(Running) <= Cardinality(Holders)
    BY <2>1, <2>2, FS_Subset
  <2>4. Cardinality(Running) \in Nat /\ Cardinality(Holders) \in Nat
    BY <2>2, <2>3, FS_CardinalityType
  <2>5. QED
    BY <2>2, <2>3, <2>4, CoordinatorAssumption DEF BackendExclusion
<1>2. QED
  BY <1>1, InductiveInvariant, PTL

(* The coordinator is poisoned exactly while a call of this process has     *)
(* ended unresponsive.                                                      *)
THEOREM PoisonIsExact == Spec => []PoisonedIffUnresponsive
<1>1. IInv => PoisonedIffUnresponsive
  BY DEF IInv
<1>2. QED
  BY <1>1, InductiveInvariant, PTL

(* The active request id never outlives the permit of its call.             *)
THEOREM ActiveIdIsCurrent == Spec => []ActiveOwnsPermit
<1>1. IInv => ActiveOwnsPermit
  BY DEF IInv, TypeOK, ActiveFitsCaller, ActiveOwnsPermit, MayBeActive, MayRun,
         Holders, Owning, Retaining
<1>2. QED
  BY <1>1, InductiveInvariant, PTL

(* The queue counter equals the number of callers in the wait.              *)
THEOREM QueueDepthIsExact == Spec => []QueueDepthExact
<1>1. IInv => QueueDepthExact
  BY DEF IInv
<1>2. QED
  BY <1>1, InductiveInvariant, PTL

--------------------------------------------------------------------------------
(* The request log.                                                         *)

(* Where a caller stands once its entry has been written.                   *)
Recorded == {"refused", "gave_up", "timed_out", "poisoning", "unresponsive",
             "returned", "failing", "raised"}

(* A move that neither writes an entry nor contradicts the one there is.    *)
Quiet(from, to) ==
  \/ from = to
  \/ from \notin Recorded /\ to \notin Recorded
  \/ <<from, to>> \in {<<"gave_up", "timed_out">>, <<"poisoning", "unresponsive">>,
                       <<"failing", "raised">>}

(* What a step does to the log and to the callers the log speaks of.        *)
LEMMA LogEffect ==
  ASSUME TypeOK, [Next]_vars
  PROVE  \/ Recycle \/ ClearLog
         \/ /\ requestLog' = requestLog
            /\ \A q \in Request : Quiet(pc[q], pc'[q])
         \/ \E r \in Request, code \in ErrorCodes :
              /\ Record(r, code)
              /\ pc[r] \notin Recorded /\ pc'[r] \in FatesOf(code)
              /\ \A q \in Request \ {r} : pc'[q] = pc[q]
<1> DEFINE Silent == /\ requestLog' = requestLog
                     /\ \A q \in Request : Quiet(pc[q], pc'[q])
           Written == \E r \in Request, code \in ErrorCodes :
                        /\ Record(r, code)
                        /\ pc[r] \notin Recorded /\ pc'[r] \in FatesOf(code)
                        /\ \A q \in Request \ {r} : pc'[q] = pc[q]
<1>0. pc \in [Request -> Places]
  BY DEF TypeOK, Places
<1>1. ASSUME NEW r \in Request,
             \/ Gate(r) \/ JoinQueue(r) \/ Acquire(r) \/ QueueTimeout(r)
             \/ LeaveQueue(r) \/ RaiseQueueTimeout(r) \/ SetActive(r)
      PROVE  Silent
  BY <1>0, <1>1 DEF Gate, JoinQueue, Acquire, QueueTimeout, LeaveQueue,
     RaiseQueueTimeout, SetActive, Goto, Quiet, Recorded
<1>2. ASSUME NEW r \in Request,
             \/ StartWorker(r) \/ StartWorkerFails(r) \/ ObserveCompletion(r)
             \/ WatchdogExpires(r) \/ Poison(r) \/ ClearActive(r) \/ Release(r)
             \/ RaiseBackendFailure(r)
      PROVE  Silent
  BY <1>0, <1>2 DEF StartWorker, StartWorkerFails, ObserveCompletion,
     WatchdogExpires, Poison, ClearActive, Release, RaiseBackendFailure, Goto,
     Quiet, Recorded
<1>3. ASSUME NEW r \in Request, BackendStep(r)
      PROVE  Silent
  BY <1>3 DEF BackendStep, BackendEnds, Quiet
<1>4. ASSUME UNCHANGED vars
      PROVE  Silent
  BY <1>4 DEF vars, Quiet
<1>5. ASSUME NEW r \in Request, NEW code \in ErrorCodes, NEW from, NEW to,
             Goto(r, from, to), Record(r, code),
             from \notin Recorded, to \in FatesOf(code)
      PROVE  Written
  BY <1>0, <1>5 DEF Goto
<1> USE DEF ErrorCodes, Recorded, FatesOf
<1>6. ASSUME NEW r \in Request, RecordRefusal(r)
      PROVE  Written
  BY <1>5, <1>6 DEF RecordRefusal
<1>7. ASSUME NEW r \in Request, RecordQueueTimeout(r)
      PROVE  Written
  BY <1>5, <1>7 DEF RecordQueueTimeout
<1>8. ASSUME NEW r \in Request, RecordUnresponsive(r)
      PROVE  Written
  BY <1>5, <1>8 DEF RecordUnresponsive
<1>9. ASSUME NEW r \in Request, ReturnResult(r)
      PROVE  Written
  BY <1>5, <1>9 DEF ReturnResult
<1>10. ASSUME NEW r \in Request, RecordBackendFailure(r)
      PROVE  Written
  BY <1>5, <1>10 DEF RecordBackendFailure
<1> HIDE DEF Silent, Written
<1>11. Silent \/ Written \/ Recycle \/ ClearLog
  BY <1>1, <1>2, <1>3, <1>4, <1>6, <1>7, <1>8, <1>9, <1>10 DEF Next, CallerStep
<1>12. QED
  BY <1>11 DEF Silent, Written

(* The entries after an append: the new one at the end, before it the old   *)
(* ones in order, all of them or all but the oldest.                        *)
LEMMA RecordEntries ==
  ASSUME TypeOK, NEW r \in Request, NEW code \in ErrorCodes, Record(r, code)
  PROVE  \E dropped \in {0, 1}, n \in Nat :
           /\ Len(requestLog) = n + dropped
           /\ dropped = 0 <=> Len(requestLog) < MaxHistory
           /\ DOMAIN requestLog' = 1 .. (n + 1)
           /\ requestLog'[n + 1] = [request_id |-> r, error_code |-> code]
           /\ \A i \in 1 .. n : /\ i + dropped \in DOMAIN requestLog
                                /\ requestLog'[i] = requestLog[i + dropped]
<1> DEFINE e == [request_id |-> r, error_code |-> code]
<1>1. e \in LogEntry /\ requestLog \in Seq(LogEntry) /\ MaxHistory \in Nat \ {0}
      /\ Len(requestLog) \in Nat /\ DOMAIN requestLog = 1 .. Len(requestLog)
  BY CoordinatorAssumption DEF TypeOK, LogEntry
<1> HIDE DEF e
<1> DEFINE After(dropped, n) ==
             /\ Len(requestLog) = n + dropped
             /\ dropped = 0 <=> Len(requestLog) < MaxHistory
             /\ DOMAIN requestLog' = 1 .. (n + 1)
             /\ requestLog'[n + 1] = e
             /\ \A i \in 1 .. n : /\ i + dropped \in DOMAIN requestLog
                                  /\ requestLog'[i] = requestLog[i + dropped]
<1>2. ASSUME NEW kept \in Seq(LogEntry)
      PROVE  /\ DOMAIN Append(kept, e) = 1 .. (Len(kept) + 1)
             /\ Append(kept, e)[Len(kept) + 1] = e
             /\ \A i \in 1 .. Len(kept) : Append(kept, e)[i] = kept[i]
  BY <1>1
<1>3. CASE Len(requestLog) < MaxHistory
  <2>1. requestLog' = Append(requestLog, e)
    BY <1>3 DEF Record, e
  <2>2. After(0, Len(requestLog))
    BY <1>1, <1>2, <1>3, <2>1
  <2>3. QED
    BY <1>1, <2>2 DEF e
<1>4. CASE ~(Len(requestLog) < MaxHistory)
  <2> DEFINE kept == Tail(requestLog)
  <2>1. requestLog' = Append(kept, e)
    BY <1>4 DEF Record, e
  <2>2. requestLog # <<>>
    BY <1>1, <1>4
  <2>3. /\ kept \in Seq(LogEntry) /\ Len(kept) = Len(requestLog) - 1 /\ Len(kept) \in Nat
        /\ \A i \in 1 .. Len(kept) : kept[i] = requestLog[i + 1]
    BY <1>1, <2>2
  <2> HIDE DEF kept
  <2>4. After(1, Len(kept))
    <3>1. Len(requestLog) = Len(kept) + 1
      BY <1>1, <2>3
    <3>2. /\ DOMAIN requestLog' = 1 .. (Len(kept) + 1)
          /\ requestLog'[Len(kept) + 1] = e
          /\ \A i \in 1 .. Len(kept) : requestLog'[i] = kept[i]
      BY <1>2, <2>1, <2>3
    <3>3. \A i \in 1 .. Len(kept) : i + 1 \in DOMAIN requestLog
      BY <1>1, <2>3, <3>1
    <3>4. QED
      BY <1>4, <2>3, <3>1, <3>2, <3>3
  <2>5. QED
    BY <2>3, <2>4 DEF e
<1>5. QED
  BY <1>3, <1>4

(* An entry only speaks of a caller that has been recorded, and of what it  *)
(* came to also after a quiet move.                                         *)
LEMMA FatesAreRecorded ==
  ASSUME NEW code \in ErrorCodes
  PROVE  /\ FatesOf(code) \subseteq Recorded
         /\ \A from, to : from \in FatesOf(code) /\ Quiet(from, to) =>
                            to \in FatesOf(code)
<1>1. FatesOf(code) \subseteq Recorded
  BY DEF ErrorCodes, FatesOf, Recorded
<1>2. ASSUME NEW from, NEW to, from \in FatesOf(code), Quiet(from, to)
      PROVE  to \in FatesOf(code)
  BY <1>1, <1>2 DEF ErrorCodes, FatesOf, Quiet
<1>3. QED
  BY <1>1, <1>2

(* Entries stay true: the call they name moves only within their fates, and *)
(* a call that gets an entry has none yet.                                  *)
LEMMA TruthStep ==
  ASSUME TypeOK, LogIsTruthful, [Next]_vars
  PROVE  LogIsTruthful'
<1> DEFINE Id(i) == requestLog[i].request_id
           Code(i) == requestLog[i].error_code
<1>0. /\ requestLog \in Seq(LogEntry) /\ pc \in [Request -> Places]
      /\ \A i \in DOMAIN requestLog : Id(i) \in Request /\ Code(i) \in ErrorCodes
  <2>1. requestLog \in Seq(LogEntry) /\ pc \in [Request -> Places]
    BY DEF TypeOK, Places
  <2>2. \A i \in DOMAIN requestLog : requestLog[i] \in LogEntry
    BY <2>1
  <2>3. QED
    BY <2>1, <2>2 DEF LogEntry
<1>1. /\ \A i \in DOMAIN requestLog : pc[Id(i)] \in FatesOf(Code(i))
      /\ \A i, j \in DOMAIN requestLog : Id(i) = Id(j) => i = j
  BY DEF LogIsTruthful
<1>2. CASE Recycle \/ ClearLog
  <2>1. requestLog' = <<>>
    BY <1>2 DEF Recycle, ClearLog
  <2>2. QED
    BY <2>1 DEF LogIsTruthful
<1>3. CASE requestLog' = requestLog /\ \A q \in Request : Quiet(pc[q], pc'[q])
  <2>1. \A i \in DOMAIN requestLog : pc'[Id(i)] \in FatesOf(Code(i))
    BY <1>0, <1>1, <1>3, FatesAreRecorded
  <2>2. /\ \A i \in DOMAIN requestLog' :
             pc'[requestLog'[i].request_id] \in FatesOf(requestLog'[i].error_code)
        /\ \A i, j \in DOMAIN requestLog' :
             requestLog'[i].request_id = requestLog'[j].request_id => i = j
    BY <1>1, <1>3, <2>1
  <2>3. QED
    BY <2>2 DEF LogIsTruthful, FatesOf
<1>4. ASSUME NEW r \in Request, NEW code \in ErrorCodes, Record(r, code),
             pc[r] \notin Recorded, pc'[r] \in FatesOf(code),
             \A q \in Request \ {r} : pc'[q] = pc[q]
      PROVE  LogIsTruthful'
  <2>1. PICK dropped \in {0, 1}, n \in Nat :
          /\ DOMAIN requestLog' = 1 .. (n + 1)
          /\ requestLog'[n + 1] = [request_id |-> r, error_code |-> code]
          /\ \A i \in 1 .. n : /\ i + dropped \in DOMAIN requestLog
                               /\ requestLog'[i] = requestLog[i + dropped]
    BY <1>4, RecordEntries
  <2>2. \A i \in DOMAIN requestLog : Id(i) # r /\ pc'[Id(i)] = pc[Id(i)]
    BY <1>0, <1>1, <1>4, FatesAreRecorded
  <2>3. \A i \in 1 .. n : /\ requestLog'[i].request_id # r
                          /\ pc'[requestLog'[i].request_id]
                               \in FatesOf(requestLog'[i].error_code)
    BY <1>1, <2>1, <2>2
  <2>4. \A i, j \in 1 .. n :
          requestLog'[i].request_id = requestLog'[j].request_id => i = j
    <3>1. SUFFICES ASSUME NEW i \in 1 .. n, NEW j \in 1 .. n,
                          requestLog'[i].request_id = requestLog'[j].request_id
                   PROVE  i = j
      OBVIOUS
    <3>2. i + dropped = j + dropped
      BY <1>1, <2>1, <3>1
    <3>3. QED
      BY <3>2
  <2>5. requestLog'[n + 1].request_id = r /\ requestLog'[n + 1].error_code = code
    BY <2>1
  <2>6. \A i \in DOMAIN requestLog' : i = n + 1 \/ i \in 1 .. n
    BY <2>1
  <2>7. /\ \A i \in DOMAIN requestLog' :
             pc'[requestLog'[i].request_id] \in FatesOf(requestLog'[i].error_code)
        /\ \A i, j \in DOMAIN requestLog' :
             requestLog'[i].request_id = requestLog'[j].request_id => i = j
    BY <1>4, <2>3, <2>4, <2>5, <2>6
  <2>8. QED
    BY <2>7 DEF LogIsTruthful, FatesOf
<1>5. QED
  BY <1>2, <1>3, <1>4, LogEffect

(* What the diagnostics page reads in the log is what the callers were told,*)
(* once per call, whatever was evicted, cleared or appended meanwhile.      *)
THEOREM LogTellsTheTruth == Spec => []LogIsTruthful
<1>1. Init => LogIsTruthful
  <2>1. Init => requestLog = <<>>
    BY DEF Init
  <2>2. requestLog = <<>> => LogIsTruthful
    BY DEF LogIsTruthful
  <2>3. QED
    BY <2>1, <2>2
<1>2. TypeOK /\ LogIsTruthful /\ [Next]_vars => LogIsTruthful'
  BY TruthStep
<1>3. QED
  BY <1>1, <1>2, TypeCorrect, PTL DEF Spec

(* The callers with an entry, when the log never drops one.                 *)
RecordedCallers == {r \in Request : pc[r] \in Recorded}

LogIsComplete ==
  /\ Len(requestLog) = Cardinality(RecordedCallers)
  /\ \A r \in RecordedCallers :
       \E i \in DOMAIN requestLog : requestLog[i].request_id = r

(* A log that holds every call loses none of them: there is room for the    *)
(* next entry because its caller has none yet.                              *)
LEMMA CompleteStep ==
  ASSUME IsFiniteSet(Request), Cardinality(Request) <= MaxHistory, ~LogMayBeCleared,
         TypeOK, LogIsComplete, [Next]_vars
  PROVE  LogIsComplete'
<1>0. /\ requestLog \in Seq(LogEntry) /\ pc \in [Request -> Places]
      /\ Len(requestLog) \in Nat /\ MaxHistory \in Nat
      /\ DOMAIN requestLog = 1 .. Len(requestLog)
  BY CoordinatorAssumption DEF TypeOK, Places
<1>1. /\ IsFiniteSet(RecordedCallers) /\ Cardinality(RecordedCallers) \in Nat
      /\ Cardinality(RecordedCallers) <= Cardinality(Request)
      /\ Cardinality(Request) \in Nat
  BY FS_Subset, FS_CardinalityType DEF RecordedCallers
<1>2. CASE Recycle
  <2>1. RecordedCallers' = {} /\ requestLog' = <<>>
    BY <1>2 DEF Recycle, RecordedCallers, Recorded
  <2>2. QED
    BY <2>1, FS_EmptySet DEF LogIsComplete
<1>3. CASE requestLog' = requestLog /\ \A q \in Request : Quiet(pc[q], pc'[q])
  <2>1. RecordedCallers' = RecordedCallers
    BY <1>3 DEF RecordedCallers, Quiet, Recorded
  <2>2. QED
    BY <1>3, <2>1 DEF LogIsComplete
<1>4. ASSUME NEW r \in Request, NEW code \in ErrorCodes, Record(r, code),
             pc[r] \notin Recorded, pc'[r] \in FatesOf(code),
             \A q \in Request \ {r} : pc'[q] = pc[q]
      PROVE  LogIsComplete'
  <2>1. RecordedCallers' = RecordedCallers \cup {r} /\ r \notin RecordedCallers
    <3>1. pc'[r] \in Recorded
      BY <1>4, FatesAreRecorded
    <3>2. RecordedCallers' = {q \in Request : pc'[q] \in Recorded}
      BY DEF RecordedCallers, Recorded
    <3>3. QED
      BY <1>4, <3>1, <3>2 DEF RecordedCallers
  <2>2. /\ IsFiniteSet(RecordedCallers')
        /\ Cardinality(RecordedCallers') = Cardinality(RecordedCallers) + 1
    BY <1>1, <2>1, FS_AddElement
  <2>3. Cardinality(RecordedCallers') <= Cardinality(Request)
    <3>1. RecordedCallers' \subseteq Request
      BY DEF RecordedCallers
    <3>2. QED
      BY <3>1, FS_Subset
  <2>4. Len(requestLog) < MaxHistory
    BY <1>0, <1>1, <2>2, <2>3 DEF LogIsComplete
  <2>5. PICK dropped \in {0, 1}, n \in Nat :
          /\ Len(requestLog) = n + dropped
          /\ dropped = 0 <=> Len(requestLog) < MaxHistory
          /\ DOMAIN requestLog' = 1 .. (n + 1)
          /\ requestLog'[n + 1] = [request_id |-> r, error_code |-> code]
          /\ \A i \in 1 .. n : /\ i + dropped \in DOMAIN requestLog
                               /\ requestLog'[i] = requestLog[i + dropped]
    BY <1>4, RecordEntries
  <2>6. /\ n = Len(requestLog) /\ DOMAIN requestLog' = 1 .. (n + 1)
        /\ requestLog'[n + 1].request_id = r
        /\ \A i \in 1 .. n : requestLog'[i] = requestLog[i]
    BY <2>4, <2>5
  <2>7. Len(requestLog') = n + 1
    <3>1. requestLog' \in Seq(LogEntry)
      BY <1>4, RecordType
    <3>2. Len(requestLog') \in Nat /\ DOMAIN requestLog' = 1 .. Len(requestLog')
      BY <3>1
    <3>3. QED
      BY <2>6, <3>2
  <2>8. \A q \in RecordedCallers' :
          \E i \in DOMAIN requestLog' : requestLog'[i].request_id = q
    <3>1. SUFFICES ASSUME NEW q \in RecordedCallers'
                   PROVE  \E i \in DOMAIN requestLog' : requestLog'[i].request_id = q
      OBVIOUS
    <3>2. CASE q = r
      BY <2>6, <3>2
    <3>3. CASE q # r
      <4>1. PICK i \in DOMAIN requestLog : requestLog[i].request_id = q
        BY <2>1, <3>3 DEF LogIsComplete
      <4>2. i \in 1 .. n /\ i \in DOMAIN requestLog'
        BY <1>0, <2>6, <4>1
      <4>3. QED
        BY <2>6, <4>1, <4>2
    <3>4. QED
      BY <3>2, <3>3
  <2>9. QED
    BY <2>2, <2>6, <2>7, <2>8 DEF LogIsComplete
<1>5. ~ClearLog
  BY DEF ClearLog
<1>6. QED
  BY <1>2, <1>3, <1>4, <1>5, LogEffect

(* Whoever has an answer finds its record, as the Forecast page does after  *)
(* a queue timeout, as long as the log has room for every call of the       *)
(* process and nobody clears it.                                            *)
THEOREM EveryAnswerIsLogged ==
  ASSUME IsFiniteSet(Request), Cardinality(Request) <= MaxHistory, ~LogMayBeCleared
  PROVE  Spec => []AnsweredIsLogged
<1>1. Init => LogIsComplete
  <2> SUFFICES ASSUME Init
               PROVE  LogIsComplete
    OBVIOUS
  <2>1. RecordedCallers = {} /\ requestLog = <<>>
    BY DEF Init, RecordedCallers, Recorded
  <2>2. QED
    BY <2>1, FS_EmptySet DEF LogIsComplete
<1>2. TypeOK /\ LogIsComplete /\ [Next]_vars => LogIsComplete'
  BY CompleteStep
<1>3. LogIsComplete => AnsweredIsLogged
  BY DEF LogIsComplete, AnsweredIsLogged, RecordedCallers, Recorded, Ended
<1>4. QED
  BY <1>1, <1>2, <1>3, TypeCorrect, PTL DEF Spec

--------------------------------------------------------------------------------
(* One permit, as the app configures it.                                    *)

LEMMA OneHolder ==
  ASSUME Capacity = 1, TypeOK, PermitAccounting
  PROVE  \A r, s \in Holders : r = s
<1>1. /\ IsFiniteSet(Holders) /\ Cardinality(Holders) \in Nat /\ permits \in Nat
      /\ permits + Cardinality(Holders) = 1
  BY FS_CardinalityType DEF PermitAccounting, TypeOK
<1>2. SUFFICES ASSUME NEW r \in Holders, NEW s \in Holders, r # s
               PROVE  FALSE
  OBVIOUS
<1>3. /\ IsFiniteSet(Holders \ {r})
      /\ Cardinality(Holders \ {r}) = Cardinality(Holders) - 1
  BY <1>1, FS_RemoveElement
<1>4. Cardinality(Holders \ {r}) \in Nat
  BY <1>3, FS_CardinalityType
<1>5. Cardinality(Holders \ {r}) = 0
  BY <1>1, <1>3, <1>4
<1>6. Holders \ {r} = {}
  BY <1>3, <1>5, FS_EmptySet
<1>7. QED
  BY <1>2, <1>6

(* "No second inference can ever enter a still-running shared backend": the *)
(* call that ended unresponsive holds the only permit, so neither a caller  *)
(* that is let past the gate later nor one that was in the queue already    *)
(* gets to start a backend call.                                            *)
THEOREM NoSecondEntry ==
  ASSUME Capacity = 1
  PROVE  Spec => NoEntryWhilePoisoned
<1> DEFINE Entry(r) == worker'[r] = "running" /\ worker[r] # "running"
<1>1. ASSUME IInv, Next, NEW r \in Request, Entry(r)
      PROVE  health = "healthy"
  <2>1. TypeOK /\ PermitAccounting /\ PoisonedIffUnresponsive
        /\ worker \in [Request -> {"none", "running", "ok", "error"}]
        /\ health \in {"healthy", "poisoned"}
    BY <1>1 DEF IInv, TypeOK
  <2>2. PICK q \in Request : \/ Gate(q) \/ CallerStep(q) \/ BackendStep(q)
                             \/ ClearLog \/ Recycle
    BY <1>1 DEF Next
  <2>3. ~BackendStep(q)
    BY <1>1, <2>1 DEF BackendStep, BackendEnds
  <2>4. ~Gate(q) /\ ~ClearLog /\ ~Recycle
    BY <1>1 DEF Gate, ClearLog, Recycle
  <2>5. StartWorker(q)
    <3>1. CallerStep(q) => worker' = worker \/ StartWorker(q)
      BY DEF CallerStep, RecordRefusal, JoinQueue, Acquire, QueueTimeout, LeaveQueue,
         RecordQueueTimeout, RaiseQueueTimeout, SetActive, StartWorkerFails,
         ObserveCompletion, WatchdogExpires, RecordUnresponsive, Poison, ClearActive,
         Release, ReturnResult, RecordBackendFailure, RaiseBackendFailure
    <3>2. QED
      BY <1>1, <2>2, <2>3, <2>4, <3>1
  <2>6. pc[q] = "starting" /\ q \in Holders
    BY <2>5 DEF StartWorker, Goto, Holders, Owning
  <2>7. \A s \in Request : pc[s] # "unresponsive"
    <3>1. SUFFICES ASSUME NEW s \in Request, pc[s] = "unresponsive"
                   PROVE  FALSE
      OBVIOUS
    <3>2. s \in Holders
      BY <3>1 DEF Holders, Retaining
    <3>3. QED
      BY <2>1, <2>6, <3>1, <3>2, OneHolder
  <2>8. QED
    BY <2>1, <2>7 DEF PoisonedIffUnresponsive
<1>2. IInv /\ [Next]_vars =>
        [\A r \in Request : Entry(r) => health = "healthy"]_vars
  BY <1>1
<1>3. QED
  BY <1>2, InductiveInvariant, PTL DEF Spec, NoEntryWhilePoisoned

(* With one permit the active id is exactly that of the call between        *)
(* _set_active and its clearing.                                            *)
ActiveIsExact ==
  \A r \in Request : pc[r] \in MayBeActive => activeRequestId = r

LEMMA ExactStep ==
  ASSUME Capacity = 1, IInv, ActiveIsExact, [Next]_vars
  PROVE  ActiveIsExact'
<1> USE DEF ActiveIsExact, Goto, stateFields
<1>0. pc \in [Request -> Places] /\ TypeOK /\ PermitAccounting
  BY DEF IInv, TypeOK, Places
<1> USE DEF MayBeActive, MayRun, Retaining
<1>1. ASSUME NEW r \in Request,
             \/ Gate(r) \/ RecordRefusal(r) \/ JoinQueue(r) \/ Acquire(r)
             \/ QueueTimeout(r) \/ LeaveQueue(r) \/ RecordQueueTimeout(r)
             \/ RaiseQueueTimeout(r)
      PROVE  ActiveIsExact'
  BY <1>0, <1>1 DEF Gate, RecordRefusal, JoinQueue, Acquire, QueueTimeout,
     LeaveQueue, RecordQueueTimeout, RaiseQueueTimeout
<1>2. ASSUME NEW r \in Request,
             \/ StartWorker(r) \/ StartWorkerFails(r) \/ ObserveCompletion(r)
             \/ WatchdogExpires(r) \/ RecordUnresponsive(r) \/ Poison(r)
             \/ Release(r) \/ ReturnResult(r) \/ RecordBackendFailure(r)
             \/ RaiseBackendFailure(r)
      PROVE  ActiveIsExact'
  BY <1>0, <1>2 DEF StartWorker, StartWorkerFails, ObserveCompletion,
     WatchdogExpires, RecordUnresponsive, Poison, Release, ReturnResult,
     RecordBackendFailure, RaiseBackendFailure
<1>3. ASSUME NEW r \in Request, SetActive(r) \/ ClearActive(r)
      PROVE  ActiveIsExact'
  <2>1. r \in Holders
    BY <1>3 DEF SetActive, ClearActive, Holders, Owning
  <2>2. \A q \in Request \ {r} : q \notin Holders
    BY <1>0, <2>1, OneHolder
  <2>3. \A q \in Request \ {r} : pc'[q] = pc[q] /\ pc[q] \notin MayBeActive
    BY <1>0, <1>3, <2>2 DEF SetActive, ClearActive, Holders, Owning
  <2>4. activeRequestId' = r \/ pc'[r] = "releasing"
    BY <1>0, <1>3 DEF SetActive, ClearActive
  <2>5. QED
    BY <2>3, <2>4
<1>4. ASSUME NEW r \in Request, BackendStep(r)
      PROVE  ActiveIsExact'
  BY <1>4 DEF BackendStep, BackendEnds
<1>5. CASE ClearLog
  BY <1>5 DEF ClearLog
<1>6. CASE Recycle
  BY <1>6 DEF Recycle
<1>7. CASE UNCHANGED vars
  BY <1>7 DEF vars
<1>8. QED
  BY <1>1, <1>2, <1>3, <1>4, <1>5, <1>6, <1>7 DEF Next, CallerStep

(* While a backend call uses the pipeline the diagnostics page names an     *)
(* owner, for as long as a call the watchdog has given up goes on, too.     *)
THEOREM BusyShowsItsOwner ==
  ASSUME Capacity = 1
  PROVE  Spec => []BusyIsShown
<1>1. Init => ActiveIsExact
  BY DEF Init, ActiveIsExact, MayBeActive, MayRun, Retaining
<1>2. IInv /\ ActiveIsExact /\ [Next]_vars => ActiveIsExact'
  BY ExactStep
<1>3. IInv /\ ActiveIsExact => BusyIsShown
  BY CoordinatorAssumption
     DEF IInv, WorkerFitsCaller, ActiveIsExact, MayBeActive, BusyIsShown, Running
<1>4. QED
  BY <1>1, <1>2, <1>3, InductiveInvariant, PTL DEF Spec

--------------------------------------------------------------------------------
(* Coordinator implements InferenceGate, for every set of requests and      *)
(* every capacity.  What the step simulation needs of the reachable states  *)
(* is the inductive invariant above: the accounting of the permits bounds   *)
(* the calls inside, and the worker threads fit their callers.              *)

(* The state of the gate, as Gatekeeper reads it off the coordinator.       *)
Inside == {r \in Request : pc[r] \in Owning}
Kept   == {r \in Request : pc[r] \in Retaining}

(* The gate's state after a step that moves one caller.                     *)
LEMMA GateMoved ==
  ASSUME TypeOK, NEW r \in Request, NEW v, pc' = [pc EXCEPT ![r] = v]
  PROVE  /\ (v \in Owning <=> pc[r] \in Owning) => Inside' = Inside
         /\ v \in Owning /\ pc[r] \notin Owning =>
              Inside' = Inside \cup {r} /\ r \notin Inside
         /\ v \notin Owning /\ pc[r] \in Owning =>
              Inside' = Inside \ {r} /\ r \in Inside
         /\ (v \in Retaining <=> pc[r] \in Retaining) => Kept' = Kept
         /\ v \in Retaining /\ pc[r] \notin Retaining => Kept' = Kept \cup {r}
<1>1. pc \in [Request -> Places]
  BY DEF TypeOK, Places
<1>2. Inside' = {q \in Request : pc'[q] \in Owning}
      /\ Kept' = {q \in Request : pc'[q] \in Retaining}
  BY DEF Inside, Kept, Owning, Retaining
<1> HIDE DEF Owning, Retaining
<1>3. /\ (v \in Owning <=> pc[r] \in Owning) => Inside' = Inside
      /\ v \in Owning /\ pc[r] \notin Owning =>
           Inside' = Inside \cup {r} /\ r \notin Inside
      /\ v \notin Owning /\ pc[r] \in Owning =>
           Inside' = Inside \ {r} /\ r \in Inside
  BY <1>1, <1>2, Moved DEF Inside
<1>4. /\ (v \in Retaining <=> pc[r] \in Retaining) => Kept' = Kept
      /\ v \in Retaining /\ pc[r] \notin Retaining => Kept' = Kept \cup {r}
  BY <1>1, <1>2, Moved DEF Kept
<1>5. QED
  BY <1>3, <1>4

(* The gate counts as the coordinator does.                                 *)
LEMMA SameCardinality == \A S : Gatekeeper!Cardinality(S) = Cardinality(S)
  BY DEF Gatekeeper!Cardinality, Cardinality

(* Every step of the coordinator is a step of the gate or invisible to it.  *)
LEMMA GateStep ==
  ASSUME IInv, [Next]_vars
  PROVE  [Gatekeeper!Next]_(Gatekeeper!gateVars)
<1> DEFINE Hidden == /\ Inside' = Inside /\ Kept' = Kept
                     /\ Running' = Running /\ health' = health
           Simulated == [Gatekeeper!Next]_(Gatekeeper!gateVars)
<1>0. TypeOK /\ PermitAccounting /\ WorkerFitsCaller
  BY DEF IInv
<1>00. /\ health \in {"healthy", "poisoned"} /\ permits \in Nat /\ Capacity \in Nat
       /\ worker \in [Request -> {"none", "running", "ok", "error"}]
  BY <1>0, CoordinatorAssumption DEF TypeOK
<1>a. Hidden => Simulated
  BY DEF Gatekeeper!gateVars, Inside, Kept
<1> HIDE DEF Simulated
<1>b. Inside \cup Kept = Holders
  BY DEF Inside, Kept, Holders
<1>1. ASSUME NEW r \in Request,
             \/ Gate(r) \/ RecordRefusal(r) \/ JoinQueue(r) \/ QueueTimeout(r)
             \/ LeaveQueue(r) \/ RecordQueueTimeout(r) \/ RaiseQueueTimeout(r)
      PROVE  Simulated
  <2>1. PICK from \in {"idle", "refusing", "admitted", "queued", "acquired", "expired",
                       "giving_up", "gave_up"},
             to \in {"refusing", "admitted", "refused", "queued", "owning", "expired",
                     "giving_up", "gave_up", "timed_out"} :
          /\ Goto(r, from, to) /\ worker' = worker /\ health' = health
          /\ from \in Owning <=> to \in Owning
    BY <1>1 DEF Gate, RecordRefusal, JoinQueue, QueueTimeout, LeaveQueue,
                RecordQueueTimeout, RaiseQueueTimeout, Goto, Owning
  <2>2. Inside' = Inside /\ Kept' = Kept
    BY <1>0, <2>1, GateMoved DEF Goto, Retaining
  <2>3. QED
    BY <1>a, <2>1, <2>2 DEF Running
<1>2. ASSUME NEW r \in Request,
             \/ SetActive(r) \/ ObserveCompletion(r) \/ WatchdogExpires(r)
             \/ RecordUnresponsive(r) \/ ClearActive(r) \/ ReturnResult(r)
             \/ RecordBackendFailure(r) \/ RaiseBackendFailure(r)
      PROVE  Simulated
  <2>1. PICK from \in {"owning", "executing", "overrun", "completed", "released", "failing"},
             to \in {"starting", "completed", "overrun", "poisoning", "releasing",
                     "returned", "failing", "raised"} :
          /\ Goto(r, from, to) /\ worker' = worker /\ health' = health
          /\ from \in Owning <=> to \in Owning
    BY <1>2 DEF SetActive, ObserveCompletion, WatchdogExpires, RecordUnresponsive,
                ClearActive, ReturnResult, RecordBackendFailure, RaiseBackendFailure,
                Goto, Owning
  <2>2. Inside' = Inside /\ Kept' = Kept
    BY <1>0, <2>1, GateMoved DEF Goto, Retaining
  <2>3. QED
    BY <1>a, <2>1, <2>2 DEF Running
<1>3. ASSUME NEW r \in Request, Acquire(r)
      PROVE  Simulated
  <2>0. Running' = Running /\ health' = health /\ r \notin Kept
    BY <1>3 DEF Acquire, Goto, Retaining, Running, Kept
  <2>1. Inside' = Inside \cup {r} /\ Kept' = Kept /\ r \notin Inside
    BY <1>0, <1>3, GateMoved DEF Acquire, Goto, Owning, Retaining
  <2>2. r \notin Running
    BY <1>0, <1>3 DEF WorkerFitsCaller, MayRun, Acquire, Goto
  <2>3. Cardinality(Inside \cup Kept) < Capacity
    <3>1. /\ permits > 0 /\ permits + Cardinality(Holders) = Capacity
          /\ Cardinality(Holders) \in Nat
      BY <1>0, <1>3, FS_CardinalityType DEF PermitAccounting, Acquire
    <3>2. Cardinality(Inside \cup Kept) = Cardinality(Holders)
      BY <1>b
    <3>3. QED
      BY <1>00, <3>1, <3>2
  <2>4. Gatekeeper!Enter(r)
    BY <2>0, <2>1, <2>2, <2>3, SameCardinality DEF Gatekeeper!Enter, Inside, Kept
  <2>5. QED
    BY <2>4 DEF Simulated, Gatekeeper!Next
<1>4. ASSUME NEW r \in Request, StartWorker(r)
      PROVE  Simulated
  <2>0. Running' = Running \cup {r} /\ health' = health
    BY <1>00, <1>4 DEF StartWorker, Running
  <2>1. Inside' = Inside /\ Kept' = Kept /\ r \in Inside
    BY <1>0, <1>4, GateMoved DEF StartWorker, Goto, Owning, Retaining, Inside
  <2>2. r \notin Running
    BY <1>0, <1>4 DEF WorkerFitsCaller, MayRun, StartWorker, Goto
  <2>3. Gatekeeper!StartUsing(r)
    BY <2>0, <2>1, <2>2 DEF Gatekeeper!StartUsing, Inside, Kept
  <2>4. QED
    BY <2>3 DEF Simulated, Gatekeeper!Next
<1>5. ASSUME NEW r \in Request, BackendStep(r)
      PROVE  Simulated
  <2>1. /\ Inside' = Inside /\ Kept' = Kept /\ r \in Running /\ health' = health
        /\ Running' = Running \ {r}
    BY <1>00, <1>5 DEF BackendStep, BackendEnds, Running, Inside, Kept
  <2>2. Gatekeeper!StopUsing(r)
    BY <2>1 DEF Gatekeeper!StopUsing, Inside, Kept
  <2>3. QED
    BY <2>2 DEF Simulated, Gatekeeper!Next
<1>6. ASSUME NEW r \in Request, Release(r)
      PROVE  Simulated
  <2>0. Running' = Running /\ health' = health
    BY <1>6 DEF Release, Running
  <2>1. Inside' = Inside \ {r} /\ Kept' = Kept /\ r \in Inside
    <3>1. /\ pc' = [pc EXCEPT ![r] = "released"]
          /\ pc[r] \in Owning /\ "released" \notin Owning
          /\ pc[r] \notin Retaining /\ "released" \notin Retaining
      BY <1>6 DEF Release, Goto, Owning, Retaining
    <3>2. QED
      BY <1>0, <3>1, GateMoved
  <2>2. r \notin Running
    BY <1>0, <1>6 DEF WorkerFitsCaller, MayRun, Release, Goto
  <2>3. Gatekeeper!Leave(r)
    BY <2>0, <2>1, <2>2 DEF Gatekeeper!Leave, Inside, Kept
  <2>4. QED
    BY <2>3 DEF Simulated, Gatekeeper!Next
<1>7. ASSUME NEW r \in Request, StartWorkerFails(r)
      PROVE  Simulated
  <2>0. Running' = Running /\ health' = health
    BY <1>7 DEF StartWorkerFails, Running
  <2>1. Inside' = Inside \ {r} /\ Kept' = Kept \cup {r} /\ r \in Inside
    <3>1. /\ pc' = [pc EXCEPT ![r] = "start_failed"]
          /\ pc[r] \in Owning /\ "start_failed" \notin Owning
          /\ pc[r] \notin Retaining /\ "start_failed" \in Retaining
      BY <1>7 DEF StartWorkerFails, Goto, Owning, Retaining
    <3>2. QED
      BY <1>0, <3>1, GateMoved
  <2>2. r \notin Running
    BY <1>0, <1>7 DEF WorkerFitsCaller, MayRun, StartWorkerFails, Goto
  <2>3. Gatekeeper!Keep(r)
    BY <2>0, <2>1, <2>2 DEF Gatekeeper!Keep, Inside, Kept
  <2>4. QED
    BY <2>3 DEF Simulated, Gatekeeper!Next
<1>8. ASSUME NEW r \in Request, Poison(r)
      PROVE  Simulated
  <2>0. Running' = Running /\ health' = "poisoned"
    BY <1>8 DEF Poison, Running
  <2>1. Inside' = Inside \ {r} /\ Kept' = Kept \cup {r} /\ r \in Inside
    <3>1. /\ pc' = [pc EXCEPT ![r] = "unresponsive"]
          /\ pc[r] \in Owning /\ "unresponsive" \notin Owning
          /\ pc[r] \notin Retaining /\ "unresponsive" \in Retaining
      BY <1>8 DEF Poison, Goto, Owning, Retaining
    <3>2. QED
      BY <1>0, <3>1, GateMoved
  <2>2. Gatekeeper!Keep(r)
    BY <2>0, <2>1 DEF Gatekeeper!Keep, Inside, Kept
  <2>3. QED
    BY <2>2 DEF Simulated, Gatekeeper!Next
<1>9. ASSUME ClearLog
      PROVE  Simulated
  BY <1>9, <1>a DEF ClearLog, Inside, Kept, Running
<1>10. ASSUME Recycle
       PROVE  Simulated
  <2>1. Inside' = {} /\ Kept' = {} /\ Running' = {} /\ health' = "healthy"
    BY <1>10 DEF Recycle, Inside, Kept, Running, Owning, Retaining
  <2>2. Gatekeeper!Reboot
    BY <2>1 DEF Gatekeeper!Reboot, Inside, Kept
  <2>3. QED
    BY <2>2 DEF Simulated, Gatekeeper!Next
<1>11. ASSUME UNCHANGED vars
       PROVE  Simulated
  BY <1>11, <1>a DEF vars, Inside, Kept, Running
<1>12. Simulated
  BY <1>1, <1>2, <1>3, <1>4, <1>5, <1>6, <1>7, <1>8, <1>9, <1>10, <1>11
     DEF Next, CallerStep
<1>13. QED
  BY <1>12 DEF Simulated

(* The coordinator keeps the promise the page and the adapter build on: of  *)
(* the queue, the two locks, the log and the threads nothing shows through  *)
(* the gate but a bounded number of calls, and a gate that stays closed     *)
(* once a call was given up.                                                *)
THEOREM CoordinatorImplementsGate == Spec => ImplementsGate
<1>1. Init => Gatekeeper!Init
  <2> SUFFICES ASSUME Init
               PROVE  Gatekeeper!Init
    OBVIOUS
  <2>1. Inside = {} /\ Kept = {} /\ Running = {} /\ health = "healthy"
    BY DEF Init, Inside, Kept, Running, Owning, Retaining
  <2>2. QED
    BY <2>1 DEF Gatekeeper!Init, Inside, Kept
<1>2. IInv /\ [Next]_vars => [Gatekeeper!Next]_(Gatekeeper!gateVars)
  BY GateStep
<1>3. QED
  BY <1>1, <1>2, InductiveInvariant, PTL DEF Spec, ImplementsGate, Gatekeeper!Spec
================================================================================
