--------------------------- MODULE RunLifecycleProofs ---------------------------
(***************************************************************************)
(* Theorems about RunLifecycle, for any number of script executions, any   *)
(* age limit, with rejected inputs and interruptions or without.  They rest*)
(* on one fact about the scripts - of those not told to stop at most one is*)
(* live - and on one about the lifecycle: until a lifecycle has expired it *)
(* names the request that is in the coordinator.                           *)
(***************************************************************************)
EXTENDS RunLifecycle, FiniteSetTheorems, TLAPS

(* Executions that have passed the guard and not been told to stop.         *)
Begun == {"preparing", "running", "succeeded", "failed", "cleanup"} \cup Resetting
Acting == {r \in Run : pc[r] \in Begun /\ r \notin stopRequested}

(* A click stops whatever the session was executing.                        *)
OneScriptActs ==
  \A r, s \in Live : r \notin stopRequested /\ s \notin stopRequested => r = s

(* The execution that acts is the last that passed the guard; once it has   *)
(* taken the old answer away there is none until its own.                   *)
LatestActs ==
  \A r \in Acting :
    /\ latest = r
    /\ pc[r] \notin Resetting => fresh = r
    /\ pc[r] \notin Resetting \cup {"cleanup"} => result = NoRun
    /\ pc[r] \notin {"begun", "cleanup"} => error = NoRun

(* Only a lifecycle that has expired is older than MaxAge.                  *)
OldIsExpired == age > MaxAge => expired

(* A request in the coordinator owns a busy lifecycle.                      *)
RequestIsBusy ==
  ~expired /\ InCoordinator # {} => phase = "running" /\ age # Unset

(* The execution that acts shares the coordinator with no other.            *)
ActsAlone ==
  ~expired => \A r \in Acting : InCoordinator \subseteq {r}

OneInCoordinator ==
  ~expired => \A r, s \in InCoordinator : r = s

IInv ==
  /\ TypeOK
  /\ OneScriptActs
  /\ LatestActs
  /\ AnswerIsLatest
  /\ OldIsExpired
  /\ RequestIsBusy
  /\ ActsAlone
  /\ OneInCoordinator

(* Types; a script told to stop is one that is still there.                *)
LEMMA TypeStep ==
  ASSUME TypeOK, [Next]_vars
  PROVE  TypeOK'
<1> USE DEF lifecycle, answer, script, history, Resetting, ScriptStep, SetRunPhase, TypeOK, Ages, Unset, Live
<1>0. MaxAge \in Nat \ {0} /\ NoRun \notin Run
  BY LifecycleAssumption
<1>1. ASSUME NEW r \in Run, Click(r)
      PROVE  TypeOK'
  BY <1>0, <1>1 DEF Click
<1>2. ASSUME NEW r \in Run, Render(r)
      PROVE  TypeOK'
  BY <1>0, <1>2 DEF Render
<1>3. ASSUME NEW r \in Run, IgnoreClick(r)
      PROVE  TypeOK'
  BY <1>0, <1>3 DEF IgnoreClick
<1>4. ASSUME NEW r \in Run, BeginRun(r)
      PROVE  TypeOK'
  BY <1>0, <1>4 DEF BeginRun
<1>15. ASSUME NEW r \in Run, ClearError(r)
      PROVE  TypeOK'
  BY <1>0, <1>15 DEF ClearError
<1>16. ASSUME NEW r \in Run, ClearResult(r)
      PROVE  TypeOK'
  BY <1>0, <1>16 DEF ClearResult
<1>5. ASSUME NEW r \in Run, RejectInput(r)
      PROVE  TypeOK'
  BY <1>0, <1>5 DEF RejectInput
<1>6. ASSUME NEW r \in Run, StartRunning(r)
      PROVE  TypeOK'
  BY <1>0, <1>6 DEF StartRunning
<1>7. ASSUME NEW r \in Run, CoordinatorEnds(r)
      PROVE  TypeOK'
  BY <1>0, <1>7 DEF CoordinatorEnds
<1>8. ASSUME NEW r \in Run, StoreAnswer(r)
      PROVE  TypeOK'
  BY <1>0, <1>8 DEF StoreAnswer
<1>9. ASSUME NEW r \in Run, CleanUp(r)
      PROVE  TypeOK'
  BY <1>0, <1>9 DEF CleanUp
<1>10. ASSUME NEW r \in Run, Abort(r)
      PROVE  TypeOK'
  BY <1>0, <1>10 DEF Abort
<1>11. CASE TouchWidget
  BY <1>0, <1>11 DEF TouchWidget
<1>12. CASE Tick
  BY <1>0, <1>12 DEF Tick, PastGuard
<1>13. CASE UNCHANGED vars
  BY <1>0, <1>13 DEF vars
<1>14. QED
  BY <1>1, <1>2, <1>3, <1>4, <1>5, <1>6, <1>7, <1>8, <1>9, <1>10, <1>11, <1>12, <1>13, <1>15,
     <1>16 DEF Next, ScriptProgress

(* Whoever starts a script stops the one that was acting.                  *)
LEMMA OneScriptStep ==
  ASSUME TypeOK, OneScriptActs, [Next]_vars
  PROVE  OneScriptActs'
<1> USE DEF lifecycle, answer, script, history, Resetting, ScriptStep, SetRunPhase, OneScriptActs, Live
<1>0. pc \in [Run -> {"idle", "clicked", "rendered", "preparing", "running",
                     "succeeded", "failed", "cleanup"} \cup Resetting]
  BY DEF TypeOK
<1>1. ASSUME NEW r \in Run, Click(r)
      PROVE  OneScriptActs'
  BY <1>0, <1>1 DEF Click
<1>2. ASSUME NEW r \in Run, Render(r)
      PROVE  OneScriptActs'
  BY <1>0, <1>2 DEF Render
<1>3. ASSUME NEW r \in Run, IgnoreClick(r)
      PROVE  OneScriptActs'
  BY <1>0, <1>3 DEF IgnoreClick
<1>4. ASSUME NEW r \in Run, BeginRun(r)
      PROVE  OneScriptActs'
  BY <1>0, <1>4 DEF BeginRun
<1>15. ASSUME NEW r \in Run, ClearError(r)
      PROVE  OneScriptActs'
  BY <1>0, <1>15 DEF ClearError
<1>16. ASSUME NEW r \in Run, ClearResult(r)
      PROVE  OneScriptActs'
  BY <1>0, <1>16 DEF ClearResult
<1>5. ASSUME NEW r \in Run, RejectInput(r)
      PROVE  OneScriptActs'
  BY <1>0, <1>5 DEF RejectInput
<1>6. ASSUME NEW r \in Run, StartRunning(r)
      PROVE  OneScriptActs'
  BY <1>0, <1>6 DEF StartRunning
<1>7. ASSUME NEW r \in Run, CoordinatorEnds(r)
      PROVE  OneScriptActs'
  BY <1>0, <1>7 DEF CoordinatorEnds
<1>8. ASSUME NEW r \in Run, StoreAnswer(r)
      PROVE  OneScriptActs'
  BY <1>0, <1>8 DEF StoreAnswer
<1>9. ASSUME NEW r \in Run, CleanUp(r)
      PROVE  OneScriptActs'
  BY <1>0, <1>9 DEF CleanUp
<1>10. ASSUME NEW r \in Run, Abort(r)
      PROVE  OneScriptActs'
  BY <1>0, <1>10 DEF Abort
<1>11. CASE TouchWidget
  BY <1>0, <1>11 DEF TouchWidget
<1>12. CASE Tick
  BY <1>0, <1>12 DEF Tick, PastGuard
<1>13. CASE UNCHANGED vars
  BY <1>0, <1>13 DEF vars
<1>14. QED
  BY <1>1, <1>2, <1>3, <1>4, <1>5, <1>6, <1>7, <1>8, <1>9, <1>10, <1>11, <1>12, <1>13, <1>15,
     <1>16 DEF Next, ScriptProgress

(* The execution that acts is the latest, and writes the first answer.      *)
LEMMA LatestStep ==
  ASSUME IInv, [Next]_vars
  PROVE  LatestActs' /\ AnswerIsLatest'
<1> USE DEF lifecycle, answer, script, history, Resetting, ScriptStep, SetRunPhase, LatestActs,
            AnswerIsLatest, Acting, Begun, Live
<1>0. OneScriptActs /\ LatestActs /\ AnswerIsLatest /\ NoRun \notin Run
      /\ pc \in [Run -> {"idle", "clicked", "rendered", "preparing", "running",
                     "succeeded", "failed", "cleanup"} \cup Resetting]
  BY LifecycleAssumption DEF IInv, TypeOK
<1>1. ASSUME NEW r \in Run, Click(r)
      PROVE  LatestActs' /\ AnswerIsLatest'
  BY <1>0, <1>1 DEF Click
<1>2. ASSUME NEW r \in Run, Render(r)
      PROVE  LatestActs' /\ AnswerIsLatest'
  BY <1>0, <1>2 DEF Render
<1>3. ASSUME NEW r \in Run, IgnoreClick(r)
      PROVE  LatestActs' /\ AnswerIsLatest'
  BY <1>0, <1>3 DEF IgnoreClick
<1>4. ASSUME NEW r \in Run, BeginRun(r)
      PROVE  LatestActs' /\ AnswerIsLatest'
  <2>1. \A q \in Acting' : q = r
    BY <1>0, <1>4 DEF BeginRun, OneScriptActs
  <2>2. /\ latest' = r /\ pc'[r] = "begun"
        /\ UNCHANGED <<result, error, fresh>>
    BY <1>0, <1>4 DEF BeginRun
  <2>3. QED
    BY <1>0, <2>1, <2>2
<1>15. ASSUME NEW r \in Run, ClearError(r)
      PROVE  LatestActs' /\ AnswerIsLatest'
  BY <1>0, <1>15 DEF ClearError
<1>16. ASSUME NEW r \in Run, ClearResult(r)
      PROVE  LatestActs' /\ AnswerIsLatest'
  BY <1>0, <1>16 DEF ClearResult
<1>5. ASSUME NEW r \in Run, RejectInput(r)
      PROVE  LatestActs' /\ AnswerIsLatest'
  BY <1>0, <1>5 DEF RejectInput
<1>6. ASSUME NEW r \in Run, StartRunning(r)
      PROVE  LatestActs' /\ AnswerIsLatest'
  BY <1>0, <1>6 DEF StartRunning
<1>7. ASSUME NEW r \in Run, CoordinatorEnds(r)
      PROVE  LatestActs' /\ AnswerIsLatest'
  BY <1>0, <1>7 DEF CoordinatorEnds
<1>8. ASSUME NEW r \in Run, StoreAnswer(r)
      PROVE  LatestActs' /\ AnswerIsLatest'
  BY <1>0, <1>8 DEF StoreAnswer
<1>9. ASSUME NEW r \in Run, CleanUp(r)
      PROVE  LatestActs' /\ AnswerIsLatest'
  BY <1>0, <1>9 DEF CleanUp
<1>10. ASSUME NEW r \in Run, Abort(r)
      PROVE  LatestActs' /\ AnswerIsLatest'
  BY <1>0, <1>10 DEF Abort
<1>11. CASE TouchWidget
  BY <1>0, <1>11 DEF TouchWidget
<1>12. CASE Tick
  BY <1>0, <1>12 DEF Tick, PastGuard
<1>13. CASE UNCHANGED vars
  BY <1>0, <1>13 DEF vars
<1>14. QED
  BY <1>1, <1>2, <1>3, <1>4, <1>5, <1>6, <1>7, <1>8, <1>9, <1>10, <1>11, <1>12, <1>13, <1>15,
     <1>16 DEF Next, ScriptProgress

(* A lifecycle grows old by the clock alone.                                *)
LEMMA OldStep ==
  ASSUME IInv, [Next]_vars
  PROVE  OldIsExpired'
<1> USE DEF lifecycle, answer, script, history, Resetting, ScriptStep, SetRunPhase, OldIsExpired, Unset
<1>0. OldIsExpired /\ age \in Ages /\ MaxAge \in Nat \ {0}
  BY LifecycleAssumption DEF IInv, TypeOK
<1>1. ASSUME NEW r \in Run, Click(r)
      PROVE  OldIsExpired'
  BY <1>0, <1>1 DEF Click
<1>2. ASSUME NEW r \in Run, Render(r)
      PROVE  OldIsExpired'
  BY <1>0, <1>2 DEF Render
<1>3. ASSUME NEW r \in Run, IgnoreClick(r)
      PROVE  OldIsExpired'
  BY <1>0, <1>3 DEF IgnoreClick
<1>4. ASSUME NEW r \in Run, BeginRun(r)
      PROVE  OldIsExpired'
  BY <1>0, <1>4 DEF BeginRun
<1>15. ASSUME NEW r \in Run, ClearError(r)
      PROVE  OldIsExpired'
  BY <1>0, <1>15 DEF ClearError
<1>16. ASSUME NEW r \in Run, ClearResult(r)
      PROVE  OldIsExpired'
  BY <1>0, <1>16 DEF ClearResult
<1>5. ASSUME NEW r \in Run, RejectInput(r)
      PROVE  OldIsExpired'
  BY <1>0, <1>5 DEF RejectInput
<1>6. ASSUME NEW r \in Run, StartRunning(r)
      PROVE  OldIsExpired'
  BY <1>0, <1>6 DEF StartRunning
<1>7. ASSUME NEW r \in Run, CoordinatorEnds(r)
      PROVE  OldIsExpired'
  BY <1>0, <1>7 DEF CoordinatorEnds
<1>8. ASSUME NEW r \in Run, StoreAnswer(r)
      PROVE  OldIsExpired'
  BY <1>0, <1>8 DEF StoreAnswer
<1>9. ASSUME NEW r \in Run, CleanUp(r)
      PROVE  OldIsExpired'
  BY <1>0, <1>9 DEF CleanUp
<1>10. ASSUME NEW r \in Run, Abort(r)
      PROVE  OldIsExpired'
  BY <1>0, <1>10 DEF Abort
<1>11. CASE TouchWidget
  BY <1>0, <1>11 DEF TouchWidget
<1>12. CASE Tick
  BY <1>0, <1>12 DEF Tick, PastGuard
<1>13. CASE UNCHANGED vars
  BY <1>0, <1>13 DEF vars
<1>14. QED
  BY <1>1, <1>2, <1>3, <1>4, <1>5, <1>6, <1>7, <1>8, <1>9, <1>10, <1>11, <1>12, <1>13, <1>15,
     <1>16 DEF Next, ScriptProgress

(* While a request is in the coordinator nobody resets its lifecycle.       *)
LEMMA BusyStep ==
  ASSUME IInv, [Next]_vars
  PROVE  RequestIsBusy' /\ ActsAlone' /\ OneInCoordinator'
<1> USE DEF lifecycle, answer, script, history, Resetting, ScriptStep, SetRunPhase, RequestIsBusy,
            ActsAlone, OneInCoordinator, InCoordinator, Acting, Begun, Live, Unset
<1>0. /\ OneScriptActs /\ OldIsExpired /\ RequestIsBusy /\ ActsAlone /\ OneInCoordinator
      /\ age \in Ages /\ MaxAge \in Nat \ {0} /\ expired \in BOOLEAN
      /\ pc \in [Run -> {"idle", "clicked", "rendered", "preparing", "running",
                     "succeeded", "failed", "cleanup"} \cup Resetting]
  BY LifecycleAssumption DEF IInv, TypeOK
<1>1. ASSUME NEW r \in Run, Click(r)
      PROVE  RequestIsBusy' /\ ActsAlone' /\ OneInCoordinator'
  BY <1>0, <1>1 DEF Click
<1>2. ASSUME NEW r \in Run, Render(r)
      PROVE  RequestIsBusy' /\ ActsAlone' /\ OneInCoordinator'
  BY <1>0, <1>2 DEF Render
<1>3. ASSUME NEW r \in Run, IgnoreClick(r)
      PROVE  RequestIsBusy' /\ ActsAlone' /\ OneInCoordinator'
  BY <1>0, <1>3 DEF IgnoreClick
<1>4. ASSUME NEW r \in Run, BeginRun(r)
      PROVE  RequestIsBusy' /\ ActsAlone' /\ OneInCoordinator'
  <2>1. InCoordinator' = InCoordinator /\ expired' = expired
    BY <1>0, <1>4 DEF BeginRun
  <2>2. ~expired => InCoordinator = {}
    BY <1>0, <1>4 DEF BeginRun, Busy, Stale, OldIsExpired
  <2>3. QED
    BY <2>1, <2>2
<1>15. ASSUME NEW r \in Run, ClearError(r)
      PROVE  RequestIsBusy' /\ ActsAlone' /\ OneInCoordinator'
  BY <1>0, <1>15 DEF ClearError
<1>16. ASSUME NEW r \in Run, ClearResult(r)
      PROVE  RequestIsBusy' /\ ActsAlone' /\ OneInCoordinator'
  BY <1>0, <1>16 DEF ClearResult
<1>5. ASSUME NEW r \in Run, RejectInput(r)
      PROVE  RequestIsBusy' /\ ActsAlone' /\ OneInCoordinator'
  BY <1>0, <1>5 DEF RejectInput
<1>6. ASSUME NEW r \in Run, StartRunning(r)
      PROVE  RequestIsBusy' /\ ActsAlone' /\ OneInCoordinator'
  <2>1. InCoordinator' = InCoordinator \cup {r} /\ expired' = expired
    BY <1>0, <1>6 DEF StartRunning
  <2>2. r \in Acting /\ (~expired => InCoordinator \subseteq {r})
    BY <1>0, <1>6 DEF StartRunning
  <2>3. \A q \in Acting' : q = r
    BY <1>0, <1>6 DEF StartRunning, OneScriptActs
  <2>4. phase' = "running" /\ age' # Unset
    BY <1>0, <1>6 DEF StartRunning
  <2>5. QED
    BY <2>1, <2>2, <2>3, <2>4
<1>7. ASSUME NEW r \in Run, CoordinatorEnds(r)
      PROVE  RequestIsBusy' /\ ActsAlone' /\ OneInCoordinator'
  BY <1>0, <1>7 DEF CoordinatorEnds
<1>8. ASSUME NEW r \in Run, StoreAnswer(r)
      PROVE  RequestIsBusy' /\ ActsAlone' /\ OneInCoordinator'
  BY <1>0, <1>8 DEF StoreAnswer
<1>9. ASSUME NEW r \in Run, CleanUp(r)
      PROVE  RequestIsBusy' /\ ActsAlone' /\ OneInCoordinator'
  BY <1>0, <1>9 DEF CleanUp
<1>10. ASSUME NEW r \in Run, Abort(r)
      PROVE  RequestIsBusy' /\ ActsAlone' /\ OneInCoordinator'
  BY <1>0, <1>10 DEF Abort
<1>11. CASE TouchWidget
  BY <1>0, <1>11 DEF TouchWidget
<1>12. CASE Tick
  <2>1. /\ InCoordinator' = InCoordinator /\ Acting' = Acting /\ phase' = phase
        /\ expired' \/ ~expired
    BY <1>12 DEF Tick
  <2>2. age # Unset => age' # Unset
    BY <1>0, <1>12 DEF Tick, Ages
  <2>3. ~expired' => ~expired
    BY <1>12 DEF Tick
  <2>4. QED
    BY <1>0, <2>1, <2>2, <2>3
<1>13. CASE UNCHANGED vars
  BY <1>0, <1>13 DEF vars
<1>14. QED
  BY <1>1, <1>2, <1>3, <1>4, <1>5, <1>6, <1>7, <1>8, <1>9, <1>10, <1>11, <1>12, <1>13, <1>15,
     <1>16 DEF Next, ScriptProgress

--------------------------------------------------------------------------------
LEMMA InductiveInvariant == Spec => []IInv
<1>1. Init => IInv
  <2> SUFFICES ASSUME Init
               PROVE  IInv
    OBVIOUS
  <2>1. Live = {} /\ InCoordinator = {} /\ Acting = {}
    BY DEF Init, Live, InCoordinator, Acting, Begun, Resetting
  <2>2. TypeOK
    <3>1. MaxAge \in Nat /\ Unset \in Ages /\ 0 \in 0 .. MaxAge
      BY LifecycleAssumption DEF Ages, Unset
    <3>2. pc \in [Run -> {"idle"}] /\ elapsed \in [Run -> 0 .. MaxAge]
      BY <3>1 DEF Init
    <3>3. QED
      BY <2>1, <3>1, <3>2 DEF Init, TypeOK
  <2>3. OldIsExpired
    BY LifecycleAssumption DEF Init, OldIsExpired, Unset
  <2>4. QED
    BY <2>1, <2>2, <2>3 DEF Init, IInv, OneScriptActs, LatestActs, AnswerIsLatest,
       RequestIsBusy, ActsAlone, OneInCoordinator
<1>2. IInv /\ [Next]_vars => IInv'
  <2> SUFFICES ASSUME IInv, [Next]_vars
               PROVE  IInv'
    OBVIOUS
  <2>1. TypeOK' /\ OneScriptActs'
    BY TypeStep, OneScriptStep DEF IInv
  <2>2. QED
    BY <2>1, LatestStep, OldStep, BusyStep DEF IInv
<1>3. QED
  BY <1>1, <1>2, PTL DEF Spec

(* Every variable keeps its type: in particular a lifecycle that is idle or *)
(* has failed never keeps the id of a request.                              *)
THEOREM TypeCorrect == Spec => []TypeOK
<1>1. IInv => TypeOK
  BY DEF IInv
<1>2. QED
  BY <1>1, InductiveInvariant, PTL

(* The answer on the page is that of the run started last, whatever runs    *)
(* the user overtook, interrupted or had rejected before it.                *)
THEOREM AnswerIsOfTheLatestRun == Spec => []AnswerIsLatest
<1>1. IInv => AnswerIsLatest
  BY DEF IInv
<1>2. QED
  BY <1>1, InductiveInvariant, PTL

(* A browser session has one request in the coordinator, however often the  *)
(* Run button is clicked, until a lifecycle expires.                        *)
THEOREM SessionHasOneRequest == Spec => []OneRequestPerSession
<1>1. IInv => OneRequestPerSession
  <2> SUFFICES ASSUME IInv, ~expired
               PROVE  Cardinality(InCoordinator) <= 1
    BY DEF OneRequestPerSession
  <2>1. CASE InCoordinator = {}
    <3>1. Cardinality(InCoordinator) = 0
      BY <2>1, FS_EmptySet
    <3>2. QED
      BY <3>1
  <2>2. ASSUME NEW r \in InCoordinator
        PROVE  Cardinality(InCoordinator) <= 1
    <3>1. InCoordinator = {r}
      BY <2>2 DEF IInv, OneInCoordinator
    <3>2. Cardinality(InCoordinator) = 1
      BY <3>1, FS_Singleton
    <3>3. QED
      BY <3>2
  <2>3. QED
    BY <2>1, <2>2
<1>2. QED
  BY <1>1, InductiveInvariant, PTL
================================================================================
