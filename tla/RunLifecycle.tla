------------------------------ MODULE RunLifecycle ------------------------------
(***************************************************************************)
(* One browser session of the Forecast page (src/pages/1_Forecast.py): the *)
(* run lifecycle {request_id, started_at_utc, phase} kept in session state,*)
(* the Run button it disables, and the answer the page shows.              *)
(*                                                                         *)
(* The page is a script that Streamlit executes again on every widget      *)
(* event, in a new thread.  The thread that was still running is told to   *)
(* stop and leaves at its next access to the session state; inside         *)
(* coordinator.run() it makes none.  Run is a set of script executions     *)
(* started by the Run button; each can be used again once it is idle.      *)
(* Time is the age of the lifecycle and of each execution, in units of     *)
(* which MaxAge make up queue timeout + execution watchdog + margin.       *)
(***************************************************************************)
EXTENDS Integers, FiniteSets

CONSTANTS
  Run,                (* executions of the script with the button pressed   *)
  NoRun,              (* the empty request id, no result, no error          *)
  MaxAge,             (* the age beyond which a lifecycle is stale          *)
  ValidationMayFail,  (* TRUE: an input may be rejected before the run      *)
  UserMayInterrupt    (* TRUE: widgets may be used during a run             *)

ASSUME LifecycleAssumption ==
  /\ NoRun \notin Run
  /\ MaxAge \in Nat \ {0}
  /\ ValidationMayFail \in BOOLEAN
  /\ UserMayInterrupt \in BOOLEAN

VARIABLES
  requestId,      (* run_lifecycle["request_id"]                            *)
  age,            (* time since run_lifecycle["started_at_utc"]             *)
  phase,          (* run_lifecycle["phase"]                                 *)
  result, error,  (* the run that wrote forecast_result, error_message      *)
  buttonEnabled,  (* the Run button as the browser shows it                 *)
  pc,             (* where each script execution stands                     *)
  elapsed,        (* time since the execution passed the guard              *)
  stopRequested,  (* executions Streamlit has told to stop                  *)
  (* Auxiliary variables: the properties read them, no action does.         *)
  latest,         (* the last run that passed the guard; NoRun once it was  *)
                  (* stopped before it had taken the old answer away        *)
  fresh,          (* the last run that has taken the old answer away        *)
  expired         (* some lifecycle has outlived MaxAge                     *)

lifecycle == <<requestId, age, phase>>
answer == <<result, error>>
script == <<pc, elapsed, stopRequested>>
history == <<latest, fresh>>
vars == <<lifecycle, answer, buttonEnabled, script, history, expired>>

Unset == -1   (* started_at_utc is ""                                       *)
Ages == Unset .. (MaxAge + 1)   (* MaxAge + 1: older than MaxAge            *)

Live == {r \in Run : pc[r] # "idle"}
PastGuard == {r \in Live : pc[r] \notin {"clicked", "rendered"}}
InCoordinator == {r \in Run : pc[r] = "running"}

(* A run that has passed the guard and has yet to take the old answer away. *)
Resetting == {"begun", "error_cleared"}

TypeOK ==
  /\ requestId \in Run \cup {NoRun}
  /\ age \in Ages
  /\ phase \in {"idle", "preparing", "running", "failed"}
  /\ phase \in {"idle", "failed"} => requestId = NoRun
  /\ {result, error, latest, fresh} \subseteq Run \cup {NoRun}
  /\ {buttonEnabled, expired} \subseteq BOOLEAN
  /\ pc \in [Run -> {"idle", "clicked", "rendered", "preparing", "running",
                     "succeeded", "failed", "cleanup"} \cup Resetting]
  /\ elapsed \in [Run -> 0..MaxAge]
  /\ stopRequested \subseteq Live

Init ==
  /\ requestId = NoRun /\ age = Unset /\ phase = "idle"
  /\ result = NoRun /\ error = NoRun
  /\ latest = NoRun /\ fresh = NoRun
  /\ buttonEnabled = TRUE
  /\ pc = [r \in Run |-> "idle"]
  /\ elapsed = [r \in Run |-> 0]
  /\ stopRequested = {}
  /\ expired = FALSE

--------------------------------------------------------------------------------

(* _lifecycle_is_stale: a phase that should be active, without a start or   *)
(* older than any run can be.                                               *)
Stale == phase \in {"preparing", "running"} /\ (age = Unset \/ age > MaxAge)

(* Slip: any active phase counts as busy, however old.                      *)
Busy_Forever == phase \in {"preparing", "running"}

Busy == phase \in {"preparing", "running"} /\ ~Stale

(* Slip: a failed run keeps the ownership of the lifecycle.                 *)
SetRunPhase_KeepingOwner(newPhase, id) ==
  /\ requestId' = IF id # NoRun THEN id ELSE requestId
  /\ age' = IF newPhase = "idle" THEN Unset ELSE IF age = Unset THEN 0 ELSE age
  /\ phase' = newPhase

(* _set_run_phase: only "idle" forgets when the lifecycle started.          *)
SetRunPhase(newPhase, id) ==
  /\ requestId' = IF newPhase \in {"idle", "failed"} THEN NoRun
                  ELSE IF id # NoRun THEN id ELSE requestId
  /\ age' = IF newPhase = "idle" THEN Unset ELSE IF age = Unset THEN 0 ELSE age
  /\ phase' = newPhase

(* A step of the script that touches the session state: a stopped script    *)
(* does not get to make one.                                                *)
ScriptStep(r, from, to) ==
  /\ pc[r] = from /\ r \notin stopRequested
  /\ pc' = [pc EXCEPT ![r] = to]

(* The Run button: whatever the session was executing is told to stop.      *)
Click(r) ==
  /\ buttonEnabled /\ pc[r] = "idle"
  /\ Live # {} => UserMayInterrupt
  /\ pc' = [pc EXCEPT ![r] = "clicked"]
  /\ stopRequested' = stopRequested \cup Live
  /\ UNCHANGED <<lifecycle, answer, buttonEnabled, elapsed, history, expired>>

(* The button is drawn before this execution has changed the lifecycle.     *)
Render(r) ==
  /\ ScriptStep(r, "clicked", "rendered")
  /\ buttonEnabled' = ~Busy
  /\ UNCHANGED <<lifecycle, answer, elapsed, stopRequested, history, expired>>

IgnoreClick(r) ==
  /\ ScriptStep(r, "rendered", "idle")
  /\ Busy
  /\ UNCHANGED <<lifecycle, answer, buttonEnabled, elapsed, stopRequested,
                 history, expired>>

(* Slip: the button alone guards the run.                                   *)
BeginRun_Unguarded(r) ==
  /\ ScriptStep(r, "rendered", "begun")
  /\ SetRunPhase("preparing", NoRun)
  /\ latest' = r
  /\ UNCHANGED <<answer, buttonEnabled, elapsed, stopRequested, fresh, expired>>

(* The guard, and the first of three writes to the session state; a script  *)
(* may be stopped between any two of them.                                  *)
BeginRun(r) ==
  /\ ScriptStep(r, "rendered", "begun")
  /\ ~Busy
  /\ SetRunPhase("preparing", NoRun)
  /\ latest' = r
  /\ UNCHANGED <<answer, buttonEnabled, elapsed, stopRequested, fresh, expired>>

ClearError(r) ==
  /\ ScriptStep(r, "begun", "error_cleared")
  /\ error' = NoRun
  /\ UNCHANGED <<lifecycle, result, buttonEnabled, elapsed, stopRequested,
                 history, expired>>

(* Slip: the old forecast stays until the new one arrives.                  *)
ClearResult_Keeping(r) ==
  /\ ScriptStep(r, "error_cleared", "preparing")
  /\ fresh' = r
  /\ UNCHANGED <<lifecycle, answer, buttonEnabled, elapsed, stopRequested,
                 latest, expired>>

ClearResult(r) ==
  /\ ScriptStep(r, "error_cleared", "preparing")
  /\ result' = NoRun
  /\ fresh' = r
  /\ UNCHANGED <<lifecycle, error, buttonEnabled, elapsed, stopRequested,
                 latest, expired>>

(* A rejected input ends the execution with st.stop().                      *)
RejectInput(r) ==
  /\ ValidationMayFail
  /\ ScriptStep(r, "preparing", "idle")
  /\ SetRunPhase("failed", NoRun)
  /\ elapsed' = [elapsed EXCEPT ![r] = 0]
  /\ UNCHANGED <<answer, buttonEnabled, stopRequested, history, expired>>

StartRunning(r) ==
  /\ ScriptStep(r, "preparing", "running")
  /\ SetRunPhase("running", r)
  /\ UNCHANGED <<answer, buttonEnabled, elapsed, stopRequested, history, expired>>

(* coordinator.run() comes back, stopped or not.                            *)
CoordinatorEnds(r) ==
  /\ pc[r] = "running"
  /\ \E outcome \in {"succeeded", "failed"} : pc' = [pc EXCEPT ![r] = outcome]
  /\ UNCHANGED <<lifecycle, answer, buttonEnabled, elapsed, stopRequested,
                 history, expired>>

StoreAnswer(r) ==
  /\ \/ ScriptStep(r, "succeeded", "cleanup") /\ result' = r /\ UNCHANGED error
     \/ ScriptStep(r, "failed", "cleanup") /\ error' = r /\ UNCHANGED result
  /\ UNCHANGED <<lifecycle, buttonEnabled, elapsed, stopRequested, history, expired>>

(* The finally block, and the end of the script.                            *)
CleanUp(r) ==
  /\ ScriptStep(r, "cleanup", "idle")
  /\ SetRunPhase("idle", NoRun)
  /\ elapsed' = [elapsed EXCEPT ![r] = 0]
  /\ UNCHANGED <<answer, buttonEnabled, stopRequested, history, expired>>

(* Streamlit's stop exception also hits the finally block's own access to   *)
(* the session state: the lifecycle stays as it is.                         *)
Abort(r) ==
  /\ r \in stopRequested /\ pc[r] # "running"
  /\ pc' = [pc EXCEPT ![r] = "idle"]
  /\ stopRequested' = stopRequested \ {r}
  /\ latest' = IF r = latest /\ pc[r] \in Resetting THEN NoRun ELSE latest
  /\ elapsed' = [elapsed EXCEPT ![r] = 0]
  /\ UNCHANGED <<lifecycle, answer, buttonEnabled, fresh, expired>>

(* Any other widget: the script runs again without the button pressed.      *)
TouchWidget ==
  /\ Live # {} => UserMayInterrupt
  /\ stopRequested' = Live
  /\ buttonEnabled' = ~Busy
  /\ UNCHANGED <<lifecycle, answer, pc, elapsed, history, expired>>

(* Time passes; an execution that has passed the guard takes at most MaxAge *)
(* (the coordinator bounds run(), the margin covers the rest).              *)
Tick ==
  /\ \A r \in PastGuard : elapsed[r] < MaxAge
  /\ age' = IF age \in {Unset, MaxAge + 1} THEN age ELSE age + 1
  /\ elapsed' = [r \in Run |-> elapsed[r] + IF r \in PastGuard THEN 1 ELSE 0]
  /\ expired' = (expired \/ age' > MaxAge)
  /\ UNCHANGED <<requestId, phase, answer, buttonEnabled, pc, stopRequested,
                 history>>

ScriptProgress(r) ==
  \/ Render(r) \/ IgnoreClick(r) \/ BeginRun(r) \/ ClearError(r) \/ ClearResult(r)
  \/ RejectInput(r) \/ StartRunning(r) \/ CoordinatorEnds(r) \/ StoreAnswer(r) \/ CleanUp(r)
  \/ Abort(r)

Next ==
  \/ \E r \in Run : Click(r) \/ ScriptProgress(r)
  \/ TouchWidget
  \/ Tick

Spec == Init /\ [][Next]_vars

(* Time goes on and a thread that can run is scheduled; the user owes the   *)
(* page nothing.                                                            *)
FairSpec == Spec /\ WF_vars(Tick) /\ \A r \in Run : WF_vars(ScriptProgress(r))
--------------------------------------------------------------------------------

(* "A genuinely in-flight request is never misclassified" (docstring of     *)
(* _lifecycle_is_stale): while the session's own run is in flight its       *)
(* lifecycle is not taken for an orphan.                                    *)
NeverMisclassified ==
  \A r \in Run : r \in InCoordinator /\ requestId = r => ~Stale

(* One browser session never has two requests in the coordinator, however   *)
(* often Run is clicked before the browser shows it disabled: what the      *)
(* second check of the lifecycle is for.  Once a lifecycle has expired the  *)
(* session is let go on beside a run that may still be there.               *)
OneRequestPerSession == ~expired => Cardinality(InCoordinator) <= 1

(* The answer on the page is that of the last run that took the previous    *)
(* one away, and that is the run the user started last: neither an execution*)
(* that was overtaken nor an earlier run shows through, with one exception. *)
(* A run passes the guard before it clears error and result; one that is    *)
(* stopped in between leaves the answer of an earlier run on the page.      *)
AnswerIsLatest ==
  /\ {result, error} \subseteq {NoRun, fresh}
  /\ result = NoRun \/ error = NoRun
  /\ fresh # latest => latest = NoRun \/ pc[latest] \in Resetting

(* "A session can never be permanently disabled" (README, UI busy state):   *)
(* whatever the user interrupts and whatever fails, the Run button is       *)
(* usable again at some time.                                               *)
NeverDisabledForever == Busy ~> ~Busy
================================================================================
