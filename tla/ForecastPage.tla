------------------------------ MODULE ForecastPage ------------------------------
(***************************************************************************)
(* Runs of the Forecast page from the upload to the answer, through the    *)
(* process-wide Chronos2Adapter (src/src/forecasting/chronos2_adapter.py)  *)
(* that loads its pipeline on the first call, without a lock.  Between the *)
(* two stands what the coordinator promises: this module composes the page *)
(* and the adapter with InferenceGate, which Coordinator implements.       *)
(*                                                                         *)
(* The model itself is external: predict_df answers with any of the tables *)
(* in ModelOutput, or raises.  Of a prediction only what the adapter looks *)
(* at is kept: item, time, point and the levels in ascending order.        *)
(***************************************************************************)
EXTENDS ForecastInput

CONSTANTS
  Request,       (* runs of the page                                         *)
  Capacity,      (* COORDINATOR_CAPACITY                                     *)
  Uploads,       (* the tables people upload                                 *)
  Settings,      (* what they ask for: [horizon, quantiles]                  *)
  ModelOutput,   (* the tables predict_df may answer with                    *)
  MaxReboots     (* bound on the reboots of the process                      *)

ASSUME PageAssumption ==
  /\ Capacity \in Nat \ {0} /\ MaxReboots \in Nat
  /\ \A u \in Uploads :
       u.rows \in Seq([time : Int \cup {NaT, Unparseable}, value : Int \cup {NaN}])
  /\ \A out \in ModelOutput :
       /\ out.rows \in Seq(Range(out.rows))
       /\ \A row \in Range(out.rows) : row.time \in Int \cup {NaT, Unparseable, Missing}

VARIABLES
  inside, kept, using, closed,   (* of InferenceGate                         *)
  pipeline,      (* _pipeline is set                                         *)
  callCount,     (* _pipeline_call_count                                     *)
  run,           (* each run: where it is, its upload, task and answer, the  *)
                 (* process (from 1) whose cold load it reports              *)
  reboots

gateVars == <<inside, kept, using, closed>>
pageVars == <<gateVars, pipeline, callCount, run, reboots>>

Gate == INSTANCE InferenceGate

NewRun == [at |-> "idle", upload |-> Missing, settings |-> Missing, task |-> Missing, before |-> 0,
            loadedBy |-> 0, answer |-> Missing]

PageInit ==
  /\ Gate!Init
  /\ pipeline = FALSE /\ callCount = 0 /\ reboots = 0
  /\ run = [r \in Request |-> NewRun]

Go(r, from, to) == run[r].at = from /\ run' = [run EXCEPT ![r].at = to]

--------------------------------------------------------------------------------
(* The adapter.                                                             *)

(* The cells of the id column, when one of the two columns of the task is   *)
(* called item_id; a missing id does not count.                             *)
ItemIds(task) ==
  {IF task.target = "item_id" THEN task.history[i].value ELSE task.history[i].time :
     i \in DOMAIN task.history} \ {NaN}

(* "Standard univariate mode requires exactly one time series."             *)
IsOneSeries(task) ==
  "item_id" \in {task.timestamp, task.target} => Cardinality(ItemIds(task)) <= 1

(* _validate_quantile_monotonic: finite and in order.                       *)
IsMonotonic(levels) ==
  /\ \A i \in DOMAIN levels : levels[i] # NaN
  /\ \A i \in 1 .. (Len(levels) - 1) : levels[i] <= levels[i + 1]

(* A comparison with NaT is false.                                          *)
Before(s, t) == NaT \notin {s, t} /\ s < t

(* The answer's times as texts that pandas.Timestamp reads, NaT among them, *)
(* in order as the sort tells it, and the first not up to the last row.     *)
TimesInOrder(rows, last) ==
  /\ \A i \in DOMAIN rows : rows[i].time \notin {Missing, Unparseable}
  /\ \A i \in 1 .. (Len(rows) - 1) : ~Before(rows[i + 1].time, rows[i].time)
  /\ rows[1].time = NaT \/ Before(last, rows[1].time)

(* Slip: two rows of the same time pass as a forecast in order.             *)
AcceptsOutput_Duplicates(task, out) ==
  LET rows == out.rows
  IN  /\ out.points /\ Range(task.quantiles) \subseteq out.levels
      /\ Len(rows) = task.horizon
      /\ \A i \in DOMAIN rows : rows[i].point # NaN /\ IsMonotonic(rows[i].levels)
      /\ \A i \in DOMAIN rows : rows[i].item = rows[1].item
      /\ TimesInOrder(rows, task.history[Len(task.history)].time)

(* What forecast() demands of the answer; every violation is the same       *)
(* ResultSchemaError.                                                       *)
AcceptsOutput(task, out) ==
  LET rows == out.rows
  IN  /\ out.points /\ Range(task.quantiles) \subseteq out.levels
      /\ Len(rows) = task.horizon
      /\ \A i \in DOMAIN rows : rows[i].point # NaN /\ IsMonotonic(rows[i].levels)
      /\ \A i \in DOMAIN rows : rows[i].item = rows[1].item
      /\ \A i, j \in DOMAIN rows :
           rows[i].item = rows[j].item /\ rows[i].time = rows[j].time => i = j
      /\ TimesInOrder(rows, task.history[Len(task.history)].time)

--------------------------------------------------------------------------------
(* A run.                                                                   *)

(* The page prepares the upload; a run it refuses ends here.                *)
Prepare(r) ==
  /\ run[r].at = "idle"
  /\ \E u \in Uploads, s \in Settings :
       LET prepared == PagePrepare(u, s.horizon, s.quantiles)
       IN  run' = [run EXCEPT ![r].upload = u, ![r].settings = s,
                     ![r].task = prepared.task,
                     ![r].at = IF prepared.error = Missing THEN "prepared" ELSE "refused"]
  /\ UNCHANGED <<gateVars, pipeline, callCount, reboots>>

Admit(r) ==
  /\ Go(r, "prepared", "admitted")
  /\ Gate!Enter(r)
  /\ UNCHANGED <<pipeline, callCount, reboots>>

(* The worker starts and forecast() looks at the task.                      *)
Begin(r) ==
  /\ Go(r, "admitted", IF IsOneSeries(run[r].task) THEN "getting" ELSE "raised")
  /\ Gate!StartUsing(r)
  /\ UNCHANGED <<pipeline, callCount, reboots>>

(* _get_pipeline: is there one already?                                     *)
GetPipeline(r) ==
  /\ run[r].at = "getting"
  /\ run' = [run EXCEPT ![r].at = IF pipeline THEN "got" ELSE "loading",
                        ![r].before = callCount]
  /\ UNCHANGED <<gateVars, pipeline, callCount, reboots>>

(* The provider answers, or raises ModelLoadError and leaves nothing.       *)
Provide(r) ==
  /\ \/ Go(r, "loading", "counting") /\ pipeline' = TRUE
     \/ Go(r, "loading", "raised") /\ UNCHANGED pipeline
  /\ UNCHANGED <<gateVars, callCount, reboots>>

Count(r) ==
  /\ Go(r, "counting", "got")
  /\ callCount' = callCount + 1
  /\ UNCHANGED <<gateVars, pipeline, reboots>>

(* model_was_loaded: the count has grown since this call looked at it.      *)
Measure(r) ==
  /\ run[r].at = "got"
  /\ run' = [run EXCEPT ![r].at = "predicting",
                        ![r].loadedBy = IF callCount > run[r].before THEN reboots + 1 ELSE 0]
  /\ UNCHANGED <<gateVars, pipeline, callCount, reboots>>

Predict(r) ==
  /\ run[r].at = "predicting"
  /\ \/ Go(r, "predicting", "raised")
     \/ \E out \in ModelOutput :
          run' = IF AcceptsOutput(run[r].task, out)
                 THEN [run EXCEPT ![r].at = "answered", ![r].answer = out.rows]
                 ELSE [run EXCEPT ![r].at = "raised"]
  /\ UNCHANGED <<gateVars, pipeline, callCount, reboots>>

Return(r) ==
  /\ run[r].at \in {"answered", "raised"}
  /\ Gate!StopUsing(r)
  /\ UNCHANGED <<pipeline, callCount, run, reboots>>

Leave(r) ==
  /\ run[r].at \in {"answered", "raised"}
  /\ Gate!Leave(r)
  /\ UNCHANGED <<pipeline, callCount, run, reboots>>

(* Slip: the coordinator frees the permit of an execution it has given up.  *)
GiveUp_Releasing(r) ==
  /\ r \in inside \cap using
  /\ inside' = inside \ {r}
  /\ UNCHANGED <<kept, using, closed, pipeline, callCount, run, reboots>>

(* The watchdog gives the execution up; the worker goes on.                 *)
GiveUp(r) ==
  /\ r \in using
  /\ Gate!Keep(r)
  /\ UNCHANGED <<pipeline, callCount, run, reboots>>

(* The platform reboots the process.                                        *)
RebootProcess ==
  /\ reboots < MaxReboots
  /\ reboots' = reboots + 1
  /\ Gate!Reboot
  /\ pipeline' = FALSE /\ callCount' = 0
  /\ run' = [r \in Request |->
               IF r \in inside \cup kept THEN [run[r] EXCEPT !.at = "lost"] ELSE run[r]]

RunStep(r) ==
  \/ Prepare(r) \/ Admit(r) \/ Begin(r) \/ GetPipeline(r) \/ Provide(r)
  \/ Count(r) \/ Measure(r) \/ Predict(r) \/ Return(r) \/ Leave(r) \/ GiveUp(r)

PageNext == (\E r \in Request : RunStep(r)) \/ RebootProcess

PageSpec == PageInit /\ [][PageNext]_pageVars
--------------------------------------------------------------------------------
(* Safety.                                                                  *)

(* The lazy loading is safe although check, provider call and assignment    *)
(* are three steps without a lock: with one permit no two runs are ever in  *)
(* the provider, a process constructs one pipeline at most, and no two runs *)
(* of a process report the cold load, a worker that was given up included.  *)
PipelineLoadedOnce ==
  Capacity = 1 =>
    /\ callCount <= 1
    /\ \A r \in Request : run[r].at = "loading" => ~pipeline
    /\ \A r, s \in Request : run[r].at = "loading" /\ run[s].at = "loading" => r = s
    /\ \A r, s \in Request : run[r].loadedBy = run[s].loadedBy /\ run[r].loadedBy # 0 => r = s

(* An answer the page shows has as many rows as were asked for, of one      *)
(* item, no time twice.  As far as its rows have a time it is a path, each  *)
(* later than the one before, and the first later than every row of the     *)
(* file, also of the rows the cap left out.  (A row without a time passes,  *)
(* and what comes after it is compared with nothing before it.)             *)
Timed(rows, i) == \A k \in 1 .. i : rows[k].time # NaT
ForecastFollowsTheUpload ==
  \A r \in Request : run[r].at = "answered" =>
    LET rows == run[r].answer
    IN  /\ Len(rows) = run[r].task.horizon
        /\ \A i \in DOMAIN rows : rows[i].item = rows[1].item
        /\ \A i, j \in DOMAIN rows : i # j => rows[i].time # rows[j].time
        /\ \A i, j \in DOMAIN rows : i < j /\ Timed(rows, j) => rows[i].time < rows[j].time
        /\ \A i \in DOMAIN rows, t \in Times(run[r].upload.rows) :
             Timed(rows, i) => t < rows[i].time

(* The page and the ingestion pipeline prepare a table independently: what  *)
(* the pipeline accepts the page accepts too, and both make the same task   *)
(* but for the frequency, which the pipeline resolves and the page leaves   *)
(* open.                                                                    *)
PageAgreesWithPipeline ==
  \A r \in Request : run[r].at # "idle" =>
    LET s == run[r].settings
        task == RunIngestionPipeline(run[r].upload, s.horizon, s.quantiles).task
    IN  task # Missing => run[r].task = [task EXCEPT !.frequency = Missing]

================================================================================
