--------------------------- MODULE ForecastPageProofs ---------------------------
(***************************************************************************)
(* Theorems about a run of the Forecast page: the lazy loading of the      *)
(* pipeline behind the gate, for any uploads, settings, answers of the     *)
(* model and number of reboots; and the memory sample of a request.        *)
(***************************************************************************)
EXTENDS ForecastPage, MemorySample, UploadForm, EvaluationProofs

(* Inside forecast(), from its first look at the task to the prediction.    *)
Working == {"getting", "loading", "counting", "got", "predicting"}

(* Calls that have a place at the gate, given up or not.                    *)
Placed == inside \cup kept

(* The fields of a run the loading is about are there.                      *)
RunShape ==
  /\ run = [r \in Request |-> run[r]]
  /\ \A r \in Request : {"at", "before", "loadedBy"} \subseteq DOMAIN run[r]

(* Who works uses the pipeline, and with one permit works alone.            *)
WorksAlone ==
  /\ using \subseteq Placed /\ Placed \subseteq Request
  /\ \A r, s \in Placed : r = s
  /\ \A r \in Request : run[r].at \in Working => r \in using

(* The pipeline and its count, as far as the run that works has got.        *)
LoadingProgress ==
  /\ callCount \in {0, 1} /\ pipeline \in BOOLEAN
  /\ ~pipeline => callCount = 0
  /\ pipeline /\ callCount = 0 => \E r \in Request : run[r].at = "counting"
  /\ \A r \in Request : run[r].at = "loading" =>
       ~pipeline /\ callCount = 0 /\ run[r].before = 0
  /\ \A r \in Request : run[r].at = "counting" =>
       pipeline /\ callCount = 0 /\ run[r].before = 0
  /\ \A r \in Request : run[r].at = "got" =>
       callCount = 1 /\ run[r].before \in {0, 1}

(* The cold load of this process has been reported by one run at most, and  *)
(* by none while the run that has made it has not looked at the count.      *)
ColdLoads ==
  /\ reboots \in Nat
  /\ \A r \in Request : run[r].loadedBy \in 0 .. (reboots + 1)
  /\ \A r, s \in Request :
       run[r].loadedBy = run[s].loadedBy /\ run[r].loadedBy # 0 => r = s
  /\ callCount = 0 \/ (\E r \in Request : run[r].at = "got" /\ run[r].before = 0) =>
       \A s \in Request : run[s].loadedBy # reboots + 1

PageInv == RunShape /\ WorksAlone /\ LoadingProgress /\ ColdLoads

--------------------------------------------------------------------------------
(* What the actions do to a run.                                            *)

Effect(r, at, before, loadedBy) ==
  /\ RunShape'
  /\ run'[r].at = at /\ run'[r].before = before /\ run'[r].loadedBy = loadedBy
  /\ \A s \in Request \ {r} : run'[s] = run[s]

LEMMA GoEffect ==
  ASSUME RunShape, NEW r \in Request, NEW to, run' = [run EXCEPT ![r].at = to]
  PROVE  Effect(r, to, run[r].before, run[r].loadedBy)
<1>1. /\ run'[r] = [run[r] EXCEPT !.at = to]
      /\ \A s \in Request \ {r} : run'[s] = run[s]
      /\ run' = [s \in Request |-> run'[s]]
  BY DEF RunShape
<1>2. DOMAIN run'[r] = DOMAIN run[r]
  BY <1>1
<1>3. /\ run'[r].at = to /\ run'[r].before = run[r].before
      /\ run'[r].loadedBy = run[r].loadedBy
  BY <1>1 DEF RunShape
<1>4. RunShape'
  BY <1>1, <1>2 DEF RunShape
<1>5. QED
  BY <1>1, <1>3, <1>4 DEF Effect

LEMMA PrepareEffect ==
  ASSUME RunShape, NEW r \in Request, Prepare(r)
  PROVE  \E to \in {"prepared", "refused"} :
           Effect(r, to, run[r].before, run[r].loadedBy)
<1>1. ASSUME NEW u, NEW s, NEW task, NEW to \in {"prepared", "refused"},
             run' = [run EXCEPT ![r].upload = u, ![r].settings = s,
                       ![r].task = task, ![r].at = to]
      PROVE  Effect(r, to, run[r].before, run[r].loadedBy)
  <2>1. /\ run'[r] = [run[r] EXCEPT !.upload = u, !.settings = s, !.task = task,
                        !.at = to]
        /\ \A q \in Request \ {r} : run'[q] = run[q]
        /\ run' = [q \in Request |-> run'[q]]
    BY <1>1 DEF RunShape
  <2>2. DOMAIN run'[r] = DOMAIN run[r]
    BY <2>1
  <2>3. /\ run'[r].at = to /\ run'[r].before = run[r].before
        /\ run'[r].loadedBy = run[r].loadedBy
    BY <2>1 DEF RunShape
  <2>4. RunShape'
    BY <2>1, <2>2 DEF RunShape
  <2>5. QED
    BY <2>1, <2>3, <2>4 DEF Effect
<1>2. PICK u \in Uploads, s \in Settings :
        run' = [run EXCEPT ![r].upload = u, ![r].settings = s,
                  ![r].task = PagePrepare(u, s.horizon, s.quantiles).task,
                  ![r].at = IF PagePrepare(u, s.horizon, s.quantiles).error = Missing
                            THEN "prepared" ELSE "refused"]
  BY DEF Prepare
<1> DEFINE prepared == PagePrepare(u, s.horizon, s.quantiles)
           task == prepared.task
           to == IF prepared.error = Missing THEN "prepared" ELSE "refused"
<1>3. run' = [run EXCEPT ![r].upload = u, ![r].settings = s,
                ![r].task = task, ![r].at = to]
  BY <1>2
<1>4. to \in {"prepared", "refused"}
  OBVIOUS
<1> HIDE DEF task, to
<1>5. Effect(r, to, run[r].before, run[r].loadedBy)
  BY <1>1, <1>3, <1>4
<1>6. QED
  BY <1>4, <1>5

LEMMA GetEffect ==
  ASSUME RunShape, NEW r \in Request, GetPipeline(r)
  PROVE  Effect(r, IF pipeline THEN "got" ELSE "loading", callCount, run[r].loadedBy)
<1> DEFINE to == IF pipeline THEN "got" ELSE "loading"
<1>1. run' = [run EXCEPT ![r].at = to, ![r].before = callCount]
  BY DEF GetPipeline
<1> HIDE DEF to
<1>2. /\ run'[r] = [run[r] EXCEPT !.at = to, !.before = callCount]
      /\ \A q \in Request \ {r} : run'[q] = run[q]
      /\ run' = [q \in Request |-> run'[q]]
  BY <1>1 DEF RunShape
<1>3. DOMAIN run'[r] = DOMAIN run[r]
  BY <1>2
<1>4. /\ run'[r].at = to /\ run'[r].before = callCount
      /\ run'[r].loadedBy = run[r].loadedBy
  BY <1>2 DEF RunShape
<1>5. RunShape'
  BY <1>2, <1>3 DEF RunShape
<1>6. QED
  BY <1>2, <1>4, <1>5 DEF Effect, to

LEMMA MeasureEffect ==
  ASSUME RunShape, NEW r \in Request, Measure(r)
  PROVE  Effect(r, "predicting", run[r].before,
                IF callCount > run[r].before THEN reboots + 1 ELSE 0)
<1> DEFINE load == IF callCount > run[r].before THEN reboots + 1 ELSE 0
<1>1. run' = [run EXCEPT ![r].at = "predicting", ![r].loadedBy = load]
  BY DEF Measure
<1> HIDE DEF load
<1>2. /\ run'[r] = [run[r] EXCEPT !.at = "predicting", !.loadedBy = load]
      /\ \A q \in Request \ {r} : run'[q] = run[q]
      /\ run' = [q \in Request |-> run'[q]]
  BY <1>1 DEF RunShape
<1>3. DOMAIN run'[r] = DOMAIN run[r]
  BY <1>2
<1>4. /\ run'[r].at = "predicting" /\ run'[r].before = run[r].before
      /\ run'[r].loadedBy = load
  BY <1>2 DEF RunShape
<1>5. RunShape'
  BY <1>2, <1>3 DEF RunShape
<1>6. QED
  BY <1>2, <1>4, <1>5 DEF Effect, load

LEMMA PredictEffect ==
  ASSUME RunShape, NEW r \in Request, Predict(r)
  PROVE  \E to \in {"answered", "raised"} :
           Effect(r, to, run[r].before, run[r].loadedBy)
<1>1. CASE run' = [run EXCEPT ![r].at = "raised"]
  BY <1>1, GoEffect
<1>2. ASSUME NEW rows, run' = [run EXCEPT ![r].at = "answered", ![r].answer = rows]
      PROVE  Effect(r, "answered", run[r].before, run[r].loadedBy)
  <2>1. /\ run'[r] = [run[r] EXCEPT !.at = "answered", !.answer = rows]
        /\ \A q \in Request \ {r} : run'[q] = run[q]
        /\ run' = [q \in Request |-> run'[q]]
    BY <1>2 DEF RunShape
  <2>2. DOMAIN run'[r] = DOMAIN run[r]
    BY <2>1
  <2>3. /\ run'[r].at = "answered" /\ run'[r].before = run[r].before
        /\ run'[r].loadedBy = run[r].loadedBy
    BY <2>1 DEF RunShape
  <2>4. RunShape'
    BY <2>1, <2>2 DEF RunShape
  <2>5. QED
    BY <2>1, <2>3, <2>4 DEF Effect
<1>3. \/ run' = [run EXCEPT ![r].at = "raised"]
      \/ \E rows : run' = [run EXCEPT ![r].at = "answered", ![r].answer = rows]
  BY DEF Predict, Go
<1>4. QED
  BY <1>1, <1>2, <1>3

--------------------------------------------------------------------------------
(* The loading, with one permit.                                            *)

(* The gate lets one call in at a time, and moves nobody out of it who      *)
(* still uses the pipeline.                                                 *)
LEMMA GateCardinality == \A S : Gate!Cardinality(S) = Cardinality(S)
BY DEF Gate!Cardinality, Cardinality

LEMMA OneEnters ==
  ASSUME Capacity = 1, WorksAlone, NEW r \in Request, Gate!Enter(r)
  PROVE  Placed = {}
<1>1. SUFFICES ASSUME NEW x \in Placed PROVE FALSE
  OBVIOUS
<1>2. Placed = {x}
  BY <1>1 DEF WorksAlone
<1>3. Cardinality(Placed) = 1
  BY <1>2, FS_Singleton
<1>4. Cardinality(Placed) < 1
  BY GateCardinality DEF Gate!Enter, Placed
<1>5. QED
  BY <1>3, <1>4

(* Runs that work are one run.                                              *)
LEMMA OneWorks ==
  ASSUME WorksAlone, NEW r \in Request, NEW s \in Request,
         run[r].at \in Working, run[s].at \in Working
  PROVE  r = s
BY DEF WorksAlone

(* A run that does not load leaves pipeline, count and reports as they are. *)
LEMMA QuietStep ==
  ASSUME PageInv, NEW r \in Request, NEW to,
         Effect(r, to, run[r].before, run[r].loadedBy),
         to \notin {"loading", "counting", "got"},
         run[r].at \notin {"loading", "counting", "got"},
         UNCHANGED <<pipeline, callCount, reboots>>
  PROVE  LoadingProgress' /\ ColdLoads'
<1>1. LoadingProgress'
  BY DEF PageInv, LoadingProgress, Effect
<1>2. \A s \in Request : run'[s].loadedBy = run[s].loadedBy
  BY DEF Effect
<1>3. \A s \in Request : run'[s].at = "got" /\ run'[s].before = 0
                           => run[s].at = "got" /\ run[s].before = 0
  BY DEF Effect
<1>4. ColdLoads'
  BY <1>2, <1>3 DEF PageInv, ColdLoads
<1>5. QED
  BY <1>1, <1>4

LEMMA PrepareStep ==
  ASSUME PageInv, NEW r \in Request, Prepare(r)
  PROVE  PageInv'
<1>1. PICK to \in {"prepared", "refused"} :
        Effect(r, to, run[r].before, run[r].loadedBy)
  BY PrepareEffect DEF PageInv
<1>2. WorksAlone'
  BY <1>1 DEF PageInv, WorksAlone, Working, Placed, Effect, Prepare, gateVars
<1>3. run[r].at = "idle" /\ UNCHANGED <<pipeline, callCount, reboots>>
  BY DEF Prepare
<1>4. LoadingProgress' /\ ColdLoads'
  BY <1>1, <1>3, QuietStep
<1>5. QED
  BY <1>1, <1>2, <1>4 DEF PageInv, Effect

LEMMA AdmitStep ==
  ASSUME Capacity = 1, PageInv, NEW r \in Request, Admit(r)
  PROVE  PageInv'
<1>1. Effect(r, "admitted", run[r].before, run[r].loadedBy)
  BY GoEffect DEF PageInv, Admit, Go
<1>2. Placed = {}
  BY OneEnters DEF PageInv, Admit
<1>3. /\ run[r].at = "prepared" /\ UNCHANGED <<pipeline, callCount, reboots, using>>
      /\ Placed' = {r}
  BY <1>2 DEF Admit, Go, Placed, Gate!Enter
<1>4. WorksAlone'
  BY <1>1, <1>2, <1>3 DEF PageInv, WorksAlone, Working, Effect
<1>5. LoadingProgress' /\ ColdLoads'
  BY <1>1, <1>3, QuietStep
<1>6. QED
  BY <1>1, <1>4, <1>5 DEF PageInv, Effect

LEMMA BeginStep ==
  ASSUME PageInv, NEW r \in Request, Begin(r)
  PROVE  PageInv'
<1>1. PICK to \in {"getting", "raised"} :
        run[r].at = "admitted" /\ run' = [run EXCEPT ![r].at = to]
  BY DEF Begin, Go
<1>2. Effect(r, to, run[r].before, run[r].loadedBy)
  BY <1>1, GoEffect DEF PageInv
<1>3. /\ UNCHANGED <<pipeline, callCount, reboots>>
      /\ Placed' = Placed /\ r \in Placed /\ using' = using \cup {r}
  BY DEF Begin, Placed, Gate!StartUsing
<1>4. WorksAlone'
  BY <1>2, <1>3 DEF PageInv, WorksAlone, Working, Effect
<1>5. LoadingProgress' /\ ColdLoads'
  BY <1>1, <1>2, <1>3, QuietStep
<1>6. QED
  BY <1>2, <1>4, <1>5 DEF PageInv, Effect

LEMMA GetPipelineStep ==
  ASSUME PageInv, NEW r \in Request, GetPipeline(r)
  PROVE  PageInv'
<1> DEFINE to == IF pipeline THEN "got" ELSE "loading"
<1>1. /\ Effect(r, to, callCount, run[r].loadedBy) /\ run[r].at = "getting"
      /\ UNCHANGED <<gateVars, pipeline, callCount, reboots>>
  BY GetEffect DEF PageInv, GetPipeline
<1>2. to \in Working /\ run[r].at \in Working
  BY <1>1 DEF Working
<1>3. \A s \in Request \ {r} : run'[s] = run[s] /\ run[s].at \notin Working
  BY <1>1, <1>2, OneWorks DEF Effect, PageInv
<1>4. WorksAlone'
  BY <1>1, <1>2 DEF PageInv, WorksAlone, Effect, gateVars, Placed
<1>5. pipeline => callCount = 1
  BY <1>1, <1>3 DEF PageInv, LoadingProgress, Working
<1>6. LoadingProgress'
  BY <1>1, <1>3, <1>5 DEF PageInv, LoadingProgress, Effect, Working
<1>7. \A s \in Request : run'[s].loadedBy = run[s].loadedBy
  BY <1>1 DEF Effect
<1>8. callCount = 0 \/ ~(\E s \in Request : run'[s].at = "got" /\ run'[s].before = 0)
  BY <1>1, <1>3 DEF Effect, Working
<1>9. ColdLoads'
  BY <1>1, <1>7, <1>8 DEF PageInv, ColdLoads
<1>10. QED
  BY <1>1, <1>4, <1>6, <1>9 DEF PageInv, Effect

LEMMA ProvideStep ==
  ASSUME PageInv, NEW r \in Request, Provide(r)
  PROVE  PageInv'
<1>1. PICK to \in {"counting", "raised"} :
        /\ run[r].at = "loading" /\ run' = [run EXCEPT ![r].at = to]
        /\ pipeline' = IF to = "counting" THEN TRUE ELSE pipeline
        /\ UNCHANGED <<gateVars, callCount, reboots>>
  BY DEF Provide, Go
<1>2. Effect(r, to, run[r].before, run[r].loadedBy)
  BY <1>1, GoEffect DEF PageInv
<1>3. \A s \in Request \ {r} : run'[s] = run[s] /\ run[s].at \notin Working
  BY <1>1, <1>2, OneWorks DEF Effect, PageInv, Working
<1>4. WorksAlone'
  BY <1>1, <1>2 DEF PageInv, WorksAlone, Working, Effect, gateVars, Placed
<1>5. LoadingProgress'
  BY <1>1, <1>2, <1>3 DEF PageInv, LoadingProgress, Effect, Working
<1>6. \A s \in Request : run'[s].loadedBy = run[s].loadedBy
  BY <1>2 DEF Effect
<1>7. callCount' = 0
  BY <1>1 DEF PageInv, LoadingProgress
<1>8. ColdLoads'
  BY <1>1, <1>6, <1>7 DEF PageInv, ColdLoads
<1>9. QED
  BY <1>2, <1>4, <1>5, <1>8 DEF PageInv, Effect

LEMMA CountStep ==
  ASSUME PageInv, NEW r \in Request, Count(r)
  PROVE  PageInv'
<1>1. /\ Effect(r, "got", run[r].before, run[r].loadedBy) /\ run[r].at = "counting"
      /\ callCount' = callCount + 1 /\ UNCHANGED <<gateVars, pipeline, reboots>>
  BY GoEffect DEF PageInv, Count, Go
<1>2. \A s \in Request \ {r} : run'[s] = run[s] /\ run[s].at \notin Working
  BY <1>1, OneWorks DEF Effect, PageInv, Working
<1>3. WorksAlone'
  BY <1>1 DEF PageInv, WorksAlone, Working, Effect, gateVars, Placed
<1>4. callCount = 0 /\ run[r].before = 0 /\ pipeline
  BY <1>1 DEF PageInv, LoadingProgress
<1>5. LoadingProgress'
  BY <1>1, <1>2, <1>4 DEF PageInv, LoadingProgress, Effect, Working
<1>6. \A s \in Request : run'[s].loadedBy = run[s].loadedBy
  BY <1>1 DEF Effect
<1>7. ColdLoads'
  BY <1>1, <1>4, <1>6 DEF PageInv, ColdLoads
<1>8. QED
  BY <1>1, <1>3, <1>5, <1>7 DEF PageInv, Effect

LEMMA MeasureStep ==
  ASSUME PageInv, NEW r \in Request, Measure(r)
  PROVE  PageInv'
<1> DEFINE load == IF callCount > run[r].before THEN reboots + 1 ELSE 0
<1>1. /\ Effect(r, "predicting", run[r].before, load) /\ run[r].at = "got"
      /\ UNCHANGED <<gateVars, pipeline, callCount, reboots>>
  BY MeasureEffect DEF PageInv, Measure
<1>2. \A s \in Request \ {r} : run'[s] = run[s] /\ run[s].at \notin Working
  BY <1>1, OneWorks DEF Effect, PageInv, Working
<1>3. WorksAlone'
  BY <1>1 DEF PageInv, WorksAlone, Working, Effect, gateVars, Placed
<1>4. callCount = 1 /\ run[r].before \in {0, 1}
  BY <1>1 DEF PageInv, LoadingProgress
<1>5. LoadingProgress'
  BY <1>1, <1>2, <1>4 DEF PageInv, LoadingProgress, Effect, Working
<1>6. ColdLoads'
  <2>1. \A s \in Request : run'[s].at # "got"
    BY <1>1, <1>2 DEF Effect, Working
  <2>2. callCount' # 0 /\ reboots' = reboots
    BY <1>1, <1>4
  <2>3. /\ run'[r].loadedBy = load
        /\ \A s \in Request \ {r} : run'[s].loadedBy = run[s].loadedBy
    BY <1>1 DEF Effect
  <2>4. \A s \in Request : load # 0 => run[s].loadedBy # load
    BY <1>1, <1>4 DEF PageInv, ColdLoads
  <2>5. reboots \in Nat /\ load \in 0 .. (reboots + 1)
    BY <1>4 DEF PageInv, ColdLoads
  <2>6. QED
    BY <2>1, <2>2, <2>3, <2>4, <2>5 DEF PageInv, ColdLoads
<1>7. QED
  BY <1>1, <1>3, <1>5, <1>6 DEF PageInv, Effect

LEMMA PredictStep ==
  ASSUME PageInv, NEW r \in Request, Predict(r)
  PROVE  PageInv'
<1>1. PICK to \in {"answered", "raised"} :
        Effect(r, to, run[r].before, run[r].loadedBy)
  BY PredictEffect DEF PageInv
<1>2. /\ run[r].at = "predicting"
      /\ UNCHANGED <<gateVars, pipeline, callCount, reboots>>
  BY DEF Predict
<1>3. WorksAlone'
  BY <1>1, <1>2 DEF PageInv, WorksAlone, Working, Effect, gateVars, Placed
<1>4. LoadingProgress' /\ ColdLoads'
  BY <1>1, <1>2, QuietStep
<1>5. QED
  BY <1>1, <1>3, <1>4 DEF PageInv, Effect

(* Returning, leaving and being given up move calls at the gate only.       *)
LEMMA GateOnlyStep ==
  ASSUME PageInv, NEW r \in Request, Return(r) \/ Leave(r) \/ GiveUp(r)
  PROVE  PageInv'
<1>1. UNCHANGED <<pipeline, callCount, run, reboots>>
  BY DEF Return, Leave, GiveUp
<1>2. RunShape' /\ LoadingProgress' /\ ColdLoads'
  BY <1>1 DEF PageInv, RunShape, LoadingProgress, ColdLoads
<1>3. WorksAlone'
  <2>1. CASE Return(r)
    BY <1>1, <2>1 DEF PageInv, WorksAlone, Working, Placed, Return, Gate!StopUsing
  <2>2. CASE Leave(r)
    BY <1>1, <2>2 DEF PageInv, WorksAlone, Working, Placed, Leave, Gate!Leave
  <2>3. CASE GiveUp(r)
    <3>1. Placed' = Placed /\ using' = using
      BY <2>3 DEF GiveUp, Gate!Keep, Placed
    <3>2. QED
      BY <1>1, <3>1 DEF PageInv, WorksAlone
  <2>4. QED
    BY <2>1, <2>2, <2>3
<1>4. QED
  BY <1>2, <1>3 DEF PageInv

(* After a reboot nobody works, and the next cold load is of a process that *)
(* no run has reported.                                                     *)
LEMMA RebootStep ==
  ASSUME PageInv, RebootProcess
  PROVE  PageInv'
<1>1. \A s \in Request :
        run'[s] = IF s \in Placed THEN [run[s] EXCEPT !.at = "lost"] ELSE run[s]
  BY DEF RebootProcess, Placed
<1>2. \A s \in Request : DOMAIN run'[s] = DOMAIN run[s]
  BY <1>1
<1>3. run' = [s \in Request |-> run'[s]]
  BY DEF RebootProcess
<1>4. RunShape'
  BY <1>2, <1>3 DEF RunShape, PageInv
<1>5. \A s \in Request : run'[s].at = IF s \in Placed THEN "lost" ELSE run[s].at
  BY <1>1 DEF PageInv, RunShape
<1>6. \A s \in Request : run'[s].loadedBy = run[s].loadedBy
  BY <1>1 DEF PageInv, RunShape
<1>7. \A s \in Request : run'[s].at \notin Working
  BY <1>5 DEF PageInv, WorksAlone, Working
<1>8. /\ Placed' = {} /\ using' = {} /\ pipeline' = FALSE /\ callCount' = 0
      /\ reboots' = reboots + 1
  BY DEF RebootProcess, Gate!Reboot, Placed
<1>9. WorksAlone'
  BY <1>7, <1>8 DEF WorksAlone
<1>10. LoadingProgress'
  BY <1>7, <1>8 DEF LoadingProgress, Working
<1>11. ColdLoads'
  <2>1. reboots' \in Nat /\ \A s \in Request : run'[s].loadedBy \in 0 .. (reboots' + 1)
    BY <1>6, <1>8 DEF PageInv, ColdLoads
  <2>2. \A s \in Request : run'[s].loadedBy # reboots' + 1
    BY <1>6, <1>8 DEF PageInv, ColdLoads
  <2>3. \A q, s \in Request :
          run'[q].loadedBy = run'[s].loadedBy /\ run'[q].loadedBy # 0 => q = s
    BY <1>6 DEF PageInv, ColdLoads
  <2>4. QED
    BY <2>1, <2>2, <2>3 DEF ColdLoads
<1>12. QED
  BY <1>4, <1>9, <1>10, <1>11 DEF PageInv

LEMMA PageInvStep ==
  ASSUME Capacity = 1, PageInv, [PageNext]_pageVars
  PROVE  PageInv'
<1>1. ASSUME NEW r \in Request, RunStep(r) PROVE PageInv'
  BY <1>1, PrepareStep, AdmitStep, BeginStep, GetPipelineStep, ProvideStep, CountStep,
     MeasureStep, PredictStep, GateOnlyStep DEF RunStep
<1>2. CASE UNCHANGED pageVars
  BY <1>2 DEF pageVars, gateVars, PageInv, RunShape, WorksAlone, Placed, LoadingProgress,
              ColdLoads
<1>3. QED
  BY <1>1, <1>2, RebootStep DEF PageNext

LEMMA PageInvInit == PageInit => PageInv
<1> SUFFICES ASSUME PageInit PROVE PageInv
  OBVIOUS
<1>1. \A r \in Request : run[r] = NewRun
  BY DEF PageInit
<1>2. RunShape
  BY <1>1 DEF PageInit, RunShape, NewRun
<1>3. \A r \in Request : run[r].at = "idle" /\ run[r].loadedBy = 0
  BY <1>1 DEF NewRun
<1>4. WorksAlone
  BY <1>3 DEF PageInit, Gate!Init, WorksAlone, Placed, Working
<1>5. callCount = 0 /\ pipeline = FALSE /\ reboots = 0
  BY DEF PageInit
<1>6. LoadingProgress
  BY <1>3, <1>5 DEF LoadingProgress
<1>7. ColdLoads
  BY <1>3, <1>5 DEF ColdLoads
<1>8. QED
  BY <1>2, <1>4, <1>6, <1>7 DEF PageInv

(* The unlocked lazy loading of the adapter (_get_pipeline) is safe behind  *)
(* the coordinator for any uploads, settings, answers of the model and      *)
(* number of reboots: one pipeline for each process, one run in the         *)
(* provider, one report of the cold load.                                   *)
THEOREM OnePipelineForEachProcess == PageSpec => []PipelineLoadedOnce
<1>1. CASE Capacity = 1
  <2>1. PageInv => PipelineLoadedOnce
    <3> SUFFICES ASSUME PageInv PROVE PipelineLoadedOnce
      OBVIOUS
    <3>1. \A r, s \in Request : run[r].at = "loading" /\ run[s].at = "loading" => r = s
      BY OneWorks DEF PageInv, Working
    <3>2. QED
      BY <3>1 DEF PageInv, LoadingProgress, ColdLoads, PipelineLoadedOnce
  <2>2. PageInv /\ [PageNext]_pageVars => PageInv'
    BY <1>1, PageInvStep
  <2>3. QED
    BY <2>1, <2>2, PageInvInit, PTL DEF PageSpec
<1>2. CASE Capacity # 1
  <2>1. PipelineLoadedOnce
    BY <1>2 DEF PipelineLoadedOnce
  <2>2. QED
    BY <2>1, PTL
<1>3. QED
  BY <1>1, <1>2

--------------------------------------------------------------------------------
(* The memory sample of a request.                                          *)

Measures == [before : Nat, peak : Nat, after : Nat, process : Nat]

SampleTypes ==
  /\ memory \in [rss : Nat, highWater : Nat]
  /\ sampler \in [at : {"new", "forecasting", "joining", "joined", "read", "stopped",
                        "recorded"},
                  running : BOOLEAN, gaveUp : BOOLEAN, measured : Measures]
  /\ thread \in [at : {"ended", "awake", "polling", "reading"}, reading : Nat]
  /\ sample \in Measures

(* Everything read of the process is within its high-water mark.            *)
WithinHighWater ==
  /\ memory.rss <= memory.highWater
  /\ thread.reading <= memory.highWater
  /\ sampler.measured.before <= sampler.measured.peak
  /\ sampler.measured.peak <= memory.highWater
  /\ sampler.measured.after <= memory.highWater

(* A thread that was waited for to the end has made its last comparison.    *)
NoLateReading ==
  sampler.at \in {"joined", "read", "stopped", "recorded"} /\ ~sampler.gaveUp
    => thread.at = "ended"

(* What is read last of all bounds the rest.                                *)
ProcessPeakIsLast ==
  sampler.at = "stopped" =>
    /\ sampler.measured.after <= sampler.measured.process
    /\ sampler.measured.peak <= sampler.measured.process \/ sampler.gaveUp

SampleInv ==
  SampleTypes /\ WithinHighWater /\ NoLateReading /\ ProcessPeakIsLast
    /\ SampleIsOfTheRequest

LEMMA SampleTypeStep == SampleTypes /\ [SampleNext]_sampleVars => SampleTypes'
<1> SUFFICES ASSUME SampleTypes, [SampleNext]_sampleVars PROVE SampleTypes'
  OBVIOUS
<1> USE RssAssumption DEF SampleTypes, Measures, NoSample
<1>1. CASE Allocate
  BY <1>1 DEF Allocate, Larger
<1>2. CASE StartSampling
  BY <1>2 DEF StartSampling
<1>3. CASE Poll
  BY <1>3 DEF Poll
<1>4. CASE ReadRss
  BY <1>4 DEF ReadRss
<1>5. CASE Compare
  BY <1>5 DEF Compare, Larger
<1>6. CASE StopSampling
  BY <1>6 DEF StopSampling
<1>7. CASE Join
  BY <1>7 DEF Join
<1>8. CASE ReadAfter
  BY <1>8 DEF ReadAfter
<1>9. CASE ReadProcessPeak
  BY <1>9 DEF ReadProcessPeak
<1>10. CASE ToSample
  BY <1>10 DEF ToSample
<1>11. CASE UNCHANGED sampleVars
  BY <1>11 DEF sampleVars
<1>12. QED
  BY <1>1, <1>2, <1>3, <1>4, <1>5, <1>6, <1>7, <1>8, <1>9, <1>10, <1>11 DEF SampleNext

LEMMA HighWaterStep ==
  SampleTypes /\ WithinHighWater /\ [SampleNext]_sampleVars => WithinHighWater'
<1> SUFFICES ASSUME SampleTypes, WithinHighWater, [SampleNext]_sampleVars
             PROVE  WithinHighWater'
  OBVIOUS
<1> USE RssAssumption DEF SampleTypes, Measures, WithinHighWater
<1>1. CASE Allocate
  BY <1>1 DEF Allocate, Larger
<1>2. CASE StartSampling
  <2>1. /\ sampler'.measured.before = memory.rss
        /\ sampler'.measured.peak = memory.rss
        /\ sampler'.measured.after = sampler.measured.after
    BY <1>2 DEF StartSampling
  <2>2. memory' = memory /\ thread'.reading = thread.reading
    BY <1>2 DEF StartSampling
  <2>3. QED
    BY <2>1, <2>2
<1>3. CASE Poll
  BY <1>3 DEF Poll
<1>4. CASE ReadRss
  BY <1>4 DEF ReadRss
<1>5. CASE Compare
  BY <1>5 DEF Compare, Larger
<1>6. CASE StopSampling
  BY <1>6 DEF StopSampling
<1>7. CASE Join
  BY <1>7 DEF Join
<1>8. CASE ReadAfter
  BY <1>8 DEF ReadAfter
<1>9. CASE ReadProcessPeak
  BY <1>9 DEF ReadProcessPeak
<1>10. CASE ToSample
  BY <1>10 DEF ToSample
<1>11. CASE UNCHANGED sampleVars
  BY <1>11 DEF sampleVars
<1>12. QED
  BY <1>1, <1>2, <1>3, <1>4, <1>5, <1>6, <1>7, <1>8, <1>9, <1>10, <1>11 DEF SampleNext

LEMMA LateReadingStep ==
  SampleTypes /\ NoLateReading /\ [SampleNext]_sampleVars => NoLateReading'
<1> SUFFICES ASSUME SampleTypes, NoLateReading, [SampleNext]_sampleVars
             PROVE  NoLateReading'
  OBVIOUS
<1> USE DEF SampleTypes, NoLateReading
<1>1. CASE Allocate
  BY <1>1 DEF Allocate
<1>2. CASE StartSampling
  BY <1>2 DEF StartSampling
<1>3. CASE Poll
  BY <1>3 DEF Poll
<1>4. CASE ReadRss
  BY <1>4 DEF ReadRss
<1>5. CASE Compare
  BY <1>5 DEF Compare
<1>6. CASE StopSampling
  BY <1>6 DEF StopSampling
<1>7. CASE Join
  BY <1>7 DEF Join
<1>8. CASE ReadAfter
  BY <1>8 DEF ReadAfter
<1>9. CASE ReadProcessPeak
  BY <1>9 DEF ReadProcessPeak
<1>10. CASE ToSample
  BY <1>10 DEF ToSample
<1>11. CASE UNCHANGED sampleVars
  BY <1>11 DEF sampleVars
<1>12. QED
  BY <1>1, <1>2, <1>3, <1>4, <1>5, <1>6, <1>7, <1>8, <1>9, <1>10, <1>11 DEF SampleNext

LEMMA ProcessPeakStep ==
  SampleInv /\ [SampleNext]_sampleVars => ProcessPeakIsLast'
<1> SUFFICES ASSUME SampleInv, [SampleNext]_sampleVars PROVE ProcessPeakIsLast'
  OBVIOUS
<1> USE DEF SampleInv, SampleTypes, Measures, WithinHighWater, NoLateReading,
            ProcessPeakIsLast
<1>1. CASE Allocate
  BY <1>1 DEF Allocate
<1>2. CASE StartSampling
  BY <1>2 DEF StartSampling
<1>3. CASE Poll
  BY <1>3 DEF Poll
<1>4. CASE ReadRss
  BY <1>4 DEF ReadRss
<1>5. CASE Compare
  BY <1>5 DEF Compare
<1>6. CASE StopSampling
  BY <1>6 DEF StopSampling
<1>7. CASE Join
  BY <1>7 DEF Join
<1>8. CASE ReadAfter
  BY <1>8 DEF ReadAfter
<1>9. CASE ReadProcessPeak
  BY <1>9 DEF ReadProcessPeak
<1>10. CASE ToSample
  BY <1>10 DEF ToSample
<1>11. CASE UNCHANGED sampleVars
  BY <1>11 DEF sampleVars
<1>12. QED
  BY <1>1, <1>2, <1>3, <1>4, <1>5, <1>6, <1>7, <1>8, <1>9, <1>10, <1>11 DEF SampleNext

LEMMA SampleStep ==
  SampleInv /\ [SampleNext]_sampleVars => SampleIsOfTheRequest'
<1> SUFFICES ASSUME SampleInv, [SampleNext]_sampleVars PROVE SampleIsOfTheRequest'
  OBVIOUS
<1> USE DEF SampleInv, SampleTypes, Measures, WithinHighWater, ProcessPeakIsLast,
            SampleIsOfTheRequest
<1>1. CASE Allocate
  BY <1>1 DEF Allocate
<1>2. CASE StartSampling
  BY <1>2 DEF StartSampling
<1>3. CASE Poll
  BY <1>3 DEF Poll
<1>4. CASE ReadRss
  BY <1>4 DEF ReadRss
<1>5. CASE Compare
  BY <1>5 DEF Compare
<1>6. CASE StopSampling
  BY <1>6 DEF StopSampling
<1>7. CASE Join
  BY <1>7 DEF Join
<1>8. CASE ReadAfter
  BY <1>8 DEF ReadAfter
<1>9. CASE ReadProcessPeak
  BY <1>9 DEF ReadProcessPeak
<1>10. CASE ToSample
  BY <1>10 DEF ToSample
<1>11. CASE UNCHANGED sampleVars
  BY <1>11 DEF sampleVars
<1>12. QED
  BY <1>1, <1>2, <1>3, <1>4, <1>5, <1>6, <1>7, <1>8, <1>9, <1>10, <1>11 DEF SampleNext

(* The memory figures of a request's record fit each other whatever the     *)
(* process allocates meanwhile and wherever the sampler's thread is when    *)
(* stop() is called (RequestMemorySampler).                                 *)
THEOREM SampleFitsTogether == SampleSpec => []SampleIsOfTheRequest
<1>1. SampleInit => SampleInv
  BY RssAssumption DEF SampleInit, SampleInv, SampleTypes, Measures, NoSample,
     WithinHighWater, NoLateReading, ProcessPeakIsLast, SampleIsOfTheRequest
<1>2. SampleInv /\ [SampleNext]_sampleVars => SampleInv'
  BY SampleTypeStep, HighWaterStep, LateReadingStep, ProcessPeakStep, SampleStep
     DEF SampleInv
<1>3. SampleInv => SampleIsOfTheRequest
  BY DEF SampleInv
<1>4. QED
  BY <1>1, <1>2, <1>3, PTL DEF SampleSpec

--------------------------------------------------------------------------------
(* The form uses the offered file, for any set of files.  What makes it so  *)
(* is that outside of its bookkeeping the digest stands for the table: both *)
(* are of the same readable file, or there is neither.                      *)

Readable == File \ (Oversized \cup Unreadable)

Place == {"top", "noting", "uploader", "too large", "shown"} \cup Bookkeeping

FormRecord ==
  [option : DataOption, offered : File \cup {NoFile}, last : DataOption \cup {NoFile},
   cached : File \cup {NoFile}, columns : File \cup {NoFile}, hash : File \cup {NoFile},
   at : Place, brokenOff : BOOLEAN]

FormType == form \in FormRecord

(* Outside of the bookkeeping.                                              *)
DigestStandsForTable ==
  form.brokenOff \/ form.at \in Bookkeeping
    \/ /\ form.hash \in Readable \cup {NoFile}
       /\ form.cached = form.hash
       /\ form.cached # NoFile => form.columns = form.cached

(* Within it.                                                               *)
BookkeepingProgress ==
  /\ form.at \in {"resetting", "noting", "dropping"} => form.cached = NoFile
  /\ form.at = "noting" => form.hash = NoFile
  /\ form.at \in {"parsing", "unreadable"} =>
       form.hash = form.offered /\ form.offered \in Readable \cup Unreadable
  /\ form.at = "columns" =>
       form.offered \in Readable /\ form.cached = form.offered /\ form.hash = form.offered
  /\ form.at = "too large" => form.offered \in Oversized
  /\ form.at = "unreadable" => form.offered \in Unreadable
  /\ form.at = "dropping" => form.offered \in Oversized \cup Unreadable

(* The source, and what the script has seen to when the form is shown.      *)
SourceIsNoted ==
  /\ form.option = "Use demo data" => form.offered = NoFile
  /\ form.last # "Upload CSV" => form.cached = NoFile
  /\ form.at \notin {"top", "resetting", "noting"} => form.last = form.option
  /\ form.at = "shown" /\ form.offered \in Oversized => form.cached = NoFile
  /\ form.at = "shown" /\ form.offered \in Readable /\ ~form.brokenOff =>
       form.hash = form.offered
  /\ form.at = "shown" /\ form.offered \in Unreadable /\ ~form.brokenOff =>
       form.cached = NoFile

FormInv ==
  FormType /\ DigestStandsForTable /\ BookkeepingProgress /\ SourceIsNoted

--------------------------------------------------------------------------------
(* The invariant holds when the page is opened.                             *)
LEMMA FormInitially == FormInit => FormInv
<1> SUFFICES ASSUME FormInit
             PROVE  FormInv
  OBVIOUS
<1>1. FormType
  BY DEF FormInit, FormType, FormRecord, DataOption, Place
<1>2. DigestStandsForTable
  BY DEF FormInit, DigestStandsForTable
<1>3. BookkeepingProgress
  BY DEF FormInit, BookkeepingProgress
<1>4. SourceIsNoted
  BY FormAssumption DEF FormInit, SourceIsNoted
<1>5. QED
  BY <1>1, <1>2, <1>3, <1>4 DEF FormInv

(* Every step keeps it.                                                     *)
LEMMA FormStep == FormInv /\ [FormNext]_form => FormInv'
<1> SUFFICES ASSUME FormInv, [FormNext]_form
             PROVE  FormInv'
  OBVIOUS
<1> USE FormAssumption DEF FormInv, FormType, FormRecord, DigestStandsForTable,
        BookkeepingProgress, SourceIsNoted, DataOption, Readable, Place, Bookkeeping
<1>1. CASE Interact
  <2>1. PICK option \in DataOption, file \in File \cup {NoFile} :
          /\ option = "Use demo data" => file = NoFile
          /\ form' = [form EXCEPT !.option = option, !.offered = file, !.at = "top",
                        !.brokenOff = @ \/ form.at \in Bookkeeping]
    BY <1>1 DEF Interact
  <2>2. FormType'
    BY <2>1
  <2>3. CASE form.brokenOff \/ form.at \in Bookkeeping
    BY <2>1, <2>2, <2>3
  <2>4. CASE ~form.brokenOff /\ form.at \notin Bookkeeping
    BY <2>1, <2>2, <2>4
  <2>5. QED
    BY <2>3, <2>4
<1>2. CASE CompareSource
  BY <1>2 DEF CompareSource
<1>3. CASE ResetHash
  BY <1>3 DEF ResetHash
<1>4. CASE NoteSource
  BY <1>4 DEF NoteSource
<1>5. CASE Upload
  <2>1. CASE form.offered \in Oversized
    <3>1. form' = [form EXCEPT !.at = "too large"]
      BY <1>5, <2>1 DEF Upload
    <3>2. QED
      BY <3>1, <2>1, <1>5 DEF Upload
  <2>2. CASE form.offered \notin Oversized /\ form.offered \in {NoFile, form.hash}
    <3>1. form' = [form EXCEPT !.at = "shown"]
      BY <1>5, <2>2 DEF Upload
    <3>2. QED
      BY <3>1, <2>2, <1>5 DEF Upload
  <2>3. CASE form.offered \notin Oversized /\ form.offered \notin {NoFile, form.hash}
    <3>1. form' = [form EXCEPT !.hash = form.offered, !.at = "parsing"]
      BY <1>5, <2>3 DEF Upload
    <3>2. QED
      BY <3>1, <2>3, <1>5 DEF Upload
  <2>4. QED
    BY <2>1, <2>2, <2>3
<1>6. CASE Parse
  BY <1>6 DEF Parse
<1>7. CASE NoteColumns
  BY <1>7 DEF NoteColumns
<1>8. CASE Drop
  BY <1>8 DEF Drop
<1>9. CASE DropHash
  BY <1>9 DEF DropHash
<1>10. CASE UNCHANGED form
  BY <1>10
<1>11. QED
  BY <1>1, <1>2, <1>3, <1>4, <1>5, <1>6, <1>7, <1>8, <1>9, <1>10 DEF FormNext

(* The invariant is what the form promises.                                 *)
LEMMA FormImplies == FormInv => FormUsesTheOfferedFile
BY FormAssumption DEF FormInv, FormType, FormRecord, DigestStandsForTable,
   BookkeepingProgress, SourceIsNoted, DataOption, Readable, Place, Bookkeeping,
   FormUsesTheOfferedFile

(* Whatever is offered, removed and refused, in any order, the next run     *)
(* forecasts the file the form shows, unless a script was stopped between   *)
(* digest and table (the sidebar of src/pages/1_Forecast.py).               *)
THEOREM FormIsTruthful == FormSpec => []FormUsesTheOfferedFile
<1>1. FormSpec => []FormInv
  BY FormInitially, FormStep, PTL DEF FormSpec
<1>2. QED
  BY <1>1, FormImplies, PTL

--------------------------------------------------------------------------------
(* From the upload to the answer: a run is prepared as PagePrepare says,    *)
(* keeps its task, and is answered only with what the adapter accepts.      *)

PreparedOf(x) == PagePrepare(x.upload, x.settings.horizon, x.settings.quantiles)

RunIsPrepared(x) ==
  /\ DOMAIN x = {"at", "upload", "settings", "task", "before", "loadedBy", "answer"}
  /\ x.at # "idle" => x.upload \in Uploads /\ x.task = PreparedOf(x).task
  /\ x.at \notin {"idle", "refused", "lost"} => PreparedOf(x).error = Missing
  /\ x.at = "answered" => \E out \in ModelOutput :
                            AcceptsOutput(x.task, out) /\ x.answer = out.rows

TaskInv ==
  /\ run = [r \in Request |-> run[r]]
  /\ \A r \in Request : RunIsPrepared(run[r])
  /\ \A r \in Request : r \in inside \cup kept => run[r].at # "idle"

(* At most this run takes a permit in a step.                               *)
NobodyElseEnters(r) ==
  \A s \in Request : s \in (inside \cup kept)' => s \in inside \cup kept \/ s = r

(* A step that leaves what was prepared alone.                              *)
LEMMA StaysPrepared ==
  ASSUME NEW x, NEW y, RunIsPrepared(x), DOMAIN y = DOMAIN x,
         y.upload = x.upload, y.settings = x.settings, y.task = x.task, y.answer = x.answer,
         x.at # "idle",
         y.at \in {"refused", "lost"} \/ x.at \notin {"idle", "refused", "lost"},
         y.at # "answered" \/ x.at = "answered"
  PROVE  RunIsPrepared(y)
<1>1. PreparedOf(y) = PreparedOf(x)
  BY DEF PreparedOf
<1>2. QED
  BY <1>1 DEF RunIsPrepared

(* One run moves on, and no other.                                          *)
LEMMA OneMoves ==
  ASSUME TaskInv, NEW r \in Request, NEW y, run' = [run EXCEPT ![r] = y],
         RunIsPrepared(y), y.at # "idle",
         NobodyElseEnters(r)
  PROVE  TaskInv'
<1>1. run' = [s \in Request |-> IF s = r THEN y ELSE run[s]]
  BY DEF TaskInv
<1>2. \A s \in Request : run'[s] = IF s = r THEN y ELSE run[s]
  BY <1>1
<1>3. (\A s \in Request : RunIsPrepared(run'[s])) /\ run' = [s \in Request |-> run'[s]]
  BY <1>1, <1>2 DEF TaskInv
<1>4. \A s \in Request : s \in (inside \cup kept)' => run'[s].at # "idle"
  BY <1>2 DEF TaskInv, NobodyElseEnters
<1>5. QED
  BY <1>3, <1>4 DEF TaskInv

(* A step from one place to another that changes at most the figures of the *)
(* loading.                                                                 *)
GoesTo(r, to, before, load) ==
  run' = [run EXCEPT ![r] = [run[r] EXCEPT !.at = to, !.before = before, !.loadedBy = load]]

LEMMA OneGoesOn ==
  ASSUME TaskInv, NEW r \in Request, NEW to, NEW before, NEW load,
         GoesTo(r, to, before, load),
         run[r].at \notin {"idle", "refused", "lost"}, to \notin {"idle", "answered"},
         NobodyElseEnters(r)
  PROVE  TaskInv'
<1> DEFINE x == run[r]
           y == [x EXCEPT !.at = to, !.before = before, !.loadedBy = load]
<1>1. RunIsPrepared(x)
  BY DEF TaskInv
<1>2. /\ DOMAIN y = DOMAIN x /\ y.at = to
      /\ y.upload = x.upload /\ y.settings = x.settings /\ y.task = x.task
      /\ y.answer = x.answer
  BY <1>1 DEF RunIsPrepared
<1>3. run' = [run EXCEPT ![r] = y]
  BY DEF GoesTo
<1>4. x.at # "idle" /\ x.at \notin {"idle", "refused", "lost"} /\ y.at # "answered"
      /\ y.at # "idle"
  BY <1>2
<1> HIDE DEF x, y
<1>5. RunIsPrepared(y)
  BY <1>1, <1>2, <1>4, StaysPrepared
<1>6. QED
  BY <1>3, <1>4, <1>5, OneMoves

LEMMA GoOn ==
  ASSUME TaskInv, NEW r \in Request, NEW from, NEW to, Go(r, from, to),
         from \notin {"idle", "refused", "lost"}, to \notin {"idle", "answered"},
         NobodyElseEnters(r)
  PROVE  TaskInv'
<1> DEFINE before == run[r].before
           load == run[r].loadedBy
<1>1. RunIsPrepared(run[r])
  BY DEF TaskInv
<1>2. [run[r] EXCEPT !.at = to] =
      [run[r] EXCEPT !.at = to, !.before = before, !.loadedBy = load]
  BY <1>1 DEF RunIsPrepared
<1>3. run[r].at = from /\ run' = [run EXCEPT ![r] = [run[r] EXCEPT !.at = to]]
  BY DEF Go
<1>4. GoesTo(r, to, before, load)
  BY <1>2, <1>3 DEF GoesTo
<1> HIDE DEF before, load
<1>5. QED
  BY <1>3, <1>4, OneGoesOn

LEMMA PreparePrepares ==
  ASSUME TaskInv, NEW r \in Request, Prepare(r)
  PROVE  TaskInv'
<1>1. PICK u \in Uploads, s \in Settings :
        run' = [run EXCEPT ![r].upload = u, ![r].settings = s,
                  ![r].task = PagePrepare(u, s.horizon, s.quantiles).task,
                  ![r].at = IF PagePrepare(u, s.horizon, s.quantiles).error = Missing
                            THEN "prepared" ELSE "refused"]
  BY DEF Prepare
<1> DEFINE prepared == PagePrepare(u, s.horizon, s.quantiles)
           to == IF prepared.error = Missing THEN "prepared" ELSE "refused"
           y == [run[r] EXCEPT !.upload = u, !.settings = s, !.task = prepared.task, !.at = to]
<1>2. run' = [run EXCEPT ![r].upload = u, ![r].settings = s, ![r].task = prepared.task,
                ![r].at = to]
  BY <1>1
<1>3. to \in {"prepared", "refused"} /\ (to # "refused" => prepared.error = Missing)
  OBVIOUS
<1>4. RunIsPrepared(run[r])
  BY DEF TaskInv
<1> HIDE DEF prepared, to
<1>5. run' = [run EXCEPT ![r] = y]
  BY <1>2 DEF TaskInv
<1>6. /\ DOMAIN y = DOMAIN run[r] /\ y.at = to
      /\ y.upload = u /\ y.settings = s /\ y.task = prepared.task
  BY <1>4 DEF RunIsPrepared
<1> HIDE DEF y
<1>7. PreparedOf(y) = prepared
  BY <1>6 DEF PreparedOf, prepared
<1>8. RunIsPrepared(y)
  BY <1>3, <1>4, <1>6, <1>7 DEF RunIsPrepared
<1>9. NobodyElseEnters(r)
  BY DEF Prepare, gateVars, NobodyElseEnters
<1>10. QED
  BY <1>3, <1>5, <1>6, <1>8, <1>9, OneMoves

LEMMA PredictPrepares ==
  ASSUME TaskInv, NEW r \in Request, Predict(r)
  PROVE  TaskInv'
<1>1. run[r].at = "predicting" /\ UNCHANGED <<inside, kept>>
  BY DEF Predict, gateVars
<1> NobodyElseEnters(r)
  BY <1>1 DEF NobodyElseEnters
<1>2. CASE run' = [run EXCEPT ![r].at = "raised"]
  <2>1. Go(r, "predicting", "raised")
    BY <1>1, <1>2 DEF Go
  <2>2. QED
    BY <1>1, <2>1, GoOn
<1>3. CASE \E out \in ModelOutput :
             /\ AcceptsOutput(run[r].task, out)
             /\ run' = [run EXCEPT ![r].at = "answered", ![r].answer = out.rows]
  <2>1. PICK out \in ModelOutput :
             /\ AcceptsOutput(run[r].task, out)
             /\ run' = [run EXCEPT ![r].at = "answered", ![r].answer = out.rows]
    BY <1>3
  <2> DEFINE x == run[r]
             y == [x EXCEPT !.at = "answered", !.answer = out.rows]
  <2>2. RunIsPrepared(x) /\ run' = [run EXCEPT ![r] = y]
    BY <2>1 DEF TaskInv
  <2>3. /\ DOMAIN y = DOMAIN x /\ y.at = "answered" /\ y.answer = out.rows
        /\ y.upload = x.upload /\ y.settings = x.settings /\ y.task = x.task
    BY <2>2 DEF RunIsPrepared
  <2>4. AcceptsOutput(x.task, out) /\ x.at = "predicting"
    BY <1>1, <2>1
  <2> HIDE DEF x, y
  <2>5. PreparedOf(y) = PreparedOf(x)
    BY <2>3 DEF PreparedOf
  <2>6. RunIsPrepared(y)
    BY <2>2, <2>3, <2>4, <2>5 DEF RunIsPrepared
  <2>7. y.at # "idle"
    BY <2>3
  <2>8. QED
    BY <1>1, <2>2, <2>6, <2>7, OneMoves
<1>4. QED
  BY <1>2, <1>3 DEF Predict, Go

LEMMA RebootPrepares ==
  ASSUME TaskInv, RebootProcess
  PROVE  TaskInv'
<1>1. /\ run' = [s \in Request |-> IF s \in inside \cup kept THEN [run[s] EXCEPT !.at = "lost"]
                                   ELSE run[s]]
      /\ inside' = {} /\ kept' = {}
  BY DEF RebootProcess, Gate!Reboot
<1>2. ASSUME NEW s \in Request PROVE RunIsPrepared(run'[s])
  <2> DEFINE x == run[s]
             y == [x EXCEPT !.at = "lost"]
  <2>1. RunIsPrepared(x)
    BY DEF TaskInv
  <2>2. CASE s \notin inside \cup kept
    BY <1>1, <2>1, <2>2
  <2>3. CASE s \in inside \cup kept
    <3>1. run'[s] = y /\ x.at # "idle"
      BY <1>1, <2>3 DEF TaskInv
    <3>2. /\ DOMAIN y = DOMAIN x /\ y.at = "lost"
          /\ y.upload = x.upload /\ y.settings = x.settings /\ y.task = x.task
          /\ y.answer = x.answer
      BY <2>1 DEF RunIsPrepared
    <3> HIDE DEF x, y
    <3>3. RunIsPrepared(y)
      BY <2>1, <3>1, <3>2, StaysPrepared
    <3>4. QED
      BY <3>1, <3>3
  <2>4. QED
    BY <2>2, <2>3
<1>3. QED
  BY <1>1, <1>2 DEF TaskInv

LEMMA TaskInvStep ==
  ASSUME TaskInv, [PageNext]_pageVars
  PROVE  TaskInv'
<1>1. ASSUME NEW r \in Request, RunStep(r) PROVE TaskInv'
  <2>1. CASE Prepare(r)
    BY <2>1, PreparePrepares
  <2>2. CASE Admit(r)
    <3>1. Go(r, "prepared", "admitted") /\ inside' = inside \cup {r} /\ kept' = kept
      BY <2>2 DEF Admit, Gate!Enter
    <3>2. NobodyElseEnters(r)
      BY <3>1 DEF NobodyElseEnters
    <3>3. QED
      BY <3>1, <3>2, GoOn
  <2>3. CASE Begin(r)
    <3>1. PICK to \in {"getting", "raised"} : Go(r, "admitted", to)
      BY <2>3 DEF Begin
    <3>2. NobodyElseEnters(r)
      BY <2>3 DEF Begin, Gate!StartUsing, NobodyElseEnters
    <3>3. QED
      BY <3>1, <3>2, GoOn
  <2>4. CASE GetPipeline(r)
    <3> DEFINE to == IF pipeline THEN "got" ELSE "loading"
               before == callCount
               load == run[r].loadedBy
    <3>1. run' = [run EXCEPT ![r].at = to, ![r].before = callCount]
          /\ NobodyElseEnters(r) /\ run[r].at = "getting"
      BY <2>4 DEF GetPipeline, gateVars, NobodyElseEnters
    <3>2. to \in {"got", "loading"}
      OBVIOUS
    <3> HIDE DEF to
    <3>3. GoesTo(r, to, before, load)
      BY <3>1 DEF TaskInv, RunIsPrepared, GoesTo
    <3> HIDE DEF before, load
    <3>4. QED
      BY <3>1, <3>2, <3>3, OneGoesOn
  <2>5. CASE Provide(r)
    <3>1. PICK to \in {"counting", "raised"} : Go(r, "loading", to)
      BY <2>5 DEF Provide
    <3>2. NobodyElseEnters(r)
      BY <2>5 DEF Provide, gateVars, NobodyElseEnters
    <3>3. QED
      BY <3>1, <3>2, GoOn
  <2>6. CASE Count(r)
    <3>1. Go(r, "counting", "got") /\ NobodyElseEnters(r)
      BY <2>6 DEF Count, gateVars, NobodyElseEnters
    <3>2. QED
      BY <3>1, GoOn
  <2>7. CASE Measure(r)
    <3> DEFINE before == run[r].before
               load == IF callCount > before THEN reboots + 1 ELSE 0
    <3>1. run' = [run EXCEPT ![r].at = "predicting", ![r].loadedBy = load]
          /\ NobodyElseEnters(r) /\ run[r].at = "got"
      BY <2>7 DEF Measure, gateVars, NobodyElseEnters
    <3> HIDE DEF load
    <3>2. GoesTo(r, "predicting", before, load)
      BY <3>1 DEF TaskInv, RunIsPrepared, GoesTo
    <3> HIDE DEF before
    <3>3. QED
      BY <3>1, <3>2, OneGoesOn
  <2>8. CASE Predict(r)
    BY <2>8, PredictPrepares
  <2>9. CASE Return(r) \/ Leave(r) \/ GiveUp(r)
    <3>1. run' = run /\ (inside \cup kept)' \subseteq inside \cup kept
      BY <2>9 DEF Return, Leave, GiveUp, Gate!StopUsing, Gate!Leave, Gate!Keep
    <3>2. QED
      BY <3>1 DEF TaskInv
  <2>10. QED
    BY <1>1, <2>1, <2>2, <2>3, <2>4, <2>5, <2>6, <2>7, <2>8, <2>9 DEF RunStep
<1>2. CASE UNCHANGED pageVars
  BY <1>2 DEF pageVars, gateVars, TaskInv
<1>3. QED
  BY <1>1, <1>2, RebootPrepares DEF PageNext

LEMMA TaskInvInit == PageInit => TaskInv
<1> SUFFICES ASSUME PageInit PROVE TaskInv
  OBVIOUS
<1>1. /\ \A r \in Request : run[r] = NewRun
      /\ run = [r \in Request |-> run[r]] /\ inside = {} /\ kept = {}
  BY DEF PageInit, Gate!Init
<1>2. RunIsPrepared(NewRun)
  BY DEF RunIsPrepared, NewRun
<1>3. QED
  BY <1>1, <1>2 DEF TaskInv

LEMMA TasksArePrepared == PageSpec => []TaskInv
<1>1. TaskInv /\ [PageNext]_pageVars => TaskInv'
  BY TaskInvStep
<1>2. QED
  BY <1>1, TaskInvInit, PTL DEF PageSpec

--------------------------------------------------------------------------------
(* The two preparations.                                                    *)

(* Theorem.  Whatever table is uploaded and whatever is asked for: what the *)
(* ingestion pipeline accepts the page accepts too, and both make the same  *)
(* task of it, but for the frequency, which only the pipeline resolves.     *)
THEOREM BothPrepareTheSame == PageSpec => []PageAgreesWithPipeline
<1>1. ASSUME NEW u, NEW h, NEW q, RunIngestionPipeline(u, h, q).task # Missing
      PROVE  PagePrepare(u, h, q).task =
               [RunIngestionPipeline(u, h, q).task EXCEPT !.frequency = Missing]
  <2> DEFINE rows == Latest(SortValues(u.rows))
             issues == IF PrepareError(u) # Missing THEN {Issue("ERROR", PrepareError(u))}
                       ELSE ValidatePreparedDataframe(rows, Len(u.rows))
             task == ForecastTask(u, rows, h, q, InferFrequency(rows))
  <2>1. /\ ~IsBlocking(issues) /\ TaskError(rows, h, q) = Missing
        /\ RunIngestionPipeline(u, h, q).task = task
    <3> DEFINE raises == IF InferFrequencyRaises(rows) THEN "too few dates"
                         ELSE TaskError(rows, h, q)
    <3>1. ~IsBlocking(issues) /\ raises = Missing /\ RunIngestionPipeline(u, h, q).task = task
      BY <1>1 DEF RunIngestionPipeline
    <3>2. QED
      BY <3>1, InputAssumption
  <2>2. PrepareError(u) = Missing
    BY <2>1 DEF IsBlocking, Issue
  <2>3. SelectsExisting(u) /\ SelectsDistinct(u) /\ TimesError(u) = Missing
    BY <2>2, InputAssumption DEF PrepareError
  <2>4. ~(q = <<>> \/ ~(Range(q) \subseteq QuantileRange))
    BY <2>1, InputAssumption DEF TaskError
  <2>5. PageRetained(u.rows) = rows
    BY DEF PageRetained
  <2>6. [task EXCEPT !.frequency = Missing] = ForecastTask(u, rows, h, q, Missing)
    BY DEF ForecastTask
  <2> HIDE DEF rows, issues, task
  <2>7. PagePrepare(u, h, q).task = ForecastTask(u, rows, h, q, Missing)
    BY <2>1, <2>3, <2>4, <2>5 DEF PagePrepare
  <2>8. QED
    BY <2>1, <2>6, <2>7
<1>2. TaskInv => PageAgreesWithPipeline
  BY <1>1 DEF TaskInv, RunIsPrepared, PreparedOf, PageAgreesWithPipeline
<1>3. QED
  BY <1>2, TasksArePrepared, PTL

--------------------------------------------------------------------------------
(* The answer.                                                              *)

(* What the adapter accepts is a path as far as its rows have a time.       *)
LEMMA AcceptedIsAPath ==
  ASSUME NEW task, NEW out \in ModelOutput, AcceptsOutput(task, out)
  PROVE  /\ Len(out.rows) = task.horizon
         /\ \A i \in DOMAIN out.rows : out.rows[i].item = out.rows[1].item
         /\ \A i, j \in DOMAIN out.rows : i # j => out.rows[i].time # out.rows[j].time
         /\ \A i, j \in DOMAIN out.rows :
              i < j /\ Timed(out.rows, j) => out.rows[i].time < out.rows[j].time
         /\ \A i \in DOMAIN out.rows :
              Timed(out.rows, i) => /\ {out.rows[1].time, out.rows[i].time} \subseteq Int
                                    /\ out.rows[1].time <= out.rows[i].time
<1> DEFINE rows == out.rows
           n == Len(rows)
<1>1. /\ n \in Nat /\ DOMAIN rows = 1 .. n
      /\ \A i \in 1 .. n : rows[i].time \in Int \cup {NaT, Unparseable, Missing}
  <2>1. /\ rows \in Seq(Range(rows))
        /\ \A row \in Range(rows) : row.time \in Int \cup {NaT, Unparseable, Missing}
    BY PageAssumption
  <2>2. n \in Nat /\ DOMAIN rows = 1 .. n
    BY <2>1, LenProperties
  <2>3. QED
    BY <2>1, <2>2 DEF Range
<1>2. /\ n = task.horizon
      /\ \A i \in DOMAIN rows : rows[i].item = rows[1].item
      /\ \A i, j \in DOMAIN rows :
           rows[i].item = rows[j].item /\ rows[i].time = rows[j].time => i = j
      /\ \A i \in DOMAIN rows : rows[i].time \notin {Missing, Unparseable}
      /\ \A i \in 1 .. (n - 1) : ~Before(rows[i + 1].time, rows[i].time)
  BY DEF AcceptsOutput, TimesInOrder
<1> HIDE DEF rows, n
<1>3. \A i, j \in DOMAIN rows : i # j => rows[i].time # rows[j].time
  <2> SUFFICES ASSUME NEW i \in DOMAIN rows, NEW j \in DOMAIN rows, rows[i].time = rows[j].time
               PROVE  i = j
    OBVIOUS
  <2>1. rows[i].item = rows[j].item
    BY <1>2
  <2>2. QED
    BY <1>2, <2>1
<1>4. ASSUME NEW j \in DOMAIN rows, Timed(rows, j)
      PROVE  /\ \A i \in 1 .. j : rows[i].time \in Int
             /\ \A i \in 1 .. j : rows[i].time <= rows[j].time
             /\ rows[1].time <= rows[j].time
  <2> DEFINE time == [i \in 1 .. j |-> rows[i].time]
  <2>1. j \in Nat /\ 1 \in 1 .. j /\ j \in 1 .. j /\ 1 .. j \subseteq DOMAIN rows
    BY <1>1
  <2>2. \A i \in 1 .. j : rows[i].time \in Int
    BY <1>1, <1>2, <1>4, <2>1 DEF Timed
  <2>3. \A i \in 1 .. j : time[i] = rows[i].time /\ time[i] \in Int
    BY <2>2
  <2>4. \A i \in 1 .. (j - 1) : time[i] <= time[i + 1]
    <3>1. \A i \in 1 .. (j - 1) :
            i \in 1 .. j /\ i + 1 \in 1 .. j /\ i \in 1 .. (n - 1)
      BY <1>1, <2>1
    <3>2. \A i \in 1 .. (j - 1) :
            ~Before(rows[i + 1].time, rows[i].time) /\ NaT \notin {rows[i + 1].time, rows[i].time}
      BY <1>2, <1>4, <3>1 DEF Timed
    <3>3. \A i \in 1 .. (j - 1) : ~(rows[i + 1].time < rows[i].time)
      BY <3>2 DEF Before
    <3>4. QED
      BY <2>3, <3>1, <3>3
  <2> HIDE DEF time
  <2>5. \A i, k \in 1 .. j : i < k => time[i] <= time[k]
    BY <2>1, <2>3, <2>4, StepsAddUp
  <2>6. ASSUME NEW i \in 1 .. j PROVE rows[i].time <= rows[j].time
    <3>1. i = j \/ i < j
      BY <2>1
    <3>2. QED
      BY <2>1, <2>3, <2>5, <3>1
  <2>7. QED
    BY <2>1, <2>2, <2>6
<1>5. ASSUME NEW i \in DOMAIN rows, NEW j \in DOMAIN rows, i < j, Timed(rows, j)
      PROVE  rows[i].time < rows[j].time
  <2>1. i \in 1 .. j /\ j \in 1 .. j /\ i # j
    BY <1>1, <1>5
  <2>2. /\ rows[i].time \in Int /\ rows[j].time \in Int
        /\ rows[i].time <= rows[j].time
    BY <1>4, <1>5, <2>1
  <2>3. rows[i].time # rows[j].time
    BY <1>3, <2>1
  <2>4. QED
    BY <2>2, <2>3
<1>6. \A i \in DOMAIN rows :
        Timed(rows, i) => /\ {rows[1].time, rows[i].time} \subseteq Int
                          /\ rows[1].time <= rows[i].time
  <2> SUFFICES ASSUME NEW i \in DOMAIN rows, Timed(rows, i)
               PROVE  /\ {rows[1].time, rows[i].time} \subseteq Int
                      /\ rows[1].time <= rows[i].time
    OBVIOUS
  <2>1. 1 \in 1 .. i /\ i \in 1 .. i
    BY <1>1
  <2>2. QED
    BY <1>4, <2>1
<1>7. QED
  BY <1>2, <1>3, <1>5, <1>6 DEF rows, n

(* And it starts after the whole file, the rows the cap leaves out included.*)
LEMMA AcceptedFollows ==
  ASSUME SortValuesSorts(Uploads), NEW x, RunIsPrepared(x), x.at = "answered"
  PROVE  /\ Len(x.answer) = x.task.horizon
         /\ \A i \in DOMAIN x.answer : x.answer[i].item = x.answer[1].item
         /\ \A i, j \in DOMAIN x.answer : i # j => x.answer[i].time # x.answer[j].time
         /\ \A i, j \in DOMAIN x.answer :
              i < j /\ Timed(x.answer, j) => x.answer[i].time < x.answer[j].time
         /\ \A i \in DOMAIN x.answer, t \in Times(x.upload.rows) :
              Timed(x.answer, i) => t < x.answer[i].time
<1> DEFINE u == x.upload
           history == x.task.history
<1>1. PICK out \in ModelOutput : AcceptsOutput(x.task, out) /\ x.answer = out.rows
  BY DEF RunIsPrepared
<1>2. u \in Uploads /\ PreparedOf(x).error = Missing /\ x.task = PreparedOf(x).task
  BY DEF RunIsPrepared
<1>3. TimesError(u) = Missing /\ history = Latest(SortValues(u.rows))
  <2> DEFINE h == x.settings.horizon
             q == x.settings.quantiles
             rows == PageRetained(u.rows)
  <2>1. PreparedOf(x) = PagePrepare(u, h, q)
    BY DEF PreparedOf
  <2> HIDE DEF u, h, q
  <2>2. PagePrepare(u, h, q).error = Missing
    BY <1>2, <2>1
  <2>3. TimesError(u) = Missing /\ TaskError(rows, h, q) = Missing
        /\ PagePrepare(u, h, q).task = ForecastTask(u, rows, h, q, Missing)
    <3>1. ~(q = <<>> \/ ~(Range(q) \subseteq QuantileRange)) /\ SelectsDistinct(u)
          /\ SelectsExisting(u)
      BY <2>2, InputAssumption DEF PagePrepare, Refused
    <3>2. TimesError(u) = Missing
      BY <2>2, <3>1 DEF PagePrepare, Refused
    <3> HIDE DEF rows
    <3>3. PagePrepare(u, h, q) =
            IF TaskError(rows, h, q) # Missing THEN Refused(TaskError(rows, h, q))
            ELSE [error |-> Missing, issues |-> {},
                  task |-> ForecastTask(u, rows, h, q, Missing)]
      BY <3>1, <3>2 DEF PagePrepare, rows
    <3>4. TaskError(rows, h, q) = Missing
      BY <2>2, <3>3 DEF Refused
    <3>5. QED
      BY <3>2, <3>3, <3>4
  <2>4. x.task.history = rows
    <3> HIDE DEF rows
    <3>1. x.task = ForecastTask(u, rows, h, q, Missing)
      BY <1>2, <2>1, <2>3
    <3>2. QED
      BY <3>1 DEF ForecastTask
  <2>5. QED
    BY <2>3, <2>4 DEF PageRetained
<1>4. u.rows \in Seq([time : Int \cup {NaT, Unparseable}, value : Int \cup {NaN}])
  BY <1>2, PageAssumption
<1> HIDE DEF u, history
<1>5. /\ history \in Seq(Row) /\ history # <<>>
      /\ \A t \in Times(u.rows) : t \in Int /\ t <= history[Len(history)].time
  BY <1>2, <1>3, <1>4, Retained
<1>6. history[Len(history)].time \in Int
  <2>1. history[Len(history)] \in Row
    BY <1>5, EmptySeq, LenProperties, ElementOfSeq
  <2>2. QED
    BY <2>1 DEF Row
<1>7. out.rows[1].time = NaT \/ history[Len(history)].time < out.rows[1].time
  BY <1>1 DEF AcceptsOutput, TimesInOrder, Before, history
<1>8. ASSUME NEW i \in DOMAIN out.rows, NEW t \in Times(u.rows), Timed(out.rows, i)
      PROVE  t < out.rows[i].time
  <2>1. {out.rows[1].time, out.rows[i].time} \subseteq Int
        /\ out.rows[1].time <= out.rows[i].time
    BY <1>1, <1>8, AcceptedIsAPath
  <2>2. t \in Int /\ t <= history[Len(history)].time
    BY <1>5
  <2>3. out.rows[1].time # NaT
    <3>1. out.rows \in Seq(Range(out.rows))
      BY <1>1, PageAssumption
    <3>2. 1 \in 1 .. i
      BY <3>1, LenProperties
    <3>3. QED
      BY <1>8, <3>2 DEF Timed
  <2>4. QED
    BY <1>6, <1>7, <2>1, <2>2, <2>3
<1>9. QED
  BY <1>1, <1>8, AcceptedIsAPath DEF u

(* Theorem.  If sort_values sorts the uploads, an answer the page shows is, *)
(* as far as its rows have a time, a path that starts after every row of    *)
(* the file, whatever the model returns (the checks of                      *)
(* Chronos2Adapter.forecast on the task the page made).                     *)
THEOREM AnswerFollowsTheFile ==
  ASSUME SortValuesSorts(Uploads)
  PROVE  PageSpec => []ForecastFollowsTheUpload
<1>1. TaskInv => ForecastFollowsTheUpload
  BY AcceptedFollows DEF TaskInv, ForecastFollowsTheUpload
<1>2. QED
  BY <1>1, TasksArePrepared, PTL
================================================================================
