----------------------------- MODULE BenchmarkSuite -----------------------------
(***************************************************************************)
(* The benchmark suite of src/src/benchmarking.py: four scenarios, three   *)
(* on one adapter and the last on a fake one, their samples and verdicts,  *)
(* and the envelope they are written into.  EvidenceSchemas says what the  *)
(* schema accepts of that envelope.                                        *)
(*                                                                         *)
(* A call of the adapter goes well, or fails while the pipeline is         *)
(* constructed, or fails later (inference, or an answer that is refused).  *)
(* The answer to the panel is looked at row by row.                        *)
(***************************************************************************)
EXTENDS EvidenceSchemas, Sequences, SequencesExt, Sublists

CONSTANTS
  ConfiguredRevision,   (* MODEL_REVISION                                    *)
  Series,               (* the items of the panel                            *)
  PanelHorizon,         (* 13 in the code                                    *)
  PanelOutput           (* the tables predict_df may answer with             *)

ASSUME SuiteAssumption ==
  /\ PanelHorizon \in Nat \ {0} /\ IsFiniteSet(Series) /\ ConfiguredRevision # None
  /\ \A out \in PanelOutput : /\ out.rows \in Seq(Range(out.rows))
                            /\ \A row \in Range(out.rows) : row.time \in Int \cup {None}

VARIABLES
  suite,      (* where run_benchmarks is, what it saw first, the adapter,    *)
              (* the answer to the panel, the results of the scenarios       *)
  failures,   (* history: calls of the real adapter that went wrong          *)
  envelope    (* benchmark_<timestamp>.json                                  *)

suiteVars == <<suite, failures, envelope>>

NewResult == [samples |-> <<>>, revision |-> None, passed |-> FALSE]

(* inspect_hf_cache comes before anything else.                             *)
SuiteInit ==
  /\ \E pre \in Inspection, label \in InitialCacheState \cup {None} :
       suite = [at |-> "cold", pre |-> pre, label |-> label, constructed |-> 0,
                panel |-> <<>>, results |-> [s \in RequiredScenario |-> NewResult]]
  /\ failures = 0 /\ envelope = None

--------------------------------------------------------------------------------
(* Calls and samples.                                                       *)

Outcome == {"ok", "load fails", "fails"}

(* Only the first call constructs the pipeline, and even when it then fails.*)
Constructs(outcome) == suite.constructed = 0 /\ outcome # "load fails"
CountAfter(outcome) == suite.constructed + IF Constructs(outcome) THEN 1 ELSE 0

(* A failed sample carries no construction count.                           *)
Sample(label, cache, outcome, quick) ==
  [label |-> label, cache |-> cache, success |-> outcome = "ok",
   calls |-> IF outcome = "ok" THEN CountAfter(outcome) ELSE 0,
   reused |-> outcome = "ok" /\ ~Constructs(outcome), quick |-> quick]

(* A call of the real adapter: one sample, and on to `next'.                *)
Call(scenario, label, cache, outcome, quick, next) ==
  /\ outcome = "load fails" => suite.constructed = 0
  /\ failures' = failures + IF outcome = "ok" THEN 0 ELSE 1
  /\ LET old == suite.results[scenario]
         known == outcome = "ok" /\ old.revision = None /\ label # "warm_forecast"
     IN  suite' = [suite EXCEPT
           !.at = next, !.constructed = CountAfter(outcome),
           !.results[scenario] =
             [samples |-> Append(old.samples, Sample(label, cache, outcome, quick)),
              revision |-> IF known THEN ConfiguredRevision ELSE old.revision,
              passed |-> old.passed]]
  /\ UNCHANGED envelope

(* The verdict on a scenario that is over.                                  *)
Judge(scenario, verdict, next) ==
  /\ suite' = [suite EXCEPT !.at = next, !.results[scenario].passed = verdict]
  /\ UNCHANGED <<failures, envelope>>

Samples(scenario, label) ==
  LET all == suite.results[scenario].samples
  IN  Only(all, {s \in Range(all) : s.label = label})
Successes(samples) == Only(samples, {s \in Range(samples) : s.success})

--------------------------------------------------------------------------------
(* Scenario 1: a cold and a warm forecast on a new adapter.                 *)

Cold ==
  /\ suite.at = "cold"
  /\ \E o \in Outcome : Call("weekly_260_13", "cold_forecast", suite.label, o, FALSE, "warm")

Warm ==
  /\ suite.at = "warm"
  /\ \E o \in Outcome, quick \in BOOLEAN :
       Call("weekly_260_13", "warm_forecast", SameProcessWarm, o, quick, "judge weekly")

(* The reuse gate: the warm run reused the pipeline, spent no time loading, *)
(* and the count has grown by no more than the cold load.                   *)
JudgeWeekly ==
  /\ suite.at = "judge weekly"
  /\ LET cold == Samples("weekly_260_13", "cold_forecast")[1]
         warm == Samples("weekly_260_13", "warm_forecast")[1]
     IN  Judge("weekly_260_13",
               /\ cold.success /\ warm.success
               /\ warm.reused /\ warm.quick
               /\ suite.constructed = IF cold.success /\ ~cold.reused THEN 1 ELSE 0,
               "panel")

--------------------------------------------------------------------------------
(* Scenario 2: a panel, past the adapter, straight to the pipeline.  All    *)
(* histories of the fixture end at time 0.                                  *)

RowsOf(rows, item) == Only(rows, {row \in Range(rows) : row.item = item})

(* A comparison with a missing time, None here, is false.                   *)
Earlier(s, t) == None \notin {s, t} /\ s < t

(* _validate_panel_output; `complete': every column is there, every number  *)
(* finite, the levels of every row in order.  The sort does not see a       *)
(* missing time, and the minimum passes over it.                            *)
ValidPanel(out) ==
  /\ out.complete
  /\ Len(out.rows) = Cardinality(Series) * PanelHorizon
  /\ {out.rows[i].item : i \in DOMAIN out.rows} = Series
  /\ \A item \in Series : Len(RowsOf(out.rows, item)) = PanelHorizon
  /\ \A i, j \in DOMAIN out.rows :
       (out.rows[i].item = out.rows[j].item /\ out.rows[i].time = out.rows[j].time) => i = j
  /\ \A item \in Series : LET rows == RowsOf(out.rows, item) IN
       /\ \A i \in 1 .. (Len(rows) - 1) : ~Earlier(rows[i + 1].time, rows[i].time)
       /\ \A i \in DOMAIN rows : rows[i].time = None \/ Earlier(0, rows[i].time)

(* Slip: the real pipeline has no model_revision, and nothing stands in.    *)
PanelRevision_OfPipeline == None

(* getattr(pipeline, "model_revision", "") or CONFIGURED_REVISION           *)
PanelRevision == ConfiguredRevision

Panel ==
  /\ suite.at = "panel"
  /\ \/ \E o \in Outcome \ {"ok"} :
          Call("panel_5_series", "panel_forecast_direct", SameProcessWarm, o, TRUE, "fold")
     \/ \E out \in PanelOutput :
          LET outcome == IF ValidPanel(out) THEN "ok" ELSE "fails"
              ok == outcome = "ok"
          IN  /\ failures' = failures + IF ok THEN 0 ELSE 1
              /\ suite' = [suite EXCEPT
                   !.at = "fold", !.constructed = CountAfter(outcome),
                   !.panel = IF ok THEN out.rows ELSE <<>>,
                   !.results["panel_5_series"] =
                     [samples |-> <<Sample("panel_forecast_direct", SameProcessWarm, outcome, TRUE)>>,
                      revision |-> IF ok THEN PanelRevision ELSE None, passed |-> ok]]
              /\ UNCHANGED envelope

--------------------------------------------------------------------------------
(* Scenario 3: rolling calls.                                               *)

Fold ==
  /\ suite.at = "fold"
  /\ Len(Samples("10_rolling_calls", "fold")) < Folds
  /\ \E o \in Outcome : Call("10_rolling_calls", "fold", SameProcessWarm, o, TRUE, "fold")

(* Slip: the folds that were tried count.                                   *)
SuccessfulFolds_Tried == Len(Samples("10_rolling_calls", "fold"))

SuccessfulFolds == Len(Successes(Samples("10_rolling_calls", "fold")))

JudgeRolling ==
  /\ suite.at = "fold"
  /\ Len(Samples("10_rolling_calls", "fold")) = Folds
  /\ Judge("10_rolling_calls", SuccessfulFolds = Folds, "inject")

--------------------------------------------------------------------------------
(* Scenario 4: a fake pipeline fails its first call and serves the second,  *)
(* on an adapter of its own that has constructed nothing.                   *)

FakeSample(label, ok) ==
  [label |-> label, cache |-> "synthetic_fake", success |-> ok, calls |-> 0,
   reused |-> ok, quick |-> TRUE]

FailsFirstCall(callNumber) == callNumber <= 1

Inject ==
  /\ suite.at = "inject"
  /\ suite' = [suite EXCEPT !.at = "retry", !.results["failure_and_retry"].samples =
                 <<FakeSample("injection_failure_test", ~FailsFirstCall(1))>>]
  /\ UNCHANGED <<failures, envelope>>

Retry ==
  /\ suite.at = "retry"
  /\ LET ok == ~FailsFirstCall(2)
         failed == ~Samples("failure_and_retry", "injection_failure_test")[1].success
     IN  suite' = [suite EXCEPT !.at = "write",
           !.results["failure_and_retry"] =
             [samples |-> Append(@.samples, FakeSample("retry_success", ok)),
              revision |-> IF ok THEN ConfiguredRevision ELSE None,
              passed |-> failed /\ ok]]
  /\ UNCHANGED <<failures, envelope>>

--------------------------------------------------------------------------------
(* The envelope.                                                            *)

EvaluateSuite == \A s \in RequiredScenario : suite.results[s].passed

ConstructionCount ==
  Max(UNION {{sample.calls : sample \in Range(suite.results[s].samples)} : s \in RequiredScenario})

(* Git may know nothing, or of edits; the cache is looked at once more.     *)
Trace == {[commit |-> 1, clean |-> TRUE], [commit |-> 1, clean |-> FALSE], NoTrace}

WriteJson ==
  /\ suite.at = "write"
  /\ \E trace \in Trace, post \in Inspection :
       envelope' =
         [type |-> "benchmark_suite", unknown |-> FALSE,
          commit |-> trace.commit, clean |-> trace.clean, label |-> suite.label,
          success |-> EvaluateSuite, loads |-> ConstructionCount,
          revision |-> suite.results["weekly_260_13"].revision,
          preflight |-> [label |-> suite.label, pre |-> suite.pre, post |-> post],
          scenarios |-> [s \in RequiredScenario |->
            [passed |-> suite.results[s].passed, revision |-> suite.results[s].revision,
             succeeded |-> IF s = "10_rolling_calls" THEN SuccessfulFolds ELSE 0,
             warm |-> Samples("weekly_260_13", "warm_forecast")[1].cache]]]
  /\ suite' = [suite EXCEPT !.at = "written"]
  /\ UNCHANGED failures

SuiteNext ==
  \/ Cold \/ Warm \/ JudgeWeekly \/ Panel \/ Fold \/ JudgeRolling
  \/ Inject \/ Retry \/ WriteJson

SuiteSpec == SuiteInit /\ [][SuiteNext]_suiteVars
--------------------------------------------------------------------------------
(* Safety.                                                                  *)

(* The producer and the schema agree on what a passing suite is: when the   *)
(* suite passes, its envelope validates as soon as git and the two cache    *)
(* inspections bear out what the operator claimed.                          *)
PassingSuiteValidates ==
  envelope # None =>
    (envelope.success /\ Traced(envelope) /\ CachePreflightValid(envelope.preflight)
       => SuiteValid(envelope))

(* The panel is complete: every series has its own rows for the whole       *)
(* horizon, without a repeated or an early time, and they are a path as far *)
(* as they have a time (one row of each series may have none).              *)
PanelIsComplete ==
  \A item \in Series :
    LET rows == RowsOf(suite.panel, item)
    IN  /\ Len(rows) = PanelHorizon
        /\ \A i, j \in DOMAIN rows : i # j => rows[i].time # rows[j].time
        /\ \A i \in DOMAIN rows : rows[i].time = None \/ rows[i].time > 0
        /\ \A i, j \in DOMAIN rows :
             i < j /\ (\A k \in 1 .. j : rows[k].time # None) => rows[i].time < rows[j].time

(* A suite passes only when no call of the real adapter went wrong, with a  *)
(* complete panel, and only on one pipeline, constructed by the cold run.   *)
FailureIsNotHidden ==
  envelope # None /\ envelope.success =>
    /\ failures = 0 /\ PanelIsComplete
    /\ suite.constructed = 1
    /\ ~Samples("weekly_260_13", "cold_forecast")[1].reused

================================================================================
