--------------------------- MODULE ForecastProcesses ---------------------------
(***************************************************************************)
(* The programs that forecast: the app, the benchmark suite and a backtest,*)
(* with the form of the app in one browser and the memory sample of one    *)
(* request on their own.  None of them shares state with another; which    *)
(* one a behaviour is about is chosen at its start.                        *)
(***************************************************************************)
EXTENDS ForecastPage, BenchmarkSuite, Backtest, UploadForm, MemorySample

VARIABLE process

vars == <<process, pageVars, suiteVars, backtest, form, sampleVars>>

Init ==
  /\ process \in {"app", "benchmark", "backtest", "form", "sampler"}
  /\ PageInit /\ SuiteInit /\ BacktestInit /\ FormInit /\ SampleInit
  /\ process # "sampler" => memory.rss = CHOOSE rss \in Rss : TRUE
  /\ process # "benchmark" => suite.label = None /\ suite.pre = NoPreflight.pre

Next ==
  \/ /\ process = "app" /\ PageNext
     /\ UNCHANGED <<process, suiteVars, backtest, form, sampleVars>>
  \/ /\ process = "benchmark" /\ SuiteNext
     /\ UNCHANGED <<process, pageVars, backtest, form, sampleVars>>
  \/ /\ process = "backtest" /\ BacktestNext
     /\ UNCHANGED <<process, pageVars, suiteVars, form, sampleVars>>
  \/ /\ process = "form" /\ FormNext
     /\ UNCHANGED <<process, pageVars, suiteVars, backtest, sampleVars>>
  \/ /\ process = "sampler" /\ SampleNext
     /\ UNCHANGED <<process, pageVars, suiteVars, backtest, form>>

Spec == Init /\ [][Next]_vars
================================================================================
