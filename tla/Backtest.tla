-------------------------------- MODULE Backtest --------------------------------
(***************************************************************************)
(* Rolling-origin backtesting (src/src/backtesting.py) of the baselines    *)
(* (src/src/baselines.py), scored by src/src/metrics.py, on a series that  *)
(* has come through the ingestion pipeline.  Indices are those of TLA+:    *)
(* the first observation is number 1, a cut-off is the number of the last  *)
(* observation trained on.                                                 *)
(*                                                                         *)
(* Numbers are integers, so means stay sums: an error is a sum over the    *)
(* horizon, a scale the sum of the differences of the training window.     *)
(***************************************************************************)
EXTENDS ForecastInput

CONSTANTS
  BacktestUploads,      (* the tables backtested                             *)
  Configurations,       (* [folds, length, expanding, nonOverlapping,        *)
                        (*  horizon, model, period], the last two or Missing *)
  MinRecommendedFolds   (* MIN_RECOMMENDED_FOLDS                             *)

ASSUME BacktestAssumption ==
  /\ \A u \in BacktestUploads :
       u.rows \in Seq([time : Int \cup {NaT, Unparseable}, value : Int \cup {NaN}])
  /\ \A c \in Configurations :
       /\ {c.folds, c.length} \subseteq Int /\ {c.expanding, c.nonOverlapping} \subseteq BOOLEAN
       /\ c.horizon # Missing => c.horizon \in Int
       /\ c.period # Missing => c.period \in Nat \ {0}

VARIABLE
  backtest    (* the call: its input, the folds scored so far, the outcome   *)

NoBacktest == [at |-> "idle", rows |-> <<>>, config |-> Missing, scored |-> <<>>,
               warned |-> FALSE]
BacktestInit == backtest = NoBacktest

--------------------------------------------------------------------------------
(* Folds.                                                                   *)

Horizon(c) == IF c.horizon = Missing THEN c.length ELSE c.horizon
Step(c) == IF c.nonOverlapping THEN Horizon(c) ELSE 1

(* validate_backtest_parameters, with the check of the first cut-off in     *)
(* build_backtest_folds.                                                    *)
ParametersInvalid(c, n) ==
  \/ c.folds < 1 \/ c.length < 1 \/ Horizon(c) < 1
  \/ n < 2 \/ n < Horizon(c) + 1

(* Slip: consecutive folds start one observation apart.                     *)
Cutoff_AlwaysByOne(c, n, fold) == n - Horizon(c) - (c.folds - fold)

(* build_backtest_folds: the last window ends with the series, the others   *)
(* step back from it.                                                       *)
Cutoff(c, n, fold) == n - Horizon(c) - (c.folds - fold) * Step(c)

(* numpy.searchsorted: the first place whose time is not earlier.           *)
SearchSorted(rows, time) == 1 + Cardinality({i \in DOMAIN rows : rows[i].time < time})

(* _sliding_window_size                                                     *)
SlidingWindowSize(c, n) == n - (c.folds - 1) * Step(c) - Horizon(c)

TrainingWindow(c, n, cutoff) ==
  [from |-> IF c.expanding THEN 1 ELSE Max({cutoff - SlidingWindowSize(c, n) + 1, 1}),
   to |-> cutoff]

--------------------------------------------------------------------------------
(* Baselines: the predictions, or <<>> when they raise ValueError.          *)

LastValueForecast(train, horizon) == [step \in 1 .. horizon |-> Last(train)]

SeasonalNaiveEligible(train, period) == Len(train) >= 2 * period

(* Slip: the season is counted from the end of the series backwards.        *)
SeasonalNaiveForecast_Backwards(train, horizon, period) ==
  [step \in 1 .. horizon |-> train[Len(train) - ((step - 1) % period)]]

SeasonalNaiveForecast(train, horizon, period) ==
  [step \in 1 .. horizon |-> train[Len(train) - period + 1 + ((step - 1) % period)]]

ForecastBaseline(c, train) ==
  IF train = <<>> THEN <<>>
  ELSE IF c.model = "last_value" THEN LastValueForecast(train, Horizon(c))
  ELSE IF c.period = Missing \/ ~SeasonalNaiveEligible(train, c.period) THEN <<>>
  ELSE SeasonalNaiveForecast(train, Horizon(c), c.period)

--------------------------------------------------------------------------------
(* Metrics.                                                                 *)

Abs(x) == IF x < 0 THEN -x ELSE x
SumOf(s) == FoldLeft(LAMBDA sum, x : sum + x, 0, s)

(* _as_vectors raises on a missing number, _naive_mae on a training window  *)
(* that is too short for its differences.                                   *)
CannotEvaluate(c, actual, predicted, train) ==
  \/ NaN \in Range(actual) \cup Range(predicted)
  \/ Len(train) < 2
  \/ c.period # Missing /\ Len(train) < 2 * c.period

(* A missing number in the training window goes through to the scale.       *)
NaiveScale(c, train) ==
  LET lag == IF c.period = Missing THEN 1 ELSE c.period
  IN  IF NaN \in Range(train) THEN NaN
      ELSE SumOf([i \in 1 .. (Len(train) - lag) |-> Abs(train[i + lag] - train[i])])

(* evaluate_fold: the absolute error, and what MASE divides it by; a        *)
(* constant training window makes MASE zero.                                *)
EvaluateFold(c, actual, predicted, train) ==
  LET error == SumOf([i \in DOMAIN actual |-> Abs(actual[i] - predicted[i])])
      scale == NaiveScale(c, train)
  IN  [error |-> error, scale |-> scale,
       mase |-> CASE scale = NaN -> NaN [] scale = 0 -> 0 [] OTHER -> error]

--------------------------------------------------------------------------------
(* run_backtest.                                                            *)

(* The caller ingests a series; it is told of one that is refused, and may  *)
(* have to handle an exception.                                             *)
Ingest ==
  /\ backtest.at = "idle"
  /\ \E u \in BacktestUploads, c \in Configurations :
       LET ingested == RunIngestionPipeline(u, c.length, <<5>>)
       IN  backtest' = [NoBacktest EXCEPT
             !.config = c,
             !.rows = IF ingested.task = Missing THEN <<>> ELSE ingested.task.history,
             !.at = IF ingested.raises # Missing THEN ingested.raises
                    ELSE IF ingested.task = Missing THEN "refused" ELSE "ingested"]

(* Parameters the series is too short for end the call.                     *)
RunBacktest ==
  /\ backtest.at = "ingested"
  /\ LET c == backtest.config
         n == Len(backtest.rows)
     IN  backtest' = [backtest EXCEPT !.at =
           IF ParametersInvalid(c, n) \/ Cutoff(c, n, 1) < 1 THEN "raised" ELSE "folding"]

(* One fold: the cut-off is a time, and is looked up again.                 *)
ScoreFold ==
  LET c == backtest.config
      rows == backtest.rows
      n == Len(rows)
      fold == Len(backtest.scored) + 1
      cutoff == SearchSorted(rows, rows[Cutoff(c, n, fold)].time)
      window == TrainingWindow(c, n, cutoff)
      train == SubSeq(Values(rows), window.from, window.to)
      test == SubSeq(rows, cutoff + 1, Min({cutoff + Horizon(c), n}))
      predicted == ForecastBaseline(c, train)
  IN  /\ backtest.at = "folding" /\ fold <= c.folds
      /\ IF \/ predicted = <<>>
            \/ Len(test) # Len(predicted)
            \/ CannotEvaluate(c, Values(test), predicted, train)
         THEN backtest' = [backtest EXCEPT !.at = "raised"]
         ELSE backtest' = [backtest EXCEPT !.scored = Append(@,
                [window |-> window, cutoff |-> rows[cutoff].time,
                 rows |-> [i \in DOMAIN test |->
                             [time |-> rows[cutoff + i].time, actual |-> test[i].value,
                              predicted |-> predicted[i]]],
                 metrics |-> EvaluateFold(c, Values(test), predicted, train)])]

FinishBacktest ==
  /\ backtest.at = "folding" /\ Len(backtest.scored) = backtest.config.folds
  /\ backtest' = [backtest EXCEPT !.at = "done",
                    !.warned = backtest.config.folds < MinRecommendedFolds]

BacktestNext == Ingest \/ RunBacktest \/ ScoreFold \/ FinishBacktest

BacktestSpec == BacktestInit /\ [][BacktestNext]_backtest
--------------------------------------------------------------------------------
(* Safety.                                                                  *)

Scored(j) == backtest.scored[j]
FoldTimes(j) == [i \in DOMAIN Scored(j).rows |-> Scored(j).rows[i].time]

(* No fold is scored on what it was trained on: every time it is scored at  *)
(* is later than every time of its training window, which ends at the       *)
(* fold's own cut-off.                                                      *)
NoLeakage ==
  \A j \in DOMAIN backtest.scored :
    LET trained == Times(SubSeq(backtest.rows, Scored(j).window.from, Scored(j).window.to))
    IN  /\ Scored(j).cutoff \in trained
        /\ \A t \in trained : t <= Scored(j).cutoff
        /\ \A i \in DOMAIN FoldTimes(j), t \in trained : t < FoldTimes(j)[i]

(* When a backtest is over, its folds tile the end of the series: without   *)
(* overlap every one of the last folds * horizon observations is scored     *)
(* once and in order; with overlap each fold starts one observation after   *)
(* the one before.  A sliding window never changes its length.              *)
FoldsTileTheEnd ==
  backtest.at = "done" =>
    LET c == backtest.config
        n == Len(backtest.rows)
        times == [i \in 1 .. n |-> backtest.rows[i].time]
        all == FlattenSeq([j \in DOMAIN backtest.scored |-> FoldTimes(j)])
        length(j) == Scored(j).window.to - Scored(j).window.from + 1
    IN  /\ c.nonOverlapping => all = SubSeq(times, n - c.folds * Horizon(c) + 1, n)
        /\ ~c.nonOverlapping =>
             \A j \in DOMAIN backtest.scored :
               FoldTimes(j) = SubSeq(times, n - c.folds - Horizon(c) + j + 1, n - c.folds + j)
        /\ ~c.expanding => \A j, k \in DOMAIN backtest.scored : length(j) = length(k)

(* The seasonal baseline knows a season: on a series that repeats itself    *)
(* its error is zero in every fold, wherever the fold cuts the season.      *)
SeasonalNaiveIsExact ==
  LET c == backtest.config
      v == Values(backtest.rows)
  IN  backtest.scored # <<>> =>
        (/\ c.model = "seasonal_naive"
         /\ \A i \in 1 .. (Len(v) - c.period) : v[i] = v[i + c.period]
         => \A j \in DOMAIN backtest.scored : Scored(j).metrics.error = 0)
================================================================================
