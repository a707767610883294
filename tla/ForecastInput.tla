----------------------------- MODULE ForecastInput -----------------------------
(***************************************************************************)
(* From an uploaded table to a ForecastTask, twice: as the Forecast page   *)
(* does it inline (src/pages/1_Forecast.py) and as the ingestion pipeline  *)
(* of Phase 1 does it (src/src/data_ingestion.py with the checks of        *)
(* src/src/validation.py).  Nothing is shared between the two but          *)
(* ForecastTask itself (src/src/schemas.py).                               *)
(*                                                                         *)
(* A table is a sequence of rows; a row has a time (a number, NaT for a    *)
(* blank cell, Unparseable for any other text) and a value (a number, or   *)
(* NaN).  Quantile levels are tenths.                                      *)
(***************************************************************************)
EXTENDS Integers, Sequences, SequencesExt

CONSTANTS
  NaT, Unparseable,    (* cells of the timestamp column                      *)
  NaN,                 (* a missing number                                   *)
  Missing,             (* no task, no error, no frequency, an empty text     *)
  ContextWindowCap,    (* CONTEXT_WINDOW_CAP                                 *)
  HorizonMax,          (* HORIZON_MAX                                        *)
  MinHistoryRows,      (* MIN_HISTORY_ROWS                                   *)
  OutlierIqrMultiplier (* OUTLIER_IQR_MULTIPLIER                             *)

ASSUME InputAssumption ==
  /\ {ContextWindowCap, HorizonMax, MinHistoryRows} \subseteq Nat \ {0}
  /\ OutlierIqrMultiplier \in Nat
  /\ Missing \notin {"columns not found", "same column", "unparseable timestamps",
                     "blank timestamps", "zero valid rows", "duplicate timestamps",
                     "empty", "horizon", "quantiles", "duplicate quantiles", "too few dates"}

QuantileRange == 1 .. 9

(* An upload: its rows, the names of its columns, the two columns selected. *)
SelectsDistinct(u) == u.timestamp # u.target
SelectsExisting(u) == {u.timestamp, u.target} \subseteq u.columns

Times(rows) == {rows[i].time : i \in DOMAIN rows}
Values(rows) == [i \in DOMAIN rows |-> rows[i].value]

(* sort_values: pandas promises nothing on the order among equal times.     *)
SortValues(rows) == SortSeq(rows, LAMBDA a, b : a.time <= b.time)

(* What proofs take of sort_values for these uploads.                       *)
SortValuesSorts(uploads) ==
  \A u \in uploads :
    Unparseable \notin Times(u.rows) /\ NaT \notin Times(u.rows) =>
      LET sorted == SortValues(u.rows)
      IN  /\ sorted \in Seq(Range(u.rows)) /\ Range(sorted) = Range(u.rows)
          /\ \A i, j \in DOMAIN sorted : i < j => sorted[i].time <= sorted[j].time

(* iloc[-cap:]                                                              *)
Latest(rows) == SubSeq(rows, Max({1, Len(rows) - ContextWindowCap + 1}), Len(rows))

Refused(error) == [error |-> error, task |-> Missing, issues |-> {}]

(* ForecastTask.__post_init__                                               *)
TaskError(rows, horizon, quantiles) ==
  IF rows = <<>> THEN "empty"
  ELSE IF horizon \notin 1 .. HorizonMax THEN "horizon"
  ELSE IF quantiles = <<>> \/ ~(Range(quantiles) \subseteq QuantileRange) THEN "quantiles"
  ELSE IF ~IsInjective(quantiles) THEN "duplicate quantiles"
  ELSE Missing

Ascending(levels) == SortSeq(levels, <)

(* A task carries the names of its columns: the adapter looks at them again.*)
ForecastTask(u, rows, horizon, quantiles, frequency) ==
  [history |-> rows, horizon |-> horizon, quantiles |-> Ascending(quantiles),
   timestamp |-> u.timestamp, target |-> u.target, frequency |-> frequency]

(* What both preparations refuse about the times, in their order.           *)
TimesError(u) ==
  IF Unparseable \in Times(u.rows) THEN "unparseable timestamps"
  ELSE IF NaT \in Times(u.rows) THEN "blank timestamps"
  ELSE IF u.rows = <<>> THEN "zero valid rows"
  ELSE Missing

--------------------------------------------------------------------------------
(* The Forecast page.                                                       *)

(* Slip: the cap is taken from the file as it stands.                       *)
PageRetained_CapThenSort(rows) == SortValues(Latest(rows))

PageRetained(rows) == Latest(SortValues(rows))

PagePrepare(u, horizon, quantiles) ==
  IF quantiles = <<>> \/ ~(Range(quantiles) \subseteq QuantileRange)
    THEN Refused("quantiles")
  ELSE IF ~SelectsDistinct(u) THEN Refused("same column")
  ELSE IF ~SelectsExisting(u) THEN Refused("columns not found")
  ELSE IF TimesError(u) # Missing THEN Refused(TimesError(u))
  ELSE LET rows == PageRetained(u.rows)
           error == TaskError(rows, horizon, quantiles)
       IN  IF error # Missing THEN Refused(error)
           ELSE [error |-> Missing, issues |-> {},
                 task |-> ForecastTask(u, rows, horizon, quantiles, Missing)]

--------------------------------------------------------------------------------
(* The checks of validation.py.  An issue is an ERROR, which blocks, or a   *)
(* WARNING, which does not.                                                 *)

Issue(severity, code) == [severity |-> severity, code |-> code]
If(condition, issue) == IF condition THEN {issue} ELSE {}
Present(rows) == SortSeq(SelectSeq(Values(rows), LAMBDA v : v # NaN), <)

(* Slip: a row is a duplicate when all of it is repeated.                   *)
HasDuplicates_WholeRows(rows) == ~IsInjective(rows)

HasDuplicates(rows) == ~IsInjective([i \in DOMAIN rows |-> rows[i].time])

DetectDuplicateTimestamps(rows) ==
  If(HasDuplicates(rows), Issue("ERROR", "duplicate timestamps"))

DetectMissingTargetValues(rows) ==
  LET missing == {i \in DOMAIN rows : rows[i].value = NaN}
  IN  If(missing # {}, Issue(IF missing = DOMAIN rows THEN "ERROR" ELSE "WARNING",
                             "missing target values"))

DetectShortHistory(count) ==
  If(count < MinHistoryRows, Issue("WARNING", "short history"))

DetectZeroOrNearZero(rows) ==
  LET v == Present(rows)
  IN  If(v # <<>> /\ v[1] = v[Len(v)], Issue("WARNING", "zero or near zero"))

(* Four times the quartile that Series.quantile interpolates.               *)
Quartile(v, k) ==
  LET position == k * (Len(v) - 1)
      below == position \div 4 + 1
      above == Min({below + 1, Len(v)})
  IN  4 * v[below] + (position % 4) * (v[above] - v[below])

DetectOutliers(rows) ==
  LET v == Present(rows)
      spread == Quartile(v, 3) - Quartile(v, 1)
      fence == OutlierIqrMultiplier * spread
  IN  If(/\ Len(v) >= 4
         /\ spread # 0
         /\ \E x \in Range(v) : 4 * x < Quartile(v, 1) - fence \/ 4 * x > Quartile(v, 3) + fence,
         Issue("WARNING", "outliers detected"))

(* A gap of more than twice the median one, IRREGULAR_DATE_TOLERANCE_-      *)
(* MULTIPLIER being 2: the median is the mean of the two in the middle.     *)
DetectIrregularDates(rows) ==
  LET gaps == [i \in 1 .. (Len(rows) - 1) |-> rows[i + 1].time - rows[i].time]
      sorted == SortSeq(gaps, <)
      twiceMedian == sorted[(Len(gaps) + 1) \div 2] + sorted[Len(gaps) \div 2 + 1]
  IN  If(/\ Len(rows) >= 3
         /\ twiceMedian # 0
         /\ \E g \in Range(gaps) : g > twiceMedian,
         Issue("WARNING", "irregular dates"))

ValidatePreparedDataframe(rows, originalRows) ==
  DetectDuplicateTimestamps(rows) \cup DetectMissingTargetValues(rows)
    \cup DetectShortHistory(originalRows) \cup DetectZeroOrNearZero(rows)
    \cup DetectOutliers(rows) \cup DetectIrregularDates(rows)

IsBlocking(issues) == \E i \in issues : i.severity = "ERROR"

--------------------------------------------------------------------------------
(* The ingestion pipeline.                                                  *)

(* prepare_dataframe: the same column twice gives to_datetime a frame, not  *)
(* a column, which it cannot parse.                                         *)
PrepareError(u) ==
  IF ~SelectsExisting(u) THEN "columns not found"
  ELSE IF ~SelectsDistinct(u) THEN "unparseable timestamps"
  ELSE IF TimesError(u) # Missing THEN TimesError(u)
  ELSE IF HasDuplicates(u.rows) THEN "duplicate timestamps"
  ELSE Missing

(* pandas.infer_freq raises for fewer than three dates; infer_frequency     *)
(* answers "" itself for fewer than two.                                    *)
InferFrequencyRaises(rows) == Len(rows) = 2

(* The step of regular times, which the alias names; "" for any others.     *)
InferFrequency(rows) ==
  LET gaps == {rows[i + 1].time - rows[i].time : i \in 1 .. (Len(rows) - 1)}
  IN  IF \E g \in gaps : gaps = {g} THEN CHOOSE g \in gaps : TRUE ELSE Missing

(* run_ingestion_pipeline: `raises' is an exception its caller must handle, *)
(* where everything else comes back in the report.                          *)
RunIngestionPipeline(u, horizon, quantiles) ==
  LET prepareError == PrepareError(u)
      rows == Latest(SortValues(u.rows))
      issues == IF prepareError # Missing THEN {Issue("ERROR", prepareError)}
                ELSE ValidatePreparedDataframe(rows, Len(u.rows))
      taskError == TaskError(rows, horizon, quantiles)
      raises == IF InferFrequencyRaises(rows) THEN "too few dates" ELSE taskError
  IN  IF IsBlocking(issues)
      THEN [raises |-> Missing, task |-> Missing, issues |-> issues]
      ELSE [raises |-> raises, issues |-> issues,
            task |-> IF raises # Missing THEN Missing
                     ELSE ForecastTask(u, rows, horizon, quantiles, InferFrequency(rows))]
================================================================================
