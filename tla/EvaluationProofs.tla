----------------------------- MODULE EvaluationProofs -----------------------------
(***************************************************************************)
(* Theorems about the two programs that judge a model.  The backtest, for  *)
(* every series and configuration, under the one hypothesis that           *)
(* sort_values sorts: SortValuesSorts, of the uploads.  (SortSeq is a      *)
(* primitive of the proof system, which knows nothing of it; TLC evaluates *)
(* the hypothesis.)  The benchmark suite, for every number of folds, panel,*)
(* answer to it and outcome of the calls.                                  *)
(***************************************************************************)
EXTENDS Backtest, BenchmarkSuite, SequenceLemmas

--------------------------------------------------------------------------------
(* A series.                                                                *)

Row == [time : Int, value : Int \cup {NaN}]

(* A series that has come through the ingestion pipeline.                   *)
InOrder(rows) ==
  rows \in Seq(Row) /\ \A i, j \in DOMAIN rows : i < j => rows[i].time < rows[j].time

(* What is kept of a table whose times can all be read: its latest rows, in *)
(* order, down to the last one of the whole table.                          *)
LEMMA Retained ==
  ASSUME NEW uploads, SortValuesSorts(uploads), NEW u \in uploads,
         u.rows \in Seq([time : Int \cup {NaT, Unparseable}, value : Int \cup {NaN}]),
         TimesError(u) = Missing,
         NEW rows, rows = Latest(SortValues(u.rows))
  PROVE  /\ rows \in Seq(Row) /\ rows # <<>>
         /\ \A i, j \in DOMAIN rows : i < j => rows[i].time <= rows[j].time
         /\ \A t \in Times(u.rows) : t \in Int /\ t <= rows[Len(rows)].time
<1> DEFINE sorted == SortValues(u.rows)
<1>1. Unparseable \notin Times(u.rows) /\ NaT \notin Times(u.rows) /\ u.rows # <<>>
  BY InputAssumption DEF TimesError
<1>2. Range(u.rows) \subseteq Row
  <2>1. DOMAIN u.rows = 1 .. Len(u.rows) /\ \A i \in 1 .. Len(u.rows) :
          u.rows[i] \in [time : Int \cup {NaT, Unparseable}, value : Int \cup {NaN}]
    BY LenProperties, ElementOfSeq
  <2>2. \A i \in DOMAIN u.rows : u.rows[i].time # Unparseable /\ u.rows[i].time # NaT
    BY <1>1 DEF Times
  <2>3. QED
    BY <2>1, <2>2 DEF Range, Row
<1>3. /\ sorted \in Seq(Row) /\ Range(sorted) = Range(u.rows)
      /\ \A i, j \in DOMAIN sorted : i < j => sorted[i].time <= sorted[j].time
  <2>1. sorted \in Seq(Range(u.rows))
    BY <1>1 DEF SortValuesSorts
  <2>2. QED
    BY <1>1, <1>2, <2>1, SeqMonotonic DEF SortValuesSorts
<1>4. rows = LastElements(sorted, ContextWindowCap) /\ ContextWindowCap \in Nat \ {0}
  BY InputAssumption DEF Latest, LastElements
<1> HIDE DEF sorted
<1>5. DOMAIN sorted = 1 .. Len(sorted) /\ Len(sorted) \in Nat
      /\ \A i \in DOMAIN sorted : sorted[i].time \in Int
  <2>1. DOMAIN sorted = 1 .. Len(sorted) /\ Len(sorted) \in Nat
        /\ \A i \in DOMAIN sorted : sorted[i] \in Row
    BY <1>3, LenProperties, ElementOfSeq
  <2>2. QED
    BY <2>1 DEF Row
<1>6. sorted # <<>>
  <2>1. u.rows[1] \in Range(u.rows)
    <3>1. DOMAIN u.rows = 1 .. Len(u.rows) /\ Len(u.rows) \in Nat /\ Len(u.rows) # 0
      BY <1>1, LenProperties
    <3>2. QED
      BY <3>1 DEF Range
  <2>2. PICK i \in DOMAIN sorted : sorted[i] = u.rows[1]
    BY <1>3, <2>1 DEF Range
  <2>3. QED
    BY <2>2
<1>7. PICK d \in Nat : \A i \in DOMAIN rows : i + d \in DOMAIN sorted /\ rows[i] = sorted[i + d]
  BY <1>3, <1>4, LastOf
<1>8. /\ rows \in Seq(Row) /\ Len(rows) \in Nat \ {0}
      /\ rows[Len(rows)] = sorted[Len(sorted)]
  BY <1>3, <1>4, <1>6, LastOf
<1>9. ASSUME NEW i \in DOMAIN rows, NEW j \in DOMAIN rows, i < j
      PROVE  rows[i].time <= rows[j].time
  <2>1. i \in Nat /\ j \in Nat /\ i + d < j + d
    <3>1. DOMAIN rows = 1 .. Len(rows)
      BY <1>8, LenProperties
    <3>2. QED
      BY <1>8, <1>9, <3>1
  <2>2. sorted[i + d].time <= sorted[j + d].time
    BY <1>3, <1>7, <2>1
  <2>3. QED
    BY <1>7, <2>2
<1>10. ASSUME NEW t \in Times(u.rows) PROVE t \in Int /\ t <= rows[Len(rows)].time
  <2>1. PICK i \in DOMAIN u.rows : t = u.rows[i].time
    BY DEF Times
  <2>2. PICK j \in DOMAIN sorted : sorted[j] = u.rows[i]
    BY <1>3 DEF Range
  <2>3. sorted[j].time \in Int /\ sorted[Len(sorted)].time \in Int /\ j \in Int
    BY <1>5
  <2>4. j < Len(sorted) \/ j = Len(sorted)
    BY <1>5
  <2>5. sorted[j].time <= sorted[Len(sorted)].time
    BY <1>3, <1>5, <2>3, <2>4
  <2>6. QED
    BY <1>8, <2>1, <2>2, <2>3, <2>5
<1>11. QED
  BY <1>8, <1>9, <1>10

--------------------------------------------------------------------------------
(* A backtest.                                                              *)

(* Parameters that RunBacktest lets pass.                                   *)
Planned(c, n) ==
  c \in Configurations /\ n \in Nat /\ ~ParametersInvalid(c, n) /\ Cutoff(c, n, 1) >= 1

(* What a fold is: trained up to its cut-off, scored on what follows.       *)
FoldIs(c, rows, fold, s) ==
  LET k == Cutoff(c, Len(rows), fold)
      train == SubSeq(Values(rows), s.window.from, s.window.to)
      actual == Values(SubSeq(rows, k + 1, k + Horizon(c)))
      predicted == ForecastBaseline(c, train)
  IN  /\ s.window = TrainingWindow(c, Len(rows), k)
      /\ s.cutoff = rows[k].time
      /\ DOMAIN s.rows = 1 .. Horizon(c)
      /\ \A i \in 1 .. Horizon(c) : s.rows[i].time = rows[k + i].time
      /\ predicted # <<>> /\ ~CannotEvaluate(c, actual, predicted, train)
      /\ s.metrics = EvaluateFold(c, actual, predicted, train)

IInv ==
  /\ DOMAIN backtest = {"at", "rows", "config", "scored", "warned"}
  /\ InOrder(backtest.rows)
  /\ backtest.scored \in Seq(Range(backtest.scored))
  /\ backtest.at = "ingested" => backtest.config \in Configurations
  /\ backtest.at \in {"folding", "done"} \/ backtest.scored # <<>> =>
       Planned(backtest.config, Len(backtest.rows))
  /\ backtest.at \in {"idle", "ingested"} => backtest.scored = <<>>
  /\ Len(backtest.scored) > 0 => Len(backtest.scored) <= backtest.config.folds
  /\ backtest.at = "done" => Len(backtest.scored) = backtest.config.folds
  /\ \A j \in DOMAIN backtest.scored :
       FoldIs(backtest.config, backtest.rows, j, backtest.scored[j])

--------------------------------------------------------------------------------
(* The ingestion.                                                           *)

(* A task is made only of a table without repeated, blank or unreadable     *)
(* times, and the sort puts it in order.                                    *)
LEMMA IngestedInOrder ==
  ASSUME SortValuesSorts(BacktestUploads), NEW u \in BacktestUploads, NEW h, NEW q,
         RunIngestionPipeline(u, h, q).task # Missing
  PROVE  InOrder(RunIngestionPipeline(u, h, q).task.history)
<1> DEFINE rows == Latest(SortValues(u.rows))
           issues == IF PrepareError(u) # Missing THEN {Issue("ERROR", PrepareError(u))}
                     ELSE ValidatePreparedDataframe(rows, Len(u.rows))
<1>1. ~IsBlocking(issues) /\ RunIngestionPipeline(u, h, q).task.history = rows
  BY DEF RunIngestionPipeline, ForecastTask
<1> HIDE DEF rows
<1>2. PrepareError(u) = Missing
  BY <1>1 DEF IsBlocking, Issue
<1>3. ~HasDuplicates(rows)
  <2>1. ASSUME HasDuplicates(rows)
        PROVE  Issue("ERROR", "duplicate timestamps") \in issues
    BY <1>2, <2>1 DEF ValidatePreparedDataframe, DetectDuplicateTimestamps, If
  <2>2. QED
    BY <1>1, <2>1 DEF IsBlocking, Issue
<1>4. TimesError(u) = Missing
  BY <1>2, InputAssumption DEF PrepareError
<1>5. /\ rows \in Seq(Row)
      /\ \A i, j \in DOMAIN rows : i < j => rows[i].time <= rows[j].time
  BY <1>4, BacktestAssumption, Retained DEF rows
<1>6. DOMAIN rows = 1 .. Len(rows) /\ Len(rows) \in Nat /\ \A i \in DOMAIN rows : rows[i] \in Row
  BY <1>5, LenProperties, ElementOfSeq
<1>7. \A i, j \in DOMAIN rows : rows[i].time = rows[j].time => i = j
  BY <1>3 DEF HasDuplicates, IsInjective
<1>8. ASSUME NEW i \in DOMAIN rows, NEW j \in DOMAIN rows, i < j
      PROVE  rows[i].time < rows[j].time
  <2>1. i \in Nat /\ j \in Nat
    BY <1>6
  <2>2. rows[i].time <= rows[j].time /\ rows[i].time # rows[j].time
    BY <1>5, <1>7, <1>8, <2>1
  <2>3. rows[i].time \in Int /\ rows[j].time \in Int
    BY <1>6 DEF Row
  <2>4. QED
    BY <2>2, <2>3
<1>9. QED
  BY <1>1, <1>5, <1>8 DEF InOrder

--------------------------------------------------------------------------------
(* The cut-offs.                                                            *)

LEMMA Products ==
  ASSUME NEW a \in Nat, NEW b \in Nat, NEW s \in Nat, a <= b
  PROVE  a * s \in Nat /\ b * s \in Nat /\ a * s <= b * s
OBVIOUS

(* Every fold has its cut-off and its whole window inside the series, and   *)
(* the first fold has the earliest cut-off, which is the sliding window.    *)
LEMMA CutoffsFit ==
  ASSUME NEW c, NEW n, Planned(c, n), NEW fold \in 1 .. c.folds
  PROVE  /\ Horizon(c) \in Nat \ {0} /\ Step(c) \in Nat \ {0} /\ c.folds \in Nat \ {0}
         /\ Cutoff(c, n, fold) \in 1 .. (n - Horizon(c))
         /\ Cutoff(c, n, 1) \in 1 .. Cutoff(c, n, fold)
         /\ SlidingWindowSize(c, n) = Cutoff(c, n, 1)
<1>1. Horizon(c) \in Nat \ {0} /\ c.folds \in Nat \ {0} /\ n \in Nat
  <2>1. c.folds \in Int /\ c.length \in Int /\ (c.horizon # Missing => c.horizon \in Int)
    BY BacktestAssumption DEF Planned
  <2>2. Horizon(c) \in Int
    BY <2>1 DEF Horizon
  <2>3. ~(c.folds < 1) /\ ~(Horizon(c) < 1) /\ n \in Nat
    BY DEF Planned, ParametersInvalid
  <2>4. QED
    BY <2>1, <2>2, <2>3
<1>2. Step(c) \in Nat \ {0}
  BY <1>1 DEF Step
<1> DEFINE s == Step(c)
           h == Horizon(c)
           a == (c.folds - fold) * s
           b == (c.folds - 1) * s
<1>3. a \in Nat /\ b \in Nat /\ a <= b
  <2>1. c.folds - fold \in Nat /\ c.folds - 1 \in Nat /\ c.folds - fold <= c.folds - 1
    BY <1>1
  <2>2. s \in Nat
    BY <1>2
  <2> HIDE DEF s
  <2>3. QED
    BY <2>1, <2>2, Products
<1>4. /\ Cutoff(c, n, fold) = n - h - a /\ Cutoff(c, n, 1) = n - h - b
      /\ SlidingWindowSize(c, n) = n - b - h
  BY DEF Cutoff, SlidingWindowSize
<1>5. n - h - b >= 1 /\ h \in Nat
  BY <1>1, <1>4 DEF Planned
<1> HIDE DEF a, b, h
<1>6. n - h - a \in 1 .. (n - h) /\ n - h - b \in 1 .. (n - h - a) /\ n - b - h = n - h - b
  BY <1>1, <1>3, <1>5
<1>7. QED
  BY <1>1, <1>2, <1>4, <1>6 DEF h

(* The training window ends at the cut-off; a sliding one is always as long *)
(* as that of the first fold.                                               *)
LEMMA WindowsFit ==
  ASSUME NEW c, NEW n, Planned(c, n), NEW fold \in 1 .. c.folds
  PROVE  LET k == Cutoff(c, n, fold)
             w == TrainingWindow(c, n, k)
         IN  /\ w.to = k /\ w.from \in 1 .. k
             /\ ~c.expanding => w.to - w.from + 1 = Cutoff(c, n, 1)
<1> DEFINE k == Cutoff(c, n, fold)
           x == k - SlidingWindowSize(c, n) + 1
<1>1. k \in Nat /\ x \in 1 .. k /\ k - x + 1 = Cutoff(c, n, 1)
  <2>1. /\ k \in 1 .. (n - Horizon(c)) /\ Cutoff(c, n, 1) \in 1 .. k
        /\ SlidingWindowSize(c, n) = Cutoff(c, n, 1) /\ n \in Nat /\ Horizon(c) \in Nat
    BY CutoffsFit DEF Planned
  <2> HIDE DEF k
  <2>2. QED
    BY <2>1
<1> HIDE DEF x
<1>2. Max({x, 1}) = x
  <2>1. x \in Int /\ x >= 1 /\ \A y \in {x, 1} : x >= y
    BY <1>1
  <2>2. \A z \in {x, 1} : (\A y \in {x, 1} : z >= y) => z = x
    BY <2>1
  <2>3. QED
    BY <2>1, <2>2 DEF Max
<1> DEFINE w == TrainingWindow(c, n, k)
<1>3. w.to = k /\ w.from = IF c.expanding THEN 1 ELSE x
  BY <1>2 DEF TrainingWindow, x
<1> HIDE DEF k, w
<1>4. QED
  BY <1>1, <1>3 DEF k, w

(* A cut-off looked up by its time is found where it was.                   *)
LEMMA CutoffIsFound ==
  ASSUME NEW rows, InOrder(rows), NEW k \in DOMAIN rows
  PROVE  SearchSorted(rows, rows[k].time) = k
<1>1. DOMAIN rows = 1 .. Len(rows) /\ Len(rows) \in Nat /\ \A i \in DOMAIN rows : rows[i] \in Row
  BY LenProperties, ElementOfSeq DEF InOrder
<1>2. \A i \in DOMAIN rows : rows[i].time \in Int
  BY <1>1 DEF Row
<1>3. \A i \in DOMAIN rows : rows[i].time < rows[k].time <=> i < k
  <2>1. ASSUME NEW i \in DOMAIN rows PROVE rows[i].time < rows[k].time <=> i < k
    <3>1. i < k => rows[i].time < rows[k].time
      BY DEF InOrder
    <3>2. k < i => rows[k].time < rows[i].time
      BY DEF InOrder
    <3>3. i \in Int /\ k \in Int /\ rows[i].time \in Int /\ rows[k].time \in Int
      BY <1>1, <1>2
    <3>4. QED
      BY <3>1, <3>2, <3>3
  <2>2. QED
    BY <2>1
<1>4. {i \in DOMAIN rows : rows[i].time < rows[k].time} = 1 .. (k - 1)
  BY <1>1, <1>3
<1>5. Cardinality(1 .. (k - 1)) = k - 1
  BY <1>1, FS_Interval
<1>6. k \in Nat /\ 1 + (k - 1) = k
  BY <1>1
<1>7. SearchSorted(rows, rows[k].time) = 1 + Cardinality(1 .. (k - 1))
  BY <1>4, Zenon DEF SearchSorted
<1>8. QED
  BY <1>5, <1>6, <1>7

(* A sequence is one of its own elements, and stays one when it grows.      *)
LEMMA Grown ==
  ASSUME NEW s, s \in Seq(Range(s)), NEW e
  PROVE  /\ Append(s, e) \in Seq(Range(Append(s, e)))
         /\ Len(s) \in Nat /\ DOMAIN s = 1 .. Len(s)
         /\ Len(Append(s, e)) = Len(s) + 1
         /\ DOMAIN Append(s, e) = 1 .. (Len(s) + 1)
         /\ \A i \in 1 .. Len(s) : Append(s, e)[i] = s[i]
         /\ Append(s, e)[Len(s) + 1] = e
<1> DEFINE S == Range(s) \cup {e}
           t == Append(s, e)
<1>1. \A i \in DOMAIN s : s[i] \in S
  BY DEF Range
<1>2. Len(s) \in Nat /\ DOMAIN s = 1 .. Len(s)
  BY LenProperties
<1>3. s \in Seq(S) /\ e \in S
  BY <1>1, <1>2, SeqMonotonic
<1> HIDE DEF S
<1>4. /\ t \in Seq(S) /\ Len(t) = Len(s) + 1
      /\ \A i \in 1 .. Len(s) : t[i] = s[i]
      /\ t[Len(s) + 1] = e
  BY <1>3, AppendProperties
<1>5. DOMAIN t = 1 .. (Len(s) + 1)
  BY <1>4, LenProperties
<1> HIDE DEF t
<1>6. t \in Seq(Range(t))
  <2>1. t \in [1 .. Len(t) -> S] /\ Len(t) \in Nat
    BY <1>4, LenProperties
  <2>2. t \in [1 .. Len(t) -> Range(t)]
    BY <2>1 DEF Range
  <2>3. QED
    BY <2>1, <2>2
<1>7. QED
  BY <1>2, <1>4, <1>5, <1>6 DEF t

--------------------------------------------------------------------------------
(* The inductive invariant.                                                 *)

LEMMA Initially == BacktestInit => IInv
<1> SUFFICES ASSUME BacktestInit PROVE IInv
  OBVIOUS
<1>1. /\ backtest.rows = <<>> /\ backtest.scored = <<>> /\ backtest.at = "idle"
      /\ DOMAIN backtest = {"at", "rows", "config", "scored", "warned"}
  BY DEF BacktestInit, NoBacktest
<1>2. <<>> \in Seq(Row) /\ <<>> \in Seq(Range(<<>>)) /\ DOMAIN <<>> = {} /\ Len(<<>>) = 0
  OBVIOUS
<1>3. InOrder(<<>>)
  BY <1>2 DEF InOrder
<1>4. QED
  BY <1>1, <1>2, <1>3 DEF IInv

LEMMA IngestKeeps ==
  ASSUME SortValuesSorts(BacktestUploads), Ingest
  PROVE  IInv'
<1>1. PICK u \in BacktestUploads, c \in Configurations :
        LET ingested == RunIngestionPipeline(u, c.length, <<5>>)
        IN  backtest' = [NoBacktest EXCEPT
              !.config = c,
              !.rows = IF ingested.task = Missing THEN <<>> ELSE ingested.task.history,
              !.at = IF ingested.raises # Missing THEN ingested.raises
                     ELSE IF ingested.task = Missing THEN "refused" ELSE "ingested"]
  BY DEF Ingest
<1> DEFINE ingested == RunIngestionPipeline(u, c.length, <<5>>)
           rows == IF ingested.task = Missing THEN <<>> ELSE ingested.task.history
           at == IF ingested.raises # Missing THEN ingested.raises
                 ELSE IF ingested.task = Missing THEN "refused" ELSE "ingested"
<1>2. InOrder(rows)
  <2>1. CASE ingested.task = Missing
    BY <2>1 DEF InOrder
  <2>2. CASE ingested.task # Missing
    BY <2>2, IngestedInOrder
  <2>3. QED
    BY <2>1, <2>2
<1>3. ingested.raises \in {Missing, "too few dates", "empty", "horizon", "quantiles",
                           "duplicate quantiles"}
  BY DEF RunIngestionPipeline, TaskError
<1> HIDE DEF ingested
<1>4. at \notin {"idle", "folding", "done"}
  BY <1>3
<1> HIDE DEF rows, at
<1>5. backtest' = [NoBacktest EXCEPT !.config = c, !.rows = rows, !.at = at]
  BY <1>1, Zenon DEF rows, at, ingested
<1>6. /\ backtest'.rows = rows /\ backtest'.at = at /\ backtest'.config = c
      /\ backtest'.scored = <<>>
      /\ DOMAIN backtest' = {"at", "rows", "config", "scored", "warned"}
  BY <1>5 DEF NoBacktest
<1>7. <<>> \in Seq(Range(<<>>)) /\ DOMAIN <<>> = {} /\ Len(<<>>) = 0
  OBVIOUS
<1>8. QED
  BY <1>2, <1>4, <1>6, <1>7 DEF IInv

LEMMA RunBacktestKeeps ==
  ASSUME IInv, RunBacktest
  PROVE  IInv'
<1> DEFINE c == backtest.config
           n == Len(backtest.rows)
           at == IF ParametersInvalid(c, n) \/ Cutoff(c, n, 1) < 1 THEN "raised" ELSE "folding"
<1>1. backtest.at = "ingested" /\ backtest' = [backtest EXCEPT !.at = at]
  BY DEF RunBacktest
<1>2. c \in Configurations /\ n \in Nat
  BY <1>1, LenProperties DEF IInv, InOrder
<1>3. at = "folding" => Planned(c, n)
  <2> HIDE DEF c, n
  <2>1. SUFFICES ASSUME ~ParametersInvalid(c, n), ~(Cutoff(c, n, 1) < 1)
                 PROVE  Cutoff(c, n, 1) >= 1
    BY <1>2 DEF Planned
  <2>2. c.folds \in Int /\ c.length \in Int /\ (c.horizon # Missing => c.horizon \in Int)
    BY <1>2, BacktestAssumption
  <2>3. Horizon(c) \in Int
    BY <2>2 DEF Horizon
  <2>4. Step(c) \in Int
    BY <2>3 DEF Step
  <2>5. (c.folds - 1) * Step(c) \in Int
    <3> DEFINE p == c.folds - 1
               q == Step(c)
    <3>1. p \in Int /\ q \in Int
      BY <2>2, <2>4
    <3> HIDE DEF p, q
    <3>2. p * q \in Int
      BY <3>1
    <3>3. QED
      BY <3>2 DEF p, q
  <2>6. Cutoff(c, n, 1) \in Int
    BY <1>2, <2>3, <2>5 DEF Cutoff
  <2>7. QED
    BY <2>1, <2>6
<1>4. at \in {"raised", "folding"}
  OBVIOUS
<1> HIDE DEF at
<1>5. /\ DOMAIN backtest' = {"at", "rows", "config", "scored", "warned"}
      /\ backtest'.at = at /\ backtest'.rows = backtest.rows
      /\ backtest'.config = backtest.config /\ backtest'.scored = backtest.scored
  BY <1>1 DEF IInv
<1>6. backtest.scored = <<>> /\ backtest'.scored = <<>> /\ Len(<<>>) = 0 /\ DOMAIN <<>> = {}
      /\ <<>> \in Seq(Range(<<>>))
  BY <1>1, <1>5 DEF IInv
<1>7. QED
  BY <1>1, <1>3, <1>4, <1>5, <1>6 DEF IInv

(* The fold scored is the one planned: its cut-off is found by its time     *)
(* where the plan put it, and its whole window is in the series.            *)
LEMMA ScoreFoldIs ==
  ASSUME IInv, ScoreFold, backtest'.at # "raised"
  PROVE  LET c == backtest.config
             fold == Len(backtest.scored) + 1
         IN  /\ Planned(c, Len(backtest.rows)) /\ fold \in 1 .. c.folds
             /\ \E s : /\ FoldIs(c, backtest.rows, fold, s)
                       /\ backtest' = [backtest EXCEPT !.scored = Append(@, s)]
<1> DEFINE c == backtest.config
           rows == backtest.rows
           n == Len(rows)
           fold == Len(backtest.scored) + 1
           k == Cutoff(c, n, fold)
           h == Horizon(c)
           cutoff == SearchSorted(rows, rows[k].time)
           window == TrainingWindow(c, n, cutoff)
           train == SubSeq(Values(rows), window.from, window.to)
           test == SubSeq(rows, cutoff + 1, Min({cutoff + h, n}))
           predicted == ForecastBaseline(c, train)
           s == [window |-> window, cutoff |-> rows[cutoff].time,
                 rows |-> [i \in DOMAIN test |->
                             [time |-> rows[cutoff + i].time, actual |-> test[i].value,
                              predicted |-> predicted[i]]],
                 metrics |-> EvaluateFold(c, Values(test), predicted, train)]
<1>1. backtest.at = "folding" /\ fold <= c.folds
  BY DEF ScoreFold
<1>2. /\ backtest' = [backtest EXCEPT !.scored = Append(@, s)]
      /\ predicted # <<>> /\ ~CannotEvaluate(c, Values(test), predicted, train)
  <2>1. \/ backtest' = [backtest EXCEPT !.at = "raised"]
        \/ /\ backtest' = [backtest EXCEPT !.scored = Append(@, s)]
           /\ predicted # <<>> /\ ~CannotEvaluate(c, Values(test), predicted, train)
    BY DEF ScoreFold
  <2>2. backtest' # [backtest EXCEPT !.at = "raised"]
    BY DEF IInv
  <2>3. QED
    BY <2>1, <2>2
<1>3. Planned(c, n)
  BY <1>1 DEF IInv
<1>4. fold \in 1 .. c.folds
  <2>1. Len(backtest.scored) \in Nat
    BY LenProperties DEF IInv
  <2>2. c.folds \in Int
    BY <1>3, BacktestAssumption DEF Planned
  <2>3. QED
    BY <1>1, <2>1, <2>2
<1> HIDE DEF fold
<1>5. /\ h \in Nat \ {0} /\ k \in 1 .. (n - h) /\ n \in Nat
  BY <1>3, <1>4, CutoffsFit DEF Planned
<1> HIDE DEF h, k
<1>6. InOrder(rows) /\ rows \in Seq(Row) /\ DOMAIN rows = 1 .. n
  BY LenProperties DEF IInv, InOrder
<1>7. k \in DOMAIN rows
  BY <1>5, <1>6
<1>8. cutoff = k
  BY <1>6, <1>7, CutoffIsFound
<1>9. test = SubSeq(rows, k + 1, k + h)
  <2>1. Min({k + h, n}) = k + h
    BY <1>5, TwoOfThem
  <2>2. QED
    BY <1>8, <2>1
<1>10. DOMAIN test = 1 .. h
  <2>1. \A i \in (k + 1) .. (k + h) : rows[i] \in Row
    BY <1>5, <1>6, ElementOfSeq
  <2> DEFINE from == k + 1
             to == k + h
  <2>2. from \in Int /\ to \in Int /\ from <= to /\ to - from + 1 = h
    BY <1>5
  <2>3. \A i \in from .. to : rows[i] \in Row
    BY <2>1
  <2>4. test = SubSeq(rows, from, to)
    BY <1>9
  <2> HIDE DEF from, to, test
  <2>5. SubSeq(rows, from, to) \in Seq(Row) /\ Len(SubSeq(rows, from, to)) = h
    BY <2>2, <2>3, SubSeqProperties
  <2>6. QED
    BY <2>4, <2>5, LenProperties
<1>11. s.window = TrainingWindow(c, n, k) /\ s.cutoff = rows[k].time
  BY <1>8
<1>12. DOMAIN s.rows = 1 .. h /\ \A i \in 1 .. h : s.rows[i].time = rows[k + i].time
  <2> HIDE DEF test, cutoff, predicted
  <2>1. s.rows = [i \in DOMAIN test |->
                    [time |-> rows[cutoff + i].time, actual |-> test[i].value,
                     predicted |-> predicted[i]]]
    OBVIOUS
  <2>2. QED
    BY <1>8, <1>10, <2>1
<1>13. s.metrics = EvaluateFold(c, Values(test), predicted, train)
  <2> HIDE DEF test, predicted, train
  <2>1. QED
    OBVIOUS
<1> HIDE DEF s
<1>14. FoldIs(c, rows, fold, s)
  <2>1. train = SubSeq(Values(rows), s.window.from, s.window.to)
    BY <1>8, <1>11
  <2> HIDE DEF test, train, predicted
  <2>2. /\ predicted # <<>> /\ ~CannotEvaluate(c, Values(test), predicted, train)
        /\ s.metrics = EvaluateFold(c, Values(test), predicted, train)
    BY <1>2, <1>13
  <2>3. QED
    BY <1>9, <1>11, <1>12, <2>1, <2>2 DEF FoldIs, h, k, predicted
<1>15. QED
  BY <1>2, <1>3, <1>4, <1>14 DEF fold

LEMMA ScoreFoldKeeps ==
  ASSUME IInv, ScoreFold
  PROVE  IInv'
<1>1. CASE backtest'.at = "raised"
  <2>1. backtest' = [backtest EXCEPT !.at = "raised"]
    <3>1. backtest.at = "folding"
      BY DEF ScoreFold
    <3>2. \/ backtest' = [backtest EXCEPT !.at = "raised"]
          \/ \E s : backtest' = [backtest EXCEPT !.scored = Append(@, s)]
      BY DEF ScoreFold
    <3>3. QED
      BY <1>1, <3>1, <3>2 DEF IInv
  <2>2. /\ DOMAIN backtest' = DOMAIN backtest
        /\ backtest'.rows = backtest.rows /\ backtest'.config = backtest.config
        /\ backtest'.scored = backtest.scored
    BY <2>1 DEF IInv
  <2>3. QED
    BY <1>1, <2>2 DEF IInv
<1>2. CASE backtest'.at # "raised"
  <2> DEFINE c == backtest.config
             fold == Len(backtest.scored) + 1
             rows == backtest.rows
  <2>1. backtest.at = "folding" /\ Planned(c, Len(rows)) /\ fold \in 1 .. c.folds
    BY <1>2, ScoreFoldIs DEF ScoreFold
  <2>2. PICK s : FoldIs(c, rows, fold, s) /\ backtest' = [backtest EXCEPT !.scored = Append(@, s)]
    BY <1>2, ScoreFoldIs
  <2>3. /\ DOMAIN backtest' = DOMAIN backtest
        /\ backtest'.rows = rows /\ backtest'.config = c /\ backtest'.at = "folding"
        /\ backtest'.scored = Append(backtest.scored, s)
    BY <2>1, <2>2 DEF IInv
  <2>4. backtest.scored \in Seq(Range(backtest.scored))
    BY DEF IInv
  <2> DEFINE old == backtest.scored
             new == Append(old, s)
  <2>5. /\ new \in Seq(Range(new)) /\ Len(old) \in Nat /\ DOMAIN old = 1 .. Len(old)
        /\ Len(new) = fold /\ DOMAIN new = 1 .. fold
        /\ \A i \in 1 .. Len(old) : new[i] = old[i]
        /\ new[fold] = s
    BY <2>4, Grown
  <2>6. \A j \in DOMAIN old : FoldIs(c, rows, j, old[j])
    BY DEF IInv
  <2>7. fold = Len(old) + 1
    OBVIOUS
  <2> HIDE DEF new, fold, rows, c
  <2>8. \A j \in DOMAIN new : FoldIs(c, rows, j, new[j])
    <3>1. \A j \in 1 .. fold : j = fold \/ j \in 1 .. Len(old)
      BY <2>5, <2>7
    <3>2. QED
      BY <2>2, <2>5, <2>6, <3>1
  <2>9. Len(new) <= c.folds
    <3>1. c.folds \in Int
      BY <2>1, BacktestAssumption DEF Planned
    <3>2. QED
      BY <2>1, <2>5, <3>1
  <2>10. InOrder(rows)
    BY DEF IInv, rows
  <2>11. backtest'.scored = new
    BY <2>3 DEF new
  <2>12. DOMAIN backtest' = {"at", "rows", "config", "scored", "warned"}
    BY <2>3 DEF IInv
  <2> HIDE DEF old
  <2>13. QED
    BY <2>1, <2>3, <2>5, <2>8, <2>9, <2>10, <2>11, <2>12 DEF IInv
<1>3. QED
  BY <1>1, <1>2

LEMMA FinishBacktestKeeps ==
  ASSUME IInv, FinishBacktest
  PROVE  IInv'
<1>1. /\ backtest.at = "folding" /\ Len(backtest.scored) = backtest.config.folds
      /\ backtest' = [backtest EXCEPT !.at = "done",
                        !.warned = backtest.config.folds < MinRecommendedFolds]
  BY DEF FinishBacktest
<1>2. /\ DOMAIN backtest' = {"at", "rows", "config", "scored", "warned"}
      /\ backtest'.at = "done" /\ backtest'.rows = backtest.rows
      /\ backtest'.config = backtest.config /\ backtest'.scored = backtest.scored
  BY <1>1 DEF IInv
<1>3. QED
  BY <1>1, <1>2 DEF IInv

(* Theorem.  The invariant is inductive.                                    *)
THEOREM InductiveInvariant ==
  ASSUME SortValuesSorts(BacktestUploads)
  PROVE  BacktestSpec => []IInv
<1>1. IInv /\ [BacktestNext]_backtest => IInv'
  <2> SUFFICES ASSUME IInv, [BacktestNext]_backtest PROVE IInv'
    OBVIOUS
  <2>1. CASE UNCHANGED backtest
    BY <2>1 DEF IInv
  <2>2. QED
    BY <2>1, IngestKeeps, RunBacktestKeeps, ScoreFoldKeeps, FinishBacktestKeeps
    DEF BacktestNext
<1>2. QED
  BY <1>1, Initially, PTL DEF BacktestSpec

--------------------------------------------------------------------------------
(* No fold sees its own future.                                             *)

LEMMA FoldsDoNotLeak == IInv => NoLeakage
<1> DEFINE c == backtest.config
           rows == backtest.rows
           n == Len(rows)
<1> SUFFICES ASSUME IInv, NEW j \in DOMAIN backtest.scored
             PROVE  LET trained == Times(SubSeq(rows, Scored(j).window.from, Scored(j).window.to))
                    IN  /\ Scored(j).cutoff \in trained
                        /\ \A t \in trained : t <= Scored(j).cutoff
                        /\ \A i \in DOMAIN FoldTimes(j), t \in trained : t < FoldTimes(j)[i]
  BY DEF NoLeakage
<1> DEFINE k == Cutoff(c, n, j)
           h == Horizon(c)
           w == Scored(j).window
           trained == Times(SubSeq(rows, w.from, w.to))
<1>1. Planned(c, n) /\ j \in 1 .. c.folds
  <2>1. backtest.scored \in Seq(Range(backtest.scored))
    BY DEF IInv
  <2>2. DOMAIN backtest.scored = 1 .. Len(backtest.scored) /\ Len(backtest.scored) \in Nat
    BY <2>1, LenProperties
  <2>3. backtest.scored # <<>> /\ Len(backtest.scored) > 0
    BY <2>2
  <2>4. Planned(c, n) /\ Len(backtest.scored) <= c.folds
    BY <2>3 DEF IInv
  <2>5. c.folds \in Int
    BY <2>4, BacktestAssumption DEF Planned
  <2>6. QED
    BY <2>2, <2>4, <2>5
<1>2. k \in 1 .. (n - h) /\ h \in Nat \ {0} /\ n \in Nat
  BY <1>1, CutoffsFit DEF Planned
<1>3. w = TrainingWindow(c, n, k) /\ Scored(j).cutoff = rows[k].time
  BY DEF IInv, FoldIs, Scored
<1>4. \A i \in DOMAIN FoldTimes(j) : i \in 1 .. h /\ FoldTimes(j)[i] = rows[k + i].time
  BY DEF IInv, FoldIs, Scored, FoldTimes
<1>5. w.to = k /\ w.from \in 1 .. k
  BY <1>1, <1>3, WindowsFit
<1>6. rows \in Seq(Row) /\ DOMAIN rows = 1 .. n /\ \A i \in 1 .. n : rows[i] \in Row
  BY LenProperties, ElementOfSeq DEF IInv, InOrder
<1> HIDE DEF k, h, w, n
<1>7. trained = {rows[i].time : i \in w.from .. k}
  <2> DEFINE f == w.from
             kept == SubSeq(rows, f, k)
  <2>1. f \in Int /\ k \in Int /\ f <= k /\ \A i \in f .. k : i \in 1 .. n /\ rows[i] \in Row
    BY <1>2, <1>5, <1>6
  <2> HIDE DEF f
  <2>2. /\ kept \in Seq(Row) /\ Len(kept) = k - f + 1
        /\ \A i \in 1 .. k - f + 1 : kept[i] = rows[f + i - 1]
    BY <2>1, SubSeqProperties
  <2>3. DOMAIN kept = 1 .. (k - f + 1)
    BY <2>2, LenProperties
  <2> HIDE DEF kept
  <2>4. trained = {kept[i].time : i \in 1 .. (k - f + 1)}
    BY <1>5, <2>3 DEF Times, kept, f
  <2>5. \A i \in 1 .. (k - f + 1) : f + i - 1 \in f .. k
    BY <2>1
  <2>6. \A i \in f .. k : i - f + 1 \in 1 .. (k - f + 1) /\ f + (i - f + 1) - 1 = i
    BY <2>1
  <2>7. \A i \in 1 .. (k - f + 1) : kept[i].time \in {rows[m].time : m \in f .. k}
    BY <2>2, <2>5
  <2>8. \A i \in f .. k : rows[i].time \in {kept[m].time : m \in 1 .. (k - f + 1)}
    <3>1. TAKE i \in f .. k
    <3>2. i - f + 1 \in 1 .. (k - f + 1) /\ kept[i - f + 1] = rows[i]
      BY <2>2, <2>6
    <3>3. QED
      BY <3>2
  <2>9. QED
    BY <2>4, <2>7, <2>8 DEF f
<1>8. \A i \in DOMAIN rows, m \in DOMAIN rows : i < m => rows[i].time < rows[m].time
  BY DEF IInv, InOrder
<1>9. \A i \in DOMAIN rows : rows[i].time \in Int
  BY <1>6 DEF Row
<1>10. \A i \in w.from .. k : i \in DOMAIN rows /\ (i < k \/ i = k) /\ i \in Int
  BY <1>2, <1>5, <1>6
<1>11. k \in DOMAIN rows /\ k \in w.from .. k
  BY <1>2, <1>5, <1>6
<1>12. Scored(j).cutoff \in trained
  BY <1>3, <1>7, <1>11
<1>13. ASSUME NEW t \in trained PROVE t <= Scored(j).cutoff
  <2>1. PICK i \in w.from .. k : t = rows[i].time
    BY <1>7
  <2>2. rows[i].time < rows[k].time \/ rows[i].time = rows[k].time
    BY <1>8, <1>10, <1>11
  <2>3. rows[i].time \in Int /\ rows[k].time \in Int
    BY <1>9, <1>10, <1>11
  <2>4. QED
    BY <1>3, <2>1, <2>2, <2>3
<1>14. ASSUME NEW m \in DOMAIN FoldTimes(j), NEW t \in trained PROVE t < FoldTimes(j)[m]
  <2>1. PICK i \in w.from .. k : t = rows[i].time
    BY <1>7
  <2>2. k + m \in DOMAIN rows /\ i < k + m
    BY <1>2, <1>4, <1>6, <1>10
  <2>3. rows[i].time < rows[k + m].time
    BY <1>8, <1>10, <2>2
  <2>4. QED
    BY <1>4, <2>1, <2>3
<1>15. QED
  BY <1>12, <1>13, <1>14 DEF w, n

(* Theorem.  Whatever is uploaded and configured, a fold is never scored on *)
(* an observation that its training window holds or that precedes its       *)
(* cut-off.                                                                 *)
THEOREM NoFoldSeesItsFuture ==
  ASSUME SortValuesSorts(BacktestUploads)
  PROVE  BacktestSpec => []NoLeakage
BY InductiveInvariant, FoldsDoNotLeak, PTL

--------------------------------------------------------------------------------
(* The folds tile the end of the series.                                    *)

LEMMA Distributes ==
  ASSUME NEW a \in Int, NEW b \in Int, NEW h \in Int
  PROVE  /\ a * h \in Int /\ (a - 1) * h = a * h - h
         /\ (a - b) * h = a * h - b * h /\ 1 * h = h
OBVIOUS

LEMMA Multiples ==
  ASSUME NEW i \in Nat, NEW m \in Nat, i <= m, NEW h \in Nat
  PROVE  i * h \in Nat /\ m * h \in Nat /\ i * h <= m * h
OBVIOUS

(* Adjacent pieces of a sequence, m of them and all of length h, behind its *)
(* first d elements.                                                        *)
AdjacentPieces(S, times, d, h, m, parts) ==
  /\ times \in Seq(S) /\ m \in Nat \ {0} /\ h \in Nat \ {0} /\ d \in Nat
  /\ d + m * h <= Len(times)
  /\ parts \in Seq(Seq(S)) /\ Len(parts) = m
  /\ \A j \in 1 .. m : parts[j] = SubSeq(times, d + (j - 1) * h + 1, d + j * h)

(* They flatten to what they are pieces of.                                 *)
LEMMA PiecesFlatten ==
  ASSUME NEW S, NEW times, NEW d, NEW h, NEW m, NEW parts,
         AdjacentPieces(S, times, d, h, m, parts)
  PROVE  FlattenSeq(parts) = SubSeq(times, d + 1, d + m * h)
<1> USE DEF AdjacentPieces
<1> DEFINE f == CHOOSE f : f = [i \in 1 .. Len(parts) |->
                                 IF i = 1 THEN parts[i] ELSE f[i - 1] \o parts[i]]
           g == [i \in 1 .. m |-> SubSeq(times, d + 1, d + i * h)]
<1>1. FlattenSeq(parts) = f[Len(parts)]
  BY DEF FlattenSeq
<1>2. \A i \in 1 .. m : /\ i * h \in Nat /\ i * h <= m * h /\ m * h \in Nat
                        /\ (i - 1) * h \in Nat /\ (i - 1) * h + h = i * h
  <2>1. TAKE i \in 1 .. m
  <2>2. i \in Nat /\ m \in Nat /\ i <= m /\ i - 1 \in Nat /\ i - 1 <= m /\ h \in Nat
    OBVIOUS
  <2>3. i * h \in Nat /\ i * h <= m * h /\ m * h \in Nat
    BY <2>2, Multiples
  <2>4. (i - 1) * h \in Nat
    <3> DEFINE p == i - 1
    <3>1. p \in Nat /\ m \in Nat /\ p <= m /\ h \in Nat
      BY <2>2
    <3> HIDE DEF p
    <3>2. p * h \in Nat
      BY <3>1, Multiples
    <3>3. QED
      BY <3>2 DEF p
  <2>5. (i - 1) * h = i * h - h
    BY <2>2, Distributes
  <2>6. QED
    BY <2>2, <2>3, <2>4, <2>5
<1>3. g = [i \in 1 .. Len(parts) |-> IF i = 1 THEN parts[i] ELSE g[i - 1] \o parts[i]]
  <2>1. ASSUME NEW i \in 1 .. m, i = 1 PROVE g[i] = parts[i]
    <3>1. (i - 1) * h = 0 /\ 1 * h = h
      BY <2>1
    <3>2. d + (i - 1) * h + 1 = d + 1
      BY <3>1
    <3>3. parts[i] = SubSeq(times, d + (i - 1) * h + 1, d + i * h)
      OBVIOUS
    <3>4. QED
      BY <2>1, <3>2, <3>3
  <2>2. ASSUME NEW i \in 1 .. m, i # 1 PROVE g[i] = g[i - 1] \o parts[i]
    <3> DEFINE x == d + 1
               y == d + (i - 1) * h
               z == d + i * h
    <3>1. i - 1 \in 1 .. m
      BY <2>2
    <3>2. g[i - 1] = SubSeq(times, x, y) /\ g[i] = SubSeq(times, x, z)
      BY <3>1
    <3>3. parts[i] = SubSeq(times, y + 1, z)
      OBVIOUS
    <3>4. x \in Nat \ {0} /\ y \in Nat /\ z \in Nat /\ x - 1 <= y /\ y <= z /\ z <= Len(times)
      <4>1. /\ i * h \in Nat /\ i * h <= m * h /\ m * h \in Nat
            /\ (i - 1) * h \in Nat /\ (i - 1) * h + h = i * h
        BY <1>2
      <4>2. Len(times) \in Nat
        BY LenProperties
      <4> DEFINE ih == i * h
                 mh == m * h
                 jh == (i - 1) * h
      <4>3. /\ ih \in Nat /\ mh \in Nat /\ jh \in Nat /\ ih <= mh /\ jh + h = ih
            /\ d + mh <= Len(times) /\ x = d + 1 /\ y = d + jh /\ z = d + ih
        BY <4>1
      <4> HIDE DEF ih, mh, jh, x, y, z
      <4>4. QED
        BY <4>2, <4>3
    <3> HIDE DEF x, y, z, g
    <3>5. Len(times) \in Nat
      BY LenProperties
    <3>6. x \in 1 .. Len(times) + 1 /\ y \in x - 1 .. Len(times) /\ z \in y .. Len(times)
      BY <3>4, <3>5
    <3>7. SubSeq(times, x, y) \o SubSeq(times, y + 1, z) = SubSeq(times, x, z)
      BY <3>6, ConcatAdjacentSubSeq
    <3>8. QED
      BY <3>2, <3>3, <3>7
  <2>3. DOMAIN g = 1 .. Len(parts) /\ g = [i \in 1 .. m |-> g[i]]
    OBVIOUS
  <2> HIDE DEF g
  <2>4. QED
    BY <2>1, <2>2, <2>3
<1>4. f = [i \in 1 .. Len(parts) |-> IF i = 1 THEN parts[i] ELSE f[i - 1] \o parts[i]]
  <2> HIDE DEF g
  <2>1. QED
    BY <1>3
<1> HIDE DEF f
<1> DEFINE T == {i \in Nat : i \in 1 .. m => f[i] = g[i]}
<1>5. 0 \in T
  OBVIOUS
<1>6. \A i \in Nat : i \in T => i + 1 \in T
  <2> HIDE DEF g
  <2>1. ASSUME NEW i \in Nat, i \in 1 .. m => f[i] = g[i], i + 1 \in 1 .. m
        PROVE  f[i + 1] = g[i + 1]
    <3>1. CASE i = 0
      BY <1>3, <1>4, <2>1, <3>1
    <3>2. CASE i # 0
      <4>1. i \in 1 .. m /\ f[i] = g[i] /\ (i + 1) - 1 = i /\ i + 1 # 1
        BY <2>1, <3>2
      <4>2. f[i + 1] = f[i] \o parts[i + 1] /\ g[i + 1] = g[i] \o parts[i + 1]
        BY <1>3, <1>4, <2>1, <4>1
      <4>3. QED
        BY <4>1, <4>2
    <3>3. QED
      BY <3>1, <3>2
  <2>2. ASSUME NEW i \in Nat, i \in T PROVE i + 1 \in T
    <3>1. i \in 1 .. m => f[i] = g[i]
      BY <2>2
    <3>2. i + 1 \in Nat /\ (i + 1 \in 1 .. m => f[i + 1] = g[i + 1])
      BY <2>1, <3>1
    <3>3. QED
      BY <3>2
  <2>3. QED
    BY <2>2
<1>7. m \in T
  <2> HIDE DEF T
  <2>1. Nat \subseteq T
    BY <1>5, <1>6, Induction
  <2>2. QED
    BY <2>1
<1>8. m \in 1 .. m
  OBVIOUS
<1>9. f[m] = SubSeq(times, d + 1, d + m * h)
  BY <1>7, <1>8
<1>10. QED
  BY <1>1, <1>9

(* The times a fold is scored at are those after its cut-off.               *)
LEMMA FoldTimesAre ==
  ASSUME IInv, NEW j \in DOMAIN backtest.scored
  PROVE  LET c == backtest.config
             n == Len(backtest.rows)
             k == Cutoff(c, n, j)
             times == [i \in 1 .. n |-> backtest.rows[i].time]
         IN  /\ Planned(c, n) /\ j \in 1 .. c.folds
             /\ times \in Seq(Int) /\ Len(times) = n
             /\ FoldTimes(j) = SubSeq(times, k + 1, k + Horizon(c))
             /\ FoldTimes(j) \in Seq(Int)
<1> DEFINE c == backtest.config
           n == Len(backtest.rows)
           k == Cutoff(c, n, j)
           h == Horizon(c)
           times == [i \in 1 .. n |-> backtest.rows[i].time]
<1>1. Planned(c, n) /\ j \in 1 .. c.folds
  <2>1. backtest.scored \in Seq(Range(backtest.scored))
    BY DEF IInv
  <2>2. DOMAIN backtest.scored = 1 .. Len(backtest.scored) /\ Len(backtest.scored) \in Nat
    BY <2>1, LenProperties
  <2>3. backtest.scored # <<>> /\ Len(backtest.scored) > 0
    BY <2>2
  <2>4. Planned(c, n) /\ Len(backtest.scored) <= c.folds
    BY <2>3 DEF IInv
  <2>5. c.folds \in Int
    BY <2>4, BacktestAssumption DEF Planned
  <2>6. QED
    BY <2>2, <2>4, <2>5
<1>2. k \in 1 .. (n - h) /\ h \in Nat \ {0} /\ n \in Nat
  BY <1>1, CutoffsFit DEF Planned
<1>3. DOMAIN FoldTimes(j) = 1 .. h /\ \A i \in 1 .. h : FoldTimes(j)[i] = backtest.rows[k + i].time
  BY DEF IInv, FoldIs, Scored, FoldTimes
<1>4. \A i \in 1 .. n : backtest.rows[i].time \in Int
  <2>1. backtest.rows \in Seq(Row)
    BY DEF IInv, InOrder
  <2>2. \A i \in 1 .. n : backtest.rows[i] \in Row
    BY <2>1, ElementOfSeq
  <2>3. QED
    BY <2>2 DEF Row
<1>5. FoldTimes(j) = [i \in 1 .. h |-> FoldTimes(j)[i]]
  BY <1>3 DEF FoldTimes
<1> HIDE DEF k, h, n
<1>6. times \in Seq(Int) /\ Len(times) = n /\ \A i \in 1 .. n : times[i] = backtest.rows[i].time
  BY <1>2, <1>4
<1> HIDE DEF times
<1>7. \A i \in 1 .. h : k + i \in 1 .. n
  BY <1>2
<1>8. FoldTimes(j) \in Seq(Int) /\ Len(FoldTimes(j)) = h
  <2>1. FoldTimes(j) \in [1 .. h -> Int]
    BY <1>3, <1>4, <1>5, <1>7
  <2>2. QED
    BY <1>2, <2>1
<1> DEFINE from == k + 1
           to == k + h
           part == SubSeq(times, from, to)
<1>9. from \in Int /\ to \in Int /\ from <= to /\ to - from + 1 = h
      /\ \A i \in from .. to : i \in 1 .. n /\ times[i] \in Int
  BY <1>2, <1>4, <1>6
<1>10. \A i \in 1 .. h : from + i - 1 = k + i
  BY <1>2
<1> HIDE DEF from, to
<1>11. part \in Seq(Int) /\ Len(part) = h /\ \A i \in 1 .. h : part[i] = times[from + i - 1]
  BY <1>9, SubSeqProperties
<1>12. \A i \in 1 .. h : part[i] = FoldTimes(j)[i]
  BY <1>3, <1>6, <1>7, <1>10, <1>11
<1> HIDE DEF part
<1>13. part = FoldTimes(j)
  BY <1>8, <1>11, <1>12, SeqEqual
<1>14. QED
  BY <1>1, <1>6, <1>8, <1>13 DEF part, from, to, times, k, h, n

LEMMA FoldsAreLaidOut == IInv => FoldsTileTheEnd
<1> DEFINE c == backtest.config
           n == Len(backtest.rows)
           h == Horizon(c)
           m == c.folds
           times == [i \in 1 .. n |-> backtest.rows[i].time]
           parts == [j \in DOMAIN backtest.scored |-> FoldTimes(j)]
           length(j) == Scored(j).window.to - Scored(j).window.from + 1
<1> SUFFICES ASSUME IInv, backtest.at = "done"
             PROVE  /\ c.nonOverlapping => FlattenSeq(parts) = SubSeq(times, n - m * h + 1, n)
                    /\ ~c.nonOverlapping =>
                         \A j \in DOMAIN backtest.scored :
                           FoldTimes(j) = SubSeq(times, n - m - h + j + 1, n - m + j)
                    /\ ~c.expanding => \A j, k \in DOMAIN backtest.scored : length(j) = length(k)
  BY DEF FoldsTileTheEnd
<1>1. Planned(c, n) /\ n \in Nat /\ m \in Nat \ {0} /\ h \in Nat \ {0}
  <2>1. Planned(c, n)
    BY DEF IInv
  <2>2. m \in Int /\ ~(m < 1)
    BY <2>1, BacktestAssumption DEF Planned, ParametersInvalid
  <2>3. 1 \in 1 .. m
    BY <2>2
  <2>4. QED
    BY <2>1, <2>3, CutoffsFit DEF Planned
<1>2. DOMAIN backtest.scored = 1 .. m
  <2>1. backtest.scored \in Seq(Range(backtest.scored)) /\ Len(backtest.scored) = m
    BY DEF IInv
  <2>2. QED
    BY <2>1, LenProperties
<1>3. \A j \in 1 .. m : /\ FoldTimes(j) \in Seq(Int)
                        /\ FoldTimes(j) = SubSeq(times, Cutoff(c, n, j) + 1, Cutoff(c, n, j) + h)
  BY <1>2, FoldTimesAre
<1>4. times \in Seq(Int) /\ Len(times) = n
  BY <1>1, <1>2, FoldTimesAre
<1>5. \A j \in 1 .. m : Cutoff(c, n, j) = n - h - (m - j) * Step(c)
  BY DEF Cutoff
<1> HIDE DEF times, h, n
<1>6. ASSUME c.nonOverlapping PROVE FlattenSeq(parts) = SubSeq(times, n - m * h + 1, n)
  <2> DEFINE d == n - m * h
  <2>1. Step(c) = h
    BY <1>6 DEF Step, h
  <2>2. \A j \in 1 .. m : Cutoff(c, n, j) = d + (j - 1) * h /\ Cutoff(c, n, j) + h = d + j * h
    <3>1. TAKE j \in 1 .. m
    <3>2. (m - j) * h = m * h - j * h /\ (j - 1) * h = j * h - h /\ m * h \in Int /\ j * h \in Int
      BY <1>1, Distributes
    <3>3. Cutoff(c, n, j) = n - h - (m - j) * h
      BY <1>5, <2>1
    <3> DEFINE mh == m * h
               jh == j * h
    <3>4. mh \in Int /\ jh \in Int /\ Cutoff(c, n, j) = n - h - (mh - jh)
          /\ (j - 1) * h = jh - h /\ d = n - mh
      BY <3>2, <3>3
    <3> HIDE DEF mh
    <3>5. Cutoff(c, n, j) = d + (jh - h) /\ Cutoff(c, n, j) + h = d + jh
      <4> HIDE DEF jh, d
      <4>1. QED
        BY <1>1, <3>4
    <3>6. QED
      BY <3>4, <3>5
  <2>3. d \in Nat /\ d + m * h = n
    <3>1. Cutoff(c, n, 1) = d + (1 - 1) * h /\ 1 - 1 = 0 /\ 0 * h = 0
      BY <1>1, <2>2
    <3>2. m * h \in Int
      BY <1>1, Distributes
    <3>3. d \in Int /\ d + m * h = n
      BY <1>1, <3>2
    <3>4. Cutoff(c, n, 1) >= 1
      BY <1>1 DEF Planned
    <3>5. d >= 1
      <4> HIDE DEF d
      <4>1. QED
        BY <3>1, <3>3, <3>4
    <3>6. QED
      BY <3>3, <3>5
  <2>4. parts \in Seq(Seq(Int)) /\ Len(parts) = m /\ \A j \in 1 .. m : parts[j] = FoldTimes(j)
    <3>1. parts = [j \in 1 .. m |-> FoldTimes(j)]
      BY <1>2
    <3> HIDE DEF parts
    <3>2. DOMAIN parts = 1 .. m /\ \A j \in 1 .. m : parts[j] = FoldTimes(j)
      BY <3>1
    <3>3. parts \in [1 .. m -> Seq(Int)]
      BY <1>3, <3>1
    <3> DEFINE S == Seq(Int)
    <3> HIDE DEF S
    <3>4. parts \in Seq(S) /\ Len(parts) = m
      <4>1. parts \in [1 .. m -> S]
        BY <3>3 DEF S
      <4>2. QED
        BY <1>1, <4>1
    <3>5. QED
      BY <3>2, <3>4 DEF S
  <2> HIDE DEF parts, d
  <2>5. \A j \in 1 .. m : parts[j] = SubSeq(times, d + (j - 1) * h + 1, d + j * h)
    BY <1>3, <2>2, <2>4
  <2>6. d + m * h <= Len(times)
    BY <1>1, <1>4, <2>3
  <2>7. FlattenSeq(parts) = SubSeq(times, d + 1, d + m * h)
    <3> HIDE DEF c, m
    <3>1. AdjacentPieces(Int, times, d, h, m, parts)
      BY <1>1, <1>4, <2>3, <2>4, <2>5, <2>6 DEF AdjacentPieces
    <3>2. QED
      BY <3>1, PiecesFlatten
  <2>8. QED
    BY <2>3, <2>7 DEF d
<1>7. ASSUME ~c.nonOverlapping, NEW j \in 1 .. m
      PROVE  FoldTimes(j) = SubSeq(times, n - m - h + j + 1, n - m + j)
  <2>1. Cutoff(c, n, j) = n - h - (m - j) * 1
    BY <1>5, <1>7 DEF Step
  <2>2. Cutoff(c, n, j) + 1 = n - m - h + j + 1 /\ Cutoff(c, n, j) + h = n - m + j
    BY <1>1, <2>1
  <2>3. QED
    BY <1>3, <2>2
<1>8. ASSUME ~c.expanding, NEW j \in 1 .. m PROVE length(j) = Cutoff(c, n, 1)
  <2>1. Scored(j).window = TrainingWindow(c, n, Cutoff(c, n, j))
    BY <1>2 DEF IInv, FoldIs, Scored, n
  <2>2. QED
    BY <1>1, <1>8, <2>1, WindowsFit
<1>9. QED
  BY <1>2, <1>6, <1>7, <1>8 DEF h, n

(* Theorem.  A backtest that ends has scored the end of the series, without *)
(* a gap and, unless the folds overlap by design, without scoring anything  *)
(* twice; and a sliding window has kept its length.                         *)
THEOREM TheEndIsTiled ==
  ASSUME SortValuesSorts(BacktestUploads)
  PROVE  BacktestSpec => []FoldsTileTheEnd
BY InductiveInvariant, FoldsAreLaidOut, PTL

--------------------------------------------------------------------------------
(* The seasonal baseline on a series that repeats itself.                   *)

LEMMA AtLeastOne ==
  ASSUME NEW a \in Nat, NEW p \in Nat, a >= 1
  PROVE  p * a >= p
OBVIOUS

LEMMA Differences ==
  ASSUME NEW a \in Int, NEW b \in Int, NEW p \in Int
  PROVE  /\ p * a \in Int /\ p * b \in Int
         /\ p * (a - b) = p * a - p * b /\ p * (a + 1) = p * a + p
OBVIOUS

(* A remainder is found again a season later.                               *)
LEMMA SameRemainder ==
  ASSUME NEW i \in Nat, NEW p \in Nat \ {0}, i >= p
  PROVE  (i - p) % p = i % p
<1> DEFINE j == i - p
           q == (i \div p) - 1
           u == j \div p
           r == j % p
           t == i % p
           pq == p * q
           pu == p * u
           d == q - u
           e == u - q
<1>1. j \in Nat /\ i \in Nat
  OBVIOUS
<1>2. q \in Int /\ u \in Int /\ p \in Int
  OBVIOUS
<1>3. j = pu + r /\ r \in 0 .. (p - 1)
  <2> HIDE DEF j
  <2>1. QED
    BY <1>1
<1>4. i = pq + p + t /\ t \in 0 .. (p - 1)
  <2>1. i = p * (i \div p) + t /\ t \in 0 .. (p - 1) /\ i \div p = q + 1
    OBVIOUS
  <2>2. p * (q + 1) = pq + p
    BY <1>2, Differences
  <2>3. QED
    BY <2>1, <2>2
<1>5. pq \in Int /\ pu \in Int /\ p * d = pq - pu /\ p * e = pu - pq
  BY <1>2, Differences
<1>6. d \in Int /\ e \in Int /\ (d = 0 \/ d >= 1 \/ e >= 1)
  BY <1>2
<1>7. i - p = j
  OBVIOUS
<1> HIDE DEF j, r, t, pq, pu, d, e
<1>8. p * d = r - t /\ p * e = t - r
  BY <1>1, <1>3, <1>4, <1>5, <1>7
<1>9. ~(d >= 1) /\ ~(e >= 1)
  <2>1. (d >= 1 => p * d >= p) /\ (e >= 1 => p * e >= p)
    BY <1>6, AtLeastOne
  <2>2. QED
    BY <1>3, <1>4, <1>8, <2>1
<1>10. r = t
  <2>1. p * d = 0
    BY <1>6, <1>9
  <2>2. QED
    BY <1>3, <1>4, <1>8, <2>1
<1>11. QED
  BY <1>10 DEF r, t, j

(* Values that come back after a season, of which k are known and h follow. *)
Repeats(v, n, p, k, h) ==
  /\ n \in Nat /\ p \in Nat \ {0} /\ k \in Nat /\ h \in Nat /\ p <= k /\ k + h <= n
  /\ \A i \in 1 .. (n - p) : v[i] = v[i + p]

(* What is last seen of a place in the season is what follows.              *)
LEMMA SeasonRepeats ==
  ASSUME NEW v, NEW n, NEW p, NEW k, NEW h, Repeats(v, n, p, k, h)
  PROVE  \A x \in 1 .. h : v[k + x] = v[k - p + 1 + ((x - 1) % p)]
<1> USE DEF Repeats
<1> DEFINE T == {m \in Nat : \A x \in 1 .. m : x <= h => v[k + x] = v[k - p + 1 + ((x - 1) % p)]}
<1>1. 0 \in T
  OBVIOUS
<1>2. ASSUME NEW m \in Nat, \A x \in 1 .. m : x <= h => v[k + x] = v[k - p + 1 + ((x - 1) % p)],
             m + 1 <= h
      PROVE  v[k + (m + 1)] = v[k - p + 1 + (m % p)]
  <2>1. k + m + 1 - p \in 1 .. (n - p) /\ (k + m + 1 - p) + p = k + (m + 1)
    BY <1>2
  <2>2. v[k + m + 1 - p] = v[k + (m + 1)]
    BY <2>1
  <2>3. CASE m < p
    <3>1. m % p = m /\ k - p + 1 + m = k + m + 1 - p
      BY <1>2, <2>3
    <3>2. QED
      BY <2>2, <3>1
  <2>4. CASE m >= p
    <3> DEFINE x == m + 1 - p
    <3>1. x \in 1 .. m /\ x <= h /\ k + x = k + m + 1 - p /\ x - 1 = m - p
      BY <1>2, <2>4
    <3>2. (m - p) % p = m % p
      BY <2>4, SameRemainder
    <3> HIDE DEF x
    <3>3. v[k + x] = v[k - p + 1 + ((x - 1) % p)]
      BY <1>2, <3>1
    <3>4. QED
      BY <2>2, <3>1, <3>2, <3>3
  <2>5. QED
    BY <1>2, <2>3, <2>4
<1>3. ASSUME NEW m \in Nat, m \in T PROVE m + 1 \in T
  <2>1. \A x \in 1 .. m : x <= h => v[k + x] = v[k - p + 1 + ((x - 1) % p)]
    BY <1>3
  <2>2. m + 1 <= h => v[k + (m + 1)] = v[k - p + 1 + (m % p)]
    BY <1>2, <2>1
  <2>3. ASSUME NEW x \in 1 .. (m + 1), x <= h
        PROVE  v[k + x] = v[k - p + 1 + ((x - 1) % p)]
    <3>1. x \in 1 .. m \/ (x = m + 1 /\ x - 1 = m)
      OBVIOUS
    <3>2. QED
      BY <2>1, <2>2, <2>3, <3>1
  <2>4. m + 1 \in Nat
    OBVIOUS
  <2>5. QED
    BY <2>3, <2>4
<1>4. h \in T
  <2> HIDE DEF T
  <2>1. QED
    BY <1>1, <1>3, Induction
<1>5. QED
  BY <1>4

(* A sum of zeros is zero.                                                  *)
LEMMA ZerosAddUp ==
  ASSUME NEW h \in Nat, NEW s, DOMAIN s = 1 .. h, \A i \in 1 .. h : s[i] = 0
  PROVE  SumOf(s) = 0
<1> DEFINE D == 1 .. h
           f == CHOOSE f : f = [S \in SUBSET D |->
                                 IF S = {} THEN 0 ELSE f[S \ {Max(S)}] + s[Max(S)]]
           g == [S \in SUBSET D |-> 0]
<1>1. SumOf(s) = f[D]
  BY DEF SumOf, FoldLeft, MapThenFoldSet
<1>2. g = [S \in SUBSET D |-> IF S = {} THEN 0 ELSE g[S \ {Max(S)}] + s[Max(S)]]
  <2>1. ASSUME NEW S \in SUBSET D, S # {} PROVE g[S \ {Max(S)}] + s[Max(S)] = 0
    <3>1. Max(S) \in D
      BY <2>1, Greatest
    <3>2. s[Max(S)] = 0
      BY <3>1
    <3>3. g[S \ {Max(S)}] = 0
      OBVIOUS
    <3>4. QED
      BY <3>2, <3>3
  <2>2. QED
    BY <2>1
<1>3. f = [S \in SUBSET D |-> IF S = {} THEN 0 ELSE f[S \ {Max(S)}] + s[Max(S)]]
  <2> HIDE DEF g
  <2>1. QED
    BY <1>2
<1> HIDE DEF f
<1>4. f[{}] = 0
  BY <1>3
<1> DEFINE T == {m \in Nat : m <= h => f[1 .. m] = 0}
<1>5. 0 \in T
  <2>1. 1 .. 0 = {}
    OBVIOUS
  <2>2. QED
    BY <1>4, <2>1
<1>6. ASSUME NEW m \in Nat, m <= h => f[1 .. m] = 0, m + 1 <= h PROVE f[1 .. (m + 1)] = 0
  <2> DEFINE S == 1 .. (m + 1)
  <2>1. S \in SUBSET D /\ S # {}
    <3>1. \A i \in S : i \in D
      BY <1>6
    <3>2. m + 1 \in S
      OBVIOUS
    <3>3. QED
      BY <3>1, <3>2
  <2>2. Max(S) = m + 1
    <3>1. m + 1 \in S /\ \A y \in S : m + 1 >= y
      OBVIOUS
    <3>2. \A z \in S : (\A y \in S : z >= y) => z = m + 1
      BY <3>1
    <3>3. QED
      BY <3>1, <3>2 DEF Max
  <2>3. S \ {m + 1} = 1 .. m
    OBVIOUS
  <2>4. s[m + 1] = 0
    BY <1>6
  <2> HIDE DEF S
  <2>5. f[S] = f[S \ {Max(S)}] + s[Max(S)]
    BY <1>3, <2>1
  <2>6. f[S] = 0 + 0
    <3>1. f[1 .. m] = 0
      BY <1>6
    <3>2. QED
      BY <2>2, <2>3, <2>4, <2>5, <3>1, Zenon
  <2>7. QED
    BY <2>6 DEF S
<1>7. ASSUME NEW m \in Nat, m \in T PROVE m + 1 \in T
  <2>1. m <= h => f[1 .. m] = 0
    BY <1>7
  <2>2. m + 1 <= h => f[1 .. (m + 1)] = 0
    BY <1>6, <2>1
  <2>3. m + 1 \in Nat
    OBVIOUS
  <2>4. QED
    BY <2>2, <2>3
<1>8. h \in T
  <2> HIDE DEF T
  <2>1. QED
    BY <1>5, <1>7, Induction
<1>9. QED
  BY <1>1, <1>8

LEMMA SeasonIsKnown == IInv => SeasonalNaiveIsExact
<1> DEFINE c == backtest.config
           rows == backtest.rows
           n == Len(rows)
           v == Values(rows)
           p == c.period
           h == Horizon(c)
<1> SUFFICES ASSUME IInv, c.model = "seasonal_naive",
                    \A i \in 1 .. (Len(v) - p) : v[i] = v[i + p],
                    NEW j \in DOMAIN backtest.scored
             PROVE  Scored(j).metrics.error = 0
  BY DEF SeasonalNaiveIsExact
<1> DEFINE k == Cutoff(c, n, j)
           w == TrainingWindow(c, n, k)
           from == w.from
           train == SubSeq(v, from, k)
           test == SubSeq(rows, k + 1, k + h)
           actual == Values(test)
           predicted == ForecastBaseline(c, train)
<1>1. Planned(c, n) /\ j \in 1 .. c.folds
  BY FoldTimesAre
<1>2. k \in 1 .. (n - h) /\ h \in Nat \ {0} /\ n \in Nat
  BY <1>1, CutoffsFit DEF Planned
<1>3. w.to = k /\ from \in 1 .. k
  BY <1>1, WindowsFit
<1>4. /\ predicted # <<>> /\ ~CannotEvaluate(c, actual, predicted, train)
      /\ Scored(j).metrics = EvaluateFold(c, actual, predicted, train)
  <2>1. FoldIs(c, rows, j, Scored(j))
    BY DEF IInv, Scored
  <2>2. Scored(j).window = w
    BY <2>1 DEF FoldIs
  <2>3. train = SubSeq(v, Scored(j).window.from, Scored(j).window.to)
    BY <1>3, <2>2
  <2> HIDE DEF w, from
  <2>4. QED
    BY <2>1, <2>3 DEF FoldIs
<1>5. /\ rows \in Seq(Row) /\ DOMAIN rows = 1 .. n /\ \A i \in 1 .. n : rows[i] \in Row
  BY LenProperties, ElementOfSeq DEF IInv, InOrder
<1>6. v \in Seq(Int \cup {NaN}) /\ Len(v) = n /\ \A i \in 1 .. n : v[i] = rows[i].value
      /\ \A m \in 1 .. n : v[m] \in Int \cup {NaN}
  <2>1. v = [i \in 1 .. n |-> rows[i].value]
    BY <1>5 DEF Values
  <2>2. \A i \in 1 .. n : rows[i].value \in Int \cup {NaN}
    BY <1>5 DEF Row
  <2> HIDE DEF v, n
  <2>3. v \in [1 .. n -> Int \cup {NaN}]
    BY <2>1, <2>2
  <2>4. QED
    BY <1>2, <2>1, <2>2, <2>3
<1>7. p \in Nat \ {0} /\ Len(train) >= 2 * p /\ predicted = SeasonalNaiveForecast(train, h, p)
  <2>1. /\ c.period # Missing /\ SeasonalNaiveEligible(train, c.period)
        /\ predicted = SeasonalNaiveForecast(train, h, p)
    BY <1>4 DEF ForecastBaseline
  <2>2. p \in Nat \ {0}
    BY <1>1, <2>1, BacktestAssumption DEF Planned
  <2>3. QED
    BY <2>1, <2>2 DEF SeasonalNaiveEligible
<1> HIDE DEF n, h, k, v, p, w, rows
<1>8. /\ Len(train) = k - from + 1
      /\ \A i \in 1 .. (k - from + 1) : train[i] = v[from + i - 1]
  <2>1. from \in Int /\ k \in Int /\ from <= k
        /\ \A i \in from .. k : v[i] \in Int \cup {NaN}
    BY <1>2, <1>3, <1>6
  <2> HIDE DEF from
  <2>2. QED
    BY <2>1, SubSeqProperties
<1> HIDE DEF train
<1>9. \A i \in 1 .. h : predicted[i] = v[k - p + 1 + ((i - 1) % p)]
  <2>1. TAKE i \in 1 .. h
  <2> DEFINE r == (i - 1) % p
             x == Len(train) - p + 1 + r
  <2>2. r \in 0 .. (p - 1)
    <3>1. i - 1 \in Nat
      BY <1>2
    <3>2. QED
      BY <1>7, <3>1
  <2>3. predicted[i] = train[x]
    BY <1>7 DEF SeasonalNaiveForecast
  <2> DEFINE l == Len(train)
             f == from
  <2>4. /\ l = k - f + 1 /\ l >= 2 * p /\ p \in Nat \ {0} /\ f \in 1 .. k /\ k \in Nat
        /\ r \in 0 .. (p - 1) /\ x = l - p + 1 + r
    BY <1>2, <1>3, <1>7, <1>8, <2>2
  <2> HIDE DEF r, l, f, x
  <2>5. x \in 1 .. (k - f + 1) /\ f + x - 1 = k - p + 1 + r
    BY <2>4
  <2>6. train[x] = v[k - p + 1 + r]
    BY <1>8, <2>5 DEF f
  <2>7. QED
    BY <2>3, <2>6 DEF r
<1>10. DOMAIN actual = 1 .. h /\ \A i \in 1 .. h : actual[i] = v[k + i] /\ k + i \in 1 .. n
  <2> DEFINE a == k + 1
             b == k + h
  <2>1. a \in Int /\ b \in Int /\ a <= b /\ b - a + 1 = h /\ \A i \in a .. b : i \in 1 .. n
    BY <1>2
  <2>2. \A i \in 1 .. h : a + i - 1 = k + i /\ k + i \in 1 .. n
    BY <1>2
  <2> HIDE DEF a, b
  <2>3. \A i \in a .. b : rows[i] \in Row
    BY <1>5, <2>1
  <2> DEFINE t == SubSeq(rows, a, b)
  <2>4. t \in Seq(Row) /\ Len(t) = h /\ \A i \in 1 .. h : t[i] = rows[a + i - 1]
    BY <2>1, <2>3, SubSeqProperties
  <2>5. DOMAIN t = 1 .. h
    BY <2>4, LenProperties
  <2>6. test = t
    BY DEF a, b
  <2> HIDE DEF t, test
  <2>7. DOMAIN actual = 1 .. h /\ \A i \in 1 .. h : actual[i] = t[i].value
    BY <2>5, <2>6 DEF Values
  <2>8. QED
    BY <1>6, <2>2, <2>4, <2>7
<1> HIDE DEF test, actual, predicted
<1>11. \A i \in 1 .. h : v[k + i] = v[k - p + 1 + ((i - 1) % p)]
  <2>1. k \in Nat /\ h \in Nat /\ p <= k /\ k + h <= n
    <3> DEFINE l == Len(train)
               f == from
    <3>1. /\ l = k - f + 1 /\ l >= 2 * p /\ p \in Nat \ {0} /\ f \in 1 .. k /\ k \in Nat
          /\ h \in Nat \ {0} /\ k \in 1 .. (n - h) /\ n \in Nat
      BY <1>2, <1>3, <1>7, <1>8
    <3> HIDE DEF l, f
    <3>2. QED
      BY <3>1
  <2>2. Repeats(v, n, p, k, h)
    BY <1>2, <1>6, <1>7, <2>1 DEF Repeats
  <2>3. QED
    BY <2>2, SeasonRepeats
<1>12. \A i \in 1 .. h : actual[i] = predicted[i] /\ actual[i] \in Int
  <2>1. TAKE i \in 1 .. h
  <2>2. actual[i] = predicted[i]
    BY <1>9, <1>10, <1>11
  <2>3. actual[i] # NaN
    BY <1>4, <1>10 DEF CannotEvaluate, Range
  <2>4. actual[i] \in Int \cup {NaN}
    BY <1>6, <1>10
  <2>5. QED
    BY <2>2, <2>3, <2>4
<1> DEFINE s == [i \in DOMAIN actual |-> Abs(actual[i] - predicted[i])]
<1>13. DOMAIN s = 1 .. h /\ \A i \in 1 .. h : s[i] = 0
  <2>1. \A i \in 1 .. h : actual[i] - predicted[i] = 0
    BY <1>12
  <2>2. Abs(0) = 0
    BY DEF Abs
  <2>3. QED
    BY <1>10, <2>1, <2>2
<1>14. Scored(j).metrics.error = SumOf(s)
  BY <1>4 DEF EvaluateFold
<1> HIDE DEF s
<1>15. QED
  BY <1>2, <1>13, <1>14, ZerosAddUp

(* Theorem.  On a series that repeats itself the seasonal baseline is never *)
(* wrong, whatever the season, the horizon and the fold.                    *)
THEOREM SeasonalBaselineIsExact ==
  ASSUME SortValuesSorts(BacktestUploads)
  PROVE  BacktestSpec => []SeasonalNaiveIsExact
BY InductiveInvariant, SeasonIsKnown, PTL
--------------------------------------------------------------------------------
(* The benchmark suite.                                                     *)

Weekly == "weekly_260_13"
PanelOf5 == "panel_5_series"
Rolling == "10_rolling_calls"
Injected == "failure_and_retry"

ToWarm == {"cold", "warm"}
ToWeekly == ToWarm \cup {"judge weekly"}
ToPanel == ToWeekly \cup {"panel"}
ToFold == ToPanel \cup {"fold"}
Stage == ToFold \cup {"inject", "retry", "write", "written"}

Label == {"cold_forecast", "warm_forecast", "panel_forecast_direct", "fold",
          "injection_failure_test", "retry_success"}
CacheState == InitialCacheState \cup {None, SameProcessWarm, "synthetic_fake"}
ASample == [label : Label, cache : CacheState, success : BOOLEAN, calls : {0, 1},
            reused : BOOLEAN, quick : BOOLEAN]
AResult == [samples : Seq(ASample), revision : {None, ConfiguredRevision}, passed : BOOLEAN]

SuiteTypes ==
  /\ suite \in [at : Stage, pre : Inspection, label : InitialCacheState \cup {None},
                constructed : {0, 1}, panel : {<<>>} \cup {out.rows : out \in PanelOutput},
                results : [RequiredScenario -> AResult]]
  /\ failures \in Nat

SamplesOf(s) == suite.results[s].samples
Passed(s) == suite.results[s].passed

(* The weekly scenario has a cold sample and a warm one; a cold success has *)
(* constructed the pipeline, and nothing has since.                         *)
WeeklyInv ==
  LET samples == SamplesOf(Weekly) IN
  /\ suite.at = "cold" => samples = <<>> /\ suite.constructed = 0
  /\ suite.at = "warm" => Len(samples) = 1
  /\ suite.at \notin ToWarm => Len(samples) = 2
  /\ suite.at # "cold" => /\ samples[1].label = "cold_forecast"
                          /\ samples[1].success => /\ samples[1].calls = 1
                                                   /\ ~samples[1].reused
                                                   /\ suite.constructed = 1
  /\ suite.at \notin ToWarm => /\ samples[2].label = "warm_forecast"
                               /\ samples[2].cache = SameProcessWarm
  /\ suite.at \in ToWeekly => ~Passed(Weekly)
  /\ Passed(Weekly) => samples[1].success /\ samples[2].success

PanelInv ==
  LET samples == SamplesOf(PanelOf5) IN
  /\ suite.at \in ToPanel => /\ samples = <<>> /\ ~Passed(PanelOf5)
                             /\ suite.results[PanelOf5].revision = None
  /\ suite.at \notin ToPanel => Len(samples) = 1 /\ samples[1].label = "panel_forecast_direct"
  /\ Passed(PanelOf5) => samples[1].success /\ PanelIsComplete

RollingInv ==
  LET samples == SamplesOf(Rolling) IN
  /\ suite.at \in ToPanel => samples = <<>>
  /\ suite.at \in ToFold => ~Passed(Rolling)
  /\ \A i \in DOMAIN samples : samples[i].label = "fold"
  /\ Passed(Rolling) => /\ samples # <<>> /\ \A i \in DOMAIN samples : samples[i].success
                        /\ SuccessfulFolds = Folds

(* Whatever went wrong is told by a sample, and a sample that went well by  *)
(* the revision.                                                            *)
FailuresAreTold ==
  failures # 0 => \E s \in ModelScenario : \E i \in DOMAIN SamplesOf(s) : ~SamplesOf(s)[i].success
RevisionsAreKnown ==
  \A s \in ModelScenario : \A i \in DOMAIN SamplesOf(s) :
    SamplesOf(s)[i].success /\ SamplesOf(s)[i].label # "warm_forecast"
      => suite.results[s].revision = ConfiguredRevision

SuiteInv ==
  /\ SuiteTypes /\ WeeklyInv /\ PanelInv /\ RollingInv /\ FailuresAreTold /\ RevisionsAreKnown
  /\ suite.at # "written" => envelope = None
  /\ PassingSuiteValidates /\ FailureIsNotHidden

--------------------------------------------------------------------------------
(* What the steps of the suite do.                                          *)

(* A call adds sample `new' to its scenario, and says so if it went wrong.  *)
Called(scenario, new, next) ==
  /\ SuiteTypes' /\ envelope' = envelope
  /\ suite'.at = next /\ suite'.panel = suite.panel
  /\ suite.constructed = 1 => suite'.constructed = 1
  /\ \A s \in RequiredScenario \ {scenario} : suite'.results[s] = suite.results[s]
  /\ suite'.results[scenario].samples = Append(SamplesOf(scenario), new)
  /\ suite'.results[scenario].passed = Passed(scenario)
  /\ failures' # 0 => failures # 0 \/ ~new.success
  /\ suite.results[scenario].revision = ConfiguredRevision
       => suite'.results[scenario].revision = ConfiguredRevision
  /\ new.success /\ new.label # "warm_forecast"
       => suite'.results[scenario].revision = ConfiguredRevision

CallAdds(scenario, label, cache, new, next) ==
  /\ new \in ASample /\ new.label = label /\ new.cache = cache
  /\ Called(scenario, new, next)
  /\ suite.constructed = 0 /\ new.success =>
       new.calls = 1 /\ ~new.reused /\ suite'.constructed = 1

(* The adapter constructs at most one pipeline.                             *)
LEMMA AtMostOne ==
  ASSUME SuiteTypes, NEW outcome
  PROVE  /\ CountAfter(outcome) \in {0, 1}
         /\ suite.constructed = 1 => CountAfter(outcome) = 1
<1>1. suite.constructed \in {0, 1}
  BY DEF SuiteTypes
<1>2. CASE Constructs(outcome)
  <2>1. suite.constructed = 0 /\ CountAfter(outcome) = suite.constructed + 1
    BY <1>2 DEF CountAfter, Constructs
  <2>2. QED
    BY <2>1
<1>3. CASE ~Constructs(outcome)
  <2>1. CountAfter(outcome) = suite.constructed + 0
    BY <1>3 DEF CountAfter
  <2>2. QED
    BY <1>1, <2>1
<1>4. QED
  BY <1>2, <1>3

LEMMA CallEffect ==
  ASSUME SuiteTypes, NEW scenario \in RequiredScenario, NEW label \in Label,
         NEW cache \in CacheState, NEW outcome \in Outcome, NEW quick \in BOOLEAN,
         NEW next \in Stage, Call(scenario, label, cache, outcome, quick, next)
  PROVE  CallAdds(scenario, label, cache, Sample(label, cache, outcome, quick), next)
<1> DEFINE new == Sample(label, cache, outcome, quick)
           old == suite.results[scenario]
           samples == Append(old.samples, new)
           known == outcome = "ok" /\ old.revision = None /\ label # "warm_forecast"
           revision == IF known THEN ConfiguredRevision ELSE old.revision
           result == [samples |-> samples, revision |-> revision, passed |-> old.passed]
           results == [suite.results EXCEPT ![scenario] = result]
           count == CountAfter(outcome)
<1>1. /\ suite.results \in [RequiredScenario -> AResult] /\ suite.constructed \in {0, 1}
      /\ old \in AResult
  BY DEF SuiteTypes
<1>2. count \in {0, 1} /\ (suite.constructed = 1 => count = 1)
  BY AtMostOne
<1>3. /\ new \in ASample /\ new.label = label /\ new.cache = cache
      /\ new.success <=> outcome = "ok"
  BY <1>2 DEF Sample, ASample
<1>4. samples \in Seq(ASample)
  BY <1>1, <1>3, AppendProperties DEF AResult
<1>5. revision \in {None, ConfiguredRevision} /\ old.passed \in BOOLEAN
  BY <1>1 DEF AResult
<1>6. /\ suite' = [suite EXCEPT !.at = next, !.constructed = count, !.results = results]
      /\ failures' = failures + (IF outcome = "ok" THEN 0 ELSE 1) /\ envelope' = envelope
  BY <1>1 DEF Call, SuiteTypes
<1> HIDE DEF samples, new, known, revision, old, count
<1>7. /\ result \in AResult /\ result.samples = samples /\ result.revision = revision
      /\ result.passed = old.passed
  BY <1>4, <1>5 DEF AResult
<1> HIDE DEF result
<1>8. /\ results \in [RequiredScenario -> AResult] /\ results[scenario] = result
      /\ \A s \in RequiredScenario \ {scenario} : results[s] = suite.results[s]
  BY <1>1, <1>7
<1> HIDE DEF results
<1>9. /\ suite'.at = next /\ suite'.label = suite.label /\ suite'.panel = suite.panel
      /\ suite'.constructed = count /\ suite'.results = results
  BY <1>6 DEF SuiteTypes
<1>10. SuiteTypes'
  <2>1. failures' \in Nat
    <3>1. failures \in Nat
      BY DEF SuiteTypes
    <3>2. QED
      BY <1>6, <3>1
  <2>2. QED
    BY <1>2, <1>6, <1>8, <2>1 DEF SuiteTypes
<1>11. suite.constructed = 0 /\ new.success => new.calls = 1 /\ ~new.reused /\ count = 1
  <2>1. SUFFICES ASSUME suite.constructed = 0, new.success
                 PROVE  new.calls = 1 /\ ~new.reused /\ count = 1
    OBVIOUS
  <2>2. outcome = "ok" /\ Constructs(outcome)
    BY <1>3, <2>1 DEF Constructs
  <2>3. CountAfter(outcome) = 0 + 1
    BY <2>1, <2>2 DEF CountAfter
  <2>4. new.calls = CountAfter(outcome) /\ new.reused = FALSE
    BY <2>2 DEF new, Sample
  <2>5. QED
    BY <2>3, <2>4 DEF count
<1>12. failures' # 0 => failures # 0 \/ ~new.success
  <2>1. outcome = "ok" => failures' = failures
    <3>1. failures \in Nat
      BY DEF SuiteTypes
    <3>2. QED
      BY <1>6, <3>1
  <2>2. QED
    BY <1>3, <2>1
<1>13. /\ old.revision = ConfiguredRevision => revision = ConfiguredRevision
       /\ new.success /\ new.label # "warm_forecast" => revision = ConfiguredRevision
  BY <1>1, <1>3 DEF revision, known, AResult
<1>14. Called(scenario, new, next)
  BY <1>2, <1>6, <1>7, <1>8, <1>9, <1>10, <1>12, <1>13
     DEF Called, samples, old, Passed, SamplesOf
<1>15. QED
  BY <1>3, <1>9, <1>11, <1>14 DEF CallAdds, new

LEMMA JudgeEffect ==
  ASSUME SuiteTypes, NEW scenario \in RequiredScenario, NEW verdict \in BOOLEAN,
         NEW next \in Stage, Judge(scenario, verdict, next)
  PROVE  /\ SuiteTypes' /\ envelope' = envelope /\ failures' = failures
         /\ suite'.at = next /\ suite'.label = suite.label /\ suite'.panel = suite.panel
         /\ suite'.constructed = suite.constructed
         /\ \A s \in RequiredScenario \ {scenario} : suite'.results[s] = suite.results[s]
         /\ suite'.results[scenario].samples = SamplesOf(scenario)
         /\ suite'.results[scenario].passed = verdict
         /\ suite'.results[scenario].revision = suite.results[scenario].revision
<1> DEFINE old == suite.results[scenario]
           result == [old EXCEPT !.passed = verdict]
<1>1. suite.results \in [RequiredScenario -> AResult] /\ old \in AResult
  BY DEF SuiteTypes
<1>2. /\ suite' = [suite EXCEPT !.at = next,
                                !.results = [suite.results EXCEPT ![scenario] = result]]
      /\ failures' = failures /\ envelope' = envelope
  BY <1>1 DEF Judge, SuiteTypes
<1>3. /\ result \in AResult /\ result.samples = old.samples /\ result.revision = old.revision
      /\ result.passed = verdict
  BY <1>1 DEF AResult
<1> HIDE DEF result, old
<1> DEFINE results == [suite.results EXCEPT ![scenario] = result]
<1>4. /\ results \in [RequiredScenario -> AResult] /\ results[scenario] = result
      /\ \A s \in RequiredScenario \ {scenario} : results[s] = suite.results[s]
  BY <1>1, <1>3
<1> HIDE DEF results
<1>5. /\ suite'.at = next /\ suite'.label = suite.label /\ suite'.panel = suite.panel
      /\ suite'.constructed = suite.constructed /\ suite'.results = results
      /\ SuiteTypes'
  BY <1>2, <1>4 DEF SuiteTypes, results
<1>6. QED
  BY <1>2, <1>3, <1>4, <1>5 DEF old, SamplesOf

(* The scenarios a step leaves alone.                                       *)
LEMMA WeeklyStays ==
  ASSUME SuiteInv, suite'.results[Weekly] = suite.results[Weekly],
         suite.constructed = 1 => suite'.constructed = 1,
         suite.at \notin ToWeekly, suite'.at \notin ToWeekly
  PROVE  WeeklyInv'
BY DEF SuiteInv, WeeklyInv, SamplesOf, Passed, ToWeekly, ToWarm

LEMMA PanelStays ==
  ASSUME SuiteInv, suite'.results[PanelOf5] = suite.results[PanelOf5],
         suite'.panel = suite.panel, suite.at \in ToPanel <=> suite'.at \in ToPanel
  PROVE  PanelInv'
<1>1. PanelIsComplete => PanelIsComplete'
  BY DEF PanelIsComplete
<1>2. QED
  BY <1>1 DEF SuiteInv, PanelInv, SamplesOf, Passed

LEMMA RollingStays ==
  ASSUME SuiteInv, suite'.results[Rolling] = suite.results[Rolling],
         suite'.at \in ToPanel => suite.at \in ToPanel,
         suite'.at \in ToFold => suite.at \in ToFold
  PROVE  RollingInv'
<1>1. SuccessfulFolds' = SuccessfulFolds
  BY DEF SuccessfulFolds, Samples, Rolling
<1>2. QED
  BY <1>1 DEF SuiteInv, RollingInv, SamplesOf, Passed

(* A step that adds no sample hides no failure.                             *)
LEMMA NothingTold ==
  ASSUME SuiteInv, failures' = failures,
         \A s \in ModelScenario : /\ suite'.results[s].samples = suite.results[s].samples
                                  /\ suite'.results[s].revision = suite.results[s].revision
  PROVE  FailuresAreTold' /\ RevisionsAreKnown'
BY DEF SuiteInv, FailuresAreTold, RevisionsAreKnown, SamplesOf

(* A step that adds one to a scenario tells what it is.                     *)
LEMMA OneTold ==
  ASSUME SuiteInv, NEW scenario \in ModelScenario, NEW new \in ASample,
         suite'.results[scenario].samples = Append(SamplesOf(scenario), new),
         failures' # 0 => failures # 0 \/ ~new.success,
         suite.results[scenario].revision = ConfiguredRevision
           => suite'.results[scenario].revision = ConfiguredRevision,
         new.success /\ new.label # "warm_forecast"
           => suite'.results[scenario].revision = ConfiguredRevision,
         \A s \in ModelScenario \ {scenario} : suite'.results[s] = suite.results[s]
  PROVE  FailuresAreTold' /\ RevisionsAreKnown'
<1> DEFINE old == SamplesOf(scenario)
           samples == Append(old, new)
           n == Len(old)
<1>1. old \in Seq(ASample)
  BY DEF SuiteInv, SuiteTypes, AResult, SamplesOf, ModelScenario
<1> HIDE DEF old
<1>2. /\ samples \in Seq(ASample) /\ Len(samples) = n + 1 /\ samples[n + 1] = new
      /\ \A i \in 1 .. n : samples[i] = old[i]
      /\ n \in Nat /\ DOMAIN old = 1 .. n
  BY <1>1, AppendProperties, LenProperties
<1> HIDE DEF samples, n
<1>3. DOMAIN samples = 1 .. (n + 1)
  BY <1>2, LenProperties
<1>4. /\ DOMAIN old \subseteq DOMAIN samples /\ n + 1 \in DOMAIN samples
      /\ \A i \in DOMAIN samples : i \in DOMAIN old \/ i = n + 1
  BY <1>2, <1>3
<1>5. suite'.results[scenario].samples = samples
  BY DEF samples, old
<1>6. FailuresAreTold'
  <2>1. SUFFICES ASSUME failures' # 0
                 PROVE  \E s \in ModelScenario : \E i \in DOMAIN suite'.results[s].samples :
                          ~suite'.results[s].samples[i].success
    BY DEF FailuresAreTold, SamplesOf
  <2>2. CASE ~new.success
    BY <1>2, <1>4, <1>5, <2>2
  <2>3. CASE failures # 0
    <3>1. PICK s \in ModelScenario : \E i \in DOMAIN SamplesOf(s) : ~SamplesOf(s)[i].success
      BY <2>3 DEF SuiteInv, FailuresAreTold
    <3>2. PICK i \in DOMAIN SamplesOf(s) : ~SamplesOf(s)[i].success
      BY <3>1
    <3>3. CASE s = scenario
      <4>1. i \in DOMAIN old /\ ~old[i].success
        BY <3>2, <3>3 DEF old
      <4>2. i \in DOMAIN samples /\ samples[i] = old[i]
        BY <1>2, <1>4, <4>1
      <4>3. QED
        BY <1>5, <4>1, <4>2
    <3>4. CASE s # scenario
      BY <3>2, <3>4 DEF SamplesOf
    <3>5. QED
      BY <3>3, <3>4
  <2>4. QED
    BY <2>1, <2>2, <2>3
<1>7. RevisionsAreKnown'
  <2>1. ASSUME NEW s \in ModelScenario, NEW i \in DOMAIN suite'.results[s].samples,
               suite'.results[s].samples[i].success,
               suite'.results[s].samples[i].label # "warm_forecast"
        PROVE  suite'.results[s].revision = ConfiguredRevision
    <3>1. CASE s # scenario
      BY <2>1, <3>1 DEF SuiteInv, RevisionsAreKnown, SamplesOf
    <3>2. CASE s = scenario /\ i = n + 1
      BY <1>2, <1>5, <2>1, <3>2
    <3>3. CASE s = scenario /\ i \in DOMAIN old
      <4>1. old[i].success /\ old[i].label # "warm_forecast"
        BY <1>2, <1>5, <2>1, <3>3
      <4>2. suite.results[scenario].revision = ConfiguredRevision
        BY <3>3, <4>1 DEF SuiteInv, RevisionsAreKnown, old
      <4>3. QED
        BY <3>3, <4>2
    <3>4. QED
      BY <1>4, <1>5, <2>1, <3>1, <3>2, <3>3
  <2>2. QED
    BY <2>1 DEF RevisionsAreKnown, SamplesOf
<1>8. QED
  BY <1>6, <1>7

(* Nothing is claimed before the envelope is written.                       *)
LEMMA NothingWritten ==
  ASSUME SuiteInv, suite.at # "written", envelope' = envelope
  PROVE  /\ suite'.at # "written" => envelope' = None
         /\ PassingSuiteValidates' /\ FailureIsNotHidden'
BY DEF SuiteInv, PassingSuiteValidates, FailureIsNotHidden

(* What a call tells, of its own scenario and of the others.                *)
LEMMA CallTold ==
  ASSUME SuiteInv, suite.at # "written", NEW scenario \in ModelScenario, NEW new \in ASample,
         NEW next, Called(scenario, new, next)
  PROVE  /\ SuiteTypes' /\ FailuresAreTold' /\ RevisionsAreKnown'
         /\ suite'.at # "written" => envelope' = None
         /\ PassingSuiteValidates' /\ FailureIsNotHidden'
<1>1. \A s \in ModelScenario \ {scenario} : suite'.results[s] = suite.results[s]
  BY DEF Called, ModelScenario
<1>2. /\ suite'.results[scenario].samples = Append(SamplesOf(scenario), new)
      /\ failures' # 0 => failures # 0 \/ ~new.success
      /\ suite.results[scenario].revision = ConfiguredRevision
           => suite'.results[scenario].revision = ConfiguredRevision
      /\ new.success /\ new.label # "warm_forecast"
           => suite'.results[scenario].revision = ConfiguredRevision
      /\ SuiteTypes' /\ envelope' = envelope
  BY DEF Called
<1>3. FailuresAreTold' /\ RevisionsAreKnown'
  BY <1>1, <1>2, OneTold
<1>4. QED
  BY <1>2, <1>3, NothingWritten

LEMMA ColdStep ==
  ASSUME SuiteInv, Cold
  PROVE  SuiteInv'
<1>1. SuiteTypes /\ suite.at = "cold" /\ suite.label \in CacheState
  BY DEF Cold, SuiteInv, SuiteTypes, CacheState
<1>2. PICK o \in Outcome : Call(Weekly, "cold_forecast", suite.label, o, FALSE, "warm")
  BY DEF Cold, Weekly
<1> DEFINE new == Sample("cold_forecast", suite.label, o, FALSE)
<1>3. /\ Weekly \in ModelScenario /\ Weekly \in RequiredScenario /\ "cold_forecast" \in Label
      /\ "warm" \in Stage
  BY DEF Weekly, ModelScenario, RequiredScenario, Label, Stage, ToFold, ToPanel, ToWeekly, ToWarm
<1>4. SamplesOf(Weekly) = <<>> /\ suite.constructed = 0 /\ ~Passed(Weekly)
  BY <1>1 DEF SuiteInv, WeeklyInv, ToWeekly, ToWarm
<1>5. /\ new \in ASample /\ new.label = "cold_forecast" /\ Called(Weekly, new, "warm")
      /\ new.success => new.calls = 1 /\ ~new.reused /\ suite'.constructed = 1
  <2>1. CallAdds(Weekly, "cold_forecast", suite.label, new, "warm")
    BY <1>1, <1>2, <1>3, CallEffect
  <2> HIDE DEF new
  <2>2. QED
    BY <1>4, <2>1 DEF CallAdds
<1> HIDE DEF new
<1>6. WeeklyInv'
  <2>1. suite'.results[Weekly].samples = <<new>> /\ suite'.at = "warm"
        /\ suite'.results[Weekly].passed = Passed(Weekly)
    BY <1>4, <1>5 DEF Called
  <2>2. Len(<<new>>) = 1 /\ <<new>>[1] = new
    OBVIOUS
  <2>3. QED
    BY <1>4, <1>5, <2>1, <2>2 DEF WeeklyInv, SamplesOf, Passed, ToWeekly, ToWarm
<1>7. PanelInv' /\ RollingInv'
  <2>1. /\ suite'.results[PanelOf5] = suite.results[PanelOf5]
        /\ suite'.results[Rolling] = suite.results[Rolling]
        /\ suite'.panel = suite.panel /\ suite'.at = "warm"
    BY <1>5 DEF Called, RequiredScenario, PanelOf5, Rolling, Weekly
  <2>2. suite.at \in ToPanel /\ suite'.at \in ToPanel /\ suite.at \in ToFold
    BY <1>1, <2>1 DEF ToFold, ToPanel, ToWeekly, ToWarm
  <2>3. QED
    BY <2>1, <2>2, PanelStays, RollingStays
<1>8. QED
  BY <1>1, <1>3, <1>5, <1>6, <1>7, CallTold DEF SuiteInv

LEMMA WarmStep ==
  ASSUME SuiteInv, Warm
  PROVE  SuiteInv'
<1>1. SuiteTypes /\ suite.at = "warm" /\ SameProcessWarm \in CacheState
  BY DEF Warm, SuiteInv, CacheState
<1>2. PICK o \in Outcome, quick \in BOOLEAN :
        Call(Weekly, "warm_forecast", SameProcessWarm, o, quick, "judge weekly")
  BY DEF Warm, Weekly
<1> DEFINE new == Sample("warm_forecast", SameProcessWarm, o, quick)
           old == SamplesOf(Weekly)
<1>3. /\ Weekly \in ModelScenario /\ Weekly \in RequiredScenario /\ "warm_forecast" \in Label
      /\ "judge weekly" \in Stage
  BY DEF Weekly, ModelScenario, RequiredScenario, Label, Stage, ToFold, ToPanel, ToWeekly, ToWarm
<1>4. /\ old \in Seq(ASample) /\ Len(old) = 1 /\ ~Passed(Weekly)
      /\ old[1].label = "cold_forecast"
      /\ old[1].success => old[1].calls = 1 /\ ~old[1].reused /\ suite.constructed = 1
  BY <1>1, <1>3 DEF SuiteInv, WeeklyInv, SuiteTypes, AResult, SamplesOf, ToWeekly, ToWarm
<1>5. /\ new \in ASample /\ new.label = "warm_forecast" /\ new.cache = SameProcessWarm
      /\ Called(Weekly, new, "judge weekly")
  <2>1. CallAdds(Weekly, "warm_forecast", SameProcessWarm, new, "judge weekly")
    BY <1>1, <1>2, <1>3, CallEffect
  <2> HIDE DEF new
  <2>2. QED
    BY <2>1 DEF CallAdds
<1> HIDE DEF new, old
<1>6. WeeklyInv'
  <2> DEFINE samples == Append(old, new)
  <2>1. /\ suite'.results[Weekly].samples = samples /\ suite'.at = "judge weekly"
        /\ suite'.results[Weekly].passed = Passed(Weekly)
        /\ suite.constructed = 1 => suite'.constructed = 1
    BY <1>5 DEF Called, old
  <2>2. Len(samples) = 2 /\ samples[1] = old[1] /\ samples[2] = new
    <3>1. /\ Len(samples) = Len(old) + 1 /\ samples[Len(old) + 1] = new
          /\ \A i \in 1 .. Len(old) : samples[i] = old[i]
      <4>1. old \in Seq(ASample) /\ new \in ASample
        BY <1>4, <1>5
      <4>2. QED
        BY <4>1, AppendProperties
    <3> HIDE DEF samples
    <3>2. QED
      BY <1>4, <3>1
  <2> HIDE DEF samples
  <2>3. QED
    BY <1>4, <1>5, <2>1, <2>2 DEF WeeklyInv, SamplesOf, Passed, ToWeekly, ToWarm
<1>7. PanelInv' /\ RollingInv'
  <2>1. /\ suite'.results[PanelOf5] = suite.results[PanelOf5]
        /\ suite'.results[Rolling] = suite.results[Rolling]
        /\ suite'.panel = suite.panel /\ suite'.at = "judge weekly"
    BY <1>5 DEF Called, RequiredScenario, PanelOf5, Rolling, Weekly
  <2>2. suite.at \in ToPanel /\ suite'.at \in ToPanel /\ suite.at \in ToFold
    BY <1>1, <2>1 DEF ToFold, ToPanel, ToWeekly, ToWarm
  <2>3. QED
    BY <2>1, <2>2, PanelStays, RollingStays
<1>8. QED
  BY <1>1, <1>3, <1>5, <1>6, <1>7, CallTold DEF SuiteInv

(* The cold and the warm sample, once they are there.                       *)
LEMMA WeeklySamples ==
  ASSUME SuiteInv, suite.at \notin ToWarm
  PROVE  /\ Samples(Weekly, "cold_forecast")[1] = SamplesOf(Weekly)[1]
         /\ Samples(Weekly, "warm_forecast")[1] = SamplesOf(Weekly)[2]
<1> DEFINE all == SamplesOf(Weekly)
           Of(label) == {s \in Range(all) : s.label = label}
<1>1. /\ all \in Seq(ASample) /\ Len(all) = 2
      /\ all[1].label = "cold_forecast" /\ all[2].label = "warm_forecast"
  BY DEF SuiteInv, SuiteTypes, WeeklyInv, AResult, SamplesOf, Weekly, RequiredScenario, ToWarm
<1>2. /\ Samples(Weekly, "cold_forecast") = Only(all, Of("cold_forecast"))
      /\ Samples(Weekly, "warm_forecast") = Only(all, Of("warm_forecast"))
  BY DEF Samples, SamplesOf
<1> HIDE DEF all
<1>3. DOMAIN all = {1, 2}
  <2>1. DOMAIN all = 1 .. 2
    BY <1>1, LenProperties
  <2>2. QED
    BY <2>1
<1>4. /\ \A j \in DOMAIN all : all[j] \in Of("cold_forecast") <=> j = 1
      /\ \A j \in DOMAIN all : all[j] \in Of("warm_forecast") <=> j = 2
  BY <1>1, <1>3 DEF Range
<1> HIDE DEF Of
<1>5. 1 \in DOMAIN all /\ 2 \in DOMAIN all
  BY <1>3
<1>6. /\ Only(all, Of("cold_forecast"))[1] = all[1]
      /\ Only(all, Of("warm_forecast"))[1] = all[2]
  BY <1>1, <1>4, <1>5, TheOneOfThem
<1>7. QED
  BY <1>2, <1>6 DEF all

LEMMA JudgeWeeklyStep ==
  ASSUME SuiteInv, JudgeWeekly
  PROVE  SuiteInv'
<1> DEFINE cold == Samples("weekly_260_13", "cold_forecast")[1]
           warm == Samples("weekly_260_13", "warm_forecast")[1]
           verdict == /\ cold.success /\ warm.success
                      /\ warm.reused /\ warm.quick
                      /\ suite.constructed = IF cold.success /\ ~cold.reused THEN 1 ELSE 0
<1>1. SuiteTypes /\ suite.at = "judge weekly" /\ Judge("weekly_260_13", verdict, "panel")
  BY DEF JudgeWeekly, SuiteInv
<1>2. suite.at \notin ToWarm
  BY <1>1 DEF ToWarm
<1>3. cold = SamplesOf(Weekly)[1] /\ warm = SamplesOf(Weekly)[2]
  BY <1>2, WeeklySamples DEF Weekly
<1>4. verdict => SamplesOf(Weekly)[1].success /\ SamplesOf(Weekly)[2].success
  BY <1>3
<1>5. verdict \in BOOLEAN
  OBVIOUS
<1> HIDE DEF verdict
<1>6. /\ "weekly_260_13" \in RequiredScenario /\ "panel" \in Stage
  BY DEF RequiredScenario, Stage, ToFold, ToPanel
<1>7. /\ SuiteTypes' /\ envelope' = envelope /\ failures' = failures
      /\ suite'.at = "panel" /\ suite'.panel = suite.panel
      /\ suite'.constructed = suite.constructed
      /\ \A s \in RequiredScenario \ {Weekly} : suite'.results[s] = suite.results[s]
      /\ suite'.results[Weekly].samples = SamplesOf(Weekly)
      /\ suite'.results[Weekly].passed = verdict
      /\ suite'.results[Weekly].revision = suite.results[Weekly].revision
  BY <1>1, <1>5, <1>6, JudgeEffect DEF Weekly
<1>8. WeeklyInv'
  BY <1>1, <1>4, <1>7 DEF SuiteInv, WeeklyInv, SamplesOf, Passed, ToWeekly, ToWarm
<1>9. PanelInv' /\ RollingInv'
  <2>1. /\ suite'.results[PanelOf5] = suite.results[PanelOf5]
        /\ suite'.results[Rolling] = suite.results[Rolling]
    BY <1>7 DEF RequiredScenario, PanelOf5, Rolling, Weekly
  <2>2. suite.at \in ToPanel /\ suite'.at \in ToPanel /\ suite.at \in ToFold
    BY <1>1, <1>7 DEF ToFold, ToPanel, ToWeekly, ToWarm
  <2>3. QED
    BY <1>7, <2>1, <2>2, PanelStays, RollingStays
<1>10. FailuresAreTold' /\ RevisionsAreKnown'
  BY <1>7, NothingTold DEF SamplesOf, ModelScenario
<1>11. QED
  BY <1>1, <1>7, <1>8, <1>9, <1>10, NothingWritten DEF SuiteInv

(* A valid answer to the panel is a complete one.                           *)
LEMMA ValidIsComplete ==
  ASSUME NEW out \in PanelOutput, ValidPanel(out), NEW item \in Series
  PROVE  LET rows == RowsOf(out.rows, item)
         IN  /\ Len(rows) = PanelHorizon
             /\ \A i, j \in DOMAIN rows : i # j => rows[i].time # rows[j].time
             /\ \A i \in DOMAIN rows : rows[i].time = None \/ rows[i].time > 0
             /\ \A i, j \in DOMAIN rows :
                  i < j /\ (\A k \in 1 .. j : rows[k].time # None) => rows[i].time < rows[j].time
<1> DEFINE all == out.rows
           mine == {row \in Range(all) : row.item = item}
           rows == RowsOf(all, item)
           n == Len(rows)
<1>1. all \in Seq(Range(all)) /\ \A row \in Range(all) : row.time \in Int \cup {None}
  BY SuiteAssumption
<1>2. /\ Len(rows) = PanelHorizon
      /\ \A i \in 1 .. (n - 1) : ~Earlier(rows[i + 1].time, rows[i].time)
      /\ \A i \in DOMAIN rows : rows[i].time = None \/ Earlier(0, rows[i].time)
  BY DEF ValidPanel
<1>3. \A i, j \in DOMAIN all : all[i].item = all[j].item /\ all[i].time = all[j].time => i = j
  BY DEF ValidPanel
<1>4. rows = Only(all, mine)
  BY DEF RowsOf
<1> HIDE DEF all, rows
<1>5. rows \in Seq(Range(all)) /\ Range(rows) = Range(all) \cap mine
  BY <1>1, <1>4, OnlyPicks, OnlyRange
<1>6. PICK g \in [DOMAIN rows -> DOMAIN all] :
        IsInjective(g) /\ \A i \in DOMAIN rows : rows[i] = all[g[i]]
  <2> HIDE DEF mine
  <2> DEFINE t == Only(all, mine)
  <2>1. \E g \in [DOMAIN t -> DOMAIN all] :
          IsInjective(g) /\ \A i \in DOMAIN t : t[i] = all[g[i]]
    BY <1>1, OnlyFrom
  <2> HIDE DEF t
  <2>2. rows = t
    BY <1>4 DEF t
  <2>3. QED
    BY <2>1, <2>2
<1>7. n \in Nat /\ DOMAIN rows = 1 .. n
  BY <1>5, LenProperties
<1> HIDE DEF n
<1>8. \A i \in 1 .. n : rows[i] \in mine /\ rows[i].time \in Int \cup {None}
  BY <1>1, <1>5, <1>7 DEF Range
<1>9. ASSUME NEW i \in 1 .. n, NEW j \in 1 .. n, i # j
      PROVE  rows[i].time # rows[j].time
  <2>1. g[i] # g[j] /\ g[i] \in DOMAIN all /\ g[j] \in DOMAIN all
    BY <1>6, <1>7, <1>9 DEF IsInjective
  <2>2. rows[i].item = item /\ rows[j].item = item
    BY <1>8
  <2>3. QED
    BY <1>3, <1>6, <1>7, <2>1, <2>2
<1>10. ASSUME NEW i \in 1 .. n, NEW j \in 1 .. n, i < j,
              \A k \in 1 .. j : rows[k].time # None
       PROVE  rows[i].time < rows[j].time
  <2> DEFINE time == [k \in 1 .. j |-> rows[k].time]
  <2>1. /\ j \in Nat /\ 1 .. j \subseteq 1 .. n /\ i \in 1 .. j /\ j \in 1 .. j
        /\ \A k \in 1 .. (j - 1) : k \in 1 .. j /\ k + 1 \in 1 .. j /\ k \in 1 .. (n - 1)
    BY <1>7, <1>10
  <2>2. \A k \in 1 .. j : rows[k].time \in Int /\ time[k] = rows[k].time
    BY <1>8, <1>10, <2>1
  <2>3. \A k \in 1 .. (j - 1) : ~(rows[k + 1].time < rows[k].time)
    <3>1. \A k \in 1 .. (j - 1) : None \notin {rows[k + 1].time, rows[k].time}
      BY <1>10, <2>1
    <3>2. QED
      BY <1>2, <2>1, <3>1 DEF Earlier
  <2> HIDE DEF time
  <2>4. \A k \in 1 .. (j - 1) : time[k] <= time[k + 1]
    BY <2>1, <2>2, <2>3
  <2>5. time[i] <= time[j]
    BY <1>10, <2>1, <2>2, <2>4, StepsAddUp
  <2>6. rows[i].time # rows[j].time
    BY <1>7, <1>9, <1>10
  <2>7. QED
    BY <2>1, <2>2, <2>5, <2>6
<1>11. \A i \in DOMAIN rows : rows[i].time = None \/ rows[i].time > 0
  BY <1>2, <1>7, <1>8 DEF Earlier
<1>12. QED
  BY <1>2, <1>7, <1>9, <1>10, <1>11 DEF rows, all

(* The scenario of the panel takes its one sample, and passes when it is a  *)
(* success and the panel a complete one.                                    *)
LEMMA PanelTaken ==
  ASSUME SuiteInv, suite.at = "panel", NEW new \in ASample,
         new.label = "panel_forecast_direct",
         SuiteTypes', envelope' = envelope, suite'.at = "fold",
         suite.constructed = 1 => suite'.constructed = 1,
         \A s \in RequiredScenario \ {PanelOf5} : suite'.results[s] = suite.results[s],
         suite'.results[PanelOf5].samples = Append(SamplesOf(PanelOf5), new),
         suite'.results[PanelOf5].passed => new.success /\ PanelIsComplete',
         failures' # 0 => failures # 0 \/ ~new.success,
         new.success => suite'.results[PanelOf5].revision = ConfiguredRevision
  PROVE  SuiteInv'
<1>1. /\ suite.at \notin ToWeekly /\ suite'.at \notin ToWeekly /\ suite'.at \notin ToPanel
      /\ suite.at \in ToPanel /\ suite.at \in ToFold
  BY DEF ToWarm, ToWeekly, ToPanel, ToFold
<1>2. /\ suite'.results[Weekly] = suite.results[Weekly]
      /\ suite'.results[Rolling] = suite.results[Rolling]
      /\ PanelOf5 \in ModelScenario
      /\ \A s \in ModelScenario \ {PanelOf5} : suite'.results[s] = suite.results[s]
  BY DEF PanelOf5, Weekly, Rolling, RequiredScenario, ModelScenario
<1>3. SamplesOf(PanelOf5) = <<>> /\ suite.results[PanelOf5].revision # ConfiguredRevision
  BY <1>1, SuiteAssumption DEF SuiteInv, PanelInv
<1>4. WeeklyInv' /\ RollingInv'
  BY <1>1, <1>2, WeeklyStays, RollingStays
<1>5. PanelInv'
  <2>1. suite'.results[PanelOf5].samples = <<new>>
    BY <1>3
  <2>2. Len(<<new>>) = 1 /\ <<new>>[1] = new
    OBVIOUS
  <2>3. QED
    BY <1>1, <2>1, <2>2 DEF PanelInv, SamplesOf, Passed
<1>6. FailuresAreTold' /\ RevisionsAreKnown'
  BY <1>2, <1>3, OneTold
<1>7. QED
  BY <1>4, <1>5, <1>6, NothingWritten DEF SuiteInv

LEMMA PanelAnswered ==
  ASSUME SuiteInv, suite.at = "panel", NEW out \in PanelOutput, NEW outcome, NEW ok \in BOOLEAN,
         ok <=> ValidPanel(out), outcome = IF ok THEN "ok" ELSE "fails",
         failures' = failures + (IF ok THEN 0 ELSE 1), envelope' = envelope,
         suite' = [suite EXCEPT
           !.at = "fold", !.constructed = CountAfter(outcome),
           !.panel = IF ok THEN out.rows ELSE <<>>,
           !.results["panel_5_series"] =
             [samples |-> <<Sample("panel_forecast_direct", SameProcessWarm, outcome, TRUE)>>,
              revision |-> IF ok THEN PanelRevision ELSE None, passed |-> ok]]
  PROVE  SuiteInv'
<1> DEFINE new == Sample("panel_forecast_direct", SameProcessWarm, outcome, TRUE)
           panel == IF ok THEN out.rows ELSE <<>>
           revision == IF ok THEN PanelRevision ELSE None
           result == [samples |-> <<new>>, revision |-> revision, passed |-> ok]
           results == [suite.results EXCEPT ![PanelOf5] = result]
           count == CountAfter(outcome)
<1>1. /\ SuiteTypes /\ suite.results \in [RequiredScenario -> AResult] /\ failures \in Nat
      /\ PanelOf5 \in RequiredScenario
  BY DEF SuiteInv, SuiteTypes, PanelOf5, RequiredScenario
<1>2. count \in {0, 1} /\ (suite.constructed = 1 => count = 1)
  BY <1>1, AtMostOne
<1>3. /\ new \in ASample /\ new.label = "panel_forecast_direct" /\ (new.success <=> ok)
  BY <1>2 DEF Sample, ASample, Label, CacheState
<1>4. /\ revision \in {None, ConfiguredRevision} /\ (ok => revision = ConfiguredRevision)
      /\ panel \in {<<>>} \cup {o.rows : o \in PanelOutput} /\ (ok => panel = out.rows)
  BY DEF PanelRevision
<1>5. suite' = [suite EXCEPT !.at = "fold", !.constructed = count, !.panel = panel,
                             !.results = results]
  BY <1>1 DEF PanelOf5, SuiteTypes
<1> HIDE DEF new, revision, panel, count
<1>6. /\ result \in AResult /\ result.samples = <<new>> /\ result.revision = revision
      /\ result.passed = ok
  BY <1>3, <1>4 DEF AResult
<1> HIDE DEF result
<1>7. /\ results \in [RequiredScenario -> AResult] /\ results[PanelOf5] = result
      /\ \A s \in RequiredScenario \ {PanelOf5} : results[s] = suite.results[s]
  BY <1>1, <1>6
<1> HIDE DEF results
<1>8. /\ suite'.at = "fold" /\ suite'.panel = panel /\ suite'.constructed = count
      /\ suite'.results = results
  BY <1>1, <1>5 DEF SuiteTypes
<1>9. SuiteTypes'
  <2>1. failures' \in Nat
    BY <1>1
  <2>2. "fold" \in Stage
    BY DEF Stage, ToFold
  <2>3. QED
    BY <1>1, <1>2, <1>4, <1>5, <1>7, <2>1, <2>2 DEF SuiteTypes
<1>10. ok => PanelIsComplete'
  <2> SUFFICES ASSUME ok PROVE PanelIsComplete'
    OBVIOUS
  <2>1. suite'.panel = out.rows
    BY <1>4, <1>8
  <2>2. ASSUME NEW item \in Series
        PROVE  LET rows == RowsOf(suite'.panel, item)
               IN  /\ Len(rows) = PanelHorizon
                   /\ \A i, j \in DOMAIN rows : i # j => rows[i].time # rows[j].time
                   /\ \A i \in DOMAIN rows : rows[i].time = None \/ rows[i].time > 0
                   /\ \A i, j \in DOMAIN rows :
                        i < j /\ (\A k \in 1 .. j : rows[k].time # None)
                          => rows[i].time < rows[j].time
    <3>1. ValidPanel(out)
      OBVIOUS
    <3>2. LET rows == RowsOf(out.rows, item)
          IN  /\ Len(rows) = PanelHorizon
              /\ \A i, j \in DOMAIN rows : i # j => rows[i].time # rows[j].time
              /\ \A i \in DOMAIN rows : rows[i].time = None \/ rows[i].time > 0
              /\ \A i, j \in DOMAIN rows :
                   i < j /\ (\A k \in 1 .. j : rows[k].time # None)
                     => rows[i].time < rows[j].time
      BY ONLY <3>1, ValidIsComplete, out \in PanelOutput, item \in Series
    <3>3. RowsOf(suite'.panel, item) = RowsOf(out.rows, item)
      BY <2>1
    <3>4. QED
      BY ONLY <3>2, <3>3
  <2>3. QED
    BY <2>2 DEF PanelIsComplete
<1>11. failures' # 0 => failures # 0 \/ ~ok
  BY <1>1
<1>12. Append(SamplesOf(PanelOf5), new) = <<new>>
  <2>1. SamplesOf(PanelOf5) = <<>>
    BY DEF SuiteInv, PanelInv, ToPanel
  <2>2. QED
    BY <2>1
<1>13. QED
  BY <1>2, <1>3, <1>4, <1>6, <1>7, <1>8, <1>9, <1>10, <1>11, <1>12, PanelTaken

LEMMA PanelStep ==
  ASSUME SuiteInv, Panel
  PROVE  SuiteInv'
<1>1. SuiteTypes /\ suite.at = "panel" /\ ~Passed(PanelOf5)
  BY DEF SuiteInv, Panel, PanelInv, ToPanel
<1>2. CASE \E o \in Outcome \ {"ok"} :
             Call(PanelOf5, "panel_forecast_direct", SameProcessWarm, o, TRUE, "fold")
  <2>1. PICK o \in Outcome \ {"ok"} :
          Call(PanelOf5, "panel_forecast_direct", SameProcessWarm, o, TRUE, "fold")
    BY <1>2
  <2> DEFINE new == Sample("panel_forecast_direct", SameProcessWarm, o, TRUE)
  <2>2. /\ PanelOf5 \in RequiredScenario /\ "panel_forecast_direct" \in Label
        /\ SameProcessWarm \in CacheState /\ "fold" \in Stage
    BY DEF PanelOf5, RequiredScenario, Label, CacheState, Stage, ToFold
  <2>3. CallAdds(PanelOf5, "panel_forecast_direct", SameProcessWarm, new, "fold")
    BY <1>1, <2>1, <2>2, CallEffect
  <2>4. ~new.success
    BY <2>1 DEF Sample
  <2> HIDE DEF new
  <2>5. /\ new \in ASample /\ new.label = "panel_forecast_direct"
        /\ Called(PanelOf5, new, "fold")
    BY <2>3 DEF CallAdds
  <2>6. QED
    BY <1>1, <2>4, <2>5, PanelTaken DEF Called
<1>3. CASE \E out \in PanelOutput :
             LET outcome == IF ValidPanel(out) THEN "ok" ELSE "fails"
                 ok == outcome = "ok"
             IN  /\ failures' = failures + IF ok THEN 0 ELSE 1
                 /\ suite' = [suite EXCEPT
                      !.at = "fold", !.constructed = CountAfter(outcome),
                      !.panel = IF ok THEN out.rows ELSE <<>>,
                      !.results["panel_5_series"] =
                        [samples |-> <<Sample("panel_forecast_direct", SameProcessWarm, outcome, TRUE)>>,
                         revision |-> IF ok THEN PanelRevision ELSE None, passed |-> ok]]
                 /\ UNCHANGED envelope
  BY <1>1, <1>3, PanelAnswered
<1>4. QED
  BY <1>2, <1>3 DEF Panel, PanelOf5

LEMMA FoldStep ==
  ASSUME SuiteInv, Fold
  PROVE  SuiteInv'
<1>1. SuiteTypes /\ suite.at = "fold" /\ SameProcessWarm \in CacheState
  BY DEF SuiteInv, Fold, CacheState
<1>2. PICK o \in Outcome : Call(Rolling, "fold", SameProcessWarm, o, TRUE, "fold")
  BY DEF Fold, Rolling
<1> DEFINE new == Sample("fold", SameProcessWarm, o, TRUE)
           old == SamplesOf(Rolling)
           samples == Append(old, new)
<1>3. /\ Rolling \in ModelScenario /\ Rolling \in RequiredScenario /\ "fold" \in Label
      /\ "fold" \in Stage
      /\ suite.at \notin ToPanel /\ suite.at \notin ToWeekly /\ suite.at \in ToFold
  BY <1>1 DEF Rolling, ModelScenario, RequiredScenario, Label, Stage, ToFold, ToPanel, ToWeekly, ToWarm
<1>4. CallAdds(Rolling, "fold", SameProcessWarm, new, "fold")
  BY <1>1, <1>2, <1>3, CallEffect
<1> HIDE DEF new
<1>5. new \in ASample /\ new.label = "fold" /\ Called(Rolling, new, "fold")
  BY <1>4 DEF CallAdds
<1>6. /\ suite'.at = "fold" /\ suite'.panel = suite.panel
      /\ suite.constructed = 1 => suite'.constructed = 1
      /\ suite'.results[Weekly] = suite.results[Weekly]
      /\ suite'.results[PanelOf5] = suite.results[PanelOf5]
      /\ suite'.results[Rolling].samples = samples
      /\ suite'.results[Rolling].passed = Passed(Rolling)
  BY <1>5 DEF Called, Weekly, PanelOf5, Rolling, RequiredScenario
<1>7. WeeklyInv' /\ PanelInv'
  BY <1>1, <1>3, <1>6, WeeklyStays, PanelStays
<1>8. RollingInv'
  <2>1. old \in Seq(ASample) /\ ~Passed(Rolling) /\ \A i \in DOMAIN old : old[i].label = "fold"
    BY <1>1, <1>3 DEF SuiteInv, SuiteTypes, AResult, SamplesOf, RollingInv
  <2> HIDE DEF old
  <2>2. \A i \in DOMAIN samples : samples[i].label = "fold"
    <3>1. /\ samples \in Seq(ASample) /\ Len(samples) = Len(old) + 1
          /\ samples[Len(old) + 1] = new /\ \A i \in 1 .. Len(old) : samples[i] = old[i]
      BY <1>5, <2>1, AppendProperties
    <3> HIDE DEF samples
    <3>2. /\ DOMAIN samples = 1 .. Len(samples) /\ DOMAIN old = 1 .. Len(old)
          /\ Len(old) \in Nat
      BY <2>1, <3>1, LenProperties
    <3>3. ASSUME NEW i \in DOMAIN samples
          PROVE  samples[i].label = "fold"
      <4>1. i \in DOMAIN old \/ i = Len(old) + 1
        BY <3>1, <3>2
      <4>2. QED
        BY <1>5, <2>1, <3>1, <3>2, <4>1
    <3>4. QED
      BY <3>3
  <2> HIDE DEF samples
  <2>3. QED
    BY <1>1, <1>3, <1>6, <2>1, <2>2 DEF RollingInv, SamplesOf, Passed
<1>9. QED
  BY <1>1, <1>3, <1>5, <1>7, <1>8, CallTold DEF SuiteInv

(* When as many folds succeeded as there should be, every one of them did.  *)
LEMMA EveryFoldSucceeded ==
  ASSUME SuiteInv, Len(Samples(Rolling, "fold")) = Folds, SuccessfulFolds = Folds
  PROVE  /\ SamplesOf(Rolling) # <<>>
         /\ \A i \in DOMAIN SamplesOf(Rolling) : SamplesOf(Rolling)[i].success
<1> DEFINE all == SamplesOf(Rolling)
           folds == Samples(Rolling, "fold")
           good == {s \in Range(folds) : s.success}
           mine == {s \in Range(all) : s.label = "fold"}
<1>1. all \in Seq(ASample) /\ \A i \in DOMAIN all : all[i].label = "fold"
  BY DEF SuiteInv, SuiteTypes, RollingInv, AResult, SamplesOf, Rolling, RequiredScenario
<1>2. folds = Only(all, mine)
  BY DEF Samples, SamplesOf
<1>3. Len(Only(folds, good)) = Folds /\ Len(folds) = Folds
  BY DEF SuccessfulFolds, Successes, Rolling
<1> HIDE DEF all, folds
<1>4. folds \in Seq(ASample) /\ Range(folds) = Range(all) \cap mine
  BY <1>1, <1>2, OnlyPicks, OnlyRange
<1>5. Range(folds) = Range(all)
  BY <1>1, <1>4 DEF Range
<1> HIDE DEF mine
<1>6. Range(folds) \subseteq good
  <2> HIDE DEF good
  <2>1. QED
    BY <1>3, <1>4, AllOfThem
<1>7. \A i \in DOMAIN all : all[i].success
  BY <1>5, <1>6 DEF Range
<1>8. all # <<>>
  <2>1. DOMAIN folds = 1 .. Folds
    BY <1>3, <1>4, LenProperties
  <2>2. 1 \in DOMAIN folds
    BY <2>1, FoldsAssumption
  <2>3. Range(all) # {}
    BY <1>5, <2>2 DEF Range
  <2>4. QED
    BY <2>3 DEF Range
<1>9. QED
  BY <1>7, <1>8 DEF all

LEMMA JudgeRollingStep ==
  ASSUME SuiteInv, JudgeRolling
  PROVE  SuiteInv'
<1> DEFINE verdict == SuccessfulFolds = Folds
<1>1. /\ SuiteTypes /\ suite.at = "fold" /\ Len(Samples(Rolling, "fold")) = Folds
      /\ Judge(Rolling, verdict, "inject")
  BY DEF JudgeRolling, SuiteInv, Rolling
<1>2. /\ Rolling \in RequiredScenario /\ "inject" \in Stage /\ verdict \in BOOLEAN
      /\ suite.at \notin ToPanel /\ suite.at \notin ToWeekly
  BY <1>1 DEF Rolling, RequiredScenario, Stage, ToFold, ToPanel, ToWeekly, ToWarm
<1>3. verdict => /\ SamplesOf(Rolling) # <<>>
                 /\ \A i \in DOMAIN SamplesOf(Rolling) : SamplesOf(Rolling)[i].success
                 /\ SuccessfulFolds = Folds
  BY <1>1, EveryFoldSucceeded
<1> HIDE DEF verdict
<1>4. /\ SuiteTypes' /\ envelope' = envelope /\ failures' = failures
      /\ suite'.at = "inject" /\ suite'.panel = suite.panel
      /\ suite'.constructed = suite.constructed
      /\ \A s \in RequiredScenario \ {Rolling} : suite'.results[s] = suite.results[s]
      /\ suite'.results[Rolling].samples = SamplesOf(Rolling)
      /\ suite'.results[Rolling].passed = verdict
      /\ suite'.results[Rolling].revision = suite.results[Rolling].revision
  BY <1>1, <1>2, JudgeEffect
<1>5. /\ suite'.at \notin ToPanel /\ suite'.at \notin ToWeekly /\ suite'.at \notin ToFold
      /\ suite'.results[Weekly] = suite.results[Weekly]
      /\ suite'.results[PanelOf5] = suite.results[PanelOf5]
  BY <1>4 DEF ToFold, ToPanel, ToWeekly, ToWarm, Weekly, PanelOf5, Rolling, RequiredScenario
<1>6. WeeklyInv' /\ PanelInv'
  BY <1>2, <1>4, <1>5, WeeklyStays, PanelStays
<1>7. RollingInv'
  <2>1. SuccessfulFolds' = SuccessfulFolds
    BY <1>4 DEF SuccessfulFolds, Samples, SamplesOf, Rolling
  <2>2. \A i \in DOMAIN SamplesOf(Rolling) : SamplesOf(Rolling)[i].label = "fold"
    BY DEF SuiteInv, RollingInv
  <2>3. SamplesOf(Rolling)' = SamplesOf(Rolling) /\ Passed(Rolling)' = verdict
    BY <1>4 DEF SamplesOf, Passed
  <2>4. QED
    BY <1>3, <1>5, <2>1, <2>2, <2>3 DEF RollingInv
<1>8. FailuresAreTold' /\ RevisionsAreKnown'
  BY <1>4, NothingTold DEF SamplesOf, ModelScenario
<1>9. QED
  BY <1>1, <1>4, <1>6, <1>7, <1>8, NothingWritten DEF SuiteInv

(* The fake adapter of the last scenario leaves the three others alone.     *)
LEMMA FakeOnly ==
  ASSUME SuiteInv, suite.at \in {"inject", "retry"}, NEW next \in {"retry", "write"},
         NEW result \in AResult,
         suite' = [suite EXCEPT !.at = next,
                                !.results = [suite.results EXCEPT ![Injected] = result]],
         failures' = failures, envelope' = envelope
  PROVE  SuiteInv'
<1> DEFINE results == [suite.results EXCEPT ![Injected] = result]
<1>1. /\ SuiteTypes /\ suite.results \in [RequiredScenario -> AResult]
      /\ Injected \in RequiredScenario /\ next \in Stage
  BY DEF SuiteInv, SuiteTypes, Injected, RequiredScenario, Stage
<1>2. /\ results \in [RequiredScenario -> AResult]
      /\ \A s \in ModelScenario : results[s] = suite.results[s]
  BY <1>1 DEF ModelScenario, Injected
<1> HIDE DEF results
<1>3. /\ suite' = [suite EXCEPT !.at = next, !.results = results]
      /\ suite'.at = next /\ suite'.panel = suite.panel /\ suite'.results = results
      /\ suite'.constructed = suite.constructed
  BY <1>1 DEF SuiteTypes, results
<1>4. SuiteTypes'
  BY <1>1, <1>2, <1>3 DEF SuiteTypes
<1>5. /\ suite'.results[Weekly] = suite.results[Weekly]
      /\ suite'.results[PanelOf5] = suite.results[PanelOf5]
      /\ suite'.results[Rolling] = suite.results[Rolling]
  BY <1>2, <1>3 DEF ModelScenario, RequiredScenario, Weekly, PanelOf5, Rolling
<1>6. /\ suite.at \notin ToFold /\ suite'.at \notin ToFold
      /\ ToPanel \subseteq ToFold /\ ToWeekly \subseteq ToFold
  BY <1>3 DEF ToFold, ToPanel, ToWeekly, ToWarm
<1>7. WeeklyInv' /\ PanelInv' /\ RollingInv'
  BY <1>3, <1>5, <1>6, WeeklyStays, PanelStays, RollingStays
<1>8. FailuresAreTold' /\ RevisionsAreKnown'
  BY <1>2, <1>3, NothingTold
<1>9. QED
  BY <1>3, <1>4, <1>7, <1>8, NothingWritten DEF SuiteInv

LEMMA FakeIsASample ==
  ASSUME NEW label \in Label, NEW ok \in BOOLEAN
  PROVE  FakeSample(label, ok) \in ASample
BY DEF FakeSample, ASample, CacheState

LEMMA InjectStep ==
  ASSUME SuiteInv, Inject
  PROVE  SuiteInv'
<1> DEFINE old == suite.results[Injected]
           fake == FakeSample("injection_failure_test", ~FailsFirstCall(1))
           result == [old EXCEPT !.samples = <<fake>>]
<1>1. /\ SuiteTypes /\ suite.at = "inject" /\ old \in AResult
      /\ failures' = failures /\ envelope' = envelope
  BY DEF SuiteInv, Inject, SuiteTypes, Injected, RequiredScenario
<1>2. suite' = [suite EXCEPT !.at = "retry",
                             !.results = [suite.results EXCEPT ![Injected] = result]]
  BY <1>1 DEF Inject, Injected, SuiteTypes
<1>3. fake \in ASample
  BY FakeIsASample DEF Label, FailsFirstCall
<1> HIDE DEF fake, old
<1>4. result \in AResult
  <2> DEFINE one == <<fake>>
  <2>1. one \in Seq(ASample)
    BY <1>3
  <2> HIDE DEF one
  <2>2. [old EXCEPT !.samples = one] \in AResult
    BY <1>1, <2>1 DEF AResult
  <2>3. QED
    BY <2>2 DEF one
<1> HIDE DEF result
<1>5. QED
  BY <1>1, <1>2, <1>4, FakeOnly

LEMMA RetryStep ==
  ASSUME SuiteInv, Retry
  PROVE  SuiteInv'
<1> DEFINE old == suite.results[Injected]
           ok == ~FailsFirstCall(2)
           failed == ~Samples(Injected, "injection_failure_test")[1].success
           fake == FakeSample("retry_success", ok)
           samples == Append(old.samples, fake)
           revision == IF ok THEN ConfiguredRevision ELSE None
           verdict == failed /\ ok
           result == [samples |-> samples, revision |-> revision, passed |-> verdict]
<1>1. /\ SuiteTypes /\ suite.at = "retry" /\ old \in AResult
      /\ failures' = failures /\ envelope' = envelope
  BY DEF SuiteInv, Retry, SuiteTypes, Injected, RequiredScenario
<1>2. suite' = [suite EXCEPT !.at = "write",
                             !.results = [suite.results EXCEPT ![Injected] = result]]
  BY <1>1 DEF Retry, Injected, SuiteTypes
<1>3. fake \in ASample
  BY FakeIsASample DEF Label, FailsFirstCall
<1>4. revision \in {None, ConfiguredRevision} /\ verdict \in BOOLEAN
  OBVIOUS
<1> HIDE DEF fake, old, revision, verdict
<1>5. samples \in Seq(ASample)
  BY <1>1, <1>3, AppendProperties DEF AResult
<1> HIDE DEF samples
<1>6. result \in AResult
  BY <1>4, <1>5 DEF AResult
<1> HIDE DEF result
<1>7. QED
  BY <1>1, <1>2, <1>6, FakeOnly

(* What the passing suite is made of, when the envelope is about to be      *)
(* written.                                                                 *)
LEMMA PassingSuite ==
  ASSUME SuiteInv, suite.at = "write", EvaluateSuite
  PROVE  /\ \A s \in ModelScenario : \A i \in DOMAIN SamplesOf(s) : SamplesOf(s)[i].success
         /\ \A s \in ModelScenario : suite.results[s].revision = ConfiguredRevision
         /\ failures = 0 /\ PanelIsComplete /\ SuccessfulFolds = Folds
         /\ suite.constructed = 1 /\ SamplesOf(Weekly)[1] \in Range(SamplesOf(Weekly))
         /\ SamplesOf(Weekly)[1].calls = 1 /\ ~SamplesOf(Weekly)[1].reused
         /\ SamplesOf(Weekly)[2].cache = SameProcessWarm
<1>1. /\ suite.at \notin ToWarm /\ suite.at # "cold" /\ suite.at \notin ToPanel
  BY DEF ToPanel, ToWeekly, ToWarm
<1>2. /\ ModelScenario = {Weekly, PanelOf5, Rolling} /\ ModelScenario \subseteq RequiredScenario
  BY DEF ModelScenario, RequiredScenario, Weekly, PanelOf5, Rolling
<1>3. \A s \in ModelScenario : Passed(s) /\ SamplesOf(s) \in Seq(ASample)
  BY <1>2 DEF EvaluateSuite, Passed, SamplesOf, SuiteInv, SuiteTypes, AResult
<1>4. /\ Len(SamplesOf(Weekly)) = 2 /\ SamplesOf(Weekly)[1].label = "cold_forecast"
      /\ SamplesOf(Weekly)[1].success /\ SamplesOf(Weekly)[2].success
      /\ suite.constructed = 1
      /\ SamplesOf(Weekly)[1].calls = 1 /\ ~SamplesOf(Weekly)[1].reused
      /\ SamplesOf(Weekly)[2].cache = SameProcessWarm
  BY <1>1, <1>2, <1>3 DEF SuiteInv, WeeklyInv
<1>5. /\ Len(SamplesOf(PanelOf5)) = 1 /\ SamplesOf(PanelOf5)[1].success
      /\ SamplesOf(PanelOf5)[1].label = "panel_forecast_direct" /\ PanelIsComplete
  BY <1>1, <1>2, <1>3 DEF SuiteInv, PanelInv
<1>6. /\ SamplesOf(Rolling) # <<>> /\ SuccessfulFolds = Folds
      /\ \A i \in DOMAIN SamplesOf(Rolling) : /\ SamplesOf(Rolling)[i].success
                                              /\ SamplesOf(Rolling)[i].label = "fold"
  BY <1>2, <1>3 DEF SuiteInv, RollingInv
<1>7. /\ DOMAIN SamplesOf(Weekly) = {1, 2} /\ DOMAIN SamplesOf(PanelOf5) = {1}
      /\ 1 \in DOMAIN SamplesOf(Rolling)
  <2>1. DOMAIN SamplesOf(Weekly) = 1 .. 2 /\ DOMAIN SamplesOf(PanelOf5) = 1 .. 1
    BY <1>2, <1>3, <1>4, <1>5, LenProperties
  <2>2. 1 \in DOMAIN SamplesOf(Rolling)
    <3>1. /\ DOMAIN SamplesOf(Rolling) = 1 .. Len(SamplesOf(Rolling))
          /\ Len(SamplesOf(Rolling)) \in Nat /\ Len(SamplesOf(Rolling)) # 0
      BY <1>2, <1>3, <1>6, LenProperties, EmptySeq
    <3>2. QED
      BY <3>1
  <2>3. QED
    BY <2>1, <2>2
<1>8. \A s \in ModelScenario : \A i \in DOMAIN SamplesOf(s) : SamplesOf(s)[i].success
  BY <1>2, <1>4, <1>5, <1>6, <1>7
<1>9. \A s \in ModelScenario :
        /\ 1 \in DOMAIN SamplesOf(s) /\ SamplesOf(s)[1].label # "warm_forecast"
  BY <1>2, <1>4, <1>5, <1>6, <1>7
<1>10. \A s \in ModelScenario : suite.results[s].revision = ConfiguredRevision
  BY <1>8, <1>9 DEF SuiteInv, RevisionsAreKnown
<1>11. failures = 0
  BY <1>8 DEF SuiteInv, FailuresAreTold
<1>12. SamplesOf(Weekly)[1] \in Range(SamplesOf(Weekly))
  BY <1>7 DEF Range
<1>13. QED
  BY <1>4, <1>5, <1>6, <1>8, <1>10, <1>11, <1>12

(* A pipeline that was constructed is counted, once.                        *)
LEMMA CountedOnce ==
  ASSUME SuiteTypes, SamplesOf(Weekly)[1] \in Range(SamplesOf(Weekly)),
         SamplesOf(Weekly)[1].calls = 1
  PROVE  ConstructionCount = 1
<1> DEFINE counts == UNION {{sample.calls : sample \in Range(suite.results[s].samples)} :
                              s \in RequiredScenario}
<1>1. Weekly \in RequiredScenario
  BY DEF Weekly, RequiredScenario
<1>2. 1 \in counts
  BY <1>1 DEF SamplesOf
<1>3. \A n \in counts : n \in {0, 1}
  <2>1. SUFFICES ASSUME NEW s \in RequiredScenario,
                        NEW sample \in Range(suite.results[s].samples)
                 PROVE  sample.calls \in {0, 1}
    OBVIOUS
  <2>2. suite.results[s].samples \in Seq(ASample)
    BY DEF SuiteTypes, AResult
  <2>3. sample \in ASample
    BY <2>2, ElementOfSeq, LenProperties DEF Range
  <2>4. QED
    BY <2>3 DEF ASample
<1> HIDE DEF counts
<1>4. Max(counts) = 1
  BY <1>2, <1>3 DEF Max
<1>5. QED
  BY <1>4 DEF ConstructionCount, counts

LEMMA WriteStep ==
  ASSUME SuiteInv, WriteJson
  PROVE  SuiteInv'
<1>1. /\ SuiteTypes /\ suite.at = "write" /\ suite' = [suite EXCEPT !.at = "written"]
      /\ failures' = failures
  BY DEF SuiteInv, WriteJson
<1>2. PICK trace \in Trace, post \in Inspection :
       envelope' =
         [type |-> "benchmark_suite", unknown |-> FALSE,
          commit |-> trace.commit, clean |-> trace.clean, label |-> suite.label,
          success |-> EvaluateSuite, loads |-> ConstructionCount,
          revision |-> suite.results["weekly_260_13"].revision,
          preflight |-> [label |-> suite.label, pre |-> suite.pre, post |-> post],
          scenarios |-> [s \in RequiredScenario |->
            [passed |-> suite.results[s].passed, revision |-> suite.results[s].revision,
             succeeded |-> IF s = "10_rolling_calls" THEN SuccessfulFolds ELSE 0,
             warm |-> Samples("weekly_260_13", "warm_forecast")[1].cache]]]
  BY DEF WriteJson
<1>3. /\ suite'.at = "written" /\ suite'.results = suite.results
      /\ suite'.panel = suite.panel /\ suite'.constructed = suite.constructed
      /\ suite'.label = suite.label
  BY <1>1 DEF SuiteTypes
<1>4. SuiteTypes'
  BY <1>1 DEF SuiteTypes, Stage
<1>5. /\ suite.at \notin ToFold /\ suite'.at \notin ToFold
      /\ ToPanel \subseteq ToFold /\ ToWeekly \subseteq ToFold /\ ToWarm \subseteq ToFold
  BY <1>1, <1>3 DEF ToFold, ToPanel, ToWeekly, ToWarm
<1>6. WeeklyInv' /\ PanelInv' /\ RollingInv'
  BY <1>3, <1>5, WeeklyStays, PanelStays, RollingStays
<1>7. FailuresAreTold' /\ RevisionsAreKnown'
  BY <1>1, <1>3, NothingTold
<1>8. /\ Samples(Weekly, "cold_forecast")[1] = SamplesOf(Weekly)[1]
      /\ Samples(Weekly, "warm_forecast")[1] = SamplesOf(Weekly)[2]
  BY <1>5, WeeklySamples
<1>9. envelope'.success => EvaluateSuite
  BY <1>2
<1>10. PassingSuiteValidates'
  <2>1. SUFFICES ASSUME envelope'.success, Traced(envelope'),
                        CachePreflightValid(envelope'.preflight)
                 PROVE  SuiteValid(envelope')
    BY DEF PassingSuiteValidates
  <2>2. /\ \A s \in ModelScenario : suite.results[s].revision = ConfiguredRevision
        /\ SuccessfulFolds = Folds
        /\ SamplesOf(Weekly)[1] \in Range(SamplesOf(Weekly))
        /\ SamplesOf(Weekly)[1].calls = 1 /\ SamplesOf(Weekly)[2].cache = SameProcessWarm
    BY <1>1, <1>9, <2>1, PassingSuite
  <2>3. envelope'.loads = 1
    BY <1>1, <1>2, <2>2, CountedOnce
  <2>4. envelope'.label \in InitialCacheState
    BY <1>2, <2>1 DEF CachePreflightValid
  <2>5. /\ envelope'.revision = ConfiguredRevision /\ ConfiguredRevision # None
    BY <1>2, <2>2, SuiteAssumption DEF ModelScenario, RequiredScenario
  <2>6. /\ DOMAIN envelope'.scenarios = RequiredScenario
        /\ \A s \in RequiredScenario : envelope'.scenarios[s].passed
        /\ \A s \in ModelScenario : envelope'.scenarios[s].revision = ConfiguredRevision
    BY <1>2, <1>9, <2>1, <2>2 DEF EvaluateSuite, ModelScenario
  <2>7. /\ envelope'.scenarios["10_rolling_calls"].succeeded = Folds
        /\ envelope'.scenarios["weekly_260_13"].warm = SameProcessWarm
    BY <1>2, <1>8, <2>2 DEF RequiredScenario, Weekly
  <2>8. QED
    BY <2>1, <2>3, <2>4, <2>5, <2>6, <2>7 DEF SuiteValid
<1>11. FailureIsNotHidden'
  <2>1. SUFFICES ASSUME envelope'.success
                 PROVE  /\ failures' = 0 /\ PanelIsComplete' /\ suite'.constructed = 1
                        /\ ~Samples("weekly_260_13", "cold_forecast")'[1].reused
    BY DEF FailureIsNotHidden
  <2>2. /\ failures = 0 /\ PanelIsComplete /\ suite.constructed = 1
        /\ ~SamplesOf(Weekly)[1].reused
    BY <1>1, <1>9, <2>1, PassingSuite
  <2>3. PanelIsComplete'
    BY <1>3, <2>2 DEF PanelIsComplete
  <2>4. Samples("weekly_260_13", "cold_forecast")' = Samples(Weekly, "cold_forecast")
    BY <1>3 DEF Samples, Weekly
  <2>5. QED
    BY <1>1, <1>3, <1>8, <2>2, <2>3, <2>4
<1>12. QED
  BY <1>3, <1>4, <1>6, <1>7, <1>10, <1>11 DEF SuiteInv

LEMMA SuiteStarts == SuiteInit => SuiteInv
<1> SUFFICES ASSUME SuiteInit PROVE SuiteInv
  OBVIOUS
<1>1. PICK pre \in Inspection, label \in InitialCacheState \cup {None} :
        suite = [at |-> "cold", pre |-> pre, label |-> label, constructed |-> 0,
                 panel |-> <<>>, results |-> [s \in RequiredScenario |-> NewResult]]
  BY DEF SuiteInit
<1>2. failures = 0 /\ envelope = None
  BY DEF SuiteInit
<1>3. NewResult \in AResult /\ NewResult.samples = <<>> /\ NewResult.passed = FALSE
      /\ NewResult.revision = None
  BY DEF NewResult, AResult
<1>4. /\ suite.at = "cold" /\ suite.constructed = 0
      /\ \A s \in RequiredScenario : suite.results[s] = NewResult
  BY <1>1
<1>5. SuiteTypes
  BY <1>1, <1>2, <1>3 DEF SuiteTypes, Stage, ToFold, ToPanel, ToWeekly, ToWarm
<1>6. \A s \in RequiredScenario : /\ SamplesOf(s) = <<>> /\ ~Passed(s)
                                  /\ suite.results[s].revision = None
  BY <1>3, <1>4 DEF SamplesOf, Passed
<1>7. DOMAIN <<>> = {} /\ ModelScenario \subseteq RequiredScenario
      /\ {Weekly, PanelOf5, Rolling} \subseteq RequiredScenario
  BY DEF ModelScenario, RequiredScenario, Weekly, PanelOf5, Rolling
<1>8. WeeklyInv /\ PanelInv /\ RollingInv
  BY <1>4, <1>6, <1>7 DEF WeeklyInv, PanelInv, RollingInv, ToFold, ToPanel, ToWeekly, ToWarm
<1>9. FailuresAreTold /\ RevisionsAreKnown
  BY <1>2, <1>6, <1>7 DEF FailuresAreTold, RevisionsAreKnown
<1>10. QED
  BY <1>2, <1>5, <1>8, <1>9 DEF SuiteInv, PassingSuiteValidates, FailureIsNotHidden

LEMMA SuiteSteps == SuiteInv /\ [SuiteNext]_suiteVars => SuiteInv'
<1> SUFFICES ASSUME SuiteInv, [SuiteNext]_suiteVars PROVE SuiteInv'
  OBVIOUS
<1>1. CASE Cold
  BY <1>1, ColdStep
<1>2. CASE Warm
  BY <1>2, WarmStep
<1>3. CASE JudgeWeekly
  BY <1>3, JudgeWeeklyStep
<1>4. CASE Panel
  BY <1>4, PanelStep
<1>5. CASE Fold
  BY <1>5, FoldStep
<1>6. CASE JudgeRolling
  BY <1>6, JudgeRollingStep
<1>7. CASE Inject
  BY <1>7, InjectStep
<1>8. CASE Retry
  BY <1>8, RetryStep
<1>9. CASE WriteJson
  BY <1>9, WriteStep
<1>10. CASE UNCHANGED suiteVars
  BY <1>10 DEF suiteVars, SuiteInv, SuiteTypes, WeeklyInv, PanelInv, RollingInv,
     FailuresAreTold, RevisionsAreKnown, PassingSuiteValidates, FailureIsNotHidden,
     SamplesOf, Passed, PanelIsComplete, SuccessfulFolds, Samples
<1>11. QED
  BY <1>1, <1>2, <1>3, <1>4, <1>5, <1>6, <1>7, <1>8, <1>9, <1>10 DEF SuiteNext

(* The invariant of the suite: what every scenario has come to at every     *)
(* stage of run_benchmarks, that no failed call goes untold, and the two    *)
(* properties of the envelope.                                              *)
THEOREM SuiteInvariant == SuiteSpec => []SuiteInv
BY SuiteStarts, SuiteSteps, PTL DEF SuiteSpec

(* The envelope of a passing suite validates as soon as git and the two     *)
(* cache inspections bear out what the operator claimed: run_benchmarks and *)
(* BenchmarkEvidence.validate agree on what passing takes.                  *)
THEOREM PassingSuitesValidate == SuiteSpec => []PassingSuiteValidates
<1>1. SuiteInv => PassingSuiteValidates
  BY DEF SuiteInv
<1>2. QED
  BY <1>1, SuiteInvariant, PTL

(* A suite that passes hides no call that went wrong, no incomplete panel   *)
(* and no second pipeline, whatever the calls and the panel answered.       *)
THEOREM NoFailureIsHidden == SuiteSpec => []FailureIsNotHidden
<1>1. SuiteInv => FailureIsNotHidden
  BY DEF SuiteInv
<1>2. QED
  BY <1>1, SuiteInvariant, PTL
================================================================================
