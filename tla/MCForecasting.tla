----------------------------- MODULE MCForecasting -----------------------------
(***************************************************************************)
(* Two runs of the page, a suite of two series and two folds, backtests of *)
(* up to eight observations, one more than the cap.                        *)
(***************************************************************************)
EXTENDS ForecastProcesses

CONSTANTS a, b, north, south, fine, other, large, bad

Interchangeable == Permutations({a, b})

Table(times, values) ==
  [columns |-> {"ds", "y"}, timestamp |-> "ds", target |-> "y",
   rows |-> [i \in DOMAIN times |-> [time |-> times[i], value |-> values[i]]]]
Selecting(u, timestamp, target) == [u EXCEPT !.timestamp = timestamp, !.target = target]
WithIds(u) == [u EXCEPT !.columns = {"ds", "item_id"}, !.target = "item_id"]

(* In and out of order, with gaps, repeated, blank and unreadable times,    *)
(* missing values, longer than the cap of seven, with ids for values.       *)
MCUploads ==
  LET plain == Table(<<1, 2>>, <<5, 6>>)
      long == Table(<<8, 1, 7, 2, 6, 3, 5, 4>>, <<8, 1, 7, 2, 6, 3, 5, 4>>)
  IN  {plain, long, Table(<<>>, <<>>), Table(<<3>>, <<5>>),
       Table(<<2, 2, 1, 4>>, <<5, 6, 7, 8>>), Table(<<1, NaT>>, <<5, 6>>),
       Table(<<Unparseable, NaT>>, <<5, 6>>), Table(<<3, 1, 2>>, <<NaN, NaN, NaN>>),
       Table(<<1, 2, 4>>, <<5, NaN, 5>>),
       Selecting(long, "ds", "ds"), Selecting(plain, "ds", "x"),
       WithIds(long), WithIds(Table(<<2, 1, 3>>, <<5, 5, NaN>>))}

MCSettings ==
  [horizon : {1, 2}, quantiles : {<<9, 1>>}]
    \cup {[horizon |-> h, quantiles |-> q] : h \in {0, 1}, q \in {<<>>, <<1, 1>>, <<0>>}}

(* Every answer with good numbers and times from 8 to 10 or none, and one   *)
(* bad one of each other kind.                                              *)
ForecastRow == [time : (8 .. 10) \cup {NaT}, item : {"default"}, point : {0}, levels : {<<1, 2>>}]
MCModelOutput ==
  LET good == [time |-> 9, item |-> "default", point |-> 0, levels |-> <<1, 2>>]
      Out(rows) == [points |-> TRUE, levels |-> {1, 9}, rows |-> rows]
  IN  {Out(rows) : rows \in {<<>>} \cup [1 .. 1 -> ForecastRow] \cup [1 .. 2 -> ForecastRow]}
      \cup {[Out(<<good>>) EXCEPT !.points = FALSE], [Out(<<good>>) EXCEPT !.levels = {1}]}
      \cup {Out(<<[good EXCEPT !.point = NaN]>>)}
      \cup {Out(<<good, [good EXCEPT !.time = 10, !.item = "other"]>>)}
      \cup {Out(<<[good EXCEPT !.time = t]>>) : t \in {Missing, Unparseable}}
      \cup {Out(<<[good EXCEPT !.levels = l]>>) : l \in {<<2, 1>>, <<1, NaN>>, <<NaN, 1>>}}

PanelRow == [item : {north, south}, time : 0 .. 2]
NorthFirst(s, t) ==
  <<[item |-> north, time |-> s], [item |-> north, time |-> t],
    [item |-> south, time |-> 1], [item |-> south, time |-> 2]>>
MCPanelOutput ==
  {[complete |-> TRUE, rows |-> rows] : rows \in [1 .. 4 -> PanelRow] \cup [1 .. 3 -> PanelRow]}
    \cup {[complete |-> TRUE, rows |-> NorthFirst(s, t)] : s, t \in (0 .. 2) \cup {None}}
    \cup {[complete |-> FALSE, rows |-> <<>>]}

(* Series with a season of one, two or three, cut anywhere; a trend; a      *)
(* missing value; the times in order, reversed, with a gap, repeated.       *)
Season(period, n) == [i \in 1 .. n |-> 3 * (i % period)]
Order(n) == {[i \in 1 .. n |-> i], [i \in 1 .. n |-> n + 1 - i],
             [i \in 1 .. n |-> IF i = n THEN n + 5 ELSE i],
             [i \in 1 .. n |-> IF i = n THEN Max({n - 1, 1}) ELSE i]}
MCBacktestUploads ==
  UNION {{Table(times, values) :
            times \in Order(n),
            values \in {Season(p, n) : p \in 1 .. 3}
                         \cup {[i \in 1 .. n |-> i], [i \in 1 .. n |-> IF i = 2 THEN NaN ELSE i]}} :
         n \in 1 .. 8}

MCConfigurations ==
  [folds : 0 .. 3, length : 1 .. 2, expanding : BOOLEAN, nonOverlapping : BOOLEAN,
   horizon : {Missing, 1, 3}, model : {"last_value"}, period : {Missing, 2}]
  \cup
  [folds : 1 .. 3, length : 1 .. 2, expanding : BOOLEAN, nonOverlapping : BOOLEAN,
   horizon : {Missing, 3}, model : {"seasonal_naive"}, period : {Missing, 1, 2, 3}]

(* What the theorems about the answer and about the backtest assume of      *)
(* sort_values holds for all of these tables.                               *)
ASSUME UploadsAreSorted == SortValuesSorts(MCUploads \cup MCBacktestUploads)
================================================================================
