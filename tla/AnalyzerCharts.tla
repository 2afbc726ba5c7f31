--------------------------- MODULE AnalyzerCharts ---------------------------
(***************************************************************************)
(* What the tabs of the stock analyzer draw of a loaded stock: the price     *)
(* slice of a timeframe, the comparison of two series of different lengths,  *)
(* and the financial statements with the metrics ticked for each.  The       *)
(* charts are functions of the stock and of view state; all that can move    *)
(* the view state wrongly is a long enough sequence of clicks.               *)
(*                                                                         *)
(* A stock is which timeframes (frames), statements (filed: periods and       *)
(* statements) and earnings history ("summary", "earnings" or "none") its     *)
(* data has, and how many points it and a compared stock have, one at least.  *)
(***************************************************************************)
EXTENDS Naturals, FiniteSets

CONSTANTS
    Metrics,     \* names of a statement's metrics, the same for each
    Defaults,    \* those ticked at first
    Stocks       \* the data the server may answer for a stock

VARIABLES data, tab, timeframe, chartType, benchmark, statement, period, picked

vars == <<data, tab, timeframe, chartType, benchmark, statement, period, picked>>

SubTabs == {"overview", "indicators", "compare", "financials", "earnings"}
Timeframes == {"1M", "1Y"}
Statements == {"income_statement", "balance_sheet", "cash_flow"}
Periods == {"quarterly", "annual"}

Init ==
    /\ data \in Stocks
    /\ tab = "overview" /\ timeframe = "1Y" /\ chartType = "area"
    /\ benchmark = TRUE
    /\ statement = "cash_flow" /\ period = "quarterly"
    /\ picked = [s \in Statements |-> Defaults]

----------------------------------------------------------------------------
\* The view state.

SubTab(t) ==
    /\ tab' = t
    /\ UNCHANGED <<data, timeframe, chartType, benchmark, statement, period, picked>>

PickTimeframe(tf) ==
    /\ tab = "overview" /\ timeframe' = tf
    /\ UNCHANGED <<data, tab, chartType, benchmark, statement, period, picked>>

PickChart(c) ==
    /\ tab = "overview" /\ chartType' = c
    /\ UNCHANGED <<data, tab, timeframe, benchmark, statement, period, picked>>

ToggleBenchmark ==
    /\ tab = "compare" /\ benchmark' = ~benchmark
    /\ UNCHANGED <<data, tab, timeframe, chartType, statement, period, picked>>

PickStatement(s) ==
    /\ tab = "financials" /\ statement' = s
    /\ UNCHANGED <<data, tab, timeframe, chartType, benchmark, period, picked>>

PickPeriod(p) ==
    /\ tab = "financials" /\ period' = p
    /\ UNCHANGED <<data, tab, timeframe, chartType, benchmark, statement, picked>>

\* Bug: the last ticked metric can be dropped too.
ToggledFreely(ticked, m) ==
    IF m \notin ticked THEN ticked \union {m} ELSE ticked \ {m}

\* A ticked metric is dropped unless it is the last one.
Toggled(ticked, m) ==
    IF m \notin ticked THEN ticked \union {m}
    ELSE IF Cardinality(ticked) > 1 THEN ticked \ {m}
    ELSE ticked

\* The row of boxes of the statement on screen.
ToggleMetric(m) ==
    /\ tab = "financials"
    /\ picked' = [picked EXCEPT ![statement] = Toggled(@, m)]
    /\ UNCHANGED <<data, tab, timeframe, chartType, benchmark, statement, period>>

Next ==
    \/ \E t \in SubTabs : SubTab(t)
    \/ \E tf \in Timeframes : PickTimeframe(tf)
    \/ \E c \in {"area", "line"} : PickChart(c)
    \/ ToggleBenchmark
    \/ \E s \in Statements : PickStatement(s)
    \/ \E p \in Periods : PickPeriod(p)
    \/ \E m \in Metrics : ToggleMetric(m)

Spec == Init /\ [][Next]_vars

----------------------------------------------------------------------------
\* What is drawn.

\* The slice of the timeframe, or the whole chart where the stock has none.
ActiveSlice == IF timeframe \in data.frames THEN timeframe ELSE "chart"

\* A notice takes the place of chart and table when nothing was filed.
Filed == <<period, statement>> \in data.filed

FinancialsChart == IF Filed THEN picked[statement] ELSE {}

\* The table's rows are the statement's, its columns the period's.
FinancialsTable == IF Filed THEN <<statement, period>> ELSE <<>>

\* The earnings tab: the call history, the filed earnings in its place, a notice.
EarningsHistory == IF tab = "earnings" THEN data.history ELSE "none"

\* Where a compared series has no point on a date, the point at the same share
\* of its length stands in.
Smaller(x, y) == IF x < y THEN x ELSE y
Bigger(x, y) == IF x > y THEN x ELSE y
TotalPoints == Bigger(1, data.points - 1)
\* Bug: the share is taken of the length, not of the last index.
ApproxIdxOfLength(i) == Smaller(data.compared, (i * data.compared) \div TotalPoints)

ApproxIdx(i) ==
    Smaller(data.compared - 1, (i * (data.compared - 1)) \div TotalPoints)

----------------------------------------------------------------------------
\* However the boxes are clicked, a statement that was filed is drawn with at
\* least one of its metrics.
ChartNeverEmpty ==
    (tab = "financials" /\ Filed) =>
        FinancialsChart # {} /\ FinancialsChart \subseteq Metrics

\* The stand-in index is one of the compared series, grows with the date, and
\* spans the series from its first to its last point.
SeriesSpanned ==
    LET last == data.points - 1
    IN  /\ \A i \in 0..last : ApproxIdx(i) \in 0..(data.compared - 1)
        /\ \A i \in 1..last : ApproxIdx(i - 1) <= ApproxIdx(i)
        /\ ApproxIdx(0) = 0
        /\ last > 0 => ApproxIdx(last) = data.compared - 1
=============================================================================
