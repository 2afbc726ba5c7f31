------------------------ MODULE PagesPortfolioProofs ------------------------
(***************************************************************************)
(* Theorems about the pages around portfolios, as Pages composes them: the   *)
(* stock analyzer, whose own theorems carry over, its charts, the equity      *)
(* module, and the market data of the funds that the console keeps.           *)
(***************************************************************************)
EXTENDS Pages, FiniteSetTheorems, SequenceTheorems, TLAPS

----------------------------------------------------------------------------
\* The stock analyzer: a behaviour of Pages is one of StockAnalyzer.

AP == INSTANCE StockAnalyzerProofs WITH
    MaxAsks <- MaxStockAsks, compare <- compared, tab <- stockTab,
    loading <- stockLoading, calls <- stockCalls, asks <- stockAsks

LEMMA AnalyzerSensible == AP!Sensible
BY PagesAssumption DEF AP!Sensible

LEMMA AnalyzerSteps == [Next]_vars => [Analyzer!Next]_analyzerVars
BY DEF Next, vars, analyzerVars

LEMMA AnalyzerNext == Analyzer!Next => AP!Next
BY Zenon
   DEF Analyzer!Next, AP!Next, Analyzer!Select, AP!Select,
       Analyzer!HandleAddCompareStock, AP!HandleAddCompareStock,
       Analyzer!RemoveCompareStock, AP!RemoveCompareStock, Analyzer!Clear,
       AP!Clear, Analyzer!Simulate, AP!Simulate, Analyzer!SetAmount, AP!SetAmount,
       Analyzer!ClearCompareStocks, AP!ClearCompareStocks,
       Analyzer!SetActiveSubTab, AP!SetActiveSubTab, Analyzer!Receive, AP!Receive,
       Analyzer!ReceiveAnalysis, AP!ReceiveAnalysis, Analyzer!ReceiveImpact,
       AP!ReceiveImpact, Analyzer!ReceiveCompare, AP!ReceiveCompare,
       Analyzer!Reopen, AP!Reopen, Analyzer!Offered, AP!Offered, Analyzer!Asking,
       AP!Asking, Analyzer!Call, AP!Call, Analyzer!Simulating, AP!Simulating,
       Analyzer!InFlight, AP!InFlight, Analyzer!Current, AP!Current,
       Analyzer!StopsSpinner, AP!StopsSpinner, Analyzer!Loaded, AP!Loaded,
       Analyzer!CanSimulate, AP!CanSimulate, Analyzer!Flagged, AP!Flagged,
       Analyzer!Compared, AP!Compared, Analyzer!CanAdd, AP!CanAdd,
       Analyzer!AddCompareStock, AP!AddCompareStock, Analyzer!local, AP!local,
       Analyzer!store, AP!store, Analyzer!Tabs, AP!Tabs, Analyzer!Mounts,
       AP!Mounts, Analyzer!Cardinality, AP!Cardinality

LEMMA AnalyzerRuns == Spec => AP!Spec
<1>1. Init => AP!Init
  BY DEF Init, Analyzer!Init, AP!Init, Analyzer!Mounts, AP!Mounts
<1>2. [Next]_vars => [AP!Next]_AP!vars
  BY AnalyzerSteps, AnalyzerNext DEF analyzerVars, AP!vars, AP!local, AP!store
<1> QED BY <1>1, <1>2, PTL DEF Spec, AP!Spec

\* The analyzer on its page implements LatestWins, for any symbols and any number of
\* requests and mounts: until the tab is first closed, only the answer to the latest
\* selection appears.
THEOREM AnalyzerImplementsLatest == Spec => LatestSpec
<1>1. AP!Latest!Init => Analyzer!Latest!Init
  BY DEF AP!Latest!Init, Analyzer!Latest!Init
<1>2. AP!Latest!Next => Analyzer!Latest!Next
  BY DEF AP!Latest!Next, Analyzer!Latest!Next, AP!Latest!Ask, Analyzer!Latest!Ask,
         AP!Latest!Show, Analyzer!Latest!Show, AP!Latest!Hide, Analyzer!Latest!Hide,
         AP!Latest!Leave, Analyzer!Latest!Leave
<1>3. AP!Spec => AP!LatestSpec
  BY AnalyzerSensible, AP!ImplementsLatest
<1> QED BY <1>1, <1>2, <1>3, AnalyzerRuns, PTL
        DEF LatestSpec, AP!LatestSpec, Analyzer!LatestSpec, AP!Latest!Spec,
            Analyzer!Latest!Spec

----------------------------------------------------------------------------
\* Its charts.

LEMMA ChartSteps == [Next]_vars => [Charts!Next]_chartsVars
BY DEF Next, vars, chartsVars

\* Every statement has a metric ticked.
ChartInv ==
    /\ data \in Stocks /\ chartStatement \in Charts!Statements
    /\ picked \in [Charts!Statements -> (SUBSET Metrics) \ {{}}]

LEMMA ChartCardinality ==
    ASSUME NEW S
    PROVE  Charts!Cardinality(S) = Cardinality(S)
BY Zenon DEF Charts!Cardinality, Cardinality

\* A toggle never unticks the last one.
LEMMA ToggledNotEmpty ==
    ASSUME NEW ticked \in (SUBSET Metrics) \ {{}}, NEW m \in Metrics
    PROVE  Charts!Toggled(ticked, m) \in (SUBSET Metrics) \ {{}}
<1>1. CASE m \in ticked /\ Charts!Cardinality(ticked) > 1 /\ ticked \ {m} = {}
  <2>1. ticked = {m}
    BY <1>1
  <2>2. Cardinality(ticked) = 1
    BY <2>1, FS_Singleton
  <2> QED BY <1>1, <2>2, ChartCardinality
<1> QED BY <1>1 DEF Charts!Toggled

LEMMA ChartInductive == Spec => []ChartInv
<1>1. Init => ChartInv
  BY PagesAssumption DEF Init, Charts!Init, ChartInv, Charts!Statements
<1>2. ASSUME ChartInv, [Next]_vars PROVE ChartInv'
  <2>1. CASE UNCHANGED <<data, chartStatement, picked>>
    BY <1>2, <2>1 DEF ChartInv
  <2>2. ASSUME NEW s \in Charts!Statements, Charts!PickStatement(s) PROVE ChartInv'
    BY <1>2, <2>2 DEF ChartInv, Charts!PickStatement
  <2>3. ASSUME NEW m \in Metrics, Charts!ToggleMetric(m) PROVE ChartInv'
    <3> DEFINE t == Charts!Toggled(picked[chartStatement], m)
    <3>1. picked' = [picked EXCEPT ![chartStatement] = t] /\ UNCHANGED <<data, chartStatement>>
      BY <2>3 DEF Charts!ToggleMetric
    <3>2. picked[chartStatement] \in (SUBSET Metrics) \ {{}}
      BY <1>2 DEF ChartInv
    <3>3. t \in (SUBSET Metrics) \ {{}}
      BY <3>2, ToggledNotEmpty
    <3> HIDE DEF t
    <3> QED BY <1>2, <3>1, <3>3 DEF ChartInv
  <2> QED BY <1>2, <2>1, <2>2, <2>3, ChartSteps
          DEF Charts!Next, chartsVars, Charts!SubTab, Charts!PickTimeframe, Charts!PickChart,
              Charts!ToggleBenchmark, Charts!PickPeriod
<1> QED BY <1>1, <1>2, PTL DEF Spec

\* Division by a positive number keeps the order and takes multiples apart.
LEMMA Quotient ==
    ASSUME NEW t \in Nat \ {0}, NEW x \in Nat
    PROVE  x \div t \in Nat /\ t * (x \div t) <= x /\ x < t * (x \div t) + t
OBVIOUS

LEMMA QuotientGrows ==
    ASSUME NEW t \in Nat \ {0}, NEW x \in Nat, NEW y \in Nat, x <= y
    PROVE  x \div t <= y \div t
<1> DEFINE p == x \div t
           q == y \div t
<1>1. /\ p \in Nat /\ q \in Nat /\ t * p <= x /\ y < t * q + t
  BY Quotient
<1> HIDE DEF p, q
<1>2. ASSUME q < p PROVE FALSE
  <2>1. PICK d \in Nat : p = q + 1 + d
    <3>1. p - q - 1 \in Nat /\ p = q + 1 + (p - q - 1)
      BY <1>1, <1>2
    <3> QED BY <3>1
  <2>2. t * p = t * q + t + t * d
    BY <1>1, <2>1
  <2>3. t * d \in Nat /\ t * q \in Nat /\ t * p \in Nat
    BY <1>1
  <2> QED BY <1>1, <2>2, <2>3
<1> QED BY <1>1, <1>2 DEF p, q

LEMMA QuotientOfMultiple ==
    ASSUME NEW t \in Nat \ {0}, NEW k \in Nat
    PROVE  (t * k) \div t = k
OBVIOUS

\* The share of an index, in quotients.
LEMMA ApproximatePoint ==
    ASSUME data \in Stocks, NEW i \in Nat
    PROVE  /\ Charts!TotalPoints \in Nat \ {0}
           /\ data.compared - 1 \in Nat
           /\ i * (data.compared - 1) \in Nat
           /\ (i * (data.compared - 1)) \div Charts!TotalPoints \in Nat
           /\ Charts!ApproxIdx(i) =
                IF data.compared - 1 < (i * (data.compared - 1)) \div Charts!TotalPoints
                THEN data.compared - 1
                ELSE (i * (data.compared - 1)) \div Charts!TotalPoints
<1>1. data.points \in Nat /\ data.compared \in Nat \ {0}
  BY PagesAssumption
<1>2. Charts!TotalPoints \in Nat \ {0}
  BY <1>1 DEF Charts!TotalPoints, Charts!Bigger
<1> DEFINE final == data.compared - 1
<1>3. final \in Nat
  BY <1>1
<1> HIDE DEF final
<1>4. i * final \in Nat
  BY <1>3
<1>5. (i * final) \div Charts!TotalPoints \in Nat
  BY <1>2, <1>4, Quotient
<1> QED BY <1>2, <1>3, <1>4, <1>5 DEF Charts!ApproxIdx, Charts!Smaller, final

\* Of any two lengths of price series, the stand-in points span the compared one.
LEMMA SeriesSpannedOfAny == ASSUME data \in Stocks PROVE Charts!SeriesSpanned
<1> DEFINE k == data.compared - 1
           t == Charts!TotalPoints
           a(i) == Charts!ApproxIdx(i)
<1>1. /\ k \in Nat /\ t \in Nat \ {0}
      /\ \A i \in Nat : /\ i * k \in Nat /\ (i * k) \div t \in Nat
                       /\ a(i) = IF k < (i * k) \div t THEN k ELSE (i * k) \div t
  BY ApproximatePoint
<1>2. data.points \in Nat /\ (data.points - 1 > 0 => t = data.points - 1)
  BY PagesAssumption DEF Charts!TotalPoints, Charts!Bigger
<1> HIDE DEF k, t, a
<1>3. \A i \in Nat : a(i) \in 0..k
  BY <1>1
<1>4. \A i \in Nat \ {0} : a(i - 1) <= a(i)
  <2> TAKE i \in Nat \ {0}
  <2>1. i - 1 \in Nat /\ (i - 1) * k <= i * k
    <3>1. i * k = (i - 1) * k + k /\ (i - 1) * k \in Nat
      BY <1>1
    <3> QED BY <1>1, <3>1
  <2>2. ((i - 1) * k) \div t <= (i * k) \div t
    BY <1>1, <2>1, QuotientGrows
  <2> QED BY <1>1, <2>1, <2>2
<1>5. a(0) = 0
  <2>1. 0 * k = t * 0
    BY <1>1
  <2>2. (0 * k) \div t = 0
    BY <1>1, <2>1, QuotientOfMultiple
  <2> QED BY <1>1, <2>2
<1>6. a(t) = k
  <2>1. (t * k) \div t = k
    BY <1>1, QuotientOfMultiple
  <2> QED BY <1>1, <2>1
<1> QED BY <1>2, <1>3, <1>4, <1>5, <1>6 DEF Charts!SeriesSpanned, a, k

\* A filed statement has something drawn.
LEMMA ChartDrawn == ASSUME ChartInv PROVE Charts!ChartNeverEmpty
BY DEF ChartInv, Charts!ChartNeverEmpty, Charts!FinancialsChart, Charts!Filed

\* For any symbols, palette and metrics: what the analyzer shows, its spinner and its
\* impact panel are those of the selection, the compared stocks are told apart, and its
\* charts draw what was filed.
THEOREM AnalyzerShowsSelection == Spec => []AnalyzerFollows
<1>1. AP!ShownIsSelected => Analyzer!ShownIsSelected
  BY DEF AP!ShownIsSelected, Analyzer!ShownIsSelected, AP!Loaded, Analyzer!Loaded
<1>2. AP!SpinnerIffWaiting => Analyzer!SpinnerIffWaiting
  BY DEF AP!SpinnerIffWaiting, Analyzer!SpinnerIffWaiting, AP!InFlight,
         Analyzer!InFlight, AP!Current, Analyzer!Current
<1>3. AP!ImpactOfStock => Analyzer!ImpactOfStock
  BY DEF AP!ImpactOfStock, Analyzer!ImpactOfStock, AP!Loaded, Analyzer!Loaded
<1>4. AP!CompareDistinct => Analyzer!CompareDistinct
  BY DEF AP!CompareDistinct, Analyzer!CompareDistinct, AP!CompareColour,
         Analyzer!CompareColour
<1>5. AP!Spec => [](AP!ShownIsSelected /\ AP!SpinnerIffWaiting /\ AP!ImpactOfStock
                    /\ AP!CompareDistinct)
  BY AnalyzerSensible, AP!ShownFollows, AP!SpinnerTellsTruth, AP!ImpactFollows,
     AP!ComparedApart, PTL
<1>6. ChartInv => Charts!ChartNeverEmpty /\ Charts!SeriesSpanned
  BY ChartDrawn, SeriesSpannedOfAny DEF ChartInv
<1>7. /\ AP!ShownIsSelected /\ AP!SpinnerIffWaiting /\ AP!ImpactOfStock
      /\ AP!CompareDistinct /\ ChartInv
      => AnalyzerFollows
  BY <1>1, <1>2, <1>3, <1>4, <1>6 DEF AnalyzerFollows
<1> QED BY <1>5, <1>7, AnalyzerRuns, ChartInductive, PTL

----------------------------------------------------------------------------
\* The equity module.

LEMMA EquitySteps == [Next]_vars => [Equity!Next]_equityVars
BY DEF Next, vars, equityVars

Places == {"portfolio", "analyzer", "away", "zerodha"}
Panels == [csv : BOOLEAN, files : SUBSET Files, sync : Equity!Syncs, error : BOOLEAN,
           rows : SUBSET Portfolios]
Kites == [tried : BOOLEAN, sync : Equity!Syncs, error : BOOLEAN, posts : Nat]
Requests == [op : {"history", "parse", "login", "connect", "delete", "deleteHistory"},
             by : {"panel", "popover", "kite", "gone"}, of : Equity!Maybe,
             active : Equity!Maybe, done : BOOLEAN]
PanelShown == Equity!PanelOn(place, equitySessionId)

\* The popover awaits lists only and the login its connection; a deletion is of a
\* portfolio.
Sound(c) ==
    /\ c \in Requests
    /\ c.by = "popover" => c.op = "history"
    /\ c.by = "kite" => c.op = "connect"
    /\ c.op \in Equity!Deletes => c.of \in Portfolios

\* The panel is on screen while it awaits an answer or a timer of its own.
RequestsOK == \A c \in equityCalls : Sound(c) /\ (c.by = "panel" => PanelShown)
TimersOK == \A t \in parsed : t.late \/ PanelShown

PanelEnds ==
    /\ equityPanel.sync = "syncing"
         => \E c \in equityCalls : c.by = "panel" /\ c.op \in {"parse", "login"}
    /\ equityPanel.sync = "success" => \E t \in parsed : ~t.late
KiteEnds == kite.sync = "syncing" => \E c \in equityCalls : c.by = "kite"

\* A token that was posted was tried.
PostedOnce(k) == k.posts <= 1 /\ (k.posts = 1 => k.tried)

\* Of what is open, a deletion by the popover was clicked while it was open, and where
\* it is gone from the server an answer is still to come.
Heard ==
    ~crossed =>
        /\ \A c \in equityCalls :
             c.op = "deleteHistory" /\ c.of = equitySessionId => c.active = c.of
        /\ equitySessionId \notin portfolios \union {NoPortfolio}
             => \E c \in equityCalls : c.op \in Equity!Deletes /\ c.of = equitySessionId

EquityInv ==
    /\ Equity!EquityTypeOK /\ RequestsOK /\ TimersOK /\ PanelEnds /\ KiteEnds
    /\ PostedOnce(kite) /\ Heard

LEMMA EquityTypes ==
    Equity!EquityTypeOK <=>
      /\ portfolios \subseteq Portfolios
      /\ equitySessionId \in Portfolios \union {NoPortfolio}
      /\ place \in Places /\ equityPanel \in Panels
      /\ parsed \subseteq [of : Portfolios, late : BOOLEAN]
      /\ popover \in [open : BOOLEAN, rows : SUBSET Portfolios]
      /\ kite \in Kites
      /\ address \in [{"token", "ahead"} -> Equity!Tokens \union {"none"}]
      /\ stash \in BOOLEAN /\ issued \in BOOLEAN /\ jump \in BOOLEAN /\ crossed \in BOOLEAN
BY DEF Equity!EquityTypeOK, Equity!Maybe, Places, Panels, Kites, Equity!NoToken

LEMMA EquityTypesNext ==
    Equity!EquityTypeOK' <=>
      /\ portfolios' \subseteq Portfolios
      /\ equitySessionId' \in Portfolios \union {NoPortfolio}
      /\ place' \in Places /\ equityPanel' \in Panels
      /\ parsed' \subseteq [of : Portfolios, late : BOOLEAN]
      /\ popover' \in [open : BOOLEAN, rows : SUBSET Portfolios]
      /\ kite' \in Kites
      /\ address' \in [{"token", "ahead"} -> Equity!Tokens \union {"none"}]
      /\ stash' \in BOOLEAN /\ issued' \in BOOLEAN /\ jump' \in BOOLEAN /\ crossed' \in BOOLEAN
BY DEF Equity!EquityTypeOK, Equity!Maybe, Places, Panels, Kites, Equity!NoToken

LEMMA EquityStarts == Init => EquityInv
<1> SUFFICES ASSUME Init PROVE EquityInv
  OBVIOUS
<1>1. Equity!FreshKite \in Kites /\ PostedOnce(Equity!FreshKite)
  BY DEF Equity!FreshKite, Kites, Equity!Syncs, PostedOnce
<1>2. Equity!FreshPanel \in Panels
  BY DEF Equity!FreshPanel, Panels, Equity!Syncs
<1>3. address \in [{"token", "ahead"} -> Equity!Tokens \union {"none"}]
  BY DEF Init, Equity!Init, Equity!NoToken
<1>4. Equity!EquityTypeOK
  BY <1>1, <1>2, <1>3, EquityTypes
     DEF Init, Equity!Init, Places, Equity!Closed
<1> QED BY <1>1, <1>4
        DEF Init, Equity!Init, EquityInv, RequestsOK, TimersOK, PanelEnds, KiteEnds, Heard,
            Equity!FreshKite, Equity!FreshPanel

\* A request whose asker was unmounted.
LEMMA GoneRequest ==
    ASSUME NEW x, Sound(x)
    PROVE  LET y == [x EXCEPT !.by = "gone"]
           IN  Sound(y) /\ y.by = "gone" /\ y.op = x.op /\ y.of = x.of /\ y.active = x.active
BY DEF Sound, Requests

LEMMA NewRequest ==
    ASSUME equitySessionId \in Equity!Maybe, NEW op, NEW by, NEW of
    PROVE  LET y == Equity!Call(op, by, of)
           IN  /\ y.op = op /\ y.by = by /\ y.of = of /\ y.active = equitySessionId
               /\ (/\ op \in {"history", "parse", "login", "connect", "delete", "deleteHistory"}
                   /\ by \in {"panel", "popover", "kite", "gone"} /\ of \in Equity!Maybe
                   => y \in Requests)
BY DEF Equity!Call, Requests

\* What becomes of requests cs when p and s are shown.
LEMMA ShownRequests ==
    ASSUME equitySessionId \in Equity!Maybe,
           NEW p, NEW s, NEW pa, NEW cs, Equity!Show(p, s, pa, cs),
           \A c \in cs : Sound(c) /\ (c.by = "panel" => PanelShown)
    PROVE  /\ \A c \in equityCalls' :
                Sound(c) /\ (c.by = "panel" => Equity!PanelOn(p, s))
           /\ \A c \in equityCalls' : c.op = "deleteHistory" =>
                \E x \in cs : x.op = c.op /\ x.of = c.of /\ x.active = c.active
           /\ \A x \in cs : x.op # "history" =>
                \E c \in equityCalls' : /\ c.op = x.op /\ c.of = x.of
                                        /\ x.by # "panel" => c.by = x.by
<1> DEFINE new == Equity!Call("history", "panel", NoPortfolio)
<1>1. /\ new.op = "history" /\ new.by = "panel" /\ new \in Requests
  BY NewRequest DEF Equity!Maybe
<1>2. Sound(new)
  BY <1>1 DEF Sound, Equity!Deletes
<1> HIDE DEF new
<1>3. CASE Equity!PanelOn(p, s) = PanelShown
  BY <1>3 DEF Equity!Show, PanelShown
<1>4. CASE Equity!PanelOn(p, s) # PanelShown /\ Equity!PanelOn(p, s)
  <2>1. equityCalls' = cs \union {new}
    BY <1>4 DEF Equity!Show, PanelShown, new
  <2> QED BY <1>1, <1>2, <1>4, <2>1
<1>5. CASE Equity!PanelOn(p, s) # PanelShown /\ ~Equity!PanelOn(p, s)
  <2>1. equityCalls' = Equity!Abandoned(cs)
    BY <1>5 DEF Equity!Show, PanelShown
  <2>2. \A c \in equityCalls' :
          \E x \in cs : c = IF x.by = "panel" THEN [x EXCEPT !.by = "gone"] ELSE x
    BY <2>1 DEF Equity!Abandoned
  <2>3. \A x \in cs : x.op # "history" =>
          (IF x.by = "panel" THEN [x EXCEPT !.by = "gone"] ELSE x) \in equityCalls'
    BY <2>1 DEF Equity!Abandoned
  <2>4. \A x \in cs : LET y == IF x.by = "panel" THEN [x EXCEPT !.by = "gone"] ELSE x
                      IN  /\ Sound(y) /\ y.by # "panel" /\ y.op = x.op /\ y.of = x.of
                          /\ y.active = x.active /\ (x.by # "panel" => y.by = x.by)
    BY GoneRequest
  <2>5. \A c \in equityCalls' : Sound(c) /\ c.by # "panel"
    BY <2>2, <2>4
  <2>6. \A c \in equityCalls' : c.op = "deleteHistory" =>
          \E x \in cs : x.op = c.op /\ x.of = c.of /\ x.active = c.active
    BY <2>2, <2>4
  <2>7. \A x \in cs : x.op # "history" =>
          \E c \in equityCalls' : /\ c.op = x.op /\ c.of = x.of
                                  /\ x.by # "panel" => c.by = x.by
    BY <2>3, <2>4
  <2> QED BY <2>5, <2>6, <2>7
<1>6. Equity!PanelOn(p, s) \in BOOLEAN /\ PanelShown \in BOOLEAN
  BY DEF Equity!PanelOn, PanelShown
<1> QED BY <1>3, <1>4, <1>5, <1>6

\* A move that shows s at p, with requests cs and the panel pa, keeps the invariant.
LEMMA ShowKeeps ==
    ASSUME EquityInv, NEW p \in Places, NEW s \in Equity!Maybe, NEW pa \in Panels, NEW cs,
           Equity!Show(p, s, pa, cs),
           \A c \in cs : Sound(c) /\ (c.by = "panel" => PanelShown),
           pa.sync = equityPanel.sync,
           \A c \in equityCalls : c.by = "panel" /\ c.op \in {"parse", "login"} => c \in cs,
           parsed' \subseteq parsed,
           \A t \in parsed' : t.late \/ Equity!PanelOn(p, s),
           Equity!PanelOn(p, s) => parsed' = parsed,
           portfolios' \subseteq Portfolios,
           popover' \in [open : BOOLEAN, rows : SUBSET Portfolios],
           kite' \in Kites, PostedOnce(kite'),
           kite'.sync = "syncing" => \E c \in cs : c.by = "kite",
           address' \in [{"token", "ahead"} -> Equity!Tokens \union {"none"}],
           stash' \in BOOLEAN, issued' \in BOOLEAN, jump' \in BOOLEAN,
           crossed' \in BOOLEAN,
           ~crossed' => \A c \in cs : c.op = "deleteHistory" /\ c.of = s => c.active = c.of,
           ~crossed' /\ s \notin portfolios' \union {NoPortfolio}
             => \E c \in cs : c.op \in Equity!Deletes /\ c.of = s
    PROVE  EquityInv'
<1>1. place' = p /\ equitySessionId' = s
  BY DEF Equity!Show
<1>2. /\ \A c \in equityCalls' :
           Sound(c) /\ (c.by = "panel" => Equity!PanelOn(p, s))
      /\ \A c \in equityCalls' : c.op = "deleteHistory" =>
           \E x \in cs : x.op = c.op /\ x.of = c.of /\ x.active = c.active
      /\ \A x \in cs : x.op # "history" =>
           \E c \in equityCalls' : /\ c.op = x.op /\ c.of = x.of
                                   /\ x.by # "panel" => c.by = x.by
  BY ShownRequests, EquityTypes DEF EquityInv, Equity!Maybe
<1>3. PanelShown' = Equity!PanelOn(p, s)
  BY <1>1 DEF PanelShown, Equity!PanelOn
<1>4. \/ /\ Equity!PanelOn(p, s) = PanelShown
         /\ equityPanel' = pa /\ equityCalls' = cs
      \/ equityPanel' = Equity!FreshPanel
  BY DEF Equity!Show, PanelShown
<1>5. Equity!FreshPanel \in Panels /\ Equity!FreshPanel.sync = "idle"
  BY DEF Equity!FreshPanel, Panels, Equity!Syncs
<1>6. Equity!EquityTypeOK'
  <2>1. equityPanel' \in Panels
    BY <1>4, <1>5
  <2>2. parsed' \subseteq [of : Portfolios, late : BOOLEAN]
    BY EquityTypes DEF EquityInv
  <2>3. equitySessionId' \in Portfolios \union {NoPortfolio} /\ place' \in Places
    BY <1>1 DEF Equity!Maybe
  <2> QED BY <2>1, <2>2, <2>3, EquityTypesNext
<1>7. RequestsOK' /\ TimersOK'
  BY <1>2, <1>3 DEF RequestsOK, TimersOK
<1>8. PanelEnds'
  <2>1. CASE equityPanel' = Equity!FreshPanel
    BY <2>1, <1>5 DEF PanelEnds
  <2>2. CASE /\ Equity!PanelOn(p, s) = PanelShown
             /\ equityPanel' = pa /\ equityCalls' = cs
    <3>1. CASE pa.sync = "syncing"
      BY <2>2, <3>1 DEF PanelEnds, EquityInv
    <3>2. CASE pa.sync = "success"
      BY <2>2, <3>2 DEF PanelEnds, EquityInv, TimersOK
    <3> QED BY <2>2, <3>1, <3>2 DEF PanelEnds
  <2> QED BY <2>1, <2>2, <1>4
<1>9. KiteEnds'
  BY <1>2 DEF KiteEnds, Sound
<1>10. Heard'
  BY <1>1, <1>2 DEF Heard, Equity!Deletes
<1> QED BY <1>6, <1>7, <1>8, <1>9, <1>10 DEF EquityInv

\* A move that leaves what is open and where the user is.
LEMMA StayKeeps ==
    ASSUME EquityInv, UNCHANGED <<place, equitySessionId>>, equityPanel' \in Panels,
           parsed' \subseteq [of : Portfolios, late : BOOLEAN],
           \A t \in parsed' : t.late \/ PanelShown,
           \A c \in equityCalls' :
             \/ c \in equityCalls
             \/ /\ Sound(c) /\ (c.by = "panel" => PanelShown)
                /\ c.op = "deleteHistory" /\ c.of = equitySessionId
                     => crossed' \/ c.active = c.of,
           PanelEnds', KiteEnds', PostedOnce(kite'),
           portfolios' \subseteq Portfolios,
           popover' \in [open : BOOLEAN, rows : SUBSET Portfolios], kite' \in Kites,
           address' \in [{"token", "ahead"} -> Equity!Tokens \union {"none"}],
           stash' \in BOOLEAN, issued' \in BOOLEAN, jump' \in BOOLEAN,
           crossed' \in BOOLEAN, crossed => crossed',
           ~crossed' /\ equitySessionId \notin portfolios' \union {NoPortfolio}
             => \E c \in equityCalls' : c.op \in Equity!Deletes /\ c.of = equitySessionId
    PROVE  EquityInv'
<1>1. equitySessionId' \in Portfolios \union {NoPortfolio} /\ place' \in Places
  BY EquityTypes DEF EquityInv
<1>2. Equity!EquityTypeOK'
  BY <1>1, EquityTypesNext
<1>3. PanelShown' = PanelShown
  BY DEF PanelShown, Equity!PanelOn
<1>4. RequestsOK' /\ TimersOK'
  BY <1>3 DEF EquityInv, RequestsOK, TimersOK
<1>5. Heard'
  BY DEF EquityInv, Heard
<1> QED BY <1>2, <1>4, <1>5 DEF EquityInv

\* What the panel becomes.
LEMMA PanelForms ==
    ASSUME EquityInv
    PROVE  /\ \A y \in Equity!Syncs, e \in BOOLEAN :
                LET r == [equityPanel EXCEPT !.sync = y, !.error = e]
                IN  r \in Panels /\ r.sync = y
           /\ \A v \in SUBSET Portfolios :
                LET r == [equityPanel EXCEPT !.rows = v]
                IN  r \in Panels /\ r.sync = equityPanel.sync
           /\ LET r == [equityPanel EXCEPT !.csv = ~@]
              IN  r \in Panels /\ r.sync = equityPanel.sync
           /\ \A f \in SUBSET Files, e \in BOOLEAN :
                LET r == [equityPanel EXCEPT !.files = f, !.error = e]
                IN  r \in Panels /\ r.sync = equityPanel.sync
           /\ equityPanel.files \in SUBSET Files /\ equityPanel.rows \in SUBSET Portfolios
           /\ equityPanel.error \in BOOLEAN
<1>1. equityPanel \in Panels
  BY EquityTypes DEF EquityInv
<1> QED BY <1>1 DEF Panels

LEMMA SetPanelKeeps ==
    ASSUME EquityInv, NEW pa \in Panels, Equity!SetPanel(pa),
           \/ pa.sync = equityPanel.sync /\ equityCalls' = equityCalls
           \/ \E c \in Requests :
                /\ equityCalls' = equityCalls \union {c}
                /\ c.by = "panel" /\ PanelShown
                /\ \/ c.op \in {"parse", "login"} /\ pa.sync = "syncing"
                   \/ c.op = "delete" /\ c.of \in Portfolios /\ pa.sync = equityPanel.sync
    PROVE  EquityInv'
<1>1. /\ equityPanel' = pa
      /\ UNCHANGED <<portfolios, equitySessionId, place, parsed, popover, kite, address,
                     stash, issued, jump, opener, crossed>>
  BY DEF Equity!SetPanel, Equity!login
<1>2. equityCalls \subseteq equityCalls'
  OBVIOUS
<1>3. \A c \in equityCalls' :
             \/ c \in equityCalls
             \/ /\ Sound(c) /\ (c.by = "panel" => PanelShown)
                /\ c.op = "deleteHistory" /\ c.of = equitySessionId => c.active = c.of
  BY DEF Sound, Equity!Deletes
<1>4. PanelEnds' /\ KiteEnds'
  BY <1>1, <1>2 DEF EquityInv, PanelEnds, KiteEnds
<1>5. /\ portfolios' \subseteq Portfolios /\ kite' \in Kites
      /\ parsed' \subseteq [of : Portfolios, late : BOOLEAN]
      /\ popover' \in [open : BOOLEAN, rows : SUBSET Portfolios]
      /\ address' \in [{"token", "ahead"} -> Equity!Tokens \union {"none"}]
      /\ stash' \in BOOLEAN /\ issued' \in BOOLEAN /\ jump' \in BOOLEAN
      /\ crossed' \in BOOLEAN
  BY <1>1, EquityTypes DEF EquityInv
<1>6. ~crossed' /\ equitySessionId \notin portfolios' \union {NoPortfolio}
        => \E c \in equityCalls' : c.op \in Equity!Deletes /\ c.of = equitySessionId
  BY <1>1, <1>2 DEF EquityInv, Heard
<1>7. PostedOnce(kite') /\ \A t \in parsed' : t.late \/ PanelShown
  BY <1>1 DEF EquityInv, TimersOK
<1> QED BY <1>1, <1>3, <1>4, <1>5, <1>6, <1>7, StayKeeps

LEMMA PanelKeeps ==
    ASSUME EquityInv,
           \/ Equity!Prepare \/ Equity!HandleAnalyzeCSV \/ Equity!HandleKiteLogin
           \/ \E s \in Portfolios : Equity!HandleDeleteSession(s)
    PROVE  EquityInv'
<1>1. PanelShown
  BY DEF Equity!Prepare, Equity!HandleAnalyzeCSV, Equity!HandleKiteLogin,
         Equity!HandleDeleteSession, Equity!PanelUsable, PanelShown
<1>2. equitySessionId \in Equity!Maybe /\ equityPanel \in Panels
  BY EquityTypes DEF EquityInv, Equity!Maybe
<1>3. CASE Equity!Prepare
  <2>1. PICK pa \in Panels : /\ pa.sync = equityPanel.sync /\ Equity!SetPanel(pa)
                              /\ equityCalls' = equityCalls
    <3>1. CASE Equity!SetPanel([equityPanel EXCEPT !.csv = ~@])
      BY <1>3, <3>1, PanelForms DEF Equity!Prepare
    <3>2. ASSUME NEW f \in Files,
                 Equity!SetPanel([equityPanel EXCEPT !.files = @ \union {f}, !.error = FALSE])
          PROVE  \E pa \in Panels : /\ pa.sync = equityPanel.sync /\ Equity!SetPanel(pa)
                                    /\ equityCalls' = equityCalls
      <4>1. equityPanel.files \union {f} \in SUBSET Files
        BY PanelForms
      <4> QED BY <1>3, <3>2, <4>1, PanelForms DEF Equity!Prepare
    <3>3. ASSUME NEW f \in equityPanel.files,
                 Equity!SetPanel([equityPanel EXCEPT !.files = @ \ {f}])
          PROVE  \E pa \in Panels : /\ pa.sync = equityPanel.sync /\ Equity!SetPanel(pa)
                                    /\ equityCalls' = equityCalls
      <4> DEFINE r == [equityPanel EXCEPT !.files = @ \ {f}]
      <4>1. r \in Panels /\ r.sync = equityPanel.sync
        BY <1>2 DEF Panels
      <4> HIDE DEF r
      <4>2. Equity!SetPanel(r) /\ equityCalls' = equityCalls
        BY <1>3, <3>3 DEF r, Equity!Prepare
      <4> QED BY <4>1, <4>2
    <3>4. CASE Equity!SetPanel([equityPanel EXCEPT !.error = TRUE])
      <4> DEFINE r == [equityPanel EXCEPT !.error = TRUE]
      <4>1. r \in Panels /\ r.sync = equityPanel.sync
        BY <1>2 DEF Panels
      <4> HIDE DEF r
      <4>2. Equity!SetPanel(r) /\ equityCalls' = equityCalls
        BY <1>3, <3>4 DEF r, Equity!Prepare
      <4> QED BY <4>1, <4>2
    <3> QED BY <1>3, <3>1, <3>2, <3>3, <3>4 DEF Equity!Prepare
  <2> QED BY <2>1, SetPanelKeeps
<1>4. ASSUME NEW op \in {"parse", "login"},
             Equity!Send(Equity!Call(op, "panel", NoPortfolio), Equity!Syncing)
      PROVE  EquityInv'
  <2> DEFINE c == Equity!Call(op, "panel", NoPortfolio)
             r == [equityPanel EXCEPT !.sync = "syncing", !.error = FALSE]
  <2>1. r \in Panels /\ r.sync = "syncing"
    BY PanelForms DEF Equity!Syncs
  <2>2. c \in Requests /\ c.by = "panel" /\ c.op = op
    BY <1>2, NewRequest DEF Equity!Maybe
  <2>3. equityCalls' = equityCalls \union {c} /\ Equity!SetPanel(r)
    BY <1>4 DEF Equity!Send, Equity!Syncing
  <2> HIDE DEF c, r
  <2> QED BY <1>1, <2>1, <2>2, <2>3, SetPanelKeeps
<1>5. ASSUME NEW s \in Portfolios, Equity!HandleDeleteSession(s) PROVE EquityInv'
  <2> DEFINE c == Equity!Call("delete", "panel", s)
  <2>2. c \in Requests /\ c.by = "panel" /\ c.op = "delete" /\ c.of = s
    BY <1>2, NewRequest DEF Equity!Maybe
  <2>3. equityCalls' = equityCalls \union {c} /\ Equity!SetPanel(equityPanel)
    BY <1>5 DEF Equity!Send, Equity!HandleDeleteSession
  <2> HIDE DEF c
  <2> QED BY <1>1, <1>2, <2>2, <2>3, SetPanelKeeps
<1> QED BY <1>3, <1>4, <1>5 DEF Equity!HandleAnalyzeCSV, Equity!HandleKiteLogin

\* The types in which a move may leave things alone.
LEMMA EquityAlone ==
    ASSUME EquityInv
    PROVE  /\ portfolios \subseteq Portfolios /\ kite \in Kites /\ PostedOnce(kite)
           /\ equitySessionId \in Portfolios \union {NoPortfolio} /\ place \in Places
           /\ equityPanel \in Panels
           /\ parsed \subseteq [of : Portfolios, late : BOOLEAN]
           /\ \A t \in parsed : t.late \/ PanelShown
           /\ popover \in [open : BOOLEAN, rows : SUBSET Portfolios]
           /\ address \in [{"token", "ahead"} -> Equity!Tokens \union {"none"}]
           /\ stash \in BOOLEAN /\ issued \in BOOLEAN /\ jump \in BOOLEAN
           /\ crossed \in BOOLEAN
BY EquityTypes DEF EquityInv, TimersOK

\* Requests that only the panel's own answer ends.
LEMMA EndsKept ==
    ASSUME EquityInv, UNCHANGED <<parsed, kite>>, equityPanel'.sync = equityPanel.sync,
           \A c \in equityCalls :
             c.op \in {"parse", "login"} \/ c.by = "kite" => c \in equityCalls'
    PROVE  PanelEnds' /\ KiteEnds'
BY DEF EquityInv, PanelEnds, KiteEnds

LEMMA PopoverStays ==
    ASSUME EquityInv,
           \/ Equity!OpenPopover
           \/ \E s \in Portfolios : Equity!HandleDelete(s)
    PROVE  EquityInv'
<1>1. equitySessionId \in Equity!Maybe /\ popover \in [open : BOOLEAN, rows : SUBSET Portfolios]
  BY EquityAlone DEF Equity!Maybe
<1>2. PICK c \in Requests :
        /\ equityCalls' = equityCalls \union {c}
        /\ \/ c.op = "history" /\ c.by = "popover"
           \/ /\ c.op = "deleteHistory" /\ c.by = "gone" /\ c.of \in Portfolios
              /\ c.active = equitySessionId
  <2>1. CASE Equity!OpenPopover
    <3> DEFINE c == Equity!Call("history", "popover", NoPortfolio)
    <3>1. c \in Requests /\ c.op = "history" /\ c.by = "popover"
      BY <1>1, NewRequest DEF Equity!Maybe
    <3>2. equityCalls' = equityCalls \union {c}
      BY <2>1 DEF Equity!OpenPopover
    <3> HIDE DEF c
    <3> QED BY <3>1, <3>2
  <2>2. ASSUME NEW s \in Portfolios, Equity!HandleDelete(s)
        PROVE  \E c \in Requests :
                 /\ equityCalls' = equityCalls \union {c}
                 /\ c.op = "deleteHistory" /\ c.by = "gone" /\ c.of \in Portfolios
                 /\ c.active = equitySessionId
    <3> DEFINE c == Equity!Call("deleteHistory", "gone", s)
    <3>1. /\ c \in Requests /\ c.op = "deleteHistory" /\ c.by = "gone" /\ c.of = s
          /\ c.active = equitySessionId
      BY <1>1, NewRequest DEF Equity!Maybe
    <3>2. equityCalls' = equityCalls \union {c}
      BY <2>2 DEF Equity!HandleDelete
    <3> HIDE DEF c
    <3> QED BY <3>1, <3>2
  <2> QED BY <2>1, <2>2
<1>3. /\ UNCHANGED <<place, equitySessionId, portfolios, equityPanel, parsed, kite, address,
                     stash, issued, jump, crossed>>
      /\ popover' \in [open : BOOLEAN, rows : SUBSET Portfolios]
  BY <1>1 DEF Equity!OpenPopover, Equity!HandleDelete, Equity!login
<1>4. \A x \in equityCalls' :
        \/ x \in equityCalls
        \/ /\ Sound(x) /\ (x.by = "panel" => PanelShown)
           /\ x.op = "deleteHistory" /\ x.of = equitySessionId => x.active = x.of
  BY <1>2 DEF Sound, Equity!Deletes
<1>5. PanelEnds' /\ KiteEnds'
  BY <1>2, <1>3, EndsKept
<1>6. ~crossed' /\ equitySessionId \notin portfolios' \union {NoPortfolio}
        => \E x \in equityCalls' : x.op \in Equity!Deletes /\ x.of = equitySessionId
  BY <1>2, <1>3 DEF EquityInv, Heard
<1> QED BY <1>3, <1>4, <1>5, <1>6, EquityAlone, StayKeeps

LEMMA AnswersStay ==
    ASSUME EquityInv, NEW d \in equityCalls,
           \/ Equity!ServeDelete(d) \/ Equity!Fail(d) \/ Equity!ReceiveHistory(d)
    PROVE  EquityInv'
<1>1. Sound(d) /\ (d.by = "panel" => PanelShown)
  BY DEF EquityInv, RequestsOK
<1>2. CASE Equity!ServeDelete(d)
  <2> DEFINE y == [d EXCEPT !.done = TRUE]
  <2>1. /\ d.op \in Equity!Deletes /\ portfolios' = portfolios \ {d.of}
        /\ equityCalls' = (equityCalls \ {d}) \union {y}
        /\ UNCHANGED <<place, equitySessionId, equityPanel, parsed, popover, kite, address,
                       stash, issued, jump, crossed>>
    BY <1>2 DEF Equity!ServeDelete, Equity!login
  <2>2. /\ y \in Requests /\ y.op = d.op /\ y.by = d.by /\ y.of = d.of
        /\ y.active = d.active
    BY <1>1 DEF Sound, Requests
  <2> HIDE DEF y
  <2>3. Sound(y) /\ (y.by = "panel" => PanelShown)
    BY <1>1, <2>2 DEF Sound
  <2>4. \A x \in equityCalls' :
          \/ x \in equityCalls
          \/ /\ Sound(x) /\ (x.by = "panel" => PanelShown)
             /\ x.op = "deleteHistory" /\ x.of = equitySessionId => crossed' \/ x.active = x.of
    BY <2>1, <2>2, <2>3 DEF EquityInv, Heard
  <2>5. PanelEnds' /\ KiteEnds'
    BY <2>1, <1>1, EndsKept DEF Sound, Equity!Deletes
  <2>6. ~crossed' /\ equitySessionId \notin portfolios' \union {NoPortfolio}
          => \E x \in equityCalls' : x.op \in Equity!Deletes /\ x.of = equitySessionId
    <3>1. CASE d.of = equitySessionId
      BY <2>1, <2>2, <3>1
    <3>2. CASE d.of # equitySessionId
      BY <2>1, <3>2 DEF EquityInv, Heard
    <3> QED BY <3>1, <3>2
  <2>7. portfolios' \subseteq Portfolios
    BY <2>1, EquityAlone
  <2> QED BY <2>1, <2>4, <2>5, <2>6, <2>7, EquityAlone, StayKeeps
<1>3. CASE Equity!Fail(d)
  <2>1. /\ equityCalls' = equityCalls \ {d} /\ d.op \in {"delete", "deleteHistory", "history"}
        /\ crossed' = (crossed \/ (d.op \in Equity!Deletes /\ d.of = equitySessionId
                                                        /\ d.of \notin portfolios))
        /\ UNCHANGED <<place, equitySessionId, portfolios, equityPanel, parsed, popover, kite,
                       address, stash, issued, jump>>
    BY <1>3 DEF Equity!Fail, Equity!login, Equity!Deletes
  <2>2. PanelEnds' /\ KiteEnds'
    BY <2>1, <1>1, EndsKept DEF Sound
  <2>3. ~crossed' /\ equitySessionId \notin portfolios' \union {NoPortfolio}
          => \E x \in equityCalls' : x.op \in Equity!Deletes /\ x.of = equitySessionId
    BY <2>1 DEF EquityInv, Heard
  <2>4. crossed' \in BOOLEAN /\ (crossed => crossed')
    BY <2>1
  <2> QED BY <2>1, <2>2, <2>3, <2>4, EquityAlone, StayKeeps
<1>4. CASE Equity!ReceiveHistory(d)
  <2>1. /\ equityCalls' = equityCalls \ {d} /\ d.op = "history"
        /\ UNCHANGED <<place, equitySessionId, portfolios, parsed, kite, address, stash, issued,
                       jump, crossed>>
    BY <1>4 DEF Equity!ReceiveHistory, Equity!login
  <2>2. equityPanel' \in Panels /\ equityPanel'.sync = equityPanel.sync
    <3> DEFINE r == [equityPanel EXCEPT !.rows = portfolios]
    <3>1. r \in Panels /\ r.sync = equityPanel.sync
      BY EquityAlone DEF Panels
    <3>2. equityPanel' \in {r, equityPanel}
      BY <1>4 DEF Equity!ReceiveHistory
    <3> HIDE DEF r
    <3> QED BY <3>1, <3>2, EquityAlone
  <2>3. popover' \in [open : BOOLEAN, rows : SUBSET Portfolios]
    BY <1>4, EquityAlone DEF Equity!ReceiveHistory
  <2>4. PanelEnds' /\ KiteEnds'
    BY <2>1, <2>2, <1>1, EndsKept DEF Sound
  <2>5. ~crossed' /\ equitySessionId \notin portfolios' \union {NoPortfolio}
          => \E x \in equityCalls' : x.op \in Equity!Deletes /\ x.of = equitySessionId
    BY <2>1 DEF EquityInv, Heard, Equity!Deletes
  <2> QED BY <2>1, <2>2, <2>3, <2>4, <2>5, EquityAlone, StayKeeps
<1> QED BY <1>2, <1>3, <1>4

LEMMA ParseKeeps ==
    ASSUME EquityInv, NEW d \in equityCalls, Equity!ReceiveParse(d)
    PROVE  EquityInv'
<1>1. Sound(d) /\ (d.by = "panel" => PanelShown) /\ d.op = "parse"
  BY DEF EquityInv, RequestsOK, Equity!ReceiveParse
<1>2. /\ equityCalls' = equityCalls \ {d}
      /\ UNCHANGED <<place, equitySessionId, popover, kite, address, stash, issued, jump,
                     crossed>>
  BY DEF Equity!ReceiveParse, Equity!login
<1>3. KiteEnds' /\ (d.by # "panel" /\ parsed \subseteq parsed' /\ equityPanel' = equityPanel
                     => PanelEnds')
  BY <1>1, <1>2 DEF EquityInv, KiteEnds, PanelEnds, Sound
<1>4. ~crossed' /\ portfolios \subseteq portfolios'
        /\ equitySessionId \notin portfolios' \union {NoPortfolio}
          => \E x \in equityCalls' : x.op \in Equity!Deletes /\ x.of = equitySessionId
  BY <1>1, <1>2 DEF EquityInv, Heard, Equity!Deletes
<1>5. \A y \in {"success", "idle"}, e \in BOOLEAN :
        LET r == [equityPanel EXCEPT !.sync = y, !.error = e] IN r \in Panels /\ r.sync = y
  BY PanelForms DEF Equity!Syncs
<1>6. ASSUME NEW s \in Portfolios, portfolios' = portfolios \union {s},
             parsed' = parsed \union {[of |-> s, late |-> d.by # "panel"]},
             equityPanel' = IF d.by = "panel" THEN [equityPanel EXCEPT !.sync = "success"]
                            ELSE equityPanel
      PROVE  EquityInv'
  <2> DEFINE t == [of |-> s, late |-> d.by # "panel"]
  <2>1. t \in [of : Portfolios, late : BOOLEAN] /\ t.late = (d.by # "panel")
    OBVIOUS
  <2>2. parsed' = parsed \union {t}
    BY <1>6
  <2> HIDE DEF t
  <2>3. /\ parsed' \subseteq [of : Portfolios, late : BOOLEAN]
        /\ \A x \in parsed' : x.late \/ PanelShown
    BY <1>1, <2>1, <2>2, EquityAlone
  <2>4. equityPanel' \in Panels
    BY <1>6, EquityAlone DEF Panels, Equity!Syncs
  <2>5. PanelEnds'
    <3>1. CASE d.by = "panel"
      <4>1. equityPanel'.sync = "success"
        BY <1>6, <3>1, EquityAlone DEF Panels
      <4> QED BY <3>1, <4>1, <2>1, <2>2 DEF PanelEnds
    <3>2. CASE d.by # "panel"
      BY <1>3, <1>6, <2>2, <3>2
    <3> QED BY <3>1, <3>2
  <2>6. portfolios' \subseteq Portfolios
    BY <1>6, EquityAlone
  <2> QED BY <1>2, <1>3, <1>4, <1>6, <2>3, <2>4, <2>5, <2>6, EquityAlone, StayKeeps
<1>7. ASSUME UNCHANGED <<portfolios, parsed>>,
             equityPanel' = IF d.by = "panel"
                            THEN [equityPanel EXCEPT !.sync = "idle", !.error = TRUE]
                            ELSE equityPanel
      PROVE  EquityInv'
  <2>1. equityPanel' \in Panels
    BY <1>7, EquityAlone, <1>5
  <2>2. PanelEnds'
    <3>1. CASE d.by = "panel"
      <4>1. equityPanel'.sync = "idle"
        BY <1>7, <3>1, <1>5
      <4> QED BY <4>1 DEF PanelEnds
    <3>2. CASE d.by # "panel"
      BY <1>3, <1>7, <3>2
    <3> QED BY <3>1, <3>2
  <2> QED BY <1>2, <1>3, <1>4, <1>7, <2>1, <2>2, EquityAlone, StayKeeps
<1> QED BY <1>6, <1>7 DEF Equity!ReceiveParse

LEMMA StillKeeps ==
    ASSUME EquityInv,
           UNCHANGED <<portfolios, equitySessionId, place, equityPanel, parsed, popover, stash,
                       issued, equityCalls, crossed>>,
           kite' \in Kites, PostedOnce(kite'), kite'.sync = kite.sync, jump' \in BOOLEAN,
           address' \in [{"token", "ahead"} -> Equity!Tokens \union {"none"}]
    PROVE  EquityInv'
<1>1. PanelEnds' /\ KiteEnds'
  BY DEF EquityInv, PanelEnds, KiteEnds
<1>2. ~crossed' /\ equitySessionId \notin portfolios' \union {NoPortfolio}
        => \E x \in equityCalls' : x.op \in Equity!Deletes /\ x.of = equitySessionId
  BY DEF EquityInv, Heard
<1> QED BY <1>1, <1>2, EquityAlone, StayKeeps

LEMMA KeptTimers ==
    ASSUME EquityInv, NEW p, NEW s, parsed' = Equity!KeptOn(p, s)
    PROVE  /\ parsed' \subseteq parsed
           /\ \A t \in parsed' : t.late \/ Equity!PanelOn(p, s)
           /\ Equity!PanelOn(p, s) => parsed' = parsed
BY EquityAlone DEF Equity!KeptOn

\* What is opened while nothing is crossed is on the server, or the panel's deletion of
\* it is under way.
LEMMA OpenedSound ==
    ASSUME EquityInv, NEW s \in Equity!Maybe, NEW by, Equity!Open(s, by)
    PROVE  /\ crossed' \in BOOLEAN
           /\ ~crossed' => /\ \A c \in equityCalls : ~(c.op = "deleteHistory" /\ c.of = s)
                           /\ s \notin portfolios \union {NoPortfolio}
                                => \E c \in equityCalls : c.op = "delete" /\ c.of = s
BY EquityAlone DEF Equity!Open, Equity!Doomed, Equity!BeingDeleted

\* A move that shows s at p and ends lists and deletions at most.
LEMMA ShowSimply ==
    ASSUME EquityInv, NEW p \in Places, NEW s \in Equity!Maybe, NEW pa \in Panels,
           NEW ended \in SUBSET equityCalls, NEW cs \in SUBSET equityCalls, Equity!Show(p, s, pa, cs),
           pa.sync = equityPanel.sync,
           \A c \in ended : c.op \in {"delete", "deleteHistory"},
           \A c \in equityCalls \ ended : c.op # "history" => c \in cs,
           parsed' \subseteq parsed,
           \A t \in parsed' : t.late \/ Equity!PanelOn(p, s),
           Equity!PanelOn(p, s) => parsed' = parsed,
           popover' \in [open : BOOLEAN, rows : SUBSET Portfolios],
           kite' \in Kites, PostedOnce(kite'), kite'.sync = "syncing" => kite.sync = "syncing",
           address' \in [{"token", "ahead"} -> Equity!Tokens \union {"none"}],
           UNCHANGED <<portfolios, stash, issued, jump>>,
           crossed' \in BOOLEAN,
           ~crossed' => \A c \in cs : c.op = "deleteHistory" /\ c.of = s => c.active = c.of,
           ~crossed' /\ s \notin portfolios \union {NoPortfolio}
             => \E c \in cs : c.op \in Equity!Deletes /\ c.of = s
    PROVE  EquityInv'
<1>1. \A c \in equityCalls : Sound(c) /\ (c.by = "panel" => PanelShown)
  BY DEF EquityInv, RequestsOK
<1>2. \A c \in cs : Sound(c) /\ (c.by = "panel" => PanelShown)
  BY <1>1
<1>3. \A c \in equityCalls : c.by = "panel" /\ c.op \in {"parse", "login"} => c \in cs
  OBVIOUS
<1>4. kite'.sync = "syncing" => \E c \in cs : c.by = "kite"
  BY <1>1 DEF EquityInv, KiteEnds, Sound
<1>5. ~crossed' /\ s \notin portfolios' \union {NoPortfolio}
             => \E c \in cs : c.op \in Equity!Deletes /\ c.of = s
  OBVIOUS
<1> QED BY <1>2, <1>3, <1>4, <1>5, EquityAlone, ShowKeeps

LEMMA OpeningKeeps ==
    ASSUME EquityInv, NEW s \in Equity!Maybe, NEW by, NEW cs \in SUBSET equityCalls,
           Equity!Open(s, by), Equity!Show(place, s, equityPanel, cs),
           \A c \in equityCalls : c.op # "history" => c \in cs,
           parsed' \subseteq parsed,
           \A t \in parsed' : t.late \/ Equity!PanelOn(place, s),
           Equity!PanelOn(place, s) => parsed' = parsed,
           popover' \in [open : BOOLEAN, rows : SUBSET Portfolios],
           UNCHANGED <<portfolios, kite, address, stash, issued, jump>>
    PROVE  EquityInv'
<1>0. /\ crossed' \in BOOLEAN
      /\ ~crossed' => /\ \A c \in equityCalls : ~(c.op = "deleteHistory" /\ c.of = s)
                      /\ s \notin portfolios \union {NoPortfolio}
                           => \E c \in equityCalls : c.op = "delete" /\ c.of = s
  BY OpenedSound
<1>1. ~crossed' => \A c \in cs : c.op = "deleteHistory" /\ c.of = s => c.active = c.of
  BY <1>0
<1>2. ~crossed' /\ s \notin portfolios \union {NoPortfolio}
        => \E c \in cs : c.op \in Equity!Deletes /\ c.of = s
  BY <1>0 DEF Equity!Deletes
<1>3. crossed' \in BOOLEAN
  BY <1>0
<1>4. /\ {} \in SUBSET equityCalls
      /\ \A c \in {} : c.op \in {"delete", "deleteHistory"}
      /\ \A c \in equityCalls \ {} : c.op # "history" => c \in cs
  OBVIOUS
<1>5. kite' = kite /\ address' = address /\ equityPanel \in Panels
  BY EquityAlone
<1> QED BY ZenonT(40), <1>1, <1>2, <1>3, <1>4, <1>5, EquityAlone, ShowSimply

LEMMA OpenersKeep ==
    ASSUME EquityInv,
           \/ \E t \in parsed : Equity!OpenParsed(t)
           \/ \E s \in Portfolios : Equity!SelectPrevious(s) \/ Equity!HandleSelect(s)
           \/ Equity!ConnectNew
    PROVE  EquityInv'
<1>1. ASSUME NEW t \in parsed, Equity!OpenParsed(t) PROVE EquityInv'
  <2>1. /\ Equity!Open(t.of, "upload") /\ Equity!Show(place, t.of, equityPanel, equityCalls)
        /\ parsed' = {x \in parsed \ {t} : x.late}
        /\ UNCHANGED <<portfolios, popover, kite, address, stash, issued, jump>>
    BY <1>1 DEF Equity!OpenParsed, Equity!login
  <2>2. t.of \in Equity!Maybe /\ t.of # NoPortfolio
    BY EquityAlone, PagesAssumption DEF Equity!Maybe
  <2>3. ~Equity!PanelOn(place, t.of)
    BY <2>2 DEF Equity!PanelOn
  <2>4. parsed' \subseteq parsed /\ \A x \in parsed' : x.late
    BY <2>1
  <2> QED BY <2>1, <2>2, <2>3, <2>4, EquityAlone, OpeningKeeps
<1>2. ASSUME NEW s \in Portfolios, Equity!SelectPrevious(s) PROVE EquityInv'
  <2>1. /\ Equity!Open(s, "user") /\ Equity!Show(place, s, equityPanel, equityCalls)
        /\ parsed' = Equity!KeptOn(place, s)
        /\ UNCHANGED <<portfolios, popover, kite, address, stash, issued, jump>>
    BY <1>2 DEF Equity!SelectPrevious, Equity!login
  <2> QED BY <2>1, KeptTimers, EquityAlone, OpeningKeeps DEF Equity!Maybe
<1>3. ASSUME NEW s \in Equity!Maybe, Equity!Open(s, "user"), Equity!CloseOn(s)
      PROVE  EquityInv'
  <2> DEFINE cs == {c \in equityCalls : c.by # "popover"}
  <2>1. /\ Equity!Show(place, s, equityPanel, cs) /\ parsed' = Equity!KeptOn(place, s)
        /\ popover' = [popover EXCEPT !.open = FALSE]
        /\ UNCHANGED <<portfolios, kite, address, stash, issued, jump>>
    BY <1>3 DEF Equity!CloseOn, Equity!login
  <2>2. popover' \in [open : BOOLEAN, rows : SUBSET Portfolios]
    BY <2>1, EquityAlone
  <2>3. cs \in SUBSET equityCalls /\ \A c \in equityCalls : c.op # "history" => c \in cs
    BY DEF EquityInv, RequestsOK, Sound
  <2> HIDE DEF cs
  <2> QED BY <1>3, <2>1, <2>2, <2>3, KeptTimers, OpeningKeeps
<1> QED BY <1>1, <1>2, <1>3 DEF Equity!HandleSelect, Equity!ConnectNew, Equity!Maybe

LEMMA ClosePopoverKeeps == ASSUME EquityInv, Equity!ClosePopover PROVE EquityInv'
<1> DEFINE cs == {c \in equityCalls : c.by # "popover"}
<1>1. /\ Equity!Show(place, equitySessionId, equityPanel, cs)
      /\ parsed' = Equity!KeptOn(place, equitySessionId)
      /\ popover' = [popover EXCEPT !.open = FALSE]
      /\ UNCHANGED <<portfolios, kite, address, stash, issued, jump, crossed>>
  BY DEF Equity!ClosePopover, Equity!CloseOn, Equity!login
<1>2. popover' \in [open : BOOLEAN, rows : SUBSET Portfolios]
  BY <1>1, EquityAlone
<1>3. cs \in SUBSET equityCalls /\ \A c \in equityCalls : c.op # "history" => c \in cs
  BY DEF EquityInv, RequestsOK, Sound
<1> HIDE DEF cs
<1>4. /\ ~crossed' => \A c \in cs : c.op = "deleteHistory" /\ c.of = equitySessionId
                                     => c.active = c.of
      /\ ~crossed' /\ equitySessionId \notin portfolios \union {NoPortfolio}
           => \E c \in cs : c.op \in Equity!Deletes /\ c.of = equitySessionId
  BY <1>1, <1>3 DEF EquityInv, Heard, Equity!Deletes
<1>5. /\ {} \in SUBSET equityCalls
      /\ \A c \in {} : c.op \in {"delete", "deleteHistory"}
      /\ \A c \in equityCalls \ {} : c.op # "history" => c \in cs
  BY <1>3
<1>6. /\ equitySessionId \in Equity!Maybe /\ kite' = kite /\ address' = address
      /\ crossed' \in BOOLEAN
  BY <1>1, EquityAlone DEF Equity!Maybe
<1>7. /\ parsed' \subseteq parsed
      /\ \A t \in parsed' : t.late \/ Equity!PanelOn(place, equitySessionId)
      /\ Equity!PanelOn(place, equitySessionId) => parsed' = parsed
  BY <1>1, KeptTimers
<1>8. cs \in SUBSET equityCalls /\ UNCHANGED <<portfolios, stash, issued, jump>>
  BY <1>1, <1>3
<1> QED BY ZenonT(40), <1>1, <1>2, <1>4, <1>5, <1>6, <1>7, <1>8, EquityAlone, ShowSimply

LEMMA DeletionKeeps ==
    ASSUME EquityInv, NEW d \in equityCalls, Equity!ReceiveDelete(d)
    PROVE  EquityInv'
<1> DEFINE s == IF Equity!Closes(d) THEN NoPortfolio ELSE equitySessionId
           pa == IF d.by = "panel" THEN [equityPanel EXCEPT !.rows = @ \ {d.of}]
                 ELSE equityPanel
<1>1. /\ d.op \in {"delete", "deleteHistory"}
      /\ Equity!Show(place, s, pa, equityCalls \ {d}) /\ parsed' = Equity!KeptOn(place, s)
      /\ UNCHANGED <<portfolios, popover, kite, address, stash, issued, jump, crossed>>
  BY DEF Equity!ReceiveDelete, Equity!login, Equity!Deletes
<1>2. Sound(d) /\ (d.by = "panel" => PanelShown)
  BY DEF EquityInv, RequestsOK
<1>3. pa \in Panels /\ pa.sync = equityPanel.sync
  <2>1. equityPanel.rows \ {d.of} \in SUBSET Portfolios
    BY PanelForms
  <2> QED BY <2>1, PanelForms, EquityAlone
<1>4. ~crossed' => \A c \in equityCalls \ {d} :
                     c.op = "deleteHistory" /\ c.of = s => c.active = c.of
  <2> SUFFICES ASSUME ~crossed', NEW c \in equityCalls, c.op = "deleteHistory", c.of = s
               PROVE  c.active = c.of
    OBVIOUS
  <2>1. c.of # NoPortfolio
    BY PagesAssumption DEF EquityInv, RequestsOK, Sound, Equity!Deletes
  <2> QED BY <1>1, <2>1 DEF EquityInv, Heard
<1>5. ~crossed' /\ s \notin portfolios \union {NoPortfolio}
        => \E c \in equityCalls \ {d} : c.op \in Equity!Deletes /\ c.of = s
  <2> SUFFICES ASSUME ~crossed', s \notin portfolios \union {NoPortfolio}
               PROVE  \E c \in equityCalls \ {d} : c.op \in Equity!Deletes /\ c.of = s
    OBVIOUS
  <2>1. s = equitySessionId /\ ~Equity!Closes(d)
    OBVIOUS
  <2>2. PICK c \in equityCalls : c.op \in Equity!Deletes /\ c.of = equitySessionId
    BY <1>1, <2>1 DEF EquityInv, Heard
  <2>3. d.of # equitySessionId
    BY <1>1, <2>1 DEF EquityInv, Heard, Equity!Closes
  <2> QED BY <2>1, <2>2, <2>3
<1>6. s \in Equity!Maybe
  BY EquityAlone DEF Equity!Maybe
<1> HIDE DEF s, pa
<1>7. /\ parsed' \subseteq parsed
      /\ \A t \in parsed' : t.late \/ Equity!PanelOn(place, s)
      /\ Equity!PanelOn(place, s) => parsed' = parsed
  BY <1>1, KeptTimers
<1>8. /\ {d} \in SUBSET equityCalls /\ equityCalls \ {d} \in SUBSET equityCalls
      /\ \A c \in {d} : c.op \in {"delete", "deleteHistory"}
      /\ \A c \in equityCalls \ {d} : c.op # "history" => c \in equityCalls \ {d}
  BY <1>1
<1>9. /\ UNCHANGED <<portfolios, stash, issued, jump>>
      /\ kite' = kite /\ address' = address /\ popover' = popover /\ crossed' = crossed
  BY <1>1
<1> QED BY <1>1, <1>3, <1>4, <1>5, <1>6, <1>7, <1>8, <1>9, EquityAlone, ShowSimply

LEMMA FinishKeeps == ASSUME EquityInv, Equity!FinishLogin PROVE EquityInv'
<1>1. /\ kite' = [kite EXCEPT !.sync = "idle"] /\ address' = [address EXCEPT !.token = "none"]
      /\ Equity!Show("portfolio", equitySessionId, equityPanel, equityCalls)
      /\ parsed' = Equity!KeptOn("portfolio", equitySessionId)
      /\ UNCHANGED <<portfolios, stash, issued, jump>>
      /\ popover' = popover /\ crossed' = crossed
  BY DEF Equity!FinishLogin, Equity!NoToken
<1>2. kite' \in Kites /\ PostedOnce(kite') /\ kite'.sync = "idle"
  BY <1>1, EquityAlone DEF Kites, PostedOnce, Equity!Syncs
<1>3. address' \in [{"token", "ahead"} -> Equity!Tokens \union {"none"}]
  BY <1>1, EquityAlone
<1>4. "portfolio" \in Places /\ equitySessionId \in Equity!Maybe
  BY EquityAlone DEF Places, Equity!Maybe
<1>5. /\ parsed' \subseteq parsed
      /\ \A t \in parsed' : t.late \/ Equity!PanelOn("portfolio", equitySessionId)
      /\ Equity!PanelOn("portfolio", equitySessionId) => parsed' = parsed
  BY <1>1, KeptTimers
<1>6. /\ ~crossed' => \A c \in equityCalls :
                         c.op = "deleteHistory" /\ c.of = equitySessionId => c.active = c.of
      /\ ~crossed' /\ equitySessionId \notin portfolios \union {NoPortfolio}
           => \E c \in equityCalls : c.op \in Equity!Deletes /\ c.of = equitySessionId
  BY <1>1 DEF EquityInv, Heard
<1>7. /\ {} \in SUBSET equityCalls /\ equityCalls \in SUBSET equityCalls
      /\ \A c \in {} : c.op \in {"delete", "deleteHistory"}
      /\ \A c \in equityCalls \ {} : c.op # "history" => c \in equityCalls
  OBVIOUS
<1> QED BY <1>1, <1>2, <1>3, <1>4, <1>5, <1>6, <1>7, EquityAlone, ShowSimply

LEMMA LeaveKeeps ==
    ASSUME EquityInv, NEW d \in equityCalls, Equity!ReceiveLogin(d)
    PROVE  EquityInv'
<1>1. Sound(d) /\ (d.by = "panel" => PanelShown) /\ d.op = "login"
  BY DEF EquityInv, RequestsOK, Equity!ReceiveLogin
<1>2. ASSUME stash' = TRUE, issued' = TRUE, place' = "zerodha",
             equityPanel' = Equity!FreshPanel, parsed' = {}, popover' = Equity!Closed,
             kite' = Equity!FreshKite, jump' = FALSE, equityCalls' = {},
             address' = [token |-> "none", ahead |-> "none"], equitySessionId' = equitySessionId,
             crossed' = (crossed \/ Equity!BeingDeleted(equitySessionId, Equity!Deletes)),
             NEW gone \in SUBSET {c.of : c \in {x \in equityCalls : x.op \in Equity!Deletes}},
             portfolios' = portfolios \ gone
      PROVE  EquityInv'
  <2>1. /\ kite' \in Kites /\ PostedOnce(kite') /\ kite'.sync = "idle"
        /\ equityPanel' \in Panels /\ equityPanel'.sync = "idle"
        /\ popover' \in [open : BOOLEAN, rows : SUBSET Portfolios]
    BY <1>2 DEF Equity!FreshKite, Kites, PostedOnce, Equity!Syncs, Equity!FreshPanel, Panels,
                Equity!Closed
  <2>2. address' \in [{"token", "ahead"} -> Equity!Tokens \union {"none"}]
    BY <1>2
  <2>3. Equity!EquityTypeOK'
    BY <1>2, <2>1, <2>2, EquityTypesNext, EquityAlone DEF Places
  <2>4. Heard'
    <3> SUFFICES ASSUME ~crossed' PROVE equitySessionId \in portfolios' \union {NoPortfolio}
      BY <1>2 DEF Heard
    <3>1. \A c \in equityCalls : ~(c.op \in Equity!Deletes /\ c.of = equitySessionId)
      BY <1>2 DEF Equity!BeingDeleted
    <3>2. equitySessionId \in portfolios \union {NoPortfolio}
      BY <1>2, <3>1 DEF EquityInv, Heard
    <3> QED BY <1>2, <3>1, <3>2
  <2> QED BY <1>2, <2>1, <2>3, <2>4 DEF EquityInv, RequestsOK, TimersOK, PanelEnds, KiteEnds
<1>3. ASSUME equityCalls' = equityCalls \ {d},
             equityPanel' = IF d.by = "panel"
                            THEN [equityPanel EXCEPT !.sync = "idle", !.error = TRUE]
                            ELSE equityPanel,
             UNCHANGED <<portfolios, place, equitySessionId, parsed, popover, kite, address,
                         stash, issued, jump, crossed>>
      PROVE  EquityInv'
  <2>1. LET r == [equityPanel EXCEPT !.sync = "idle", !.error = TRUE]
        IN  r \in Panels /\ r.sync = "idle"
    BY PanelForms DEF Equity!Syncs
  <2>2. equityPanel' \in Panels
    BY <1>3, <2>1, EquityAlone
  <2>3. PanelEnds'
    <3>1. CASE d.by = "panel"
      <4>1. equityPanel'.sync = "idle"
        BY <1>3, <2>1, <3>1
      <4> QED BY <4>1 DEF PanelEnds
    <3>2. CASE d.by # "panel"
      BY <1>3, <3>2 DEF EquityInv, PanelEnds
    <3> QED BY <3>1, <3>2
  <2>4. KiteEnds'
    BY <1>1, <1>3 DEF EquityInv, KiteEnds, Sound
  <2>5. ~crossed' /\ equitySessionId \notin portfolios' \union {NoPortfolio}
          => \E x \in equityCalls' : x.op \in Equity!Deletes /\ x.of = equitySessionId
    BY <1>1, <1>3 DEF EquityInv, Heard, Equity!Deletes
  <2> QED BY <1>3, <2>2, <2>3, <2>4, <2>5, EquityAlone, StayKeeps
<1> QED BY <1>2, <1>3 DEF Equity!ReceiveLogin, Equity!login, Equity!NoToken

LEMMA ConnectKeeps ==
    ASSUME EquityInv, NEW d \in equityCalls, Equity!ReceiveConnect(d)
    PROVE  EquityInv'
<1>1. Sound(d) /\ (d.by = "panel" => PanelShown) /\ d.op = "connect"
  BY DEF EquityInv, RequestsOK, Equity!ReceiveConnect
<1>2. stash' = FALSE /\ issued' = FALSE /\ popover' = popover
  BY DEF Equity!ReceiveConnect
<1>3. kite.sync = "syncing" /\ d.by # "kite" => \E c \in equityCalls \ {d} : c.by = "kite"
  BY DEF EquityInv, KiteEnds
<1>4. LET r == [kite EXCEPT !.sync = "success"]
          q == [kite EXCEPT !.sync = "idle", !.error = TRUE]
      IN  /\ r \in Kites /\ PostedOnce(r) /\ r.sync = "success"
          /\ q \in Kites /\ PostedOnce(q) /\ q.sync = "idle"
  BY EquityAlone DEF Kites, PostedOnce, Equity!Syncs
<1>5. ASSUME NEW s \in Portfolios, portfolios' = portfolios \union {s},
             Equity!Show(place, s, equityPanel, equityCalls \ {d}),
             parsed' = Equity!KeptOn(place, s),
             crossed' = (crossed \/ Equity!BeingDeleted(s, {"deleteHistory"})),
             kite' = IF d.by = "kite" THEN [kite EXCEPT !.sync = "success"] ELSE kite,
             jump' = (jump \/ d.by # "kite"), address' = address
      PROVE  EquityInv'
  <2>1. /\ parsed' \subseteq parsed
        /\ \A t \in parsed' : t.late \/ Equity!PanelOn(place, s)
        /\ Equity!PanelOn(place, s) => parsed' = parsed
    BY <1>5, KeptTimers
  <2>2. kite' \in Kites /\ PostedOnce(kite')
    BY <1>5, <1>4, EquityAlone
  <2>3. kite'.sync = "syncing" => \E c \in equityCalls \ {d} : c.by = "kite"
    BY <1>5, <1>3, <1>4
  <2>4. s \in Equity!Maybe /\ portfolios' \subseteq Portfolios /\ s \in portfolios'
    BY <1>5, EquityAlone DEF Equity!Maybe
  <2>5. ~crossed' => \A c \in equityCalls \ {d} :
                       c.op = "deleteHistory" /\ c.of = s => c.active = c.of
    BY <1>5 DEF Equity!BeingDeleted
  <2>6. \A c \in equityCalls \ {d} : Sound(c) /\ (c.by = "panel" => PanelShown)
    BY DEF EquityInv, RequestsOK
  <2>7. \A c \in equityCalls : c.by = "panel" /\ c.op \in {"parse", "login"}
                                => c \in equityCalls \ {d}
    BY <1>1
  <2>8. stash' \in BOOLEAN /\ issued' \in BOOLEAN /\ jump' \in BOOLEAN /\ crossed' \in BOOLEAN
    BY <1>2, <1>5, EquityAlone
  <2> QED BY <1>2, <1>5, <2>1, <2>2, <2>3, <2>4, <2>5, <2>6, <2>7, <2>8, EquityAlone,
             ShowKeeps
<1>6. ASSUME equityCalls' = equityCalls \ {d},
             kite' = IF d.by = "kite" THEN [kite EXCEPT !.sync = "idle", !.error = TRUE]
                     ELSE kite,
             address' = [address EXCEPT !.token = "none"],
             UNCHANGED <<portfolios, equitySessionId, place, equityPanel, parsed, jump, crossed>>
      PROVE  EquityInv'
  <2>1. kite' \in Kites /\ PostedOnce(kite')
    BY <1>6, <1>4, EquityAlone
  <2>2. KiteEnds'
    <3>1. CASE d.by = "kite"
      <4>1. kite'.sync = "idle"
        BY <1>4, <1>6, <3>1
      <4> QED BY <4>1 DEF KiteEnds
    <3>2. CASE d.by # "kite"
      BY <1>3, <1>6, <3>2 DEF KiteEnds
    <3> QED BY <3>1, <3>2
  <2>3. PanelEnds'
    BY <1>1, <1>6 DEF EquityInv, PanelEnds
  <2>4. address' \in [{"token", "ahead"} -> Equity!Tokens \union {"none"}]
    BY <1>6, EquityAlone
  <2>5. ~crossed' /\ equitySessionId \notin portfolios' \union {NoPortfolio}
          => \E x \in equityCalls' : x.op \in Equity!Deletes /\ x.of = equitySessionId
    BY <1>1, <1>6 DEF EquityInv, Heard, Equity!Deletes
  <2> QED BY <1>2, <1>6, <2>1, <2>2, <2>3, <2>4, <2>5, EquityAlone, StayKeeps
<1> QED BY <1>5, <1>6 DEF Equity!ReceiveConnect, Equity!NoToken

LEMMA CallbackForms ==
    ASSUME EquityInv, NEW k \in Kites, PostedOnce(k),
           NEW t \in Equity!Tokens \union {"none"},
           NEW ahead \in Equity!Tokens \union {"none"}, Equity!Callback(k, t, ahead)
    PROVE  /\ kite' \in Kites /\ PostedOnce(kite')
           /\ kite'.sync = "syncing" => Equity!Posts(k, t) \/ k.sync = "syncing"
           /\ address' \in [{"token", "ahead"} -> Equity!Tokens \union {"none"}]
           /\ stash' \in BOOLEAN
<1> DEFINE posts == Equity!Posts(k, t)
           refused == Equity!Refused(k, t)
           unverified == Equity!Unverified(k, t)
<1>1. posts \in BOOLEAN /\ refused \in BOOLEAN /\ unverified \in BOOLEAN /\ (posts => ~k.tried)
  BY DEF Equity!Posts, Equity!Refused, Equity!Unverified
<1>2. /\ kite' = [k EXCEPT !.tried = @ \/ posts \/ unverified,
                            !.sync = IF posts THEN "syncing" ELSE @,
                            !.error = (@ /\ ~posts) \/ refused,
                            !.posts = IF posts THEN @ + 1 ELSE @]
      /\ address' = [token |-> IF refused THEN "none" ELSE t, ahead |-> ahead]
      /\ stash' = (stash /\ t # "cancelled")
  BY DEF Equity!Callback, Equity!NoToken
<1> HIDE DEF posts, refused, unverified
<1>3. kite' \in Kites
  <2> DEFINE tried == k.tried \/ posts \/ unverified
             sync == IF posts THEN "syncing" ELSE k.sync
             wrong == (k.error /\ ~posts) \/ refused
             sent == IF posts THEN k.posts + 1 ELSE k.posts
  <2>1. tried \in BOOLEAN /\ wrong \in BOOLEAN
    BY <1>1 DEF Kites
  <2>2. sync \in Equity!Syncs /\ sent \in Nat
    BY DEF Kites, Equity!Syncs
  <2>3. kite' = [k EXCEPT !.tried = tried, !.sync = sync, !.error = wrong, !.posts = sent]
    BY <1>2
  <2> HIDE DEF tried, sync, wrong, sent
  <2> QED BY <2>1, <2>2, <2>3 DEF Kites
<1>4. PostedOnce(kite')
  <2>1. /\ kite'.tried = (k.tried \/ posts \/ unverified)
        /\ kite'.posts = IF posts THEN k.posts + 1 ELSE k.posts
        /\ k.posts \in Nat /\ k.tried \in BOOLEAN
    BY <1>1, <1>2 DEF Kites
  <2>2. k.posts <= 1 /\ (k.posts = 1 => k.tried)
    BY DEF PostedOnce
  <2>3. CASE posts
    <3>1. k.posts = 0
      BY <1>1, <2>1, <2>2, <2>3
    <3>2. kite'.posts = 1
      BY <2>1, <2>3, <3>1
    <3>3. kite'.tried
      BY <2>1, <2>3, Zenon
    <3> QED BY <3>2, <3>3 DEF PostedOnce
  <2>4. CASE ~posts
    BY <2>1, <2>2, <2>4 DEF PostedOnce
  <2> QED BY <1>1, <2>3, <2>4
<1>5. kite'.sync = "syncing" => posts \/ k.sync = "syncing"
  BY <1>2 DEF Kites
<1>6. address' \in [{"token", "ahead"} -> Equity!Tokens \union {"none"}]
  BY <1>2
<1> QED BY <1>2, <1>3, <1>4, <1>5, <1>6, EquityAlone DEF posts

LEMMA GoKeeps ==
    ASSUME EquityInv, NEW p \in {"portfolio", "analyzer", "away"},
           NEW t \in Equity!Tokens \union {"none"},
           NEW ahead \in Equity!Tokens \union {"none"}, Equity!Go(p, t, ahead),
           jump' \in BOOLEAN
    PROVE  EquityInv'
<1>1. /\ parsed' = Equity!KeptOn(p, equitySessionId)
      /\ UNCHANGED <<portfolios, issued, crossed>>
  BY DEF Equity!Go
<1>2. /\ parsed' \subseteq parsed
      /\ \A x \in parsed' : x.late \/ Equity!PanelOn(p, equitySessionId)
      /\ Equity!PanelOn(p, equitySessionId) => parsed' = parsed
  BY <1>1, KeptTimers
<1>3. p \in Places /\ equitySessionId \in Equity!Maybe
  BY EquityAlone DEF Places, Equity!Maybe
<1>4. /\ portfolios' \subseteq Portfolios /\ issued' \in BOOLEAN /\ crossed' = crossed
      /\ crossed' \in BOOLEAN
  BY <1>1, EquityAlone
<1>5. \A c \in equityCalls : Sound(c) /\ (c.by = "panel" => PanelShown)
  BY DEF EquityInv, RequestsOK
<1>6. Equity!FreshKite \in Kites /\ PostedOnce(Equity!FreshKite) /\ Equity!FreshKite.sync = "idle"
  BY DEF Equity!FreshKite, Kites, Equity!Syncs, PostedOnce
<1>7. /\ ~crossed' => \A c \in equityCalls :
                         c.op = "deleteHistory" /\ c.of = equitySessionId => c.active = c.of
      /\ ~crossed' /\ equitySessionId \notin portfolios' \union {NoPortfolio}
           => \E c \in equityCalls : c.op \in Equity!Deletes /\ c.of = equitySessionId
  BY <1>1 DEF EquityInv, Heard
<1>8. CASE p = "away"
  <2> DEFINE left == {IF c.by = "kite" THEN [c EXCEPT !.by = "gone"] ELSE c
                        : c \in {x \in equityCalls : x.by # "popover"}}
  <2>1. /\ kite' = Equity!FreshKite /\ stash' = stash /\ popover' = Equity!Closed
        /\ address' = [token |-> t, ahead |-> ahead]
        /\ Equity!Show(p, equitySessionId, equityPanel, left)
    BY <1>8 DEF Equity!Go
  <2>2. /\ \A c \in left : \E x \in equityCalls :
             c = IF x.by = "kite" THEN [x EXCEPT !.by = "gone"] ELSE x
        /\ \A x \in equityCalls : x.by # "popover" =>
             (IF x.by = "kite" THEN [x EXCEPT !.by = "gone"] ELSE x) \in left
    OBVIOUS
  <2> HIDE DEF left
  <2>3. \A x \in equityCalls :
          LET y == IF x.by = "kite" THEN [x EXCEPT !.by = "gone"] ELSE x
          IN  /\ Sound(y) /\ (y.by = "panel" => PanelShown) /\ y.op = x.op /\ y.of = x.of
              /\ y.active = x.active
    BY <1>5, GoneRequest
  <2>4. \A c \in left : Sound(c) /\ (c.by = "panel" => PanelShown)
    BY <2>2, <2>3
  <2>5. ASSUME NEW c \in equityCalls, c.by = "panel" PROVE c \in left
    <3>1. c.by # "popover" /\ c.by # "kite"
      BY <2>5
    <3>2. (IF c.by = "kite" THEN [c EXCEPT !.by = "gone"] ELSE c) \in left
      BY <2>2, <3>1
    <3> QED BY <3>1, <3>2
  <2>6. ~crossed' => \A c \in left :
                       c.op = "deleteHistory" /\ c.of = equitySessionId => c.active = c.of
    <3> SUFFICES ASSUME ~crossed', NEW c \in left, c.op = "deleteHistory",
                        c.of = equitySessionId
                 PROVE  c.active = c.of
      OBVIOUS
    <3>1. PICK x \in equityCalls : c = IF x.by = "kite" THEN [x EXCEPT !.by = "gone"] ELSE x
      BY <2>2
    <3>2. x.op = c.op /\ x.of = c.of /\ x.active = c.active
      BY <2>3, <3>1
    <3> QED BY <1>7, <3>2
  <2>7. ~crossed' /\ equitySessionId \notin portfolios' \union {NoPortfolio}
          => \E c \in left : c.op \in Equity!Deletes /\ c.of = equitySessionId
    <3>1. \A x \in equityCalls : x.op \in Equity!Deletes => x.by # "popover"
      BY <1>5 DEF Sound, Equity!Deletes
    <3> QED BY <1>7, <2>2, <2>3, <3>1
  <2>8. /\ kite' \in Kites /\ PostedOnce(kite') /\ kite'.sync # "syncing"
        /\ popover' \in [open : BOOLEAN, rows : SUBSET Portfolios]
        /\ address' \in [{"token", "ahead"} -> Equity!Tokens \union {"none"}]
        /\ stash' \in BOOLEAN
    BY <1>6, <2>1, EquityAlone DEF Equity!Closed
  <2> QED BY <1>2, <1>3, <1>4, <2>1, <2>4, <2>5, <2>6, <2>7, <2>8, EquityAlone, ShowKeeps
<1>9. CASE p # "away"
  <2> DEFINE k == IF place \in {"away", "zerodha"} THEN Equity!FreshKite ELSE kite
             more == Equity!CallbackCalls(k, t)
             cs == equityCalls \union more
  <2>1. /\ Equity!Callback(k, t, ahead) /\ popover' = popover
        /\ Equity!Show(p, equitySessionId, equityPanel, cs)
    BY <1>9 DEF Equity!Go
  <2>2. k \in Kites /\ PostedOnce(k) /\ (k.sync = "syncing" => kite.sync = "syncing")
    BY <1>6, EquityAlone
  <2>3. /\ \A c \in more : c \in Requests /\ c.op = "connect" /\ c.by = "kite"
        /\ Equity!Posts(k, t) => more # {}
    <3> DEFINE new == Equity!Call("connect", "kite", NoPortfolio)
    <3>1. new \in Requests /\ new.op = "connect" /\ new.by = "kite"
      BY <1>3, NewRequest DEF Equity!Maybe
    <3>2. more = IF Equity!Posts(k, t) THEN {new} ELSE {}
      BY DEF Equity!CallbackCalls
    <3> HIDE DEF new, more, k
    <3> QED BY <3>1, <3>2
  <2> HIDE DEF k, more
  <2>4. /\ kite' \in Kites /\ PostedOnce(kite')
        /\ kite'.sync = "syncing" => Equity!Posts(k, t) \/ k.sync = "syncing"
        /\ address' \in [{"token", "ahead"} -> Equity!Tokens \union {"none"}]
        /\ stash' \in BOOLEAN
    BY <2>1, <2>2, CallbackForms
  <2>5. \A c \in cs : Sound(c) /\ (c.by = "panel" => PanelShown)
    BY <1>5, <2>3 DEF Sound, Equity!Deletes
  <2>6. kite'.sync = "syncing" => \E c \in cs : c.by = "kite"
    BY <2>2, <2>3, <2>4 DEF EquityInv, KiteEnds
  <2>7. /\ ~crossed' => \A c \in cs :
                           c.op = "deleteHistory" /\ c.of = equitySessionId => c.active = c.of
        /\ ~crossed' /\ equitySessionId \notin portfolios' \union {NoPortfolio}
             => \E c \in cs : c.op \in Equity!Deletes /\ c.of = equitySessionId
    BY <1>7, <2>3
  <2>8. \A c \in equityCalls : c.by = "panel" /\ c.op \in {"parse", "login"} => c \in cs
    OBVIOUS
  <2>9. popover' \in [open : BOOLEAN, rows : SUBSET Portfolios]
    BY <2>1, EquityAlone
  <2> HIDE DEF cs
  <2> QED BY <1>2, <1>3, <1>4, <2>1, <2>4, <2>5, <2>6, <2>7, <2>8, <2>9, EquityAlone, ShowKeeps
<1> QED BY <1>8, <1>9

LEMMA EquityInductive == Spec => []EquityInv
<1>1. ASSUME EquityInv, [Next]_vars PROVE EquityInv'
  <2>1. CASE UNCHANGED equityVars
    <3>1. UNCHANGED <<portfolios, equitySessionId, place, equityPanel, parsed, popover, kite,
                      address, stash, issued, jump, equityCalls, crossed>>
      BY <2>1 DEF equityVars
    <3> QED BY <1>1, <3>1, EquityAlone, StillKeeps
  <2>2. CASE Equity!DismissError
    <3>1. /\ kite' = [kite EXCEPT !.error = FALSE]
          /\ UNCHANGED <<portfolios, equitySessionId, place, equityPanel, parsed, popover,
                         address, stash, issued, jump, equityCalls, crossed>>
      BY <2>2 DEF Equity!DismissError
    <3>2. kite' \in Kites /\ PostedOnce(kite') /\ kite'.sync = kite.sync
      BY <1>1, <3>1, EquityAlone DEF Kites, PostedOnce
    <3> QED BY <1>1, <3>1, <3>2, EquityAlone, StillKeeps
  <2>3. CASE Equity!JumpBack
    <3>1. CASE Equity!Go("portfolio", "none", "none")
      BY <1>1, <2>3, <3>1, GoKeeps DEF Equity!JumpBack
    <3>2. CASE /\ address' = [address EXCEPT !.token = "none"]
               /\ UNCHANGED <<portfolios, equitySessionId, place, equityPanel, parsed, popover,
                              kite, stash, issued, equityCalls, crossed>>
      <4>1. address' \in [{"token", "ahead"} -> Equity!Tokens \union {"none"}]
        BY <1>1, <3>2, EquityAlone
      <4>2. kite' \in Kites /\ PostedOnce(kite') /\ kite'.sync = kite.sync
        BY <1>1, <3>2, EquityAlone
      <4>3. jump' \in BOOLEAN
        BY <2>3 DEF Equity!JumpBack
      <4> QED BY <1>1, <3>2, <4>1, <4>2, <4>3, StillKeeps
    <3> QED BY <2>3, <3>1, <3>2 DEF Equity!JumpBack, Equity!NoToken
  <2>4. CASE \/ \E p \in {"portfolio", "analyzer", "away"} :
                   Equity!Navigate(p) \/ Equity!Back(p)
             \/ Equity!Forward
             \/ \E t \in Equity!Tokens \union {Equity!NoToken} : Equity!Return(t)
    <3>1. address.token \in Equity!Tokens \union {"none"}
          /\ address.ahead \in Equity!Tokens \union {"none"}
      BY <1>1, EquityAlone
    <3>2. jump' \in BOOLEAN
      BY <1>1, <2>4, EquityAlone
         DEF Equity!Navigate, Equity!Back, Equity!Forward, Equity!Return
    <3>3. PICK p \in {"portfolio", "analyzer", "away"},
               t \in Equity!Tokens \union {"none"},
               ahead \in Equity!Tokens \union {"none"} : Equity!Go(p, t, ahead)
      BY <2>4, <3>1
         DEF Equity!Navigate, Equity!Back, Equity!Forward, Equity!Return, Equity!NoToken
    <3> QED BY <1>1, <3>2, <3>3, GoKeeps
  <2>5. ASSUME NEW d \in equityCalls,
               \/ Equity!ReceiveConnect(d) \/ Equity!ReceiveParse(d) \/ Equity!ReceiveLogin(d)
               \/ Equity!ServeDelete(d) \/ Equity!Fail(d) \/ Equity!ReceiveHistory(d)
               \/ Equity!ReceiveDelete(d)
        PROVE  EquityInv'
    BY <1>1, <2>5, ConnectKeeps, ParseKeeps, LeaveKeeps, AnswersStay, DeletionKeeps
  <2>6. CASE Equity!FinishLogin \/ Equity!ClosePopover \/ Equity!OpenPopover
             \/ \E s \in Portfolios : Equity!HandleDelete(s)
    BY <1>1, <2>6, FinishKeeps, ClosePopoverKeeps, PopoverStays
  <2>7. CASE \/ Equity!Prepare \/ Equity!HandleAnalyzeCSV \/ Equity!HandleKiteLogin
             \/ \E s \in Portfolios : Equity!HandleDeleteSession(s)
    BY <1>1, <2>7, PanelKeeps
  <2>8. CASE \/ \E t \in parsed : Equity!OpenParsed(t)
             \/ \E s \in Portfolios : Equity!SelectPrevious(s) \/ Equity!HandleSelect(s)
             \/ Equity!ConnectNew
    BY <1>1, <2>8, OpenersKeep
  <2> QED BY <1>1, <2>1, <2>2, <2>3, <2>4, <2>5, <2>6, <2>7, <2>8, EquitySteps
          DEF Equity!Next
<1> QED BY <1>1, EquityStarts, PTL DEF Spec

\* For any portfolios: a login's token is sent once per mount, what a deletion that was
\* heard of took is not left open, and every overlay has an answer or a timer to come.
THEOREM EquityKeepsFaith == Spec => []EquityAgrees
<1>1. EquityInv => EquityAgrees
  BY DEF EquityInv, EquityAgrees, Equity!TokenSentOnce, Equity!DeletedIsClosed,
         Equity!OverlaysEnd, PostedOnce, Heard, PanelEnds, KiteEnds
<1> QED BY <1>1, EquityInductive, PTL

\* What is open changes without an opener only where a portfolio is deleted or a login
\* is finished.
LEMMA OpenedBy ==
    ASSUME EquityInv, Equity!Next, equitySessionId' # equitySessionId, opener' = "upload"
    PROVE  \E t \in parsed : Equity!OpenParsed(t)
BY DEF Equity!Next, Equity!Navigate, Equity!Back, Equity!Go, Equity!Show, Equity!Forward,
       Equity!JumpBack, Equity!FinishLogin, Equity!DismissError, Equity!Prepare,
       Equity!SetPanel, Equity!Send, Equity!HandleAnalyzeCSV, Equity!HandleKiteLogin,
       Equity!OpenPopover, Equity!ClosePopover, Equity!CloseOn, Equity!ConnectNew,
       Equity!Open, Equity!Return, Equity!SelectPrevious, Equity!HandleDeleteSession,
       Equity!HandleSelect, Equity!HandleDelete, Equity!ReceiveConnect,
       Equity!ReceiveParse, Equity!ReceiveLogin, Equity!ServeDelete, Equity!Fail,
       Equity!ReceiveHistory, Equity!ReceiveDelete

\* For any portfolios: the timer of an upload does not replace what the user opened,
\* unless the upload was answered after its panel had gone.
THEOREM UploadsWait == Spec => UploadKeepsOpen
<1>1. ASSUME EquityInv, [Next]_vars
      PROVE  [(equitySessionId # NoPortfolio /\ equitySessionId' # equitySessionId
                /\ opener' = "upload") => \E t \in parsed : t.late]_Equity!vars
  <2> SUFFICES ASSUME equitySessionId # NoPortfolio, equitySessionId' # equitySessionId,
                      opener' = "upload"
               PROVE  \E t \in parsed : t.late
    OBVIOUS
  <2>1. Equity!Next
    BY <1>1, EquitySteps DEF equityVars
  <2>2. PICK t \in parsed : Equity!OpenParsed(t)
    BY <1>1, <2>1, OpenedBy
  <2>3. ~PanelShown
    BY DEF PanelShown, Equity!PanelOn
  <2> QED BY <1>1, <2>2, <2>3 DEF EquityInv, TimersOK
<1> QED BY <1>1, EquityInductive, PTL DEF Spec, UploadKeepsOpen, Equity!UploadKeepsOpen

----------------------------------------------------------------------------
\* The market data of the admin console.

LEMMA MarketSteps == [Next]_vars => [Market!Next]_marketVars
BY DEF Next, vars, marketVars

SchemeRequests ==
    [op : {"list", "more", "data", "sync", "purge"}, key : Market!Keys,
     from : 1..(MaxPages + 1), amcs : SUBSET Amcs, after : {"none", "sync", "purge"}]

PurgeDialogs ==
    [open : BOOLEAN, mode : Market!PurgeModes, target : Amcs \union {Market!NoTarget},
     typed : BOOLEAN]

\* The ingestion, or the read of everything, that runs is the only one, and the flags
\* and the dialog tell.
IngestionOK(q) ==
    /\ \A i, j \in DOMAIN q :
         {q[i].op, q[j].op} \subseteq {"data", "sync", "purge"} => i = j
    /\ \A i \in DOMAIN q :
         /\ q[i].op = "data" => marketReading /\ ~purge.open
         /\ q[i].op = "sync" => triggering /\ ~purge.open
         /\ q[i].op = "purge" => purging /\ purge.open
         /\ q[i].after # "none" => q[i].op = "data"
         /\ q[i].op \in {"list", "data"} => q[i].from = 1

\* The schemes are the first pages of what is searched and filtered.
FirstPages == schemes = [i \in 1..Len(schemes) |-> [key |-> Market!Key, page |-> i]]

\* Without a timer to come, the last list read in flight is of what is searched and
\* filtered; if it continues the list, nothing is read before it, and the list is.
LastReadOK(q) ==
    (marketSmooth /\ timer = Market!NoKey) =>
        /\ (\A i \in DOMAIN q : ~Market!ReadsList(q[i])) => FirstPages
        /\ \A i \in DOMAIN q :
             (Market!ReadsList(q[i]) /\ \A j \in DOMAIN q : j > i => ~Market!ReadsList(q[j]))
               => /\ q[i].key = Market!Key
                  /\ q[i].op = "more" => /\ \A j \in DOMAIN q : j < i => ~Market!ReadsList(q[j])
                                         /\ q[i].from = Len(schemes) + 1 /\ FirstPages

\* The status is the server's, or a read of everything will show it.
StatusOK(q) ==
    marketSmooth => \/ \E i \in DOMAIN q : q[i].op = "data"
                    \/ synced = db /\ lastSync = run

MarketInv ==
    Market!MarketTypeOK /\ IngestionOK(queue) /\ LastReadOK(queue) /\ StatusOK(queue)

\* A sequence without its i-th element.
LEMMA WithoutOne ==
    ASSUME NEW S, NEW q \in Seq(S), NEW i \in 1..Len(q)
    PROVE  LET w == SubSeq(q, 1, i - 1) \o SubSeq(q, i + 1, Len(q))
           IN  /\ w \in Seq(S) /\ Len(w) = Len(q) - 1
               /\ \A j \in 1..Len(w) : w[j] = IF j < i THEN q[j] ELSE q[j + 1]
<1> DEFINE a == SubSeq(q, 1, i - 1)
           b == SubSeq(q, i + 1, Len(q))
<1>1. Len(q) \in Nat /\ \A j \in 1..Len(q) : q[j] \in S
  BY ElementOfSeq, LenProperties
<1>2. a \in Seq(S) /\ Len(a) = i - 1 /\ \A j \in 1..(i - 1) : a[j] = q[j]
  <2>1. 1 \in Int /\ i - 1 \in Int /\ \A j \in 1..(i - 1) : q[j] \in S
    BY <1>1
  <2>2. /\ a \in Seq(S) /\ Len(a) = IF 1 <= i - 1 THEN (i - 1) - 1 + 1 ELSE 0
        /\ \A j \in 1..((i - 1) - 1 + 1) : a[j] = q[1 + j - 1]
    BY <2>1, SubSeqProperties
  <2> HIDE DEF a
  <2>3. \A j \in 1..(i - 1) : j \in 1..((i - 1) - 1 + 1) /\ 1 + j - 1 = j
    BY <1>1
  <2> QED BY <1>1, <2>2, <2>3
<1>3. b \in Seq(S) /\ Len(b) = Len(q) - i /\ \A j \in 1..(Len(q) - i) : b[j] = q[i + j]
  <2>1. i + 1 \in Int /\ Len(q) \in Int /\ \A j \in (i + 1)..Len(q) : q[j] \in S
    BY <1>1
  <2>2. /\ b \in Seq(S) /\ Len(b) = IF i + 1 <= Len(q) THEN Len(q) - (i + 1) + 1 ELSE 0
        /\ \A j \in 1..(Len(q) - (i + 1) + 1) : b[j] = q[(i + 1) + j - 1]
    BY <2>1, SubSeqProperties
  <2> HIDE DEF b
  <2>3. Len(b) = Len(q) - i /\ Len(q) - (i + 1) + 1 = Len(q) - i
    BY <1>1, <2>2
  <2>4. ASSUME NEW j \in 1..(Len(q) - i) PROVE b[j] = q[i + j]
    <3>1. (i + 1) + j - 1 = i + j
      OBVIOUS
    <3>2. b[j] = q[(i + 1) + j - 1]
      BY <2>2, <2>3
    <3> QED BY <3>1, <3>2
  <2> QED BY <2>2, <2>3, <2>4
<1> HIDE DEF a, b
<1>4. /\ a \o b \in Seq(S) /\ Len(a \o b) = Len(a) + Len(b)
      /\ \A j \in 1..(Len(a) + Len(b)) :
           (a \o b)[j] = IF j <= Len(a) THEN a[j] ELSE b[j - Len(a)]
  <2>1. a \in Seq(S) /\ b \in Seq(S)
    BY <1>2, <1>3
  <2> QED BY ONLY <2>1, ConcatProperties
<1>5. Len(a) = i - 1 /\ Len(b) = Len(q) - i /\ Len(a) + Len(b) = Len(q) - 1
  <2>1. Len(a) = i - 1 /\ Len(b) = Len(q) - i /\ Len(q) \in Nat
    BY <1>1, <1>2, <1>3
  <2>2. \A n \in Nat : \A m \in 1..n : (m - 1) + (n - m) = n - 1
    OBVIOUS
  <2> QED BY <2>1, <2>2
<1> DEFINE c == a \o b
<1> HIDE DEF c
<1>6. c \in Seq(S) /\ Len(c) = Len(q) - 1
  BY <1>4, <1>5 DEF c
<1>7. ASSUME NEW j \in 1..(Len(q) - 1) PROVE c[j] = IF j < i THEN q[j] ELSE q[j + 1]
  <2>1. c[j] = IF j <= i - 1 THEN a[j] ELSE b[j - (i - 1)]
    BY <1>4, <1>5 DEF c
  <2>2. CASE j < i
    <3>1. j \in 1..(i - 1) /\ j <= i - 1
      BY <1>1, <2>2
    <3> QED BY <1>2, <2>1, <2>2, <3>1
  <2>3. CASE ~(j < i)
    <3>1. j - (i - 1) \in 1..(Len(q) - i) /\ i + (j - (i - 1)) = j + 1 /\ ~(j <= i - 1)
      BY <1>1, <2>3
    <3>2. b[j - (i - 1)] = q[i + (j - (i - 1))]
      BY <1>3, <3>1
    <3> QED BY <2>1, <2>3, <3>1, <3>2
  <2> QED BY <2>2, <2>3
<1> QED BY <1>6, <1>7 DEF a, b, c

\* What the type says that the steps below use.
LEMMA MarketTypes ==
    ASSUME MarketInv
    PROVE  /\ queue \in Seq(SchemeRequests) /\ Len(queue) \in Nat /\ DOMAIN queue = 1..Len(queue)
           /\ \A i \in 1..Len(queue) : queue[i] \in SchemeRequests
           /\ Len(schemes) \in Nat /\ MaxPages \in Nat
           /\ db \subseteq Amcs /\ synced \subseteq Amcs /\ custom \subseteq Amcs
           /\ query \in Queries /\ marketFilter \in SchemeFilters
           /\ timer \in Market!Keys \union {Market!NoKey}
           /\ schemes \in Seq([key : Market!Keys, page : 1..MaxPages])
           /\ total \in 0..MaxPages
           /\ purge \in PurgeDialogs
           /\ {listing, marketReading, triggering, purging, audit, marketSmooth} \subseteq BOOLEAN
           /\ Market!Key \in Market!Keys
<1>1. Market!MarketTypeOK
  BY DEF MarketInv
<1>2. queue \in Seq(SchemeRequests)
  BY <1>1 DEF Market!MarketTypeOK, SchemeRequests
<1>3. query \in Queries /\ marketFilter \in SchemeFilters
  BY <1>1 DEF Market!MarketTypeOK, Market!Key, Market!Keys
<1> QED BY <1>1, <1>2, <1>3, PagesAssumption, LenProperties, ElementOfSeq
    DEF Market!MarketTypeOK, PurgeDialogs

\* A request that is sent is the last of the queue.
LEMMA Sent ==
    ASSUME NEW q \in Seq(SchemeRequests), NEW r \in SchemeRequests
    PROVE  LET p == Append(q, r)
           IN  /\ p \in Seq(SchemeRequests) /\ DOMAIN p = 1..(Len(q) + 1) /\ Len(q) \in Nat
               /\ DOMAIN q = 1..Len(q) /\ p[Len(q) + 1] = r /\ \A j \in 1..Len(q) : p[j] = q[j]
BY AppendProperties, LenProperties

\* One that is answered leaves the queue in order.
LEMMA Taken ==
    ASSUME MarketInv, NEW i \in 1..Len(queue)
    PROVE  LET p == Market!Without(i)
           IN  /\ p \in Seq(SchemeRequests) /\ DOMAIN p = 1..(Len(queue) - 1)
               /\ \A j \in 1..(Len(queue) - 1) :
                    p[j] = IF j < i THEN queue[j] ELSE queue[j + 1]
               /\ DOMAIN queue = 1..Len(queue) /\ Len(queue) \in Nat /\ queue[i] \in SchemeRequests
<1>1. /\ queue \in Seq(SchemeRequests) /\ queue[i] \in SchemeRequests
      /\ DOMAIN queue = 1..Len(queue) /\ Len(queue) \in Nat
  BY MarketTypes
<1>2. Market!Without(i) \in Seq(SchemeRequests) /\ Len(Market!Without(i)) = Len(queue) - 1
      /\ \A j \in 1..Len(Market!Without(i)) :
           Market!Without(i)[j] = IF j < i THEN queue[j] ELSE queue[j + 1]
  BY <1>1, WithoutOne DEF Market!Without
<1>3. DOMAIN Market!Without(i) = 1..Len(Market!Without(i))
  BY <1>2, LenProperties
<1> QED BY <1>1, <1>2, <1>3

LEMMA OnePage == MaxPages \in Nat /\ 1 \in 1..(MaxPages + 1)
BY PagesAssumption

LEMMA QueueIsSeq == MarketInv => queue \in Seq(SchemeRequests)
BY MarketTypes

\* The steps that touch no request and no list.
LEMMA MarketQuiet ==
    ASSUME MarketInv,
           \/ \E s \in Market!Scopes : Market!SetScope(s)
           \/ \E amcs \in SUBSET Amcs : Market!SelectCustom(amcs)
           \/ \E p \in {"ingest", "explore"} : Market!SetPanel(p)
           \/ Market!View \/ Market!CloseFactsheet \/ Market!ToggleAudit
    PROVE  MarketInv'
<1>1. /\ UNCHANGED <<db, run, query, marketFilter, timer, schemes, total, synced, lastSync,
                     listing, marketReading, triggering, purging, purge, queue, marketSmooth>>
      /\ scope' \in Market!Scopes /\ custom' \subseteq Amcs /\ audit' \in BOOLEAN
  BY MarketTypes DEF MarketInv, Market!MarketTypeOK, Market!SetScope, Market!SelectCustom,
     Market!SetPanel, Market!View, Market!CloseFactsheet, Market!ToggleAudit, Market!Look,
     Market!server, Market!browse, Market!list, Market!status, Market!flags
<1>2. Market!Key' = Market!Key
  BY <1>1 DEF Market!Key
<1>3. Market!MarketTypeOK'
  BY <1>1, <1>2 DEF MarketInv, Market!MarketTypeOK, PurgeDialogs
<1>4. IngestionOK(queue)'
  BY <1>1 DEF MarketInv, IngestionOK
<1>5. LastReadOK(queue)'
  BY <1>1, <1>2 DEF MarketInv, LastReadOK, FirstPages, Market!ReadsList
<1>6. StatusOK(queue)'
  BY <1>1 DEF MarketInv, StatusOK
<1> QED BY <1>3, <1>4, <1>5, <1>6 DEF MarketInv

\* A handler that leaves requests, list, search and status alone leaves what is said of
\* them.
LEMMA ReadsAsBefore ==
    ASSUME MarketInv,
           UNCHANGED <<db, run, query, marketFilter, timer, schemes, synced, lastSync,
                       queue, marketSmooth>>
    PROVE  LastReadOK(queue)' /\ StatusOK(queue)' /\ Market!Key' = Market!Key
BY DEF MarketInv, LastReadOK, FirstPages, StatusOK, Market!ReadsList, Market!Key

\* The purge dialog opens over no ingestion, and closes under none.
LEMMA PurgeDialogSteps ==
    ASSUME MarketInv, Market!OpenPurge \/ Market!EditPurge
    PROVE  MarketInv'
<1>1. UNCHANGED <<db, run, query, marketFilter, timer, schemes, total, synced, lastSync,
                  listing, marketReading, triggering, purging, scope, custom, audit, queue,
                  marketSmooth>>
  BY DEF Market!OpenPurge, Market!EditPurge, Market!PurgeDialog, Market!server,
     Market!browse, Market!list, Market!status, Market!flags
<1>2. /\ purge' \in PurgeDialogs
      /\ \/ purge'.open = purge.open
         \/ ~marketReading /\ ~triggering /\ ~purge.open
         \/ ~purging /\ purge.open
  <2>1. CASE Market!OpenPurge
    BY <2>1, MarketTypes DEF PurgeDialogs, Market!OpenPurge, Market!PurgeDialog, Market!CanIngest,
       Market!Ingesting, Market!Covered
  <2>2. CASE Market!EditPurge
    BY <2>2, MarketTypes DEF PurgeDialogs, Market!EditPurge, Market!PurgeDialog
  <2> QED BY <2>1, <2>2
<1>3. Market!MarketTypeOK'
  BY <1>1, <1>2, ReadsAsBefore DEF MarketInv, Market!MarketTypeOK, PurgeDialogs
<1>4. IngestionOK(queue)'
  BY <1>1, <1>2 DEF MarketInv, IngestionOK
<1> QED BY <1>1, <1>3, <1>4, ReadsAsBefore DEF MarketInv

LEMMA SearchStep ==
    ASSUME MarketInv, NEW w \in Queries, Market!HandleSearchMf(w)
    PROVE  MarketInv'
<1>1. /\ query' = w /\ timer' = <<w, marketFilter>>
      /\ UNCHANGED <<db, run, marketFilter, schemes, total, synced, lastSync, listing,
                     marketReading, triggering, purging, scope, custom, purge, audit, queue,
                     marketSmooth>>
  BY DEF Market!HandleSearchMf, Market!server, Market!list, Market!status, Market!flags,
     Market!controls
<1>2. <<w, marketFilter>> \in Market!Keys /\ <<w, marketFilter>> # Market!NoKey
      /\ Market!Key' = <<w, marketFilter>>
  BY <1>1, MarketTypes DEF Market!Keys, Market!NoKey, Market!Key
<1>3. Market!MarketTypeOK'
  BY <1>1, <1>2 DEF MarketInv, Market!MarketTypeOK, PurgeDialogs
<1>4. IngestionOK(queue)' /\ StatusOK(queue)'
  BY <1>1 DEF MarketInv, IngestionOK, StatusOK
<1>5. LastReadOK(queue)'
  BY <1>1, <1>2 DEF LastReadOK, Market!NoKey
<1> QED BY <1>3, <1>4, <1>5 DEF MarketInv

\* A read of the list that replaces it and is of what is searched and filtered, sent
\* last, is what the list will be.
LEMMA ReadSent ==
    ASSUME NEW q \in Seq(SchemeRequests), NEW r \in SchemeRequests, r.op \in {"list", "data"},
           queue' = Append(q, r), r.key = Market!Key' \/ ~marketSmooth'
    PROVE  LastReadOK(queue)'
<1>1. DOMAIN queue' = 1..(Len(q) + 1) /\ Len(q) \in Nat /\ queue'[Len(q) + 1] = r
  BY Sent
<1>2. Market!ReadsList(r)
  BY DEF Market!ReadsList
<1>3. \A i \in DOMAIN queue' : i # Len(q) + 1 => Len(q) + 1 > i
  BY <1>1
<1> QED BY <1>1, <1>2, <1>3 DEF LastReadOK, Market!ReadsList

\* Another request sent does not touch the rest.
LEMMA ListSent ==
    ASSUME MarketInv, NEW r \in SchemeRequests, r.op \in {"list", "more"}, r.after = "none",
           r.op = "list" => r.from = 1, queue' = Append(queue, r),
           UNCHANGED <<db, run, synced, lastSync, marketReading, triggering, purging, purge>>,
           marketSmooth' => marketSmooth
    PROVE  IngestionOK(queue)' /\ StatusOK(queue)'
<1>1. /\ DOMAIN queue' = 1..(Len(queue) + 1) /\ Len(queue) \in Nat
      /\ queue'[Len(queue) + 1] = r /\ \A j \in 1..Len(queue) : queue'[j] = queue[j]
      /\ DOMAIN queue = 1..Len(queue)
  BY QueueIsSeq, Sent
<1>2. \A j \in DOMAIN queue' : \/ j \in DOMAIN queue /\ queue'[j] = queue[j]
                               \/ j = Len(queue) + 1 /\ queue'[j] = r
  BY <1>1
<1>3. IngestionOK(queue)'
  BY <1>2 DEF MarketInv, IngestionOK
<1>4. \A j \in DOMAIN queue : j \in DOMAIN queue' /\ queue'[j] = queue[j]
  BY <1>1
<1>5. StatusOK(queue)'
  BY <1>4 DEF MarketInv, StatusOK
<1> QED BY <1>3, <1>5

LEMMA SearchTimerStep ==
    ASSUME MarketInv, Market!SearchTimer
    PROVE  MarketInv'
<1> DEFINE r == Market!Request("list", timer, 1, {})
<1>1. /\ timer # Market!NoKey /\ timer' = Market!NoKey /\ listing' = TRUE
      /\ queue' = Append(queue, r) /\ marketSmooth' = (marketSmooth /\ timer = Market!Key)
      /\ UNCHANGED <<db, run, query, marketFilter, schemes, total, synced, lastSync,
                     marketReading, triggering, purging, scope, custom, purge, audit>>
  BY DEF Market!SearchTimer, Market!LoadMfSchemes, Market!Put, Market!server, Market!list,
     Market!status, Market!controls
<1>2. timer \in Market!Keys /\ MaxPages \in Nat
  BY <1>1, MarketTypes
<1>3. r \in SchemeRequests /\ r.op = "list" /\ r.key = timer /\ r.from = 1 /\ r.after = "none"
  BY <1>2, OnePage DEF Market!Request, SchemeRequests
<1> HIDE DEF r
<1>4. queue' \in Seq(SchemeRequests) /\ Market!Key' = Market!Key
  BY <1>1, <1>3, QueueIsSeq, Sent DEF Market!Key
<1>5. Market!MarketTypeOK'
  BY <1>1, <1>4 DEF MarketInv, Market!MarketTypeOK, SchemeRequests
<1>6. IngestionOK(queue)' /\ StatusOK(queue)'
  BY <1>1, <1>3, ListSent
<1>7. LastReadOK(queue)'
  BY <1>1, <1>3, <1>4, MarketTypes, ReadSent
<1> QED BY <1>5, <1>6, <1>7 DEF MarketInv

LEMMA SelectFilterStep ==
    ASSUME MarketInv, NEW f \in SchemeFilters, Market!HandleSelectFilter(f)
    PROVE  MarketInv'
<1> DEFINE r == Market!Request("list", <<query, f>>, 1, {})
<1>1. /\ marketFilter' = f /\ listing' = TRUE /\ queue' = Append(queue, r)
      /\ UNCHANGED <<db, run, query, timer, schemes, total, synced, lastSync, marketSmooth,
                     marketReading, triggering, purging, scope, custom, purge, audit>>
  BY DEF Market!HandleSelectFilter, Market!KeyWith, Market!LoadMfSchemes, Market!Put,
     Market!server, Market!list, Market!status, Market!controls
<1>2. <<query, f>> \in Market!Keys /\ MaxPages \in Nat /\ Market!Key' = <<query, f>>
  BY <1>1, MarketTypes DEF Market!Keys, Market!Key
<1>3. r \in SchemeRequests /\ r.op = "list" /\ r.key = <<query, f>> /\ r.from = 1 /\ r.after = "none"
  BY <1>2, OnePage DEF Market!Request, SchemeRequests
<1> HIDE DEF r
<1>4. queue' \in Seq(SchemeRequests)
  BY <1>1, <1>3, QueueIsSeq, Sent
<1>5. Market!MarketTypeOK'
  BY <1>1, <1>2, <1>4 DEF MarketInv, Market!MarketTypeOK, SchemeRequests
<1>6. IngestionOK(queue)' /\ StatusOK(queue)'
  BY <1>1, <1>3, ListSent
<1>7. LastReadOK(queue)'
  BY <1>1, <1>2, <1>3, MarketTypes, ReadSent
<1> QED BY <1>5, <1>6, <1>7 DEF MarketInv

LEMMA LoadMoreStep ==
    ASSUME MarketInv, Market!LoadMore
    PROVE  MarketInv'
<1> DEFINE r == Market!Request("more", Market!Key, Len(schemes) + 1, {})
<1>1. /\ listing' = TRUE /\ queue' = Append(queue, r) /\ Len(schemes) < total
      /\ marketSmooth' = (marketSmooth /\ ~\E i \in 1..Len(queue) : Market!ReadsList(queue[i])
                                     /\ timer = Market!NoKey)
      /\ UNCHANGED <<db, run, query, marketFilter, timer, schemes, total, synced, lastSync,
                     marketReading, triggering, purging, scope, custom, purge, audit>>
  BY DEF Market!LoadMore, Market!CanLoadMore, Market!LoadMfSchemes, Market!Put,
     Market!server, Market!browse, Market!list, Market!status, Market!controls
<1>2. Len(schemes) + 1 \in 1..(MaxPages + 1) /\ Market!Key \in Market!Keys
      /\ Market!Key' = Market!Key
  <2>1. Len(schemes) \in Nat /\ total \in 0..MaxPages /\ MaxPages \in Nat
    BY MarketTypes
  <2>2. Len(schemes) + 1 \in 1..(MaxPages + 1)
    BY <1>1, <2>1
  <2> QED BY <1>1, <2>2, MarketTypes DEF Market!Key
<1>3. /\ r \in SchemeRequests /\ r.op = "more" /\ r.key = Market!Key /\ r.from = Len(schemes) + 1
      /\ r.after = "none"
  BY <1>2, OnePage DEF Market!Request, SchemeRequests
<1> HIDE DEF r
<1>4. /\ queue' \in Seq(SchemeRequests) /\ DOMAIN queue' = 1..(Len(queue) + 1) /\ Len(queue) \in Nat
      /\ queue'[Len(queue) + 1] = r /\ \A j \in 1..Len(queue) : queue'[j] = queue[j]
      /\ DOMAIN queue = 1..Len(queue)
  BY <1>1, <1>3, QueueIsSeq, Sent
<1>5. Market!MarketTypeOK'
  BY <1>1, <1>2, <1>4 DEF MarketInv, Market!MarketTypeOK, SchemeRequests
<1>6. IngestionOK(queue)' /\ StatusOK(queue)'
  BY <1>1, <1>3, ListSent
<1>7. ASSUME marketSmooth', timer' = Market!NoKey PROVE
      /\ FirstPages' /\ \A i \in 1..Len(queue) : ~Market!ReadsList(queue'[i])
  <2>1. /\ marketSmooth /\ timer = Market!NoKey
        /\ ~\E i \in 1..Len(queue) : Market!ReadsList(queue[i])
    BY <1>1, <1>7
  <2>2. FirstPages
    BY <1>4, <2>1 DEF MarketInv, LastReadOK
  <2> QED BY <1>1, <1>2, <1>4, <2>1, <2>2 DEF FirstPages, Market!ReadsList
<1>8. LastReadOK(queue)'
  <2>1. Market!ReadsList(r)
    BY <1>3 DEF Market!ReadsList
  <2>2. \A i \in DOMAIN queue' : i = Len(queue) + 1 \/ i \in 1..Len(queue)
    BY <1>4
  <2>3. \A j \in DOMAIN queue' : j < Len(queue) + 1 => j \in 1..Len(queue)
    BY <1>4
  <2> QED BY <1>1, <1>2, <1>3, <1>4, <1>7, <2>1, <2>2, <2>3
          DEF LastReadOK, Market!ReadsList
<1> QED BY <1>5, <1>6, <1>8 DEF MarketInv

Busy(q) == \E i \in DOMAIN q : q[i].op \in {"data", "sync", "purge"}

\* An ingestion or a read of everything is sent when none runs.
LEMMA IngestionSent ==
    ASSUME NEW q \in Seq(SchemeRequests), NEW r \in SchemeRequests, IngestionOK(q), ~Busy(q),
           r.op \in {"data", "sync", "purge"}, queue' = Append(q, r),
           /\ r.op = "data" => marketReading' /\ ~purge'.open /\ r.from = 1
           /\ r.op = "sync" => triggering' /\ ~purge'.open /\ r.after = "none"
           /\ r.op = "purge" => purging' /\ purge'.open /\ r.after = "none"
    PROVE  IngestionOK(queue)'
<1>1. /\ DOMAIN queue' = 1..(Len(q) + 1) /\ Len(q) \in Nat /\ DOMAIN q = 1..Len(q)
      /\ queue'[Len(q) + 1] = r /\ \A j \in 1..Len(q) : queue'[j] = q[j]
  BY Sent
<1>2. \A j \in DOMAIN queue' : \/ j \in DOMAIN q /\ queue'[j] = q[j]
                               \/ j = Len(q) + 1 /\ queue'[j] = r
  BY <1>1
<1> QED BY <1>2 DEF IngestionOK, Busy

\* What is no read of the list does not change which read is the last.
LEMMA OtherSent ==
    ASSUME MarketInv, NEW r \in SchemeRequests, r.op \in {"sync", "purge"},
           queue' = Append(queue, r),
           UNCHANGED <<db, run, synced, lastSync, query, marketFilter, timer, schemes,
                       marketSmooth>>
    PROVE  LastReadOK(queue)' /\ StatusOK(queue)' /\ Market!Key' = Market!Key
<1>1. /\ DOMAIN queue' = 1..(Len(queue) + 1) /\ Len(queue) \in Nat
      /\ queue'[Len(queue) + 1] = r /\ \A j \in 1..Len(queue) : queue'[j] = queue[j]
      /\ DOMAIN queue = 1..Len(queue)
  BY QueueIsSeq, Sent
<1>2. /\ \A j \in DOMAIN queue' : \/ j \in DOMAIN queue /\ queue'[j] = queue[j]
                                  \/ j = Len(queue) + 1 /\ queue'[j] = r
      /\ \A j \in DOMAIN queue : j \in DOMAIN queue' /\ queue'[j] = queue[j]
  BY <1>1
<1>3. Market!Key' = Market!Key /\ (FirstPages => FirstPages') /\ ~Market!ReadsList(r)
  BY DEF Market!Key, FirstPages, Market!ReadsList
<1>4. /\ \A j \in DOMAIN queue' : Market!ReadsList(queue'[j]) =>
           j \in DOMAIN queue /\ queue'[j] = queue[j] /\ Market!ReadsList(queue[j])
      /\ \A j \in DOMAIN queue : j \in DOMAIN queue' /\ queue'[j] = queue[j]
  BY <1>2, <1>3
<1>5. LastReadOK(queue)'
  BY <1>3, <1>4 DEF MarketInv, LastReadOK, Market!ReadsList
<1>6. StatusOK(queue)'
  BY <1>2 DEF MarketInv, StatusOK
<1> QED BY <1>3, <1>5, <1>6

LEMMA SyncStep ==
    ASSUME MarketInv, Market!HandleTriggerMfSync
    PROVE  MarketInv'
<1> DEFINE r == Market!Request("sync", Market!Key, 1, Market!Wanted)
<1>1. /\ queue' = Append(queue, r) /\ triggering' = TRUE
      /\ ~purge.open /\ ~triggering /\ ~marketReading
      /\ UNCHANGED <<db, run, query, marketFilter, timer, schemes, total, synced, lastSync,
                     listing, marketReading, purging, scope, custom, purge, audit,
                     marketSmooth>>
  BY DEF Market!HandleTriggerMfSync, Market!CanIngest, Market!Ingesting, Market!Covered,
     Market!Put, Market!server, Market!browse, Market!list, Market!status, Market!controls
<1>2. Market!Wanted \subseteq Amcs
  BY MarketTypes DEF Market!Wanted
<1>3. r \in SchemeRequests /\ r.op = "sync" /\ r.after = "none"
  BY <1>2, MarketTypes, OnePage DEF Market!Request, SchemeRequests
<1> HIDE DEF r
<1>4. queue' \in Seq(SchemeRequests)
  BY <1>1, <1>3, QueueIsSeq, Sent
<1>5. LastReadOK(queue)' /\ StatusOK(queue)' /\ Market!Key' = Market!Key
  BY <1>1, <1>3, OtherSent
<1>6. Market!MarketTypeOK'
  BY <1>1, <1>4, <1>5 DEF MarketInv, Market!MarketTypeOK, SchemeRequests
<1>7. ~Busy(queue)
  BY <1>1 DEF MarketInv, IngestionOK, Busy
<1>8. IngestionOK(queue)'
  BY <1>1, <1>3, <1>7, MarketTypes, IngestionSent DEF MarketInv
<1> QED BY <1>5, <1>6, <1>8 DEF MarketInv

LEMMA PurgeStep ==
    ASSUME MarketInv, Market!HandlePurge
    PROVE  MarketInv'
<1> DEFINE amcs == IF purge.mode = "all" THEN Amcs ELSE {purge.target}
           r == Market!Request("purge", Market!Key, 1, amcs)
<1>1. /\ queue' = Append(queue, r) /\ purging' = TRUE /\ purge.open /\ ~purging
      /\ purge.mode = "all" \/ purge.target # Market!NoTarget
      /\ UNCHANGED <<db, run, query, marketFilter, timer, schemes, total, synced, lastSync,
                     listing, marketReading, triggering, scope, custom, purge, audit,
                     marketSmooth>>
  BY DEF Market!HandlePurge, Market!Put, Market!server, Market!browse, Market!list,
     Market!status, Market!controls
<1>2. amcs \subseteq Amcs
  BY <1>1, MarketTypes DEF PurgeDialogs
<1> HIDE DEF amcs
<1>3. r \in SchemeRequests /\ r.op = "purge" /\ r.after = "none"
  BY <1>2, MarketTypes, OnePage DEF Market!Request, SchemeRequests
<1> HIDE DEF r
<1>4. queue' \in Seq(SchemeRequests)
  BY <1>1, <1>3, QueueIsSeq, Sent
<1>5. LastReadOK(queue)' /\ StatusOK(queue)' /\ Market!Key' = Market!Key
  BY <1>1, <1>3, OtherSent
<1>6. Market!MarketTypeOK'
  BY <1>1, <1>4, <1>5 DEF MarketInv, Market!MarketTypeOK, SchemeRequests
<1>7. ~Busy(queue)
  BY <1>1 DEF MarketInv, IngestionOK, Busy
<1>8. IngestionOK(queue)'
  BY <1>1, <1>3, <1>7, MarketTypes, IngestionSent DEF MarketInv
<1> QED BY <1>5, <1>6, <1>8 DEF MarketInv

LEMMA MarketRefresh ==
    ASSUME MarketInv, Market!Refresh
    PROVE  MarketInv'
<1> DEFINE r == [Market!Request("data", Market!Key, 1, {}) EXCEPT !.after = "none"]
<1>1. /\ queue' = Append(queue, r) /\ listing' = TRUE /\ marketReading' = TRUE
      /\ ~purge.open /\ ~triggering /\ ~marketReading
      /\ UNCHANGED <<db, run, query, marketFilter, timer, schemes, total, synced, lastSync,
                     triggering, purging, scope, custom, purge, audit, marketSmooth>>
  BY DEF Market!Refresh, Market!CanRefresh, Market!Covered, Market!FetchMfData,
     Market!server, Market!browse, Market!list, Market!status, Market!controls
<1>2. Market!Key' = Market!Key
  BY <1>1, MarketTypes DEF Market!Key
<1>3. r \in SchemeRequests /\ r.op = "data" /\ r.key = Market!Key /\ r.from = 1
  BY <1>2, MarketTypes, OnePage DEF Market!Request, SchemeRequests
<1> HIDE DEF r
<1>4. /\ queue' \in Seq(SchemeRequests) /\ DOMAIN queue' = 1..(Len(queue) + 1)
      /\ queue'[Len(queue) + 1] = r /\ Len(queue) \in Nat
  BY <1>1, <1>3, QueueIsSeq, Sent
<1>5. Market!MarketTypeOK'
  BY <1>1, <1>2, <1>4 DEF MarketInv, Market!MarketTypeOK, SchemeRequests
<1>6. ~Busy(queue)
  BY <1>1 DEF MarketInv, IngestionOK, Busy
<1>7. IngestionOK(queue)'
  BY <1>1, <1>3, <1>6, MarketTypes, IngestionSent DEF MarketInv
<1>8. LastReadOK(queue)'
  BY <1>1, <1>2, <1>3, MarketTypes, ReadSent
<1>9. StatusOK(queue)'
  <2>1. Len(queue) + 1 \in DOMAIN queue'
    BY <1>4
  <2> QED BY <1>3, <1>4, <2>1 DEF StatusOK
<1> QED BY <1>5, <1>7, <1>8, <1>9 DEF MarketInv

\* What is left of the requests once one is answered; after an ingestion or a read of
\* everything no other is left.
LEMMA TakenOK ==
    ASSUME MarketInv, NEW i \in 1..Len(queue)
    PROVE  /\ IngestionOK(Market!Without(i))
           /\ queue[i].op \in {"data", "sync", "purge"} => ~Busy(Market!Without(i))
<1> DEFINE p == Market!Without(i)
<1>1. /\ DOMAIN p = 1..(Len(queue) - 1)
      /\ \A j \in 1..(Len(queue) - 1) : p[j] = IF j < i THEN queue[j] ELSE queue[j + 1]
      /\ Len(queue) \in Nat /\ DOMAIN queue = 1..Len(queue)
  BY Taken
<1> HIDE DEF p
<1> DEFINE at(j) == IF j < i THEN j ELSE j + 1
<1>2. \A j \in DOMAIN p : at(j) \in DOMAIN queue /\ at(j) # i /\ p[j] = queue[at(j)]
  BY <1>1
<1>3. \A j, k \in DOMAIN p : at(j) = at(k) => j = k
  BY <1>1
<1>4. i \in DOMAIN queue
  BY <1>1
<1> HIDE DEF at
<1>5. IngestionOK(p)
  BY <1>2, <1>3 DEF MarketInv, IngestionOK
<1>6. queue[i].op \in {"data", "sync", "purge"} => ~Busy(p)
  BY <1>2, <1>4 DEF MarketInv, IngestionOK, Busy
<1> QED BY <1>5, <1>6 DEF p

\* An answer to a request other than the ingestion leaves what is said of it.
LEMMA IngestionAnswered ==
    ASSUME MarketInv, NEW i \in 1..Len(queue), queue' = Market!Without(i),
           /\ purge'.open = purge.open
           /\ marketReading' = (marketReading /\ queue[i].op # "data")
           /\ \/ queue[i].op \in {"data", "sync", "purge"}
              \/ triggering' = triggering /\ purging' = purging
    PROVE  IngestionOK(queue)'
<1>1. IngestionOK(Market!Without(i))
      /\ (queue[i].op \in {"data", "sync", "purge"} => ~Busy(Market!Without(i)))
  BY TakenOK
<1> DEFINE p == Market!Without(i)
<1>2. IngestionOK(p) /\ (queue[i].op \in {"data", "sync", "purge"} => ~Busy(p))
      /\ queue' = p
  BY <1>1
<1>3. /\ queue[i].op = "data" => ~Busy(p)
      /\ queue[i].op # "data" => marketReading' = marketReading
      /\ \/ ~Busy(p)
         \/ triggering' = triggering /\ purging' = purging
  BY <1>2, MarketTypes
<1> HIDE DEF p
<1>4. CASE Busy(p)
  <2>1. marketReading' = marketReading /\ triggering' = triggering /\ purging' = purging
    BY <1>3, <1>4
  <2> QED BY <1>2, <2>1 DEF IngestionOK
<1>5. CASE ~Busy(p)
  BY <1>2, <1>5 DEF IngestionOK, Busy
<1> QED BY <1>4, <1>5

LEMMA NotIngestedStep ==
    ASSUME MarketInv, NEW i \in 1..Len(queue), Market!NotIngested(i)
    PROVE  MarketInv'
<1>1. /\ queue' = Market!Without(i) /\ queue[i].op \in {"sync", "purge"}
      /\ run' = IF queue[i].op = "sync" THEN "failed" ELSE run
      /\ triggering' \in BOOLEAN /\ purging' \in BOOLEAN /\ marketSmooth' = FALSE
      /\ UNCHANGED <<db, query, marketFilter, timer, schemes, total, synced, lastSync,
                     listing, marketReading, scope, custom, purge, audit>>
  BY MarketTypes DEF Market!NotIngested, Market!browse, Market!list, Market!status, Market!controls
<1>2. queue' \in Seq(SchemeRequests) /\ Market!Key' = Market!Key
  BY <1>1, Taken DEF Market!Key
<1>3. Market!MarketTypeOK'
  BY <1>1, <1>2 DEF MarketInv, Market!MarketTypeOK, PurgeDialogs, SchemeRequests
<1>4. IngestionOK(queue)'
  BY <1>1, MarketTypes, IngestionAnswered
<1>5. LastReadOK(queue)' /\ StatusOK(queue)'
  BY <1>1 DEF LastReadOK, StatusOK
<1> QED BY <1>3, <1>4, <1>5 DEF MarketInv

LEMMA MarketListFails ==
    ASSUME MarketInv, NEW i \in 1..Len(queue), Market!FailList(i)
    PROVE  MarketInv'
<1>1. /\ queue' = Market!Without(i) /\ queue[i].op \in {"list", "more", "data"}
      /\ listing' = FALSE /\ marketReading' = (marketReading /\ queue[i].op # "data")
      /\ triggering' = (triggering /\ queue[i].after # "sync")
      /\ purging' = (purging /\ queue[i].after # "purge") /\ marketSmooth' = FALSE
      /\ UNCHANGED <<db, run, query, marketFilter, timer, schemes, total, synced, lastSync,
                     scope, custom, purge, audit>>
  BY DEF Market!FailList, Market!ReadsList, Market!Finished, Market!server, Market!browse,
     Market!list, Market!status
<1>2. queue' \in Seq(SchemeRequests) /\ Market!Key' = Market!Key
  BY <1>1, Taken DEF Market!Key
<1>3. Market!MarketTypeOK'
  BY <1>1, <1>2 DEF MarketInv, Market!MarketTypeOK, PurgeDialogs, SchemeRequests
<1>4. queue[i].op # "data" => triggering' = triggering /\ purging' = purging
  BY <1>1, MarketTypes DEF MarketInv, IngestionOK
<1>5. IngestionOK(queue)'
  BY <1>1, <1>4, MarketTypes, IngestionAnswered
<1>6. LastReadOK(queue)' /\ StatusOK(queue)'
  BY <1>1 DEF LastReadOK, StatusOK
<1> QED BY <1>3, <1>5, <1>6 DEF MarketInv

LEMMA IngestedStep ==
    ASSUME MarketInv, NEW i \in 1..Len(queue), Market!Ingested(i)
    PROVE  MarketInv'
<1> DEFINE op == queue[i].op
           r == [Market!Request("data", queue[i].key, 1, {}) EXCEPT !.after = op]
           p == Market!Without(i)
<1>1. /\ op \in {"sync", "purge"} /\ queue' = Append(p, r)
      /\ IF op = "sync"
         THEN db' = db \union queue[i].amcs /\ run' = "completed" /\ UNCHANGED purge
         ELSE /\ db' = db \ queue[i].amcs /\ UNCHANGED run
              /\ purge' = [purge EXCEPT !.open = FALSE, !.typed = FALSE]
      /\ listing' = TRUE /\ marketReading' = TRUE
      /\ marketSmooth' = (marketSmooth /\ queue[i].key = Market!Key)
      /\ UNCHANGED <<query, marketFilter, timer, schemes, total, synced, lastSync,
                     triggering, purging, scope, custom, audit>>
  BY DEF Market!Ingested, Market!FetchMfData, Market!browse, Market!list, Market!status
<1>2. queue[i] \in SchemeRequests /\ Market!Key' = Market!Key
      /\ i \in DOMAIN queue
  BY <1>1, MarketTypes DEF Market!Key
<1>3. queue[i].key \in Market!Keys /\ queue[i].amcs \subseteq Amcs
  BY <1>2 DEF SchemeRequests
<1>4. r \in SchemeRequests /\ r.op = "data" /\ r.key = queue[i].key /\ r.from = 1
  BY <1>1, <1>2, <1>3, OnePage DEF Market!Request, SchemeRequests
<1>5. p \in Seq(SchemeRequests) /\ IngestionOK(p) /\ ~Busy(p)
  BY <1>1, Taken, TakenOK
<1>6. /\ purge' \in PurgeDialogs
      /\ ~purge'.open /\ db' \subseteq Amcs /\ run' \in {"none", "completed", "failed"}
  <2>1. CASE op = "sync"
    BY <1>1, <1>2, <1>3, <2>1, MarketTypes DEF MarketInv, IngestionOK, Market!MarketTypeOK, PurgeDialogs
  <2>2. CASE op # "sync"
    BY <1>1, <1>3, <2>2, MarketTypes DEF MarketInv, Market!MarketTypeOK, PurgeDialogs
  <2> QED BY <2>1, <2>2
<1> HIDE DEF op, r, p
<1>7. /\ queue' \in Seq(SchemeRequests) /\ DOMAIN queue' = 1..(Len(p) + 1)
      /\ queue'[Len(p) + 1] = r /\ Len(p) \in Nat
  BY <1>1, <1>4, <1>5, Sent
<1>8. Market!MarketTypeOK'
  BY <1>1, <1>2, <1>6, <1>7 DEF MarketInv, Market!MarketTypeOK, PurgeDialogs, SchemeRequests
<1>9. IngestionOK(queue)'
  BY <1>1, <1>4, <1>5, <1>6, IngestionSent
<1>10. LastReadOK(queue)'
  BY <1>1, <1>2, <1>4, <1>5, ReadSent
<1>11. StatusOK(queue)'
  <2>1. Len(p) + 1 \in DOMAIN queue'
    BY <1>7
  <2> QED BY <1>4, <1>7, <2>1 DEF StatusOK
<1> QED BY <1>8, <1>9, <1>10, <1>11 DEF MarketInv

SchemePages == [key : Market!Keys, page : 1..MaxPages]

\* A page read from where the list ends, or from the first with the list emptied, makes
\* the first pages again.
LEMMA PageTaken ==
    ASSUME MarketInv, NEW r \in SchemeRequests, r.op = "more" \/ r.from = 1
    PROVE  LET s == (IF r.op = "more" THEN schemes ELSE <<>>) \o Market!PageOf(r)
           IN  /\ s \in Seq(SchemePages)
               /\ (/\ r.key = Market!Key
                   /\ r.op = "more" => r.from = Len(schemes) + 1 /\ FirstPages)
                  => s = [n \in 1..Len(s) |-> [key |-> Market!Key, page |-> n]]
<1> DEFINE b == IF r.op = "more" THEN schemes ELSE <<>>
           e == [key |-> r.key, page |-> r.from]
           fits == r.key = Market!Key /\ (r.op = "more" => r.from = Len(schemes) + 1 /\ FirstPages)
<1>1. b \in Seq(SchemePages) /\ Len(b) \in Nat /\ DOMAIN b = 1..Len(b)
  BY MarketTypes, EmptySeq, LenProperties DEF SchemePages
<1>2. fits => /\ r.key = Market!Key /\ r.from = Len(b) + 1
              /\ \A n \in 1..Len(b) : b[n] = [key |-> Market!Key, page |-> n]
  <2>1. CASE r.op = "more"
    <3> SUFFICES ASSUME fits
                 PROVE  \A n \in 1..Len(schemes) : schemes[n] = [key |-> Market!Key, page |-> n]
      BY <2>1
    <3>1. schemes = [n \in 1..Len(schemes) |-> [key |-> Market!Key, page |-> n]]
      BY <2>1 DEF FirstPages
    <3> QED BY <3>1
  <2>2. CASE r.op # "more"
    <3>1. Len(b) = 0
      BY <2>2, EmptySeq
    <3> QED BY <2>2, <3>1
  <2> QED BY <2>1, <2>2
<1> HIDE DEF b
<1>3. ASSUME NEW s \in Seq(SchemePages), fits,
             \A n \in 1..Len(s) : s[n] = [key |-> Market!Key, page |-> n]
      PROVE  s = [n \in 1..Len(s) |-> [key |-> Market!Key, page |-> n]]
  <2>1. s = [n \in 1..Len(s) |-> s[n]]
    BY LenProperties
  <2> QED BY <1>3, <2>1
<1>4. CASE Market!PageOf(r) = <<>>
  <2>1. b \o <<>> = b
    BY <1>1, ConcatEmptySeq
  <2> QED BY <1>1, <1>2, <1>3, <1>4, <2>1 DEF b
<1>5. CASE Market!PageOf(r) = <<e>> /\ r.from \in 1..MaxPages
  <2>1. e \in SchemePages
    BY <1>5 DEF SchemePages, SchemeRequests
  <2>2. b \o <<e>> = Append(b, e)
    BY <1>1, <2>1, AppendIsConcat
  <2> DEFINE s == Append(b, e)
  <2>3. /\ s \in Seq(SchemePages) /\ Len(s) = Len(b) + 1 /\ s[Len(b) + 1] = e
        /\ \A n \in 1..Len(b) : s[n] = b[n]
    BY <1>1, <2>1, AppendProperties
  <2> HIDE DEF s
  <2>4. ASSUME fits PROVE s = [n \in 1..Len(s) |-> [key |-> Market!Key, page |-> n]]
    <3>1. e = [key |-> Market!Key, page |-> Len(b) + 1]
      BY <1>2, <2>4
    <3>2. \A n \in 1..Len(s) : n \in 1..Len(b) \/ n = Len(b) + 1
      BY <1>1, <2>3
    <3>3. \A n \in 1..Len(s) : s[n] = [key |-> Market!Key, page |-> n]
      BY <1>2, <2>3, <2>4, <3>1, <3>2
    <3> QED BY <1>3, <2>3, <2>4, <3>3
  <2> QED BY <1>5, <2>2, <2>3, <2>4 DEF b, s
<1>6. r.from <= Market!Found => r.from \in 1..MaxPages
  <2>1. Market!Found \in {0, MaxPages}
    BY DEF Market!Found
  <2>2. r.from \in 1..(MaxPages + 1)
    BY DEF SchemeRequests
  <2> QED BY <2>1, <2>2, OnePage
<1> QED BY <1>4, <1>5, <1>6 DEF Market!PageOf

\* Answers that come in order leave the last list read, or its pages on screen.
LEMMA LastReadTaken ==
    ASSUME MarketInv, NEW i \in 1..Len(queue), Market!ReadsList(queue[i]),
           \A j \in 1..(i - 1) : ~Market!ReadsList(queue[j]),
           queue' = Market!Without(i), UNCHANGED <<query, marketFilter, timer>>,
           marketSmooth' => marketSmooth,
           schemes' = (IF queue[i].op = "more" THEN schemes ELSE <<>>)
                      \o Market!PageOf(queue[i])
    PROVE  LastReadOK(queue)'
<1> SUFFICES ASSUME marketSmooth, timer = Market!NoKey
             PROVE  LastReadOK(queue)'
  BY Zenon DEF LastReadOK
<1> DEFINE p == Market!Without(i)
<1>1. /\ DOMAIN p = 1..(Len(queue) - 1)
      /\ \A j \in 1..(Len(queue) - 1) : p[j] = IF j < i THEN queue[j] ELSE queue[j + 1]
      /\ Len(queue) \in Nat /\ DOMAIN queue = 1..Len(queue) /\ queue[i] \in SchemeRequests
  BY Taken
<1>2. queue' = p /\ Market!Key' = Market!Key
  BY DEF Market!Key
<1> HIDE DEF p
<1>3. ASSUME \A j \in DOMAIN p : ~Market!ReadsList(p[j])
      PROVE  FirstPages'
  <2>1. \A j \in DOMAIN queue : j > i => ~Market!ReadsList(queue[j])
    <3> SUFFICES ASSUME NEW j \in DOMAIN queue, j > i PROVE ~Market!ReadsList(queue[j])
      OBVIOUS
    <3>1. j - 1 \in DOMAIN p /\ p[j - 1] = queue[j]
      BY <1>1
    <3> QED BY <1>3, <3>1
  <2>2. /\ queue[i].key = Market!Key
        /\ queue[i].op = "more" => queue[i].from = Len(schemes) + 1 /\ FirstPages
    BY <1>1, <2>1 DEF MarketInv, LastReadOK
  <2>3. queue[i].op = "more" \/ queue[i].from = 1
    BY <1>1 DEF MarketInv, IngestionOK, Market!ReadsList
  <2>4. schemes' = [n \in 1..Len(schemes') |-> [key |-> Market!Key, page |-> n]]
    BY <1>1, <2>2, <2>3, PageTaken
  <2> QED BY <1>2, <2>4 DEF FirstPages
<1>4. ASSUME NEW j \in DOMAIN p, Market!ReadsList(p[j]),
             \A k \in DOMAIN p : k > j => ~Market!ReadsList(p[k])
      PROVE  p[j].key = Market!Key /\ p[j].op # "more"
  <2>1. ~(j < i)
    BY <1>1, <1>4
  <2>2. j + 1 \in DOMAIN queue /\ p[j] = queue[j + 1] /\ i < j + 1 /\ i \in DOMAIN queue
    BY <1>1, <2>1
  <2>3. \A k \in DOMAIN queue : k > j + 1 => ~Market!ReadsList(queue[k])
    <3> SUFFICES ASSUME NEW k \in DOMAIN queue, k > j + 1 PROVE ~Market!ReadsList(queue[k])
      OBVIOUS
    <3>1. k - 1 \in DOMAIN p /\ k - 1 > j /\ p[k - 1] = queue[k]
      BY <1>1, <2>1
    <3> QED BY <1>4, <3>1
  <2> QED BY <1>4, <2>2, <2>3 DEF MarketInv, LastReadOK
<1> QED BY <1>2, <1>3, <1>4 DEF LastReadOK, Market!ReadsList

LEMMA ReceiveListStep ==
    ASSUME MarketInv, NEW i \in 1..Len(queue), Market!ReceiveList(i)
    PROVE  MarketInv'
<1> DEFINE r == queue[i]
<1>1. /\ queue' = Market!Without(i) /\ r.op \in {"list", "more", "data"}
      /\ schemes' = (IF r.op = "more" THEN schemes ELSE <<>>) \o Market!PageOf(r)
      /\ total' = Market!Found /\ listing' = FALSE
      /\ triggering' = (triggering /\ r.after # "sync")
      /\ purging' = (purging /\ r.after # "purge")
      /\ marketSmooth' = (marketSmooth /\ ~\E j \in 1..(i - 1) : Market!ReadsList(queue[j]))
      /\ UNCHANGED <<db, run, query, marketFilter, timer, scope, custom, audit>>
  BY DEF Market!ReceiveList, Market!ReadsList, Market!Finished, Market!server, Market!browse
<1>2. IF r.op = "data"
      THEN /\ synced' = db /\ lastSync' = run /\ marketReading' = FALSE
           /\ purge' = IF purge.target = Market!NoTarget /\ db # {}
                       THEN [purge EXCEPT !.target = CHOOSE a \in db : TRUE] ELSE purge
      ELSE UNCHANGED <<synced, lastSync, purge, marketReading>>
  BY DEF Market!ReceiveList, Market!TakeStatus, Market!status
<1>3. /\ r \in SchemeRequests /\ queue' \in Seq(SchemeRequests) /\ Market!Key' = Market!Key
      /\ i \in DOMAIN queue
  BY <1>1, Taken DEF Market!Key
<1> HIDE DEF r
<1>4. /\ purge' \in PurgeDialogs
      /\ purge'.open = purge.open
  <2>1. db # {} => (CHOOSE a \in db : TRUE) \in Amcs
    BY MarketTypes
  <2> QED BY <1>2, <2>1, MarketTypes DEF PurgeDialogs
<1>5. marketReading' = (marketReading /\ r.op # "data")
  BY <1>2, MarketTypes
<1>6. /\ r.op = "more" \/ r.from = 1
      /\ r.op # "data" => triggering' = triggering /\ purging' = purging
  BY <1>1, <1>3, MarketTypes DEF r, MarketInv, IngestionOK
<1>7. schemes' \in Seq(SchemePages) /\ total' \in 0..MaxPages
  <2>1. schemes' \in Seq(SchemePages)
    BY <1>1, <1>3, <1>6, PageTaken
  <2>2. Market!Found \in {0, MaxPages}
    BY DEF Market!Found
  <2> QED BY <1>1, <2>1, <2>2, OnePage
<1>8. Market!MarketTypeOK'
  <2>1. synced' \subseteq Amcs /\ lastSync' \in {"none", "completed", "failed"}
    BY <1>2 DEF MarketInv, Market!MarketTypeOK, PurgeDialogs
  <2> QED BY <1>1, <1>3, <1>4, <1>5, <1>7, <2>1 DEF MarketInv, Market!MarketTypeOK, PurgeDialogs,
            SchemeRequests, SchemePages
<1>9. IngestionOK(queue)'
  BY <1>1, <1>4, <1>5, <1>6, MarketTypes, IngestionAnswered DEF r
<1>10. LastReadOK(queue)'
  <2>1. CASE marketSmooth'
    BY <1>1, <2>1, LastReadTaken DEF r, Market!ReadsList
  <2>2. CASE ~marketSmooth'
    BY <2>2 DEF LastReadOK
  <2> QED BY <2>1, <2>2
<1>11. StatusOK(queue)'
  <2>1. CASE r.op = "data"
    BY <1>1, <1>2, <2>1 DEF StatusOK
  <2>2. CASE r.op # "data"
    <3>1. ASSUME NEW k \in DOMAIN queue, queue[k].op = "data"
          PROVE  \E j \in DOMAIN queue' : queue'[j].op = "data"
      <4>1. k # i
        BY <2>2, <3>1 DEF r
      <4> DEFINE j == IF k < i THEN k ELSE k - 1
      <4>2. /\ DOMAIN queue' = 1..(Len(queue) - 1) /\ DOMAIN queue = 1..Len(queue)
            /\ \A m \in 1..(Len(queue) - 1) :
                 queue'[m] = IF m < i THEN queue[m] ELSE queue[m + 1]
            /\ Len(queue) \in Nat
        BY <1>1, Taken
      <4>3. j \in DOMAIN queue' /\ queue'[j] = queue[k]
        BY <4>1, <4>2
      <4> QED BY <3>1, <4>3
    <3> QED BY <1>1, <1>2, <2>2, <3>1 DEF MarketInv, StatusOK
  <2> QED BY <2>1, <2>2
<1> QED BY <1>8, <1>9, <1>10, <1>11 DEF MarketInv

LEMMA MarketInductive == Spec => []MarketInv
<1>1. Init => MarketInv
  <2> SUFFICES ASSUME Init PROVE MarketInv
    OBVIOUS
  <2> DEFINE r == Market!Request("data", Market!Key, 1, {})
  <2>1. /\ db \in SUBSET Amcs /\ run = "none" /\ query \in Queries
        /\ marketFilter \in SchemeFilters /\ timer = Market!NoKey /\ schemes = <<>>
        /\ total = 0 /\ synced = {} /\ lastSync = "none" /\ listing = TRUE
        /\ marketReading = TRUE /\ triggering = FALSE /\ purging = FALSE
        /\ scope = "preset" /\ custom = {} /\ purge = Market!Closed /\ audit = FALSE
        /\ queue = <<r>> /\ marketSmooth = TRUE
    BY DEF Init, Market!Init
  <2>2. Market!Key \in Market!Keys /\ MaxPages \in Nat
    BY <2>1, PagesAssumption DEF Market!Key, Market!Keys
  <2>3. /\ r \in SchemeRequests /\ r.op = "data" /\ r.key = Market!Key /\ r.from = 1
        /\ r.after = "none"
    BY <2>2, OnePage DEF Market!Request, SchemeRequests
  <2> HIDE DEF r
  <2>4. queue \in Seq(SchemeRequests) /\ DOMAIN queue = {1} /\ queue[1] = r
    BY <2>1, <2>3
  <2>5. Market!MarketTypeOK
    <3>1. schemes \in Seq([key : Market!Keys, page : 1..MaxPages]) /\ total \in 0..MaxPages
      BY <2>1, <2>2, EmptySeq
    <3>2. purge \in PurgeDialogs
      BY <2>1 DEF PurgeDialogs, Market!Closed, Market!PurgeModes
    <3> QED BY <2>1, <2>2, <2>4, <3>1, <3>2
            DEF Market!MarketTypeOK, PurgeDialogs, Market!Scopes, SchemeRequests
  <2>6. ~purge.open
    BY <2>1 DEF Market!Closed
  <2>7. IngestionOK(queue) /\ LastReadOK(queue) /\ StatusOK(queue)
    BY <2>1, <2>3, <2>4, <2>6 DEF IngestionOK, LastReadOK, StatusOK, Market!ReadsList
  <2> QED BY <2>5, <2>7 DEF MarketInv
<1>2. ASSUME MarketInv, [Next]_vars PROVE MarketInv'
  <2>1. CASE UNCHANGED marketVars
    <3>1. UNCHANGED <<db, run, query, marketFilter, timer, schemes, total, synced, lastSync,
                      listing, marketReading, triggering, purging, scope, custom, purge, audit,
                      queue, marketSmooth>>
      BY <2>1 DEF marketVars
    <3>2. Market!MarketTypeOK' /\ IngestionOK(queue)'
      BY <1>2, <3>1, ReadsAsBefore DEF MarketInv, Market!MarketTypeOK, PurgeDialogs, IngestionOK
    <3> QED BY <1>2, <3>1, <3>2, ReadsAsBefore DEF MarketInv
  <2>2. CASE Market!Next
    BY <1>2, <2>2, MarketQuiet, PurgeDialogSteps, SearchStep, SearchTimerStep,
       SelectFilterStep, LoadMoreStep, SyncStep, PurgeStep, MarketRefresh, NotIngestedStep,
       MarketListFails, IngestedStep, ReceiveListStep DEF Market!Next
  <2> QED BY <1>2, <2>1, <2>2, MarketSteps
<1> QED BY <1>1, <1>2, PTL DEF Spec

\* For any searches, filters, AMCs and any number of clicks: at rest, the answers having
\* come in order, the schemes are the first pages of what is searched and filtered and the
\* status is the server's; and an ingestion and a purge never run side by side.
THEOREM SchemesAgree == Spec => []MarketAgrees
<1>1. MarketInv => MarketAgrees
  <2> SUFFICES ASSUME MarketInv
               PROVE  Market!SchemesMatch /\ Market!StatusCurrent /\ Market!OneIngestion
    BY DEF MarketAgrees
  <2>1. DOMAIN queue = 1..Len(queue) /\ Len(queue) \in Nat
    BY MarketTypes
  <2>2. queue = <<>> => DOMAIN queue = {}
    OBVIOUS
  <2>3. Market!SchemesMatch
    BY <2>2 DEF MarketInv, LastReadOK, FirstPages, Market!SchemesMatch
  <2>4. Market!StatusCurrent
    BY <2>2 DEF MarketInv, StatusOK, Market!StatusCurrent
  <2>5. Market!OneIngestion
    <3> SUFFICES ASSUME NEW i \in DOMAIN queue, NEW j \in DOMAIN queue,
                        {queue[i].op, queue[j].op} \subseteq {"sync", "purge"}
                 PROVE  i = j
      BY <2>1 DEF Market!OneIngestion
    <3>1. {queue[i].op, queue[j].op} \subseteq {"data", "sync", "purge"}
      OBVIOUS
    <3> QED BY <3>1 DEF MarketInv, IngestionOK
  <2> QED BY <2>3, <2>4, <2>5
<1> QED BY <1>1, MarketInductive, PTL
=============================================================================
