---------------------------- MODULE CompareFunds ----------------------------
(***************************************************************************)
(* The comparison of funds of the open statement with each other and with      *)
(* peers: other schemes, and market indices.  The rows of its matrix come from  *)
(* three sources that answer by themselves: a price history for each asset,     *)
(* kept in one list by position; the performance of the statement's funds,      *)
(* matched by name; and that of the first index, for what an index's own         *)
(* history lacks.  The list is rebuilt only when its signature changes: the       *)
(* assets, and the milliseconds at which their histories came.                    *)
(*                                                                         *)
(* Both selections are stored for each statement.  A statement may be opened      *)
(* under the tab, by an upload answered late.  What a search finds is left open,   *)
(* as is which performance figures are cached.                                    *)
(***************************************************************************)
EXTENDS Naturals, Sequences, FiniteSets, SequencesExt

CONSTANTS
    Statements,
    Funds,             \* in the order the performance lists them
    Indices, Schemes,  \* the peers
    Alike,             \* pairs of funds whose names are mostly the same words
    Volatility,        \* of each asset; Missing where there is none
    Missing,
    MaxPicks,          \* bound on what is picked, slid and opened
    MaxTime            \* bound on the milliseconds

VARIABLES
    statement,
    compareFunds, compareBench,   \* by statement: the funds and the peers picked
    history,           \* by asset: whether it is being read, and when it came last
    histories,         \* the list, and its signature
    performance,       \* the statement's holdings and their performance
    sandbox,           \* what its sliders show, the projection's, and the timer's
    now,
    picks

vars == <<statement, compareFunds, compareBench, history, histories, performance,
          sandbox, now, picks>>

Held == ToSet(Funds)
Assets == Held \union Indices \union Schemes
Never == 0
Amounts == {1, 2}

NoTimer == 0
FreshSandbox == [open |-> FALSE, live |-> 1, settled |-> 1, timer |-> NoTimer]

----------------------------------------------------------------------------
\* What is computed on every render.

SelectedAssets == compareFunds[statement] \o compareBench[statement]

\* Bug: the milliseconds alone.
TimesOnly == [i \in DOMAIN SelectedAssets |-> history[SelectedAssets[i]].at]

HistorySignature ==
    [i \in DOMAIN SelectedAssets |-> <<SelectedAssets[i], history[SelectedAssets[i]].at>>]

DataOf(a) == <<a, history[a].at>>
Rebuilt == [signature |-> HistorySignature,
            data |-> [i \in DOMAIN SelectedAssets |-> DataOf(SelectedAssets[i])]]

\* The first index picked; without one, the default.
MarketBenchmark ==
    LET own == SelectSeq(compareBench[statement], LAMBDA p : p \in Indices)
    IN IF own = <<>> THEN Missing ELSE own[1]

Selected == ToSet(SelectedAssets)
HistoriesFetching == \E a \in Selected : history[a].reading

\* A skeleton covers the matrix until all of its sources answered, and a failure of
\* the performance replaces it.
MatrixShown ==
    /\ SelectedAssets # <<>> /\ ~HistoriesFetching /\ performance = "answered"

Render ==
    histories' = IF HistorySignature' = histories.signature THEN histories ELSE Rebuilt'

\* An asset that is shown is read, unless it was, or is being read.
Read(selected) ==
    [a \in Assets |->
       IF a \in selected \ Selected /\ history[a].at = Never
       THEN [history[a] EXCEPT !.reading = TRUE] ELSE history[a]]

\* The statement, or its selection, is another: so are the performance asked for and
\* the histories.
Show(s, funds, peers) ==
    /\ picks < MaxPicks /\ picks' = picks + 1
    /\ statement' = s
    /\ compareFunds' = [compareFunds EXCEPT ![s] = funds]
    /\ compareBench' = [compareBench EXCEPT ![s] = peers]
    /\ history' = Read(ToSet(funds) \union ToSet(peers))
    /\ performance' \in {"loading", "answered"}
    /\ UNCHANGED <<sandbox, now>>
    /\ Render

\* A visit before may have left funds picked.
Init ==
    /\ statement \in Statements
    /\ compareFunds \in [Statements -> {<<>>} \union {<<f>> : f \in Held}]
    /\ compareBench = [s \in Statements |-> <<>>]
    /\ history = [a \in Assets |-> [reading |-> a \in Selected, at |-> Never]]
    /\ histories = Rebuilt
    /\ performance = "loading" /\ sandbox = FreshSandbox
    /\ now = 1 /\ picks = 0

----------------------------------------------------------------------------
\* The user picks, or takes back.

Toggled(seq, x) == IF x \in ToSet(seq) THEN Remove(seq, x) ELSE Append(seq, x)

\* Not over a failure, which replaces the whole tab.
Pickers == performance \in {"loading", "answered"}

SetSelectedFunds(f) ==
    Pickers /\ Show(statement, Toggled(compareFunds[statement], f), compareBench[statement])

\* A peer that is picked is not offered again.
SetExtPeers(p) ==
    Pickers /\ Show(statement, compareFunds[statement], Toggled(compareBench[statement], p))

ClearFunds ==
    /\ Pickers /\ compareFunds[statement] # <<>>
    /\ Show(statement, <<>>, compareBench[statement])

ClearPeers ==
    /\ Pickers /\ compareBench[statement] # <<>>
    /\ Show(statement, compareFunds[statement], <<>>)

OpenStatement(s) ==
    /\ s # statement
    /\ Show(s, compareFunds[s], compareBench[s])

----------------------------------------------------------------------------
\* Answers, in any order, several in a millisecond.

Answered(a, h) ==
    /\ history' = [history EXCEPT ![a] = h]
    /\ UNCHANGED <<statement, compareFunds, compareBench, performance, sandbox, now, picks>>
    /\ Render

ReceiveHistory(a) ==
    /\ history[a].reading /\ history[a].at < now
    /\ Answered(a, [reading |-> FALSE, at |-> now])

HistoryFails(a) ==
    /\ history[a].reading
    /\ Answered(a, [history[a] EXCEPT !.reading = FALSE])

\* An upload or a restoration has what is shown read again.
Reread ==
    /\ Selected # {} /\ picks < MaxPicks /\ picks' = picks + 1
    /\ history' = [a \in Assets |-> IF a \in Selected
                                    THEN [history[a] EXCEPT !.reading = TRUE]
                                    ELSE history[a]]
    /\ performance' = "loading"
    /\ UNCHANGED <<statement, compareFunds, compareBench, sandbox, now>>
    /\ Render

ReceivePerformance ==
    /\ performance = "loading"
    /\ performance' \in {"answered", "expired", "failed"}
    /\ UNCHANGED <<statement, compareFunds, compareBench, history, histories, sandbox,
                   now, picks>>

RetryAnalytics ==
    /\ performance = "failed" /\ performance' = "loading"
    /\ UNCHANGED <<statement, compareFunds, compareBench, history, histories, sandbox,
                   now, picks>>

Tick ==
    /\ now < MaxTime /\ now' = now + 1
    /\ UNCHANGED <<statement, compareFunds, compareBench, history, histories, performance,
                   sandbox, picks>>

----------------------------------------------------------------------------
\* The projection sandbox: its sliders at once, its curve once they rest.

SetSandbox(sb) ==
    /\ sandbox' = sb
    /\ UNCHANGED <<statement, compareFunds, compareBench, history, histories, performance,
                   now>>

LaunchSandbox ==
    /\ MatrixShown
    /\ SetSandbox([sandbox EXCEPT !.open = ~@]) /\ UNCHANGED picks

\* Bug: the timer that runs is left to run.
TimerKept(v) == IF sandbox.timer = NoTimer THEN v ELSE sandbox.timer

\* The timer is set anew.
TimerFor(v) == v

Slide(v) ==
    /\ MatrixShown /\ sandbox.open /\ v # sandbox.live
    /\ picks < MaxPicks /\ picks' = picks + 1
    /\ SetSandbox([sandbox EXCEPT !.live = v, !.timer = TimerFor(v)])

Settle ==
    /\ sandbox.timer # NoTimer
    /\ SetSandbox([sandbox EXCEPT !.settled = sandbox.timer, !.timer = NoTimer])
    /\ UNCHANGED picks

Next ==
    \/ \E f \in Held : SetSelectedFunds(f)
    \/ \E p \in Indices \union Schemes : SetExtPeers(p)
    \/ \E s \in Statements : OpenStatement(s)
    \/ \E a \in Assets : ReceiveHistory(a) \/ HistoryFails(a)
    \/ \E v \in Amounts : Slide(v)
    \/ ClearFunds \/ ClearPeers \/ Reread \/ ReceivePerformance \/ RetryAnalytics
    \/ Tick \/ LaunchSandbox \/ Settle

Spec == Init /\ [][Next]_vars

----------------------------------------------------------------------------
\* The matrix.

IsExternal(a) == a \notin Held

\* The fund whose figures a fund's row shows: the first that is listed with its ISIN
\* or a name like its.
FundMatched(a) ==
    LET listed == SelectSeq(Funds, LAMBDA x : x \in ToSet(compareFunds[statement]))
    IN SelectSeq(listed, LAMBDA x : x = a \/ {x, a} \in Alike)[1]

\* The asset whose figures row i shows.
FiguresOf(i) ==
    LET a == SelectedAssets[i]
        hist == histories.data[i]
    IN IF ~IsExternal(a) THEN FundMatched(a)
       ELSE IF hist[2] # Never THEN hist[1]
       ELSE IF a \in Indices THEN MarketBenchmark ELSE Missing

VolatilityOf(i) == IF FiguresOf(i) = Missing THEN Missing ELSE Volatility[FiguresOf(i)]

\* Bug: a fund without a figure counts as a peer without one does.
VolValZero(i) == IF VolatilityOf(i) = Missing THEN 0 ELSE VolatilityOf(i)

VolVal(i) ==
    IF VolatilityOf(i) # Missing THEN VolatilityOf(i)
    ELSE IF IsExternal(SelectedAssets[i]) THEN 0 ELSE 100

\* The row of the "Lowest Volatility" card: of equals, the last.
LowestVol ==
    FoldLeft(LAMBDA prev, curr : IF VolVal(prev) < VolVal(curr) THEN prev ELSE curr, 1,
             [i \in DOMAIN SelectedAssets |-> i])

----------------------------------------------------------------------------
\* The shape of the state.
CompareTypeOK ==
    /\ statement \in Statements
    /\ \A s \in Statements : /\ ToSet(compareFunds[s]) \subseteq Held
                             /\ ToSet(compareBench[s]) \subseteq Indices \union Schemes
    /\ history \in [Assets -> [reading : BOOLEAN, at : 0..MaxTime]]
    /\ performance \in {"loading", "answered", "expired", "failed"}
    /\ sandbox \in [open : BOOLEAN, live : Amounts, settled : Amounts,
                    timer : Amounts \union {NoTimer}]

\* A row shows the price history of its own asset, as it was read last, whichever came
\* first and whatever was picked since.
HistoryOfRow ==
    MatrixShown => \A i \in DOMAIN SelectedAssets :
                     histories.data[i] = DataOf(SelectedAssets[i])

\* The least volatile asset is one whose volatility is known, and the least of those
\* that are, as long as no peer lacks its own.
LeastIsLeast ==
    (MatrixShown
     /\ \A i \in DOMAIN SelectedAssets :
          IsExternal(SelectedAssets[i]) => VolatilityOf(i) # Missing) =>
       LET known == {i \in DOMAIN SelectedAssets : VolatilityOf(i) # Missing}
       IN known # {} => /\ LowestVol \in known
                        /\ \A i \in known : VolatilityOf(LowestVol) <= VolatilityOf(i)

\* A projection that is not the sliders' is about to be.
ProjectionCatchesUp ==
    sandbox.settled # sandbox.live => sandbox.timer = sandbox.live
=============================================================================
