------------------------------- MODULE Pages -------------------------------
(***************************************************************************)
(* The pages of the browser application, one of them on screen at a time:   *)
(* App renders the landing page to a visitor and one route to a user, and a  *)
(* page that is left is unmounted with everything it keeps.  What pages      *)
(* share, the identity and the open sessions, is BrowserSession's.           *)
(***************************************************************************)
EXTENDS Naturals, Sequences, FiniteSets

CONSTANTS
    OnScreen,          \* the pages to visit
    \* the stock analyzer
    Symbols, None, MaxMounts, MaxStockAsks, CompareLimit, PaletteSize,
    \* its charts
    Metrics, Defaults, Stocks,
    \* the admin console: access and users
    People, Me, NoOne, MaxAdminAsks, MaxInFlight,
    \* the admin console: market data
    Queries, SchemeFilters, Amcs, MaxPages, MaxMarketClicks,
    \* the landing page
    Emails, NoEmail, MaxTries, MaxTimers,
    \* the budget dashboard
    StatementIds, NoStatement, Overall, MaxOps,
    \* its money flow chart
    NodeCount, MaxLinks, Samples,
    \* its category card
    Spending, DonutSlices,
    \* its accounts tab
    Accounts, NoAccount, Values, EmptyText, MaxEdits,
    \* the equity module
    Portfolios, NoPortfolio, Files, MaxEquityClicks,
    \* the mutual funds module: statements
    Papers, NoPaper, Ledgers, ActiveFunds, MaxMfClicks,
    \* the tax module: sessions
    Returns, NoReturn, MaxTaxClicks,
    \* the tax module: the open return
    Boxes, Scalars, MaxReturnClicks,
    \* the mutual funds module: comparison
    Funds, Indices, Schemes, Alike, Volatility, NoFigure, MaxPicks,
    MaxTime

\* What the theorems need of the constants: the "none" of a kind is not of the kind, the
\* bounds are numbers, the comparison's limit is within its palette, a compared series has
\* a point, a tax form a box, and there are statement ids to draw.
ASSUME PagesAssumption ==
    /\ None \notin Symbols /\ NoEmail \notin Emails /\ NoAccount \notin Accounts
    /\ NoPortfolio \notin Portfolios /\ NoPaper \notin Papers /\ NoReturn \notin Returns
    /\ NoOne \notin People /\ Me \in People /\ Boxes # {} /\ "none" \notin Boxes
    /\ StatementIds # {}
    /\ {MaxStockAsks, MaxTimers, MaxEdits, MaxPages, PaletteSize} \subseteq Nat
    /\ {MaxMounts, CompareLimit} \subseteq Nat \ {0} /\ CompareLimit <= PaletteSize
    /\ Defaults \subseteq Metrics /\ Defaults # {} /\ IsFiniteSet(Metrics)
    /\ \A d \in Stocks : d.points \in Nat /\ d.compared \in Nat \ {0}

VARIABLES
    page,
    \* the stock analyzer
    selected, stock, impact, error, compared, amount, stockTab, session,
    mount, seq, stockLoading, simulating, impactError, adding,
    stockCalls, asked, mixed, stockAsks,
    \* its charts
    data, chartTab, timeframe, chartType, benchmark, chartStatement,
    period, picked,
    \* the admin console: access and users
    account, request, accounts, requests, drafts, adminSaving, acting,
    inviting, suspending, adminDeleting, target, adminTyped, adminTab,
    adminCalls, adminSmooth, adminAsks,
    \* the admin console: market data
    db, run, query, marketFilter, timer, schemes, total, synced,
    lastSync, listing, marketReading, triggering, purging, scope,
    custom, purge, marketPanel, viewed, audit, queue, marketSmooth,
    marketClicks,
    \* the landing page
    state, mounted, email, password, landingLoading, banner, open,
    landingForm, sending, landingAnswer, timers, pending, late, tries,
    \* the budget dashboard
    ledger, sid, budgetFilter, activeTab, budgetDialog, cache, last,
    deletingId, selectedTxns, filterReview, editingId, budgetSaving,
    writes, clean, ops,
    \* its money flow chart
    links, colour, stack, dropped, root, fin,
    \* its category card
    flowFilter, categoryFilter, cardCategoryDrilldown, categoryFlowTab,
    categoryNatureFilter, categorySortBy, categorySearch,
    overviewAnswer, failed,
    \* its accounts tab
    stored, bankListed, editing, seed, bankForm, errors, bankSaving,
    bankDialog, bankSaves, bankTyped, theirs, edits,
    \* the equity module
    portfolios, equitySessionId, place, equityPanel, parsed, popover,
    kite, address, stash, issued, jump, equityCalls, opener, crossed,
    equityClicks,
    \* the mutual funds module: statements
    papers, mfSessionId, onHistory, pan, upload, rows, baseline,
    mfCalls, doomed, mfClicks,
    \* the tax module: sessions
    returns, taxSessionId, sessionExpired, summaries, exporting, popped,
    taxListed, taxForm, confirm, taxDeleting, taxCalls, expected,
    taxClicks,
    \* the tax module: the open return
    server, returnTab, regime, returnForm, focus, cached, invalid,
    returnReading, returnSaves, returnClicks, mishaps,
    \* the mutual funds module: comparison
    compareStatement, compareFunds, compareBench, history, histories,
    performance, sandbox, now, picks

analyzerVars == <<selected, stock, impact, error, compared, amount, stockTab,
    session, mount, seq, stockLoading, simulating, impactError, adding,
    stockCalls, asked, mixed, stockAsks>>
chartsVars == <<data, chartTab, timeframe, chartType, benchmark,
    chartStatement, period, picked>>
adminVars == <<account, request, accounts, requests, drafts, adminSaving,
    acting, inviting, suspending, adminDeleting, target, adminTyped, adminTab,
    adminCalls, adminSmooth, adminAsks>>
marketVars == <<db, run, query, marketFilter, timer, schemes, total, synced,
    lastSync, listing, marketReading, triggering, purging, scope, custom,
    purge, marketPanel, viewed, audit, queue, marketSmooth, marketClicks>>
landingVars == <<state, mounted, email, password, landingLoading, banner,
    open, landingForm, sending, landingAnswer, timers, pending, late, tries>>
budgetVars == <<ledger, sid, budgetFilter, activeTab, budgetDialog, cache,
    last, deletingId, selectedTxns, filterReview, editingId, budgetSaving,
    writes, clean, ops>>
sankeyVars == <<links, colour, stack, dropped, root, fin>>
overviewVars == <<flowFilter, categoryFilter, cardCategoryDrilldown,
    categoryFlowTab, categoryNatureFilter, categorySortBy, categorySearch,
    overviewAnswer, failed>>
bankVars == <<stored, bankListed, editing, seed, bankForm, errors, bankSaving,
    bankDialog, bankSaves, bankTyped, theirs, edits>>
equityVars == <<portfolios, equitySessionId, place, equityPanel, parsed,
    popover, kite, address, stash, issued, jump, equityCalls, opener, crossed,
    equityClicks>>
historyVars == <<papers, mfSessionId, onHistory, pan, upload, rows, baseline,
    mfCalls, doomed, mfClicks>>
taxVars == <<returns, taxSessionId, sessionExpired, summaries, exporting,
    popped, taxListed, taxForm, confirm, taxDeleting, taxCalls, expected,
    taxClicks>>
filingVars == <<server, returnTab, regime, returnForm, focus, cached, invalid,
    returnReading, returnSaves, returnClicks, mishaps>>
compareVars == <<compareStatement, compareFunds, compareBench, history,
    histories, performance, sandbox, now, picks>>
vars == <<page, analyzerVars, chartsVars, adminVars, marketVars, landingVars,
    budgetVars, sankeyVars, overviewVars, bankVars, equityVars, historyVars,
    taxVars, filingVars, compareVars>>

Analyzer == INSTANCE StockAnalyzer WITH
    MaxAsks <- MaxStockAsks, compare <- compared, tab <- stockTab,
    loading <- stockLoading, calls <- stockCalls, asks <- stockAsks
Charts == INSTANCE AnalyzerCharts WITH
    tab <- chartTab, statement <- chartStatement
Admin == INSTANCE AdminAccounts WITH
    MaxAsks <- MaxAdminAsks, saving <- adminSaving,
    deleting <- adminDeleting, typed <- adminTyped, tab <- adminTab,
    calls <- adminCalls, smooth <- adminSmooth, asks <- adminAsks
Market == INSTANCE AdminMarket WITH
    Filters <- SchemeFilters, MaxClicks <- MaxMarketClicks,
    filter <- marketFilter, reading <- marketReading,
    panel <- marketPanel, smooth <- marketSmooth, clicks <- marketClicks
Landing == INSTANCE LandingPage WITH
    loading <- landingLoading, form <- landingForm,
    answer <- landingAnswer
Budget == INSTANCE BudgetPage WITH
    Statements <- StatementIds, filter <- budgetFilter,
    dialog <- budgetDialog, saving <- budgetSaving
Sankey == INSTANCE SankeyCycles
Overview == INSTANCE BudgetOverview WITH
    Spend <- Spending, answer <- overviewAnswer
BankAccounts == INSTANCE BudgetAccounts WITH
    Blank <- EmptyText, listed <- bankListed, form <- bankForm,
    saving <- bankSaving, dialog <- bankDialog, saves <- bankSaves,
    typed <- bankTyped
Equity == INSTANCE EquityPortfolio WITH
    MaxClicks <- MaxEquityClicks, panel <- equityPanel,
    clicks <- equityClicks
History == INSTANCE StatementHistory WITH
    MaxClicks <- MaxMfClicks, compare <- baseline
Tax == INSTANCE TaxPanel WITH
    MaxClicks <- MaxTaxClicks, listed <- taxListed, form <- taxForm,
    deleting <- taxDeleting
Return == INSTANCE TaxReturn WITH
    tab <- returnTab, form <- returnForm, reading <- returnReading,
    saves <- returnSaves, clicks <- returnClicks
Compare == INSTANCE CompareFunds WITH
    Statements <- StatementIds, Missing <- NoFigure,
    statement <- compareStatement

PageNames == {"analyzer", "charts", "admin", "market", "landing", "budget", "sankey",
              "overview", "bank", "equity", "history", "tax", "return",
              "compare"}

\* The data a page that is not on screen would find: one choice of what its Init
\* leaves open.
Pinned ==
    /\ IF page = "analyzer" THEN TRUE ELSE session = FALSE
    /\ IF page = "charts" THEN TRUE
       ELSE data = CHOOSE d \in Stocks : TRUE
    /\ IF page = "admin" THEN TRUE
       ELSE request = [p \in People \ {Me} |-> "pending"]
    /\ IF page = "market" THEN TRUE
       ELSE /\ db = {} /\ query = CHOOSE q \in Queries : TRUE
            /\ marketFilter = CHOOSE f \in SchemeFilters : TRUE
    /\ IF page = "landing" THEN TRUE
       ELSE /\ state = [e \in Emails |-> "none"] /\ banner = "absent"
    /\ IF page = "budget" THEN TRUE ELSE ledger = [s \in StatementIds |-> "new"]
    /\ IF page = "sankey" THEN TRUE ELSE links = <<>>
    /\ IF page = "bank" THEN TRUE
       ELSE stored = [a \in Accounts |-> CHOOSE d \in BankAccounts!Details :
                                           d["label"] # EmptyText]
    /\ IF page = "equity" THEN TRUE
       ELSE portfolios = {} /\ equitySessionId = NoPortfolio
    /\ IF page = "history" THEN TRUE
       ELSE papers = {} /\ mfSessionId = NoPaper /\ pan = "none"
    /\ IF page = "tax" THEN TRUE ELSE returns = {} /\ taxSessionId = NoReturn
    /\ IF page = "compare" THEN TRUE
       ELSE /\ compareStatement = CHOOSE s \in StatementIds : TRUE
            /\ compareFunds = [s \in StatementIds |-> <<>>]

Init ==
    /\ page \in OnScreen \intersect PageNames
    /\ Pinned
    /\ Analyzer!Init /\ Charts!Init /\ Admin!Init /\ Market!Init /\ Landing!Init
    /\ Budget!Init /\ Sankey!Init /\ Overview!Init /\ BankAccounts!Init
    /\ Equity!Init /\ History!Init /\ Tax!Init /\ Return!Init /\ Compare!Init

\* A step is one of the page on screen; the others are at rest.
Next ==
    /\ UNCHANGED page
    /\ IF page = "analyzer" THEN TRUE ELSE UNCHANGED analyzerVars
    /\ IF page = "charts" THEN TRUE ELSE UNCHANGED chartsVars
    /\ IF page = "admin" THEN TRUE ELSE UNCHANGED adminVars
    /\ IF page = "market" THEN TRUE ELSE UNCHANGED marketVars
    /\ IF page = "landing" THEN TRUE ELSE UNCHANGED landingVars
    /\ IF page = "budget" THEN TRUE ELSE UNCHANGED budgetVars
    /\ IF page = "sankey" THEN TRUE ELSE UNCHANGED sankeyVars
    /\ IF page = "overview" THEN TRUE ELSE UNCHANGED overviewVars
    /\ IF page = "bank" THEN TRUE ELSE UNCHANGED bankVars
    /\ IF page = "equity" THEN TRUE ELSE UNCHANGED equityVars
    /\ IF page = "history" THEN TRUE ELSE UNCHANGED historyVars
    /\ IF page = "tax" THEN TRUE ELSE UNCHANGED taxVars
    /\ IF page = "return" THEN TRUE ELSE UNCHANGED filingVars
    /\ IF page = "compare" THEN TRUE ELSE UNCHANGED compareVars
    /\ \/ page = "analyzer" /\ Analyzer!Next
       \/ page = "charts" /\ Charts!Next
       \/ page = "admin" /\ Admin!Next
       \/ page = "market" /\ Market!Next
       \/ page = "landing" /\ Landing!Next
       \/ page = "budget" /\ Budget!Next
       \/ page = "sankey" /\ Sankey!Next
       \/ page = "overview" /\ Overview!Next
       \/ page = "bank" /\ BankAccounts!Next
       \/ page = "equity" /\ Equity!Next
       \/ page = "history" /\ History!Next
       \/ page = "tax" /\ Tax!Next
       \/ page = "return" /\ Return!Next
       \/ page = "compare" /\ Compare!Next

Spec == Init /\ [][Next]_vars

----------------------------------------------------------------------------
\* The shape of the page's state.
TypeOK ==
    /\ page \in PageNames
    /\ page = "analyzer" => Analyzer!TypeOK
    /\ page = "admin" => Admin!TypeOK
    /\ page = "market" => Market!MarketTypeOK
    /\ page = "landing" => Landing!LandingTypeOK
    /\ page = "budget" => Budget!BudgetTypeOK
    /\ page = "sankey" => Sankey!SankeyTypeOK
    /\ page = "overview" => Overview!OverviewTypeOK
    /\ page = "bank" => BankAccounts!AccountsTypeOK
    /\ page = "equity" => Equity!EquityTypeOK
    /\ page = "history" => History!StatementTypeOK
    /\ page = "tax" => Tax!TaxPanelTypeOK
    /\ page = "return" => Return!ReturnTypeOK
    /\ page = "compare" => Compare!CompareTypeOK

\* The promises of the page on screen; its module says what exactly each one means.

\* However selections, answers, remounts and additions interleave: the stock, the
\* spinner and the impact shown are those of the selection, and no stock is compared
\* twice or in another's colour.  However its charts' metrics and statements are
\* clicked, what was filed is drawn, and stand-in points span the compared series.
AnalyzerFollows ==
    /\ page = "analyzer" =>
        /\ Analyzer!ShownIsSelected /\ Analyzer!SpinnerIffWaiting
        /\ Analyzer!ImpactOfStock /\ Analyzer!CompareDistinct
    /\ page = "charts" => Charts!ChartNeverEmpty /\ Charts!SeriesSpanned

\* The analyzer implements LatestWins: only the answer to the latest request counts.
LatestSpec == Analyzer!LatestSpec

\* At rest the admin's lists are the server's; one request is decided at a time; the
\* delete dialog stays on the account being deleted.
AdminAgrees ==
    page = "admin" =>
        Admin!ListsCurrent /\ Admin!DecisionsExclusive /\ Admin!DeleteDialogStays

\* At rest the schemes are those of the search and filters on screen and the status is
\* the server's; one ingestion or purge runs at a time.
MarketAgrees ==
    page = "market" =>
        Market!SchemesMatch /\ Market!StatusCurrent /\ Market!OneIngestion

\* The access banner is about the address in the box, no failure leaves the card off,
\* and the request dialog neither sends twice nor keeps what was typed when closed.
LandingUsable ==
    page = "landing" =>
        /\ Landing!BannerOfBox /\ Landing!CardNotFrozen
        /\ Landing!OneSubmission /\ Landing!BlankWhenClosed

\* At rest the budget rows on screen are the server's, and the dashboard does not settle
\* on a statement that is gone.
BudgetSettles == page = "budget" => Budget!RowsCurrent /\ Budget!NoDeadSession

\* What a bulk update changes is on screen.
SelectionVisible == page = "budget" => Budget!SelectionVisible

\* The links the flow chart keeps form no cycle, only links that close one are dropped,
\* and every node that is left is used.
FlowPlottable ==
    page = "sankey" =>
        Sankey!KeptLinksDescend /\ Sankey!ChartPlottable /\ Sankey!OnlyBackEdgesDropped

\* The donut of the category card adds up to its list, a comparison's header to its rows,
\* and the fund called least volatile is.
FiguresAddUp ==
    /\ page = "overview" => Overview!DonutTellsList
    /\ page = "history" => History!HeaderAddsUp
    /\ page = "compare" => Compare!LeastIsLeast

\* With nothing on its way the category card's figures are of what its heading names, a
\* fund's row shows its own history, and the projection catches up with its sliders.
FiguresFollowChoice ==
    /\ page = "overview" => Overview!HeadingOfFigures
    /\ page = "compare" => Compare!HistoryOfRow /\ Compare!ProjectionCatchesUp

\* Saving an account's dialog overwrites no field the user left alone, and its answer
\* closes no other dialog.
AccountEditsApart == BankAccounts!OthersKept /\ BankAccounts!DialogNotClosedByOther

\* A login's token is sent once per mount, no deleted portfolio stays open, and the
\* overlays over the panel end.
EquityAgrees ==
    page = "equity" =>
        Equity!TokenSentOnce /\ Equity!DeletedIsClosed /\ Equity!OverlaysEnd

\* Within the panel an upload opens nothing over the user's choice.
UploadKeepsOpen == Equity!UploadKeepsOpen

\* No deleted statement stays open or compared against, and the upload form comes back
\* after a failure.
StatementsAgree ==
    page = "history" =>
        History!DeletedIsLeft /\ History!BaselineExists /\ History!FormNotStuck

\* The deletion dialog names the return being deleted, and a return the server does not
\* know does not stay open.  At rest the forms and figures of the open return are the
\* server's, and a save changes what was edited only.
TaxReturnAgrees ==
    /\ page = "tax" => Tax!DialogNamesDeletion /\ Tax!UnknownIsClosed
    /\ page = "return" => Return!ScreenIsServer /\ Return!SaveIsTheEdit
=============================================================================
