\* The landing page, the admin console, the budget, the statements and the comparison of funds.
CONSTANTS
    OnScreen = {"admin", "market", "landing", "budget", "sankey", "overview", "bank", "history", "compare"}
    Symbols = {a, b}
    None = none
    MaxMounts = 2
    MaxStockAsks = 3
    CompareLimit = 2
    PaletteSize = 2
    Metrics = {m1, m2}
    Defaults = {m1}
    Stocks <- MCStocks
    People = {me, p}
    Me = me
    NoOne = none
    MaxAdminAsks = 2
    MaxInFlight = 2
    Queries = {q0, q1}
    SchemeFilters = {f0, f1}
    Amcs = {"a", "b"}
    MaxPages = 2
    MaxMarketClicks = 2
    Emails = {e1, e2}
    NoEmail = none
    MaxTries = 2
    MaxTimers = 2
    StatementIds = {s1, s2}
    NoStatement = none
    Overall = overall
    MaxOps = 4
    NodeCount = 3
    MaxLinks = 3
    Samples <- MCSamples
    Spending <- MCSpend
    DonutSlices = 2
    Accounts = {c1}
    NoAccount = none
    Values = {v1, v2}
    EmptyText = blank
    MaxEdits = 4
    Portfolios = {s1, s2}
    NoPortfolio = none
    Files = {"holdings"}
    MaxEquityClicks = 2
    Papers = {s1, s2}
    NoPaper = none
    Ledgers <- MCLedgers
    ActiveFunds = {"f"}
    MaxMfClicks = 2
    Returns = {s1, s2}
    NoReturn = none
    MaxTaxClicks = 2
    Boxes = {b1, b2}
    Scalars = {b2}
    MaxReturnClicks = 4
    Funds <- MCFunds
    Indices = {"i1"}
    Schemes = {"p1"}
    Alike <- MCAlike
    Volatility <- MCVolatility
    NoFigure = missing
    MaxPicks = 2
    MaxTime = 2
SPECIFICATION MCSpec
INVARIANTS
    TypeOK AdminAgrees  LandingUsable
    BudgetSettles  StatementsAgree FlowPlottable
    FiguresAddUp 
PROPERTIES
    AccountEditsApart
CHECK_DEADLOCK FALSE
