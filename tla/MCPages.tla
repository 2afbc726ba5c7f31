------------------------------ MODULE MCPages ------------------------------
(* A finite instance of Pages.                                              *)
EXTENDS Pages, Integers, TLC

\* Three categories in both flows: one of needs, two of wants.
MCSpend == {
    [category |-> 1, nature |-> "needs", flow |-> "debit", amount |-> 2, count |-> 1],
    [category |-> 2, nature |-> "wants", flow |-> "debit", amount |-> 3, count |-> 1],
    [category |-> 3, nature |-> "wants", flow |-> "debit", amount |-> 2, count |-> 2],
    [category |-> 3, nature |-> "wants", flow |-> "credit", amount |-> 1, count |-> 1]}

\* Links between three nodes, one of them a self link, one to a node that is not
\* there and one without value.
MCSamples ==
    ({[source |-> x, target |-> y, value |-> 1] : x, y \in 0..2}
      \ {[source |-> x, target |-> x, value |-> 1] : x \in 1..2})
      \union {[source |-> 0, target |-> 3, value |-> 1],
              [source |-> 2, target |-> 0, value |-> 0]}

\* Ledger differences: none; a purchase, a redemption and an unsigned word; a
\* reversed instalment.
MCLedgers == {
    {},
    {[fund |-> "f", words |-> "in", sign |-> 0, amount |-> 2],
     [fund |-> "g", words |-> "out", sign |-> -1, amount |-> -3],
     [fund |-> "f", words |-> "other", sign |-> 1, amount |-> 1]},
    {[fund |-> "f", words |-> "in", sign |-> -1, amount |-> -2]}}

\* Stocks with and without charts, filings and earnings; series as long as one
\* another, longer, shorter, and of one point.
MCStocks ==
    LET sheets == {"income_statement", "balance_sheet", "cash_flow"}
    IN
    {[frames |-> {}, filed |-> {}, history |-> "none", points |-> 1, compared |-> 3],
     [frames |-> {"1M", "1Y"}, filed |-> {"annual"} \X sheets,
      history |-> "earnings", points |-> 3, compared |-> 3],
     [frames |-> {"1M", "1Y"}, filed |-> {"annual", "quarterly"} \X sheets,
      history |-> "summary", points |-> 4, compared |-> 3],
     [frames |-> {}, filed |-> {<<"annual", "cash_flow">>},
      history |-> "none", points |-> 3, compared |-> 5]}

MCFunds == <<"f1", "f2">>
MCAlike == {}
\* The first fund has no volatility and the peers have the least.
MCVolatility ==
    [a \in {"f1", "f2", "i1", "p1"} |->
       CASE a = "f1" -> NoFigure
         [] a = "f2" -> 3
         [] a = "i1" -> 2
         [] a = "p1" -> 1]

First(S) == CHOOSE x \in S : TRUE
Ranks == <<"none", "pending", "approved">>
Rank(status) == CHOOSE i \in 1..Len(Ranks) : Ranks[i] = status

\* Ids, queries, filters and addresses are interchangeable: of the initial states that
\* differ by a renaming only, one is enough.
Canonical ==
    /\ query = First(Queries) /\ marketFilter = First(SchemeFilters)
    /\ \A e \in Emails : Rank(state[First(Emails)]) <= Rank(state[e])
    /\ \A s \in StatementIds : ledger[s] = "new" => ledger[First(StatementIds)] = "new"
    /\ portfolios # {} => First(Portfolios) \in portfolios
    /\ equitySessionId \in {NoPortfolio, First(Portfolios)}
    /\ papers # {} => First(Papers) \in papers
    /\ mfSessionId \in {NoPaper, First(Papers)}
    /\ returns # {} => First(Returns) \in returns
    /\ taxSessionId \in {NoReturn, First(Returns)}

MCInit == Init /\ Canonical

MCSpec == MCInit /\ [][Next]_vars
=============================================================================
