--------------------------- MODULE BudgetOverview ---------------------------
(***************************************************************************)
(* The category card of the budget overview.  What it shows depends on the    *)
(* dashboard's filters, on its own drilldown and flow tab, and on an answer    *)
(* that may still be that of an earlier combination; the donut shows the head  *)
(* of the list and the rest as one slice.                                     *)
(*                                                                         *)
(* Categories are numbered in name order.  A query is named by the category   *)
(* and the flow it asks for.  Which queries are cached is left open: a new     *)
(* combination may be at hand or on its way.                                  *)
(***************************************************************************)
EXTENDS Integers, Sequences, FiniteSets, FiniteSetsExt, SequencesExt

CONSTANTS
    Spend,          \* the rows: category, nature, flow, amount, count
    DonutSlices

Flows == {"debit", "credit"}
All == 0            \* no category, no search
Categories == {x.category : x \in Spend}
Natures == {"all"} \union {x.nature : x \in Spend}

VARIABLES
    flowFilter, categoryFilter,                        \* of the dashboard
    cardCategoryDrilldown, categoryFlowTab,
    categoryNatureFilter, categorySortBy, categorySearch,   \* of the card
    answer,         \* the query that was answered last
    failed          \* whether the query on screen failed

vars == <<flowFilter, categoryFilter, cardCategoryDrilldown, categoryFlowTab,
          categoryNatureFilter, categorySortBy, categorySearch, answer, failed>>

\* The card's own choice goes before the dashboard's.
EffectiveCategory ==
    IF cardCategoryDrilldown # All THEN cardCategoryDrilldown ELSE categoryFilter

\* Bug: the flow tab picks what is listed, not what is asked.
CategoryFiltersOfDashboard ==
    [category |-> EffectiveCategory,
     flow |-> IF flowFilter = "all" THEN "debit" ELSE flowFilter]

CategoryFilters ==
    [category |-> EffectiveCategory,
     flow |-> IF flowFilter = "all" THEN categoryFlowTab ELSE flowFilter]

NoQuery == [category |-> All, flow |-> "none"]
Loading == answer # CategoryFilters /\ ~failed

\* The last answer stays up while another is on its way, not over a failure.
Shown == IF failed THEN NoQuery ELSE answer

----------------------------------------------------------------------------
\* What the server answers: a category's own figures, or one slice for each.
Matching(q) ==
    {x \in Spend : x.flow = q.flow /\ q.category \in {All, x.category}}

IsDrilldown(q) == q.category # All /\ Matching(q) # {}
Slices(q) == IF q.category = All THEN Matching(q) ELSE {}
AllCategories(q) == {x.category : x \in {y \in Spend : y.flow = q.flow}}

IsCategoryDrilldown == IsDrilldown(Shown) /\ EffectiveCategory # All

\* The list: filtered by nature and search, in the order picked; the server's
\* order, by amount, breaks ties.
Before(a, b) ==
    LET byAmount == a.amount > b.amount
                      \/ (a.amount = b.amount /\ a.category < b.category)
    IN  CASE categorySortBy = "amount" -> byAmount
          [] categorySortBy = "count" -> a.count > b.count
                                           \/ (a.count = b.count /\ byAmount)
          [] categorySortBy = "name" -> a.category < b.category

ProcessedCategories ==
    SetToSortSeq({x \in Slices(Shown) :
                    /\ categoryNatureFilter \in {"all", x.nature}
                    /\ categorySearch \in {All, x.category}},
                 Before)

Total(rows) == FoldSeq(LAMBDA x, sum : x.amount + sum, 0, rows)

Other(tail) == [category |-> All, amount |-> Total(tail)]

\* Bug: Other comes on top of a full donut.
DonutDataOneTooMany ==
    LET rows == ProcessedCategories
    IN  IF Len(rows) <= DonutSlices THEN rows
        ELSE Append(SubSeq(rows, 1, DonutSlices),
                    Other(SubSeq(rows, DonutSlices + 1, Len(rows))))

DonutData ==
    LET rows == ProcessedCategories
    IN  IF Len(rows) <= DonutSlices THEN rows
        ELSE Append(SubSeq(rows, 1, DonutSlices - 1),
                    Other(SubSeq(rows, DonutSlices, Len(rows))))

\* The colour a row of the list has: its slice's, or that of Other.
InDonut(i) == Len(ProcessedCategories) <= DonutSlices \/ i < DonutSlices
RowColour(i) == IF InDonut(i) THEN i ELSE All
SliceColour(i) == IF DonutData[i].category = All THEN All ELSE i

----------------------------------------------------------------------------
Init ==
    /\ flowFilter = "all" /\ categoryFilter = All
    /\ cardCategoryDrilldown = All /\ categoryFlowTab = "debit"
    /\ categoryNatureFilter = "all" /\ categorySortBy = "amount"
    /\ categorySearch = All
    /\ answer = NoQuery /\ failed = FALSE

\* What a change of the query does to what is on screen: the old answer stays up
\* unless the new one is at hand.
Requery ==
    IF CategoryFilters' = CategoryFilters
    THEN UNCHANGED <<answer, failed>>
    ELSE answer' \in {answer, CategoryFilters'} /\ failed' = FALSE

card == <<cardCategoryDrilldown, categoryFlowTab, categoryNatureFilter,
          categorySortBy, categorySearch>>

\* The dashboard's filter bar.
\* Choosing what is chosen already changes nothing.
SetFlowFilter(f) ==
    /\ f # flowFilter /\ flowFilter' = f
    /\ UNCHANGED <<categoryFilter, card>> /\ Requery

SetCategoryFilter(c) ==
    /\ c # categoryFilter /\ categoryFilter' = c
    /\ UNCHANGED <<flowFilter, card>> /\ Requery

\* The card's picker offers the categories of the answer on screen.
PickCategory(c) ==
    /\ c \in {All} \union AllCategories(Shown)
    /\ cardCategoryDrilldown' = c
    /\ UNCHANGED <<flowFilter, categoryFilter, categoryFlowTab,
                   categoryNatureFilter, categorySortBy, categorySearch>>
    /\ Requery

\* The way out of a drilldown, which is there only with one on screen, drops the
\* dashboard's category too.
BackToAll ==
    /\ IsCategoryDrilldown
    /\ cardCategoryDrilldown' = All /\ categoryFilter' = All
    /\ UNCHANGED <<flowFilter, categoryFlowTab, categoryNatureFilter,
                   categorySortBy, categorySearch>>
    /\ Requery

SelectFlowTab(t) ==
    /\ categoryFlowTab' = t /\ categoryNatureFilter' = "all"
    /\ UNCHANGED <<flowFilter, categoryFilter, cardCategoryDrilldown,
                   categorySortBy, categorySearch>>
    /\ Requery

\* The toolbar is away while drilled down.
SetNature(n) ==
    /\ ~IsCategoryDrilldown
    /\ n # categoryNatureFilter /\ categoryNatureFilter' = n
    /\ UNCHANGED <<flowFilter, categoryFilter, cardCategoryDrilldown,
                   categoryFlowTab, categorySortBy, categorySearch, answer, failed>>

SetSort(by) ==
    /\ ~IsCategoryDrilldown
    /\ by # categorySortBy /\ categorySortBy' = by
    /\ UNCHANGED <<flowFilter, categoryFilter, cardCategoryDrilldown,
                   categoryFlowTab, categoryNatureFilter, categorySearch, answer,
                   failed>>

Search(c) ==
    /\ ~IsCategoryDrilldown
    /\ c # categorySearch /\ categorySearch' = c
    /\ UNCHANGED <<flowFilter, categoryFilter, cardCategoryDrilldown,
                   categoryFlowTab, categoryNatureFilter, categorySortBy, answer,
                   failed>>

\* A row drills into its category; the row of the effective one, which is there
\* while its answer is on its way, takes it back.
ClickRow(i) ==
    /\ ~IsCategoryDrilldown /\ i \in 1..Len(ProcessedCategories)
    /\ LET c == ProcessedCategories[i].category
       IN  cardCategoryDrilldown' = IF c = EffectiveCategory THEN All ELSE c
    /\ UNCHANGED <<flowFilter, categoryFilter, categoryFlowTab,
                   categoryNatureFilter, categorySortBy, categorySearch>>
    /\ Requery

\* Only the answer of the query on screen is shown; others go to the cache.
Answer ==
    /\ Loading
    /\ \/ answer' = CategoryFilters /\ UNCHANGED failed
       \/ failed' = TRUE /\ UNCHANGED answer
    /\ UNCHANGED <<flowFilter, categoryFilter, card>>

Next ==
    \/ \E f \in Flows \union {"all"} : SetFlowFilter(f)
    \/ \E c \in Categories \union {All} :
         SetCategoryFilter(c) \/ PickCategory(c) \/ Search(c)
    \/ BackToAll
    \/ \E t \in Flows : SelectFlowTab(t)
    \/ \E n \in Natures : SetNature(n)
    \/ \E by \in {"amount", "count", "name"} : SetSort(by)
    \/ \E i \in 1..Cardinality(Spend) : ClickRow(i)
    \/ Answer

Spec == Init /\ [][Next]_vars

----------------------------------------------------------------------------
\* The shape of the state.
OverviewTypeOK ==
    /\ flowFilter \in Flows \union {"all"} /\ categoryFlowTab \in Flows
    /\ {categoryFilter, cardCategoryDrilldown, categorySearch}
         \subseteq Categories \union {All}
    /\ categoryNatureFilter \in Natures
    /\ categorySortBy \in {"amount", "count", "name"}
    /\ answer \in [category : Categories \union {All}, flow : Flows] \union {NoQuery}
    /\ failed \in BOOLEAN

\* However the list is filtered and sorted, the donut adds up to the figure in its
\* middle, has no more slices than there are colours, and each row of the list has
\* the colour of the slice its money is in.
DonutTellsList ==
    LET rows == ProcessedCategories
        own == {i \in 1..Len(rows) : RowColour(i) # All}
        coloured(c) == {j \in 1..Len(DonutData) : SliceColour(j) = c}
    IN  /\ Len(DonutData) <= DonutSlices
        /\ Total(DonutData) = Total(rows)
        /\ \A i \in own : \E j \in coloured(RowColour(i)) :
             DonutData[j].category = rows[i].category
        /\ Cardinality(coloured(All)) = (IF Cardinality(own) < Len(rows) THEN 1 ELSE 0)

\* With nothing on its way, what the heading names is what the figures are of: the
\* category drilled into, and, unless the dashboard fixes the flow, the flow of the
\* tab.
HeadingOfFigures ==
    (~Loading /\ ~failed) =>
        /\ IsCategoryDrilldown => answer.category = EffectiveCategory
        /\ flowFilter = "all" => answer.flow = categoryFlowTab
=============================================================================
