--------------------------- MODULE StockAnalyzer ---------------------------
(***************************************************************************)
(* The stock analyzer tab.  Its store is a module-level object: it outlives  *)
(* the tab, so that coming back finds the analyzed stock again.  What guards *)
(* it against late answers, the request counter analysisSeq and the loading  *)
(* flags, belongs to one mount of the component and starts over with the     *)
(* next, while the calls an earlier mount made are still on their way.       *)
(*                                                                         *)
(* A stock is its symbol.  The text in the search box follows the selection  *)
(* and is left out; emptying it is Clear.                                    *)
(***************************************************************************)
EXTENDS Naturals, Sequences, FiniteSets

CONSTANTS
    Symbols,
    None,
    MaxMounts,      \* bound on how often the tab is opened
    MaxAsks,        \* bound on the calls it makes
    CompareLimit,   \* the 4 of addCompareStock
    PaletteSize     \* the length of COMPARE_COLORS

VARIABLES
    selected, stock, impact, error, compare, amount, tab,  \* the store
    session,      \* whether the app has an equity session
    mount,        \* the mount on screen
    seq,          \* seq[m]: analysisSeq of mount m
    loading, simulating, impactError, adding,              \* of the mount
    calls,        \* requests in flight
    asked,        \* what handleSelect was called with last (history)
    mixed,        \* impact calls overlapped or one was skipped (history)
    asks          \* calls made so far

store == <<selected, stock, impact, error, compare, amount, tab>>
local == <<loading, simulating, impactError, adding>>
vars == <<store, session, mount, seq, local, calls, asked, mixed, asks>>

Mounts == 1..MaxMounts
Tabs == {"overview", "compare", "other"}

\* A call remembers whether the amount was a good one when it was made.
Call(kind, s, m, n) ==
    [kind |-> kind, sym |-> s, mount |-> m, seq |-> n,
     good |-> kind = "analyze" /\ amount]
InFlight(kind) == {c \in calls : c.kind = kind}

Init ==
    /\ selected = None /\ stock = None /\ impact = None /\ error = FALSE
    /\ compare = <<>> /\ amount = TRUE /\ tab = "overview"
    /\ session \in BOOLEAN
    /\ mount = 1 /\ seq = [m \in Mounts |-> 0]
    /\ loading = FALSE /\ simulating = FALSE /\ impactError = FALSE /\ adding = None
    /\ calls = {} /\ asked = None /\ mixed = FALSE /\ asks = 0

\* The body of the page is there once a stock is loaded.
Loaded == stock # None /\ ~loading

----------------------------------------------------------------------------
\* Selecting a stock.

\* A symbol of the search box or of the ribbon's watchlist, a peer of the loaded
\* stock, or the selected one again.
Offered(s) == s \in Symbols

\* handleSelect up to its await, from the mount m'.
Asking(s) ==
    /\ asks < MaxAsks /\ asks' = asks + 1
    /\ selected' = s /\ error' = FALSE
    /\ loading' = TRUE
    /\ seq' = [seq EXCEPT ![mount'] = @ + 1]
    /\ asked' = s
    /\ calls' = calls \union {Call("analyze", s, mount', seq'[mount'])}

Select(s) ==
    /\ Offered(s)
    /\ UNCHANGED mount
    /\ Asking(s)
    /\ UNCHANGED <<stock, impact, compare, amount, tab, session, simulating,
                   impactError, adding, mixed>>

\* clear() leaves the request counter, and the answer on its way, alone.
Clear ==
    /\ selected' = None /\ stock' = None /\ impact' = None /\ error' = FALSE
    /\ tab' = "overview" /\ compare' = <<>>
    /\ UNCHANGED <<amount, session, mount, seq, local, calls, asked, mixed, asks>>

\* handleImpact for a stock, from mount m, ahead of its await; a bad amount or
\* no session end it there.
Simulating(s, m, good, rest) ==
    IF session /\ good
    THEN /\ calls' = rest \union {Call("impact", s, m, 0)}
         /\ simulating' = IF m = mount THEN TRUE ELSE simulating
         /\ impactError' = IF m = mount THEN FALSE ELSE impactError
         /\ mixed' = (mixed \/ InFlight("impact") # {})
    ELSE /\ calls' = rest
         /\ mixed' = (mixed \/ session)
         /\ UNCHANGED <<simulating, impactError>>

\* Bug: any answer is heard.
CurrentAlways(c) == TRUE

\* Bug: the one before the last is heard too.
CurrentByOne(c) == c.seq + 1 >= seq[c.mount]

\* Only the last request of its mount is heard.
Current(c) == c.seq = seq[c.mount]

\* Bug: any answer stops the spinner.
StopsSpinnerAlways(c) == c.mount = mount

StopsSpinner(c) == Current(c) /\ c.mount = mount

ReceiveAnalysis(c) ==
    /\ c \in InFlight("analyze")
    /\ \/ /\ Current(c)
          /\ stock' = c.sym
          /\ Simulating(c.sym, c.mount, c.good, calls \ {c})
          /\ UNCHANGED error
       \/ /\ Current(c)
          /\ error' = TRUE
          /\ calls' = calls \ {c}
          /\ UNCHANGED <<stock, simulating, impactError, mixed>>
       \/ /\ ~Current(c)
          /\ calls' = calls \ {c}
          /\ UNCHANGED <<stock, error, simulating, impactError, mixed>>
    /\ loading' = (loading /\ ~StopsSpinner(c))
    /\ UNCHANGED <<selected, impact, compare, amount, tab, session, mount, seq,
                   adding, asked, asks>>

----------------------------------------------------------------------------
\* The portfolio impact panel.

\* Without a session it asks for an upload; Simulate waits for its answer.
CanSimulate == Loaded /\ tab = "overview" /\ session /\ ~simulating

Simulate ==
    /\ CanSimulate /\ asks < MaxAsks /\ asks' = asks + 1
    /\ Simulating(stock, mount, amount, calls)
    /\ UNCHANGED <<store, session, mount, seq, loading, adding, asked>>

\* Bug: a simulation that failed says nothing.
FlaggedNever(c) == impactError

Flagged(c) == impactError \/ c.mount = mount

ReceiveImpact(c) ==
    /\ c \in InFlight("impact")
    /\ calls' = calls \ {c}
    /\ \/ impact' = c.sym /\ UNCHANGED impactError
       \/ impactError' = Flagged(c) /\ UNCHANGED impact
    /\ simulating' = (simulating /\ c.mount # mount)
    /\ UNCHANGED <<selected, stock, error, compare, amount, tab, session, mount,
                   seq, loading, adding, asked, mixed, asks>>

SetAmount ==
    /\ Loaded /\ tab = "overview" /\ session
    /\ amount' = ~amount
    /\ UNCHANGED <<selected, stock, impact, error, compare, tab, session, mount,
                   seq, local, calls, asked, mixed, asks>>

----------------------------------------------------------------------------
\* The compare tab.

Compared == {compare[i] : i \in 1..Len(compare)}

\* Search results without the stock and what is compared already; a peer chip is
\* also off while that peer loads.
CanAdd(s) == Loaded /\ tab = "compare" /\ s # stock /\ s \notin Compared

\* Bug: the answer is added without looking whether it is there.
AddCompareStockTwice(s) ==
    IF Len(compare) >= CompareLimit THEN Append(Tail(compare), s)
    ELSE Append(compare, s)

\* The colour of the i-th compared stock: badge, line and column head.
CompareColour(i) == (i - 1) % PaletteSize

AddCompareStock(s) ==
    IF s \in Compared THEN compare
    ELSE IF Len(compare) >= CompareLimit THEN Append(Tail(compare), s)
    ELSE Append(compare, s)

HandleAddCompareStock(s) ==
    /\ CanAdd(s) /\ asks < MaxAsks /\ asks' = asks + 1
    /\ adding' = s
    /\ calls' = calls \union {Call("compare", s, mount, 0)}
    /\ UNCHANGED <<store, session, mount, seq, loading, simulating, impactError,
                   asked, mixed>>

ReceiveCompare(c) ==
    /\ c \in InFlight("compare")
    /\ calls' = calls \ {c}
    /\ compare' \in {compare, AddCompareStock(c.sym)}
    /\ adding' = IF c.mount = mount THEN None ELSE adding
    /\ UNCHANGED <<selected, stock, impact, error, amount, tab, session, mount,
                   seq, loading, simulating, impactError, asked, mixed, asks>>

\* A filter: the others keep their order.
RemoveCompareStock(s) ==
    /\ Loaded /\ tab = "compare" /\ s \in Compared
    /\ LET others == {i \in 1..Len(compare) : compare[i] # s} IN
       \E f \in [1..Cardinality(others) -> others] :
         /\ \A i, j \in DOMAIN f : i < j => f[i] < f[j]
         /\ compare' = [i \in DOMAIN f |-> compare[f[i]]]
    /\ UNCHANGED <<selected, stock, impact, error, amount, tab, session, mount,
                   seq, local, calls, asked, mixed, asks>>

ClearCompareStocks ==
    /\ Loaded /\ tab = "compare" /\ compare # <<>>
    /\ compare' = <<>>
    /\ UNCHANGED <<selected, stock, impact, error, amount, tab, session, mount,
                   seq, local, calls, asked, mixed, asks>>

SetActiveSubTab(t) ==
    /\ Loaded /\ t # tab
    /\ tab' = t
    /\ UNCHANGED <<selected, stock, impact, error, compare, amount, session,
                   mount, seq, local, calls, asked, mixed, asks>>

----------------------------------------------------------------------------
\* The tab is left and opened again, perhaps through a ?symbol= link, which is
\* followed unless that stock is the one in the store.
Reopen(link) ==
    /\ mount < MaxMounts /\ mount' = mount + 1
    /\ simulating' = FALSE /\ impactError' = FALSE /\ adding' = None
    /\ IF link # None /\ link # stock
       THEN Asking(link)
       ELSE /\ loading' = FALSE
            /\ UNCHANGED <<selected, error, seq, asked, calls, asks>>
    /\ UNCHANGED <<stock, impact, compare, amount, tab, session, mixed>>

Receive(c) == ReceiveAnalysis(c) \/ ReceiveImpact(c) \/ ReceiveCompare(c)

Next ==
    \/ \E s \in Symbols : Select(s) \/ HandleAddCompareStock(s)
                            \/ RemoveCompareStock(s)
    \/ Clear \/ Simulate \/ SetAmount \/ ClearCompareStocks
    \/ \E t \in Tabs : SetActiveSubTab(t)
    \/ \E c \in calls : Receive(c)
    \/ \E s \in Symbols \union {None} : Reopen(s)

Spec == Init /\ [][Next]_vars

----------------------------------------------------------------------------
Maybe == Symbols \union {None}

\* The shape of the state.
TypeOK ==
    /\ selected \in Maybe /\ stock \in Maybe /\ impact \in Maybe
    /\ asked \in Maybe /\ adding \in Maybe
    /\ compare \in Seq(Symbols)
    /\ {error, amount, session, loading, simulating, impactError, mixed}
         \subseteq BOOLEAN
    /\ tab \in Tabs /\ mount \in Mounts /\ seq \in [Mounts -> Nat]
    /\ calls \subseteq [kind : {"analyze", "impact", "compare"}, sym : Symbols,
                        mount : Mounts, seq : Nat, good : BOOLEAN]
    /\ asks \in Nat

\* While the tab was never closed, a stock on screen with a selection and no error
\* is the selected one, however the answers to quick selections, clears and retries
\* were ordered.  A later mount counts its requests from zero again and cannot tell
\* the answers an earlier one still waits for.
ShownIsSelected ==
    (mount = 1 /\ Loaded /\ selected # None /\ ~error) => stock = selected

\* The spinner turns exactly while the latest request of the mount is out: no
\* superseded answer stops it and no failure leaves it on.
SpinnerIffWaiting ==
    loading <=> \E c \in InFlight("analyze") : c.mount = mount /\ Current(c)

\* The compared stocks are distinct and told apart by their colours, however many
\* additions of the same stock are in flight: the limit of the store is within the
\* palette of the tab.
CompareDistinct ==
    \A i, j \in 1..Len(compare) :
        i # j => compare[i] # compare[j] /\ CompareColour(i) # CompareColour(j)

\* One simulation at a time and none skipped, the impact panel shows the stock's
\* own simulation, an error or nothing.
ImpactOfStock ==
    (Loaded /\ session /\ ~mixed /\ mount = 1 /\ ~simulating /\ ~impactError)
      => impact \in {None, stock}

\* Until it is closed, the tab keeps the promise of LatestWins: what appears is
\* what was asked for last.
Latest == INSTANCE LatestWins
    WITH Keys <- Symbols,
         wanted <- IF mount = 1 THEN asked ELSE None,
         shown <- IF mount = 1 THEN stock ELSE None
LatestSpec == Latest!Spec
=============================================================================
