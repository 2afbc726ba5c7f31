----------------------------- MODULE BudgetPage -----------------------------
(***************************************************************************)
(* The budget dashboard over its query cache: the statement and the filter    *)
(* picked make the key of the rows on screen, a write marks what is cached as  *)
(* stale, and a cached answer, a live fetch and the rows of the previous key   *)
(* decide together what is shown.  On top of it the statement and upload       *)
(* dialogs, and the transactions tab with its selection and inline edits.      *)
(*                                                                         *)
(* A statement holds one transaction, which has its name.  The overview, the   *)
(* categories and the transactions are three queries with one key; they are    *)
(* one here.  Nothing goes stale by age: the writes are what changes data.     *)
(***************************************************************************)
EXTENDS Naturals, FiniteSets

CONSTANTS
    Statements,
    NoStatement,
    Overall,        \* the consolidated view
    MaxOps          \* bound on what the user does

VARIABLES
    ledger,         \* the server: each statement's category, or that it is not there
    sid, filter, activeTab, dialog,
    cache,          \* per key: data, whether it is stale, error, live fetch
    last,           \* the key whose data stays up while another loads
    deletingId,
    selectedTxns, filterReview, editingId, saving,   \* the transactions tab
    writes,         \* writes in flight
    clean,          \* no older read was taken for fresh, no write got lost (history)
    ops

vars == <<ledger, sid, filter, activeTab, dialog, cache, last, deletingId,
          selectedTxns, filterReview, editingId, saving, writes, clean, ops>>

Categories == {"uncategorized", "food"}
Filters == {"all", "uncategorized"}
Sids == Statements \union {Overall}
Views == Sids \X Filters
List == <<Overall, "sessions">>     \* the key of the statement list
Keys == Views \union {List}
View == <<sid, filter>>
Active(k) == k \in {View, List}

There(s) == ledger[s] \in Categories
NoData == [s \in Statements |-> "no data"]
NoRows == [s \in Statements |-> "gone"]

\* What the server answers for a key: the rows of the statement that pass the
\* filter; for the list, the statements.
Rows(k) ==
    [s \in Statements |->
        IF ~There(s) \/ k[1] \notin {s, Overall} THEN "gone"
        ELSE IF k = List THEN "listed"
        ELSE IF k[2] \in {"all", ledger[s]} THEN ledger[s] ELSE "gone"]

\* A view whose statements are gone is a 404, whatever its filter.
Missing(k) == k # List /\ \A s \in Statements : There(s) => k[1] \notin {s, Overall}

----------------------------------------------------------------------------
\* The query cache.

Asked == [read |-> FALSE, rows |-> NoData]
Idle == [read |-> TRUE, rows |-> NoData]
Read(k) == [read |-> TRUE, rows |-> Rows(k)]
Lost == [read |-> TRUE, rows |-> [s \in Statements |-> "404"]]

Entry == [data |-> NoData, stale |-> FALSE, error |-> "no", fetch |-> Idle]

Asking(e) ==
    [e EXCEPT !.fetch = Asked, !.error = IF e.data = NoData THEN "no" ELSE @]

\* A key that comes on screen is fetched unless its data is fresh or on its way.
Observe(c, k) ==
    IF c[k].fetch = Idle /\ (c[k].data = NoData \/ c[k].stale)
    THEN [c EXCEPT ![k] = Asking(@)] ELSE c

\* What is on screen is asked again at once; a first load that is on its way is
\* left to end instead, and so is the fetch of a view that was left.
Restarts(e, active) == active /\ ~(e.fetch # Idle /\ e.data = NoData)

Invalidated(ks) ==
    [k \in Keys |->
        IF k \notin ks THEN cache[k]
        ELSE LET e == [cache[k] EXCEPT !.stale = TRUE]
             IN  IF Restarts(e, Active(k)) THEN Asking(e) ELSE e]

\* A fetch that read before the write and is left to end will pass for fresh.
TakenForFresh(ks) ==
    \E k \in ks : cache[k].fetch \notin {Idle, Asked} /\ ~Restarts(cache[k], Active(k))

\* Bug: a statement that is not there stays selected.
OnMissingNever(c, k) == k

\* useResetSessionOnMissing: a view that is not there falls back to the consolidated
\* one, unless it is that.
OnMissing(c, k) == IF c[k].error = "404" THEN <<Overall, k[2]>> ELSE k

\* Putting a view on screen, or leaving it there.
Showing(c, k) ==
    LET seen == IF k = View THEN c ELSE Observe(c, k)
        end == OnMissing(seen, k)
    IN  /\ sid' = end[1] /\ filter' = end[2]
        /\ cache' = IF end = View THEN seen ELSE Observe(seen, end)
        /\ last' = IF cache'[end].data # NoData THEN end
                   ELSE IF seen[k].data # NoData THEN k ELSE last

----------------------------------------------------------------------------
\* What is rendered.

\* The key whose rows are on screen: an error without data puts none up.
Source ==
    IF cache[View].data # NoData THEN View
    ELSE IF cache[View].error # "no" THEN List ELSE last
Shown == IF Source = List THEN NoRows ELSE cache[Source].data

HasNoStatements == cache[List].data = NoRows /\ cache[List].error = "no"

Body ==
    IF Source = List /\ cache[View].error = "no" THEN "spinner"
    ELSE IF HasNoStatements THEN "no statements"
    ELSE IF cache[View].error = "failed" THEN "error"
    ELSE IF Shown = NoRows THEN "empty"
    ELSE "tabs"

TabMounted == Body = "tabs" /\ activeTab = "transactions"

FilteredTransactions ==
    {s \in Statements : Shown[s] # "gone" /\ (filterReview => Shown[s] = "uncategorized")}

\* The rows of the table, which are others once a view or an answer replaces them.
Table == <<Source, [s \in FilteredTransactions |-> Shown[s]]>>

\* Bug: the ticks survive rows that were replaced.
RepaintKeepingTicks(w, review, editing, busy, chosen) ==
    IF TabMounted /\ TabMounted'
    THEN /\ writes' = w /\ filterReview' = review /\ editingId' = editing
         /\ saving' = busy /\ selectedTxns' = chosen
    ELSE /\ writes' = {[c EXCEPT !.mine = FALSE] : c \in w}
         /\ filterReview' = FALSE /\ editingId' = NoStatement /\ saving' = FALSE
         /\ selectedTxns' = {}

\* Every action ends with the page rendered again.  The tab keeps its state while it
\* stays mounted, its selection while the table stays the same; what it was saving
\* does not come back to it once it is gone.
Repaint(w, review, editing, busy, chosen) ==
    IF TabMounted /\ TabMounted'
    THEN /\ writes' = w /\ filterReview' = review /\ editingId' = editing
         /\ saving' = busy
         /\ selectedTxns' = IF Table' = Table THEN chosen ELSE {}
    ELSE /\ writes' = {[c EXCEPT !.mine = FALSE] : c \in w}
         /\ filterReview' = FALSE /\ editingId' = NoStatement /\ saving' = FALSE
         /\ selectedTxns' = {}

SameTab == Repaint(writes, filterReview, editingId, saving, selectedTxns)

Acts == ops < MaxOps /\ ops' = ops + 1 /\ Body # "spinner"

----------------------------------------------------------------------------
\* The page.

\* The chips of the filter bar, resetAllFilters among them.
SelectFilter(f) ==
    /\ dialog = "none" /\ f # filter /\ Acts
    /\ Showing(cache, <<sid, f>>)
    /\ UNCHANGED <<ledger, activeTab, dialog, deletingId, clean>>
    /\ SameTab

SelectTab(t) ==
    /\ dialog = "none" /\ t # activeTab /\ Acts
    /\ activeTab' = t
    /\ UNCHANGED <<ledger, sid, filter, dialog, cache, last, deletingId, clean>>
    /\ SameTab

OpenDialog(d) ==
    /\ dialog = "none" /\ d # "none" /\ Acts
    /\ ~\E w \in writes : d = "upload" /\ w.op = "upload"
    /\ dialog' = d
    /\ UNCHANGED <<ledger, sid, filter, activeTab, cache, last, deletingId, clean>>
    /\ SameTab

\* Only an upload on its way keeps its dialog open.
CloseDialog ==
    /\ dialog # "none" /\ Body # "spinner"
    /\ dialog = "upload" => ~\E w \in writes : w.op = "upload"
    /\ dialog' = "none"
    /\ UNCHANGED <<ledger, sid, filter, activeTab, cache, last, deletingId, clean, ops>>
    /\ SameTab

Listed == {s \in Statements : cache[List].data[s] = "listed"}

SelectSession(s) ==
    /\ dialog = "sessions" /\ s \in Listed \union {Overall} /\ Acts
    /\ dialog' = "none"
    /\ Showing(cache, <<s, filter>>)
    /\ UNCHANGED <<ledger, activeTab, deletingId, clean>>
    /\ SameTab

\* refreshAllData, the Retry of the error card.
Analytics == Views

Retry ==
    /\ dialog = "none" /\ Body = "error" /\ Acts
    /\ Showing(Invalidated(Analytics), View)
    /\ clean' = (clean /\ ~TakenForFresh(Analytics))
    /\ UNCHANGED <<ledger, activeTab, dialog, deletingId>>
    /\ SameTab

----------------------------------------------------------------------------
\* The writes.  A delete remembers the statement selected when it was asked for.

Write(op, on, to) ==
    [op |-> op, on |-> on, to |-> to, from |-> sid, mine |-> TRUE, done |-> FALSE]

HandleDelete(s) ==
    /\ dialog = "sessions" /\ s \in Listed /\ deletingId # s /\ Acts
    /\ deletingId' = s
    /\ UNCHANGED <<ledger, sid, filter, activeTab, dialog, cache, last, clean>>
    /\ Repaint(writes \union {Write("delete", {s}, "gone")}, filterReview, editingId,
               saving, selectedTxns)

HandleUpload(s) ==
    /\ dialog = "upload" /\ ledger[s] = "new" /\ Acts
    /\ ~\E w \in writes : w.op = "upload"
    /\ UNCHANGED <<ledger, sid, filter, activeTab, dialog, cache, last, deletingId, clean>>
    /\ Repaint(writes \union {Write("upload", {s}, "uncategorized")}, filterReview,
               editingId, saving, selectedTxns)

\* Save of the row in edit, Apply to the ticked rows that are in the table.
CanSave == dialog = "none" /\ TabMounted /\ ~saving

SaveEdit(cat) ==
    /\ CanSave /\ editingId \in FilteredTransactions /\ Acts
    /\ UNCHANGED <<ledger, sid, filter, activeTab, dialog, cache, last, deletingId, clean>>
    /\ Repaint(writes \union {Write("edit", {editingId}, cat)}, filterReview, editingId,
               TRUE, selectedTxns)

HandleBulkUpdate(cat) ==
    /\ CanSave /\ selectedTxns # {} /\ Acts
    /\ UNCHANGED <<ledger, sid, filter, activeTab, dialog, cache, last, deletingId, clean>>
    /\ Repaint(writes \union {Write("bulk", selectedTxns \intersect FilteredTransactions, cat)},
               filterReview, editingId, TRUE, selectedTxns)

Serve(w) ==
    /\ w \in writes /\ ~w.done
    /\ ledger' = [s \in Statements |->
                    IF s \in w.on /\ (There(s) \/ w.op = "upload") THEN w.to ELSE ledger[s]]
    /\ writes' = (writes \ {w}) \union {[w EXCEPT !.done = TRUE]}
    /\ UNCHANGED <<sid, filter, activeTab, dialog, cache, last, deletingId, selectedTxns,
                   filterReview, editingId, saving, clean, ops>>

\* Bug: an edit leaves the cached figures as they are.
HiddenByUploads(w) ==
    CASE w.op \in {"edit", "bulk"} -> {}
      [] OTHER -> Keys

Hidden(w) ==
    CASE w.op \in {"edit", "bulk"} -> Analytics
      [] OTHER -> Keys

\* Where the page is once a write is answered.
Landing(w) ==
    CASE w.op = "upload" -> <<Overall, "all">>
      [] w.op = "delete" /\ w.from \in w.on -> <<Overall, filter>>
      [] OTHER -> View

Succeed(w) ==
    /\ w \in writes /\ w.done
    /\ Showing(Invalidated(Hidden(w)), Landing(w))
    /\ clean' = (clean /\ ~TakenForFresh(Hidden(w)))
    /\ dialog' = IF w.op = "upload" THEN "none" ELSE dialog
    /\ deletingId' = IF w.op = "delete" THEN NoStatement ELSE deletingId
    /\ UNCHANGED <<ledger, activeTab, ops>>
    /\ Repaint(writes \ {w}, filterReview,
               IF w.op = "edit" /\ w.mine THEN NoStatement ELSE editingId,
               saving /\ ~(w.op \in {"edit", "bulk"} /\ w.mine),
               IF w.op = "bulk" /\ w.mine THEN {} ELSE selectedTxns)

\* The failure may hide that the server did it.
Fail(w) ==
    /\ w \in writes
    /\ clean' = (clean /\ ~w.done)
    /\ deletingId' = IF w.op = "delete" THEN NoStatement ELSE deletingId
    /\ UNCHANGED <<ledger, sid, filter, activeTab, dialog, cache, last, ops>>
    /\ Repaint(writes \ {w}, filterReview, editingId,
               saving /\ ~(w.op \in {"edit", "bulk"} /\ w.mine), selectedTxns)

----------------------------------------------------------------------------
\* The reads.

ServeFetch(k) ==
    /\ cache[k].fetch = Asked
    /\ cache' = [cache EXCEPT ![k].fetch = IF Missing(k) THEN Lost ELSE Read(k)]
    /\ UNCHANGED <<ledger, sid, filter, activeTab, dialog, last, deletingId, selectedTxns,
                   filterReview, editingId, saving, writes, clean, ops>>

Answered(e) ==
    IF e.fetch = Lost
    THEN [e EXCEPT !.error = "404", !.fetch = Idle]
    ELSE [data |-> e.fetch.rows, stale |-> FALSE, error |-> "no", fetch |-> Idle]

ReceiveFetch(k) ==
    /\ cache[k].fetch \notin {Idle, Asked}
    /\ Showing([cache EXCEPT ![k] = Answered(@)], View)
    /\ UNCHANGED <<ledger, activeTab, dialog, deletingId, clean, ops>>
    /\ SameTab

\* After its one retry.
FailFetch(k) ==
    /\ cache[k].fetch # Idle
    /\ cache' = [cache EXCEPT ![k].fetch = Idle, ![k].error = "failed"]
    /\ UNCHANGED <<ledger, sid, filter, activeTab, dialog, last, deletingId, clean, ops>>
    /\ SameTab

----------------------------------------------------------------------------
\* The transactions tab.

InTab == dialog = "none" /\ TabMounted /\ Acts
PageSame == UNCHANGED <<ledger, sid, filter, activeTab, dialog, cache, last, deletingId, clean>>

HandleSelectRow(s) ==
    /\ InTab /\ s \in FilteredTransactions /\ PageSame
    /\ Repaint(writes, filterReview, editingId, saving,
               IF s \in selectedTxns THEN selectedTxns \ {s} ELSE selectedTxns \union {s})

HandleSelectAll ==
    /\ InTab /\ FilteredTransactions # {} /\ PageSame
    /\ Repaint(writes, filterReview, editingId, saving,
               IF selectedTxns = FilteredTransactions THEN {} ELSE FilteredTransactions)

ToggleReview ==
    /\ InTab /\ PageSame
    /\ Repaint(writes, ~filterReview, editingId, saving, selectedTxns)

StartEdit(s) ==
    /\ InTab /\ s \in FilteredTransactions /\ s # editingId /\ PageSame
    /\ Repaint(writes, filterReview, s, saving, selectedTxns)

CancelEdit ==
    /\ InTab /\ editingId \in FilteredTransactions /\ PageSame
    /\ Repaint(writes, filterReview, NoStatement, saving, selectedTxns)

----------------------------------------------------------------------------
Init ==
    /\ ledger \in [Statements -> {"new", "uncategorized"}]
    /\ sid = Overall /\ filter = "all" /\ activeTab = "overview" /\ dialog = "none"
    /\ cache = [k \in Keys |-> IF k \in {<<Overall, "all">>, List} THEN Asking(Entry)
                               ELSE Entry]
    /\ last = List /\ deletingId = NoStatement
    /\ selectedTxns = {} /\ filterReview = FALSE /\ editingId = NoStatement /\ saving = FALSE
    /\ writes = {} /\ clean = TRUE /\ ops = 0

Next ==
    \/ \E f \in Filters : SelectFilter(f)
    \/ \E t \in {"overview", "transactions"} : SelectTab(t)
    \/ \E d \in {"sessions", "upload"} : OpenDialog(d)
    \/ CloseDialog \/ Retry
    \/ \E s \in Sids : SelectSession(s)
    \/ \E s \in Statements : HandleDelete(s) \/ HandleUpload(s) \/ HandleSelectRow(s)
                               \/ StartEdit(s)
    \/ \E c \in Categories : SaveEdit(c) \/ HandleBulkUpdate(c)
    \/ \E w \in writes : Serve(w) \/ Succeed(w) \/ Fail(w)
    \/ \E k \in Keys : ServeFetch(k) \/ ReceiveFetch(k) \/ FailFetch(k)
    \/ HandleSelectAll \/ ToggleReview \/ CancelEdit

Spec == Init /\ [][Next]_vars

----------------------------------------------------------------------------
Data == [Statements -> Categories \union {"no data", "gone", "listed"}]

\* The shape of the state; an error is no data.
BudgetTypeOK ==
    /\ ledger \in [Statements -> Categories \union {"new", "gone"}]
    /\ View \in Views /\ last \in Keys
    /\ cache \in [Keys -> [data : Data, stale : BOOLEAN, error : {"no", "404", "failed"},
                           fetch : [read : BOOLEAN, rows : Data \union {Lost.rows}]]]
    /\ selectedTxns \subseteq Statements
    /\ {deletingId, editingId} \subseteq Statements \union {NoStatement}
    /\ {filterReview, saving, clean} \subseteq BOOLEAN

\* Nothing the page waits for.
Settled == writes = {} /\ cache[View].fetch = Idle /\ cache[List].fetch = Idle

\* At rest the rows on screen are the server's, whatever was edited, uploaded, deleted
\* or picked in between; the numbers of deleted statements do not stay up.  Not so
\* when an older read passed for fresh, a write got lost or the list cannot be loaded.
RowsCurrent ==
    (Settled /\ clean /\ Body = "tabs" /\ cache[List].error = "no")
      => Shown = Rows(View)

\* The dashboard does not settle on a statement that is gone.
NoDeadSession ==
    (Settled /\ clean /\ sid # Overall /\ cache[View].error # "failed") => There(sid)

\* What is ticked is in the table: Apply changes no row the user cannot see.
SelectionVisible == selectedTxns \subseteq FilteredTransactions
=============================================================================
