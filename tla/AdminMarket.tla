---------------------------- MODULE AdminMarket ----------------------------
(***************************************************************************)
(* The market data tab of the admin console: ingesting and purging fund       *)
(* schemes, and browsing them through a search box, filters and Load more.   *)
(* Every handler is a closure of one render: it reads again with the search  *)
(* and the filters of the moment it was created, which for the search timer  *)
(* and for a long ingestion may be long past.                                *)
(*                                                                         *)
(* A key is what was searched and the AMC and category filters taken         *)
(* together; the list on screen is a sequence of pages, each of some key.    *)
(***************************************************************************)
EXTENDS Naturals, Sequences, FiniteSets

CONSTANTS
    Queries, Filters,
    Amcs,
    MaxPages,     \* pages every key has while the database has schemes
    MaxClicks     \* bound on what the admin starts

VARIABLES
    db, run,                    \* the server: AMCs it has, how the last sync ended
    query, filter,              \* mfSearchQuery; mfAmcFilter and mfCategoryFilter
    timer,                      \* the search its 300 ms timer will make, if any
    schemes, total,             \* mfSchemes in pages, mfSchemesTotal
    synced, lastSync,           \* syncedAmcs, the newest of mfStatus.recent_logs
    listing, reading, triggering, purging,   \* the loading flags
    scope, custom,              \* syncScope, customAmcs
    purge,                      \* the purge dialog
    panel, viewed, audit,       \* mfPanel, selectedScheme, auditExpanded
    queue,                      \* requests in flight, oldest first
    smooth,                     \* see ReceiveList (history)
    clicks

marketVars == <<db, run, query, filter, timer, schemes, total, synced, lastSync,
                listing, reading, triggering, purging, scope, custom, purge, panel,
                viewed, audit, queue, smooth, clicks>>
server == <<db, run>>
browse == <<query, filter, timer>>
list == <<schemes, total>>
status == <<synced, lastSync>>
flags == <<listing, reading, triggering, purging>>
controls == <<scope, custom, purge, panel, viewed, audit>>

Keys == Queries \X Filters
NoKey == <<>>
Key == <<query, filter>>
Scopes == {"preset", "custom"}
PurgeModes == {"amc", "all"}
NoTarget == ""
Closed == [open |-> FALSE, mode |-> "amc", target |-> NoTarget, typed |-> FALSE]

\* `from` is the page a list read starts at, `amcs` what an ingestion is about;
\* `after` is the ingestion whose handler waits for this read.
Request(op, key, from, amcs) ==
    [op |-> op, key |-> key, from |-> from, amcs |-> amcs, after |-> "none"]
ReadsList(r) == r.op \in {"list", "more", "data"}

Init ==
    /\ db \in SUBSET Amcs /\ run = "none"
    /\ query \in Queries /\ filter \in Filters /\ timer = NoKey
    /\ schemes = <<>> /\ total = 0 /\ synced = {} /\ lastSync = "none"
    /\ listing = TRUE /\ reading = TRUE /\ triggering = FALSE /\ purging = FALSE
    /\ scope = "preset" /\ custom = {} /\ purge = Closed
    /\ panel = "ingest" /\ viewed = NoKey /\ audit = FALSE
    /\ queue = <<Request("data", Key, 1, {})>>
    /\ smooth = TRUE /\ clicks = 0

----------------------------------------------------------------------------
\* What the tab offers.

\* Both dialogs cover the page.
Covered == purge.open \/ viewed # NoKey

\* Refresh in the status strip, Sync and Purge in the action summary.
CanRefresh == ~Covered /\ ~reading /\ ~triggering
Ingesting == ~Covered /\ panel = "ingest"

\* Bug: the buttons watch nothing.
CanIngestAlways == Ingesting

CanIngest == Ingesting /\ ~triggering /\ ~reading
Exploring == ~Covered /\ panel = "explore"
CanLoadMore == Exploring /\ Len(schemes) < total /\ ~listing

Click == clicks < MaxClicks /\ clicks' = clicks + 1

Put(r) == queue' = Append(queue, r)

----------------------------------------------------------------------------
\* Reading.

\* loadMfSchemes, up to its await.
LoadMfSchemes(key, op, from) ==
    /\ listing' = TRUE
    /\ Put(Request(op, key, from, {}))

\* fetchMfData, up to its await, as closed over when its key was current.
FetchMfData(key, after, rest) ==
    /\ listing' = TRUE /\ reading' = TRUE
    /\ queue' = Append(rest, [Request("data", key, 1, {}) EXCEPT !.after = after])

\* The tab is opened, or Refresh is clicked.
Refresh ==
    /\ CanRefresh /\ Click
    /\ FetchMfData(Key, "none", queue)
    /\ UNCHANGED <<server, browse, list, status, triggering, purging, controls, smooth>>

HandleSearchMf(q) ==
    /\ Exploring /\ q # query /\ Click
    /\ query' = q
    /\ timer' = <<q, filter>>
    /\ UNCHANGED <<server, filter, list, status, flags, controls, queue, smooth>>

SearchTimer ==
    /\ timer # NoKey
    /\ timer' = NoKey
    /\ LoadMfSchemes(timer, "list", 1)
    /\ smooth' = (smooth /\ timer = Key)
    /\ UNCHANGED <<server, query, filter, list, status, reading, triggering, purging,
                   controls, clicks>>

\* Bug: the schemes are read with the filter of the closure.
KeyWithStale(f) == Key

\* The state still has the old filter in this closure: the new one is passed on.
KeyWith(f) == <<query, f>>

HandleSelectFilter(f) ==
    /\ Exploring /\ Click
    /\ filter' = f
    /\ LoadMfSchemes(KeyWith(f), "list", 1)
    /\ UNCHANGED <<server, query, timer, list, status, reading, triggering, purging,
                   controls, smooth>>

\* Load more counts from the list on screen, whatever is on its way.
LoadMore ==
    /\ CanLoadMore /\ Click
    /\ LoadMfSchemes(Key, "more", Len(schemes) + 1)
    /\ smooth' = (smooth /\ ~\E i \in 1..Len(queue) : ReadsList(queue[i])
                         /\ timer = NoKey)
    /\ UNCHANGED <<server, browse, list, status, reading, triggering, purging, controls>>

\* The end of the handler of an ingestion; a sync shows the schemes then.
Finished(op) ==
    /\ triggering' = (triggering /\ op # "sync")
    /\ purging' = (purging /\ op # "purge")
    /\ panel' = IF op = "sync" THEN "explore" ELSE panel

Without(i) == SubSeq(queue, 1, i - 1) \o SubSeq(queue, i + 1, Len(queue))

Found == IF db = {} THEN 0 ELSE MaxPages
PageOf(r) == IF r.from <= Found THEN <<[key |-> r.key, page |-> r.from]>> ELSE <<>>

\* Bug: the sync log is taken from the answer and the AMCs forgotten.
TakeLogOnly == lastSync' = run /\ UNCHANGED synced

TakeStatus == synced' = db /\ lastSync' = run

\* The list is replaced, or continued by Load more; fetchMfData has the status
\* and the AMCs with it.  Answers in the order of the questions are smooth.
ReceiveList(i) ==
    LET r == queue[i]
    IN  /\ ReadsList(r)
        /\ schemes' = (IF r.op = "more" THEN schemes ELSE <<>>) \o PageOf(r)
        /\ total' = Found
        /\ listing' = FALSE
        /\ IF r.op = "data"
           THEN /\ TakeStatus
                /\ purge' = IF purge.target = NoTarget /\ db # {}
                            THEN [purge EXCEPT !.target = CHOOSE a \in db : TRUE]
                            ELSE purge
                /\ reading' = FALSE
           ELSE UNCHANGED <<status, purge, reading>>
        /\ queue' = Without(i)
        /\ smooth' = (smooth /\ ~\E j \in 1..(i - 1) : ReadsList(queue[j]))
        /\ Finished(r.after)
        /\ UNCHANGED <<server, browse, scope, custom, viewed, audit, clicks>>

FailList(i) ==
    LET r == queue[i]
    IN  /\ ReadsList(r)
        /\ listing' = FALSE
        /\ reading' = (reading /\ r.op # "data")
        /\ queue' = Without(i)
        /\ smooth' = FALSE
        /\ Finished(r.after)
        /\ UNCHANGED <<server, browse, list, status, scope, custom, purge, viewed,
                       audit, clicks>>

----------------------------------------------------------------------------
\* Ingesting and purging.

SetScope(s) ==
    /\ Ingesting /\ scope' = s /\ Click
    /\ UNCHANGED <<server, browse, list, status, flags, custom, purge, panel, viewed,
                   audit, queue, smooth>>

\* Add, a chip, Select all and Clear.
SelectCustom(amcs) ==
    /\ Ingesting /\ scope = "custom" /\ custom' = amcs /\ Click
    /\ UNCHANGED <<server, browse, list, status, flags, scope, purge, panel, viewed,
                   audit, queue, smooth>>

Wanted == IF scope = "custom" THEN custom ELSE Amcs

\* A custom sync without an AMC is refused.
HandleTriggerMfSync ==
    /\ CanIngest /\ Wanted # {} /\ Click
    /\ triggering' = TRUE
    /\ Put(Request("sync", Key, 1, Wanted))
    /\ UNCHANGED <<server, browse, list, status, listing, reading, purging, controls, smooth>>

PurgeDialog(d) ==
    /\ purge' = d /\ Click
    /\ UNCHANGED <<server, browse, list, status, flags, scope, custom, panel, viewed,
                   audit, queue, smooth>>

OpenPurge == CanIngest /\ PurgeDialog([purge EXCEPT !.open = TRUE])

\* Cancel keeps the mode, the target and what was typed.
EditPurge ==
    /\ purge.open
    /\ \/ ~purging /\ PurgeDialog([purge EXCEPT !.open = FALSE])
       \/ \E m \in PurgeModes : PurgeDialog([purge EXCEPT !.mode = m])
       \/ purge.mode = "all" /\ PurgeDialog([purge EXCEPT !.typed = ~@])
       \/ purge.mode = "amc" /\ \E a \in synced : PurgeDialog([purge EXCEPT !.target = a])

\* Everything wants PURGE typed, one AMC a target.
HandlePurge ==
    /\ purge.open /\ ~purging /\ Click
    /\ IF purge.mode = "all" THEN purge.typed ELSE purge.target # NoTarget
    /\ purging' = TRUE
    /\ Put(Request("purge", Key, 1, IF purge.mode = "all" THEN Amcs ELSE {purge.target}))
    /\ UNCHANGED <<server, browse, list, status, listing, reading, triggering, controls, smooth>>

\* The server did what was asked, and the handler reads everything again.
Ingested(i) ==
    LET r == queue[i]
    IN  /\ r.op \in {"sync", "purge"}
        /\ IF r.op = "sync"
           THEN db' = db \union r.amcs /\ run' = "completed" /\ UNCHANGED purge
           ELSE /\ db' = db \ r.amcs /\ UNCHANGED run
                /\ purge' = [purge EXCEPT !.open = FALSE, !.typed = FALSE]
        /\ FetchMfData(r.key, r.op, Without(i))
        /\ smooth' = (smooth /\ r.key = Key)
        /\ UNCHANGED <<browse, list, status, triggering, purging, scope, custom, panel,
                       viewed, audit, clicks>>

\* It failed, a sync with a log entry that is not read again.
NotIngested(i) ==
    LET r == queue[i]
    IN  /\ r.op \in {"sync", "purge"}
        /\ run' = IF r.op = "sync" THEN "failed" ELSE run
        /\ triggering' = (triggering /\ r.op # "sync")
        /\ purging' = (purging /\ r.op # "purge")
        /\ queue' = Without(i)
        /\ smooth' = FALSE
        /\ UNCHANGED <<db, browse, list, status, listing, reading, controls, clicks>>

----------------------------------------------------------------------------
\* Looking around.

Look(p, v, a) ==
    /\ panel' = p /\ viewed' = v /\ audit' = a
    /\ UNCHANGED <<server, browse, list, status, flags, scope, custom, purge, queue,
                   smooth, clicks>>

SetPanel(p) == ~Covered /\ Look(p, viewed, audit)

\* A row's View and the factsheet's Close.
View == \E i \in 1..Len(schemes) : Exploring /\ Look(panel, schemes[i], audit)
CloseFactsheet == viewed # NoKey /\ Look(panel, NoKey, audit)

ToggleAudit == ~Covered /\ Look(panel, viewed, ~audit)

Next ==
    \/ Refresh \/ SearchTimer \/ LoadMore
    \/ \E q \in Queries : HandleSearchMf(q)
    \/ \E f \in Filters : HandleSelectFilter(f)
    \/ \E s \in Scopes : SetScope(s)
    \/ \E amcs \in SUBSET Amcs : SelectCustom(amcs)
    \/ HandleTriggerMfSync \/ OpenPurge \/ EditPurge \/ HandlePurge
    \/ \E i \in 1..Len(queue) :
         ReceiveList(i) \/ FailList(i) \/ Ingested(i) \/ NotIngested(i)
    \/ \E p \in {"ingest", "explore"} : SetPanel(p)
    \/ View \/ CloseFactsheet \/ ToggleAudit

Spec == Init /\ [][Next]_marketVars

----------------------------------------------------------------------------
\* The shape of the state.
MarketTypeOK ==
    /\ db \subseteq Amcs /\ synced \subseteq Amcs /\ custom \subseteq Amcs
    /\ {run, lastSync} \subseteq {"none", "completed", "failed"}
    /\ Key \in Keys /\ timer \in Keys \union {NoKey}
    /\ schemes \in Seq([key : Keys, page : 1..MaxPages]) /\ total \in 0..MaxPages
    /\ {listing, reading, triggering, purging, audit, smooth} \subseteq BOOLEAN
    /\ scope \in Scopes
    /\ purge \in [open : BOOLEAN, mode : PurgeModes, target : Amcs \union {NoTarget},
                  typed : BOOLEAN]
    /\ queue \in Seq([op : {"list", "more", "data", "sync", "purge"}, key : Keys,
                      from : 1..(MaxPages + 1), amcs : SUBSET Amcs,
                      after : {"none", "sync", "purge"}])

\* When the answers have come in order, no timer or ingestion read with filters
\* picked since, and Load more was not clicked over another read, the list at rest
\* is the first pages, in order, of what is searched and filtered.
SchemesMatch ==
    (queue = <<>> /\ timer = NoKey /\ smooth) =>
        schemes = [i \in 1..Len(schemes) |-> [key |-> Key, page |-> i]]

\* A sync and a purge never run side by side, though each button watches only the
\* sync's own flag: the purge dialog and its read afterwards keep them apart.
OneIngestion ==
    ~\E i, j \in 1..Len(queue) : i # j /\ {queue[i].op, queue[j].op} \subseteq {"sync", "purge"}

\* At rest, and nothing having failed or been overtaken, the status strip and the
\* purge dialog's choice are the database's: each ingestion reads them again.
StatusCurrent ==
    (queue = <<>> /\ smooth) => synced = db /\ lastSync = run
=============================================================================
