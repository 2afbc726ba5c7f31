-------------------------- MODULE ResidentSessions --------------------------
(***************************************************************************)
(* The two bounded in-process portfolio stores (mutual funds and equity),  *)
(* the durable session registry behind them, and every request handler     *)
(* that touches both.                                                      *)
(*                                                                         *)
(* A synchronous FastAPI handler runs on a worker thread.  What such a     *)
(* thread does while it holds a store's lock, and what one database        *)
(* transaction does, is one step here; between two such steps any other    *)
(* thread may run.  An idle worker picks up any request of any caller.     *)
(*                                                                         *)
(* A stored session is a Row; `issued' remembers every row ever committed, *)
(* so that a portfolio can still be compared with the upload it came from  *)
(* after its row is deleted.                                               *)
(***************************************************************************)
EXTENDS Naturals, FiniteSets, Recency

CONSTANTS
    Users,        \* account ids (users.id); never reused after a purge
    NoUser,       \* the anonymous caller, and the owner of an unowned record
    Sids,         \* the uuid4 session ids this run may draw
    NoSid,        \* a request that names no session yet
    Ledgers,      \* the uploaded ledgers dedup tells apart
    NoLedger,
    Threads,      \* worker threads
    MaxResident   \* MAX_RESIDENT_SESSIONS, per store

ASSUME ConstantsAssumption ==
    /\ NoUser \notin Users
    /\ NoSid \notin Sids
    /\ NoLedger \notin Ledgers
    /\ IsFiniteSet(Sids)
    /\ MaxResident \in Nat

VARIABLES
    users,     \* accounts that still have a users row
    rows,      \* the sessions table with its payloads
    issued,    \* every row ever committed (history)
    resident,  \* resident[st]: the entries of store st
    older,     \* older[st]: <<a, b>> when session a was used less recently than b
    job        \* job[t]: the request worker t is serving, or its last answer

vars == <<users, rows, issued, resident, older, job>>

Stores == {"mutual_funds", "equity"}
Callers == Users \union {NoUser}

Row   == [sid: Sids, store: Stores, owner: Callers, ledger: Ledgers]
Entry == [sid: Sids, owner: Callers, ledger: Ledgers, idle: BOOLEAN]

Job == [op: {"none", "get", "create", "delete", "purge", "logout", "clear"},
        step: {"idle", "probe", "owner", "load", "remember", "dedup", "save",
               "forget", "evict", "drop"},
        store: Stores,
        caller: Callers,
        sid: Sids \union {NoSid},
        ledger: Ledgers \union {NoLedger},
        owner: Callers,
        reply: {"none", "ok", "notfound", "failed"}]

NoJob == [op |-> "none", step |-> "idle", store |-> "mutual_funds",
          caller |-> NoUser, sid |-> NoSid, ledger |-> NoLedger,
          owner |-> NoUser, reply |-> "none"]

TypeOK ==
    /\ users \in SUBSET Users
    /\ rows \in SUBSET Row
    /\ issued \in SUBSET Row
    /\ resident \in [Stores -> SUBSET Entry]
    /\ older \in [Stores -> SUBSET (Sids \X Sids)]
    /\ job \in [Threads -> Job]

Init ==
    /\ users = Users
    /\ rows = {}
    /\ issued = {}
    /\ resident = [st \in Stores |-> {}]
    /\ older = [st \in Stores |-> {}]
    /\ job = [t \in Threads |-> NoJob]

-----------------------------------------------------------------------------
(* Ownership and the registry.                                             *)

\* An unowned record is anybody's; an owned one only its exact owner's.
OwnsRecord(caller, owner) == owner = NoUser \/ caller = owner

SidsOf(records) == {r.sid : r \in records}

\* The rows a dedup lookup finds.  The hash is salted with the domain and the
\* owner, and the lookup compares the owner with IS NOT DISTINCT FROM.
Duplicates(st, owner, ledger) ==
    {r \in rows : r.store = st /\ r.owner = owner /\ r.ledger = ledger}

\* Bug: no unique index behind the dedup lookup.
ConflictsNever(st, owner, ledger) == {}

\* The rows the unique index (data_hash, user_id) rejects a new one against.
\* PostgreSQL counts every NULL owner as distinct, so unowned rows never clash.
Conflicts(st, owner, ledger) ==
    IF owner = NoUser THEN {} ELSE Duplicates(st, owner, ledger)

-----------------------------------------------------------------------------
(* One store: an OrderedDict, most recently used last, bounded.            *)

\* Bug: the eviction loop lets the store grow one past its cap.
RememberOneTooMany(st, e) ==
    LET all   == {x \in resident[st] : x.sid # e.sid} \union {e}
        order == MoveToEnd(older[st], SidsOf(all), e.sid)
    IN  \E keep \in SUBSET all :
          /\ Cardinality(keep) = IF Cardinality(all) > MaxResident + 1
                                 THEN MaxResident ELSE Cardinality(all)
          /\ \A x \in all \ keep, y \in keep : <<x.sid, y.sid>> \in order
          /\ resident' = [resident EXCEPT ![st] = keep]
          /\ older' = [older EXCEPT ![st] = Among(order, SidsOf(keep))]

\* Insert e as most recently used, then pop the least recently used entries
\* until the store is back within its budget.
Remember(st, e) ==
    LET all   == {x \in resident[st] : x.sid # e.sid} \union {e}
        order == MoveToEnd(older[st], SidsOf(all), e.sid)
    IN  \E keep \in SUBSET all :
          /\ Cardinality(keep) = IF Cardinality(all) > MaxResident
                                 THEN MaxResident ELSE Cardinality(all)
          /\ \A x \in all \ keep, y \in keep : <<x.sid, y.sid>> \in order
          /\ resident' = [resident EXCEPT ![st] = keep]
          /\ older' = [older EXCEPT ![st] = Among(order, SidsOf(keep))]

\* Refresh last_accessed and the position of a resident entry.
Touch(st, e) ==
    /\ resident' = [resident EXCEPT ![st] = (@ \ {e}) \union {[e EXCEPT !.idle = FALSE]}]
    /\ older' = [older EXCEPT ![st] = MoveToEnd(@, SidsOf(resident[st]), e.sid)]

Discard(st, doomed) ==
    /\ resident' = [resident EXCEPT ![st] = @ \ doomed]
    /\ older' = [older EXCEPT ![st] = Among(@, SidsOf(resident[st] \ doomed))]

-----------------------------------------------------------------------------
(* Requests.                                                               *)

At(t, op, step) == job[t].op = op /\ job[t].step = step

Begin(t, request) ==
    /\ job[t].step = "idle"
    /\ job' = [job EXCEPT ![t] = request]
    /\ UNCHANGED <<users, rows, issued, resident, older>>

Goto(t, step)   == job' = [job EXCEPT ![t].step = step]

\* A finished request keeps what its answer says: the id, and for a portfolio
\* served the ledger in it.  "notfound" is a 404, "failed" a 503 or a 500.
Serve(t, s, l) ==
    job' = [job EXCEPT ![t] = [@ EXCEPT !.step = "idle", !.reply = "ok", !.sid = s,
                                        !.ledger = l, !.owner = NoUser]]
Answer(t, what) == job' = [job EXCEPT ![t] = [NoJob EXCEPT !.reply = what]]

\* A session id is not secret to the model: any caller may name any issued id.
BeginGet(t) ==
    \E st \in Stores, u \in Callers, s \in SidsOf(issued) :
        Begin(t, [NoJob EXCEPT !.op = "get", !.step = "probe", !.store = st,
                               !.caller = u, !.sid = s])

\* An equity upload insists on a signed-in caller, a mutual-fund one does not.
\* Bound: no upload starts unless it is sure to find an undrawn session id.
BeginCreate(t) ==
    /\ Cardinality(Sids) > Cardinality(SidsOf(issued))
         + Cardinality({x \in Threads : job[x].op = "create" /\ job[x].step # "idle"})
    /\ \E st \in Stores, u \in Callers, l \in Ledgers :
        /\ st = "equity" => u # NoUser
        /\ Begin(t, [NoJob EXCEPT !.op = "create", !.step = "dedup", !.store = st,
                                  !.caller = u, !.owner = u, !.ledger = l])

BeginDelete(t) ==
    \E u \in Callers, s \in SidsOf(issued) :
        Begin(t, [NoJob EXCEPT !.op = "delete", !.step = "owner",
                               !.caller = u, !.sid = s])

\* DELETE /accounts/me, or an administrator deleting the account `caller'.
BeginPurge(t) ==
    \E u \in Users :
        Begin(t, [NoJob EXCEPT !.op = "purge", !.step = "evict", !.caller = u])

BeginLogout(t) ==
    \E u \in Users :
        Begin(t, [NoJob EXCEPT !.op = "logout", !.step = "evict", !.caller = u])

BeginClear(t) == Begin(t, [NoJob EXCEPT !.op = "clear", !.step = "evict"])

-----------------------------------------------------------------------------
(* get_session.                                                            *)

\* Only the equity store applies the idle timeout on read.
Expired(st, e) == st = "equity" /\ e.idle

ServeResident(t) ==
    LET st == job[t].store IN
    /\ At(t, "get", "probe")
    /\ \E e \in resident[st] :
         /\ e.sid = job[t].sid
         /\ ~Expired(st, e)
         /\ OwnsRecord(job[t].caller, e.owner)
         /\ Touch(st, e)
         /\ Serve(t, e.sid, e.ledger)
    /\ UNCHANGED <<users, rows, issued>>

DenyResident(t) ==
    LET st == job[t].store IN
    /\ At(t, "get", "probe")
    /\ \E e \in resident[st] :
         /\ e.sid = job[t].sid
         /\ ~Expired(st, e)
         /\ ~OwnsRecord(job[t].caller, e.owner)
    /\ Answer(t, "notfound")
    /\ UNCHANGED <<users, rows, issued, resident, older>>

MissResident(t) ==
    LET st   == job[t].store
        held == {e \in resident[st] : e.sid = job[t].sid}
    IN
    /\ At(t, "get", "probe")
    /\ \A e \in held : Expired(st, e)
    /\ Discard(st, held)
    /\ Goto(t, "owner")
    /\ UNCHANGED <<users, rows, issued>>

\* Bug: a failed owner lookup is taken for "nothing to authorize".
AuthorizeGetOpen(t) ==
    /\ At(t, "get", "owner")
    /\ \/ \E r \in rows :
            /\ r.sid = job[t].sid
            /\ OwnsRecord(job[t].caller, r.owner)
            /\ job' = [job EXCEPT ![t].step = "load", ![t].owner = r.owner]
       \/ /\ \A r \in rows : r.sid = job[t].sid => ~OwnsRecord(job[t].caller, r.owner)
          /\ Answer(t, "notfound")
       \/ Goto(t, "load")
    /\ UNCHANGED <<users, rows, issued, resident, older>>

\* The registry says who owns the session; a lookup that fails denies with 503.
AuthorizeGet(t) ==
    /\ At(t, "get", "owner")
    /\ \/ \E r \in rows :
            /\ r.sid = job[t].sid
            /\ OwnsRecord(job[t].caller, r.owner)
            /\ job' = [job EXCEPT ![t].step = "load", ![t].owner = r.owner]
       \/ /\ \A r \in rows : r.sid = job[t].sid => ~OwnsRecord(job[t].caller, r.owner)
          /\ Answer(t, "notfound")
       \/ Answer(t, "failed")
    /\ UNCHANGED <<users, rows, issued, resident, older>>

\* Bug: payloads outlive the registry row and are read without it.
LoadPayloadOrphan(t) ==
    /\ At(t, "get", "load")
    /\ \/ \E r \in issued :
            /\ r.sid = job[t].sid
            /\ job' = [job EXCEPT ![t].step = "remember", ![t].ledger = r.ledger]
       \/ Answer(t, "notfound")
       \/ Answer(t, "failed")
    /\ UNCHANGED <<users, rows, issued, resident, older>>

\* load_session reports a database error like an absent row; a payload that
\* does not decrypt raises.
LoadPayload(t) ==
    /\ At(t, "get", "load")
    /\ \/ \E r \in rows :
            /\ r.sid = job[t].sid
            /\ job' = [job EXCEPT ![t].step = "remember", ![t].ledger = r.ledger]
       \/ Answer(t, "notfound")
       \/ Answer(t, "failed")
    /\ UNCHANGED <<users, rows, issued, resident, older>>

\* Bug: the entry does not carry the owner it was authorized for.
RememberUnowned(t) ==
    /\ job[t].step = "remember"
    /\ Remember(job[t].store, [sid |-> job[t].sid, owner |-> NoUser,
                               ledger |-> job[t].ledger, idle |-> FALSE])
    /\ Serve(t, job[t].sid, job[t].ledger)
    /\ UNCHANGED <<users, rows, issued>>

\* The last step of get_session after a miss and of create_session.
RememberPortfolio(t) ==
    /\ job[t].step = "remember"
    /\ Remember(job[t].store, [sid |-> job[t].sid, owner |-> job[t].owner,
                               ledger |-> job[t].ledger, idle |-> FALSE])
    /\ Serve(t, job[t].sid, job[t].ledger)
    /\ UNCHANGED <<users, rows, issued>>

-----------------------------------------------------------------------------
(* create_session.                                                         *)

\* Bug: the equity store caches a duplicate under no id of the registry.
AdoptNothing(t, s) ==
    IF job[t].store = "equity"
    THEN Goto(t, "remember")
    ELSE Serve(t, s, job[t].ledger)

\* An upload that turns out to be stored already: the mutual-fund store returns
\* the id, the equity store also makes the new portfolio resident under it.
Adopt(t, s) ==
    IF job[t].store = "equity"
    THEN job' = [job EXCEPT ![t].step = "remember", ![t].sid = s]
    ELSE Serve(t, s, job[t].ledger)

CheckDuplicate(t) ==
    LET found == Duplicates(job[t].store, job[t].caller, job[t].ledger) IN
    /\ At(t, "create", "dedup")
    /\ \/ \E r \in found : Adopt(t, r.sid)
       \/ found = {} /\ Goto(t, "save")
       \/ Answer(t, "failed")
    /\ UNCHANGED <<users, rows, issued, resident, older>>

\* Bug: an upload that loses the insert goes on under the id it drew itself.
SaveSessionOwnId(t) ==
    LET j     == job[t]
        clash == Conflicts(j.store, j.caller, j.ledger)
    IN
    /\ At(t, "create", "save")
    /\ \/ \E s \in Sids \ SidsOf(issued) :
            LET new == IF clash = {} /\ j.caller \in users \union {NoUser}
                       THEN {[sid |-> s, store |-> j.store, owner |-> j.caller,
                              ledger |-> j.ledger]}
                       ELSE {}
            IN  /\ rows' = rows \union new
                /\ issued' = issued \union new
                /\ job' = [job EXCEPT ![t].step = "remember", ![t].sid = s]
       \/ /\ Answer(t, "failed")
          /\ UNCHANGED <<rows, issued>>
    /\ UNCHANGED <<users, resident, older>>

\* One transaction: insert, or adopt the row that won.  It fails when the
\* database does, and when the owner's users row is gone (foreign key).
SaveSession(t) ==
    LET j     == job[t]
        clash == Conflicts(j.store, j.caller, j.ledger)
    IN
    /\ At(t, "create", "save")
    /\ \/ /\ clash = {}
          /\ j.caller \in users \union {NoUser}
          /\ \E s \in Sids \ SidsOf(issued) :
               LET r == [sid |-> s, store |-> j.store, owner |-> j.caller,
                         ledger |-> j.ledger]
               IN  /\ rows' = rows \union {r}
                   /\ issued' = issued \union {r}
                   /\ job' = [job EXCEPT ![t].step = "remember", ![t].sid = s]
       \/ /\ \E r \in clash : Adopt(t, r.sid)
          /\ UNCHANGED <<rows, issued>>
       \/ /\ Answer(t, "failed")
          /\ UNCHANGED <<rows, issued>>
    /\ UNCHANGED <<users, resident, older>>

-----------------------------------------------------------------------------
(* Deletion, purge, logout and cache clearing: each asks the registered     *)
(* stores one after the other, under each store's own lock, and only then   *)
(* touches the database.                                                    *)

AuthorizeDelete(t) ==
    /\ At(t, "delete", "owner")
    /\ \/ \E r \in rows :
            /\ r.sid = job[t].sid
            /\ OwnsRecord(job[t].caller, r.owner)
            /\ Goto(t, "forget")
       \/ /\ \A r \in rows : r.sid = job[t].sid => ~OwnsRecord(job[t].caller, r.owner)
          /\ Answer(t, "notfound")
       \/ Answer(t, "failed")
    /\ UNCHANGED <<users, rows, issued, resident, older>>

\* Go on to the next registered store, or past the last one.
NextStore(t, done) ==
    IF job[t].store = "mutual_funds"
    THEN job' = [job EXCEPT ![t].store = "equity"]
    ELSE done

ForgetSession(t) ==
    LET st == job[t].store IN
    /\ At(t, "delete", "forget")
    /\ Discard(st, {e \in resident[st] : e.sid = job[t].sid})
    /\ NextStore(t, Goto(t, "drop"))
    /\ UNCHANGED <<users, rows, issued>>

DeleteRow(t) ==
    /\ At(t, "delete", "drop")
    /\ \/ /\ rows' = {r \in rows : r.sid # job[t].sid}
          /\ Answer(t, "ok")
       \/ /\ Answer(t, "failed")
          /\ UNCHANGED rows
    /\ UNCHANGED <<users, issued, resident, older>>

\* Bug: the purge knows of one store only.
EvictUserOneStore(t) ==
    LET st == job[t].store IN
    /\ job[t].op \in {"purge", "logout"} /\ job[t].step = "evict"
    /\ Discard(st, {e \in resident[st] : e.owner = job[t].caller})
    /\ IF job[t].op = "purge" THEN Goto(t, "drop") ELSE Answer(t, "ok")
    /\ UNCHANGED <<users, rows, issued>>

EvictUser(t) ==
    LET st == job[t].store IN
    /\ job[t].op \in {"purge", "logout"} /\ job[t].step = "evict"
    /\ Discard(st, {e \in resident[st] : e.owner = job[t].caller})
    /\ NextStore(t, IF job[t].op = "purge" THEN Goto(t, "drop") ELSE Answer(t, "ok"))
    /\ UNCHANGED <<users, rows, issued>>

\* DELETE FROM users cascades to the account's sessions and their payloads.
DeleteAccount(t) ==
    /\ At(t, "purge", "drop")
    /\ \/ /\ users' = users \ {job[t].caller}
          /\ rows' = {r \in rows : r.owner # job[t].caller}
          /\ Answer(t, "ok")
       \/ /\ Answer(t, "failed")
          /\ UNCHANGED <<users, rows>>
    /\ UNCHANGED <<issued, resident, older>>

ClearStore(t) ==
    /\ At(t, "clear", "evict")
    /\ Discard(job[t].store, resident[job[t].store])
    /\ NextStore(t, Answer(t, "ok"))
    /\ UNCHANGED <<users, rows, issued>>

-----------------------------------------------------------------------------
(* Time, the janitor, and a restart of the process.                        *)

\* SESSION_TTL_HOURS pass since e was last used, hence since anything older was.
GoIdle(st, e) ==
    /\ ~e.idle
    /\ \A x \in resident[st] : <<x.sid, e.sid>> \in older[st] => x.idle
    /\ resident' = [resident EXCEPT ![st] = (@ \ {e}) \union {[e EXCEPT !.idle = TRUE]}]
    /\ UNCHANGED <<users, rows, issued, older, job>>

\* Bug: the equity store never registers its purge with the janitor.
PurgeExpiredFunds(st) ==
    LET expired == {e \in resident[st] : e.idle} IN
    /\ st = "mutual_funds" /\ expired # {}
    /\ Discard(st, expired)
    /\ UNCHANGED <<users, rows, issued, job>>

PurgeExpired(st) ==
    LET expired == {e \in resident[st] : e.idle} IN
    /\ expired # {}
    /\ Discard(st, expired)
    /\ UNCHANGED <<users, rows, issued, job>>

\* A deploy or a crash: memory and every request in flight are gone.
Restart ==
    /\ resident' = [st \in Stores |-> {}]
    /\ older' = [st \in Stores |-> {}]
    /\ job' = [t \in Threads |-> NoJob]
    /\ UNCHANGED <<users, rows, issued>>

-----------------------------------------------------------------------------

Arrive(t) ==
    BeginGet(t) \/ BeginCreate(t) \/ BeginDelete(t)
      \/ BeginPurge(t) \/ BeginLogout(t) \/ BeginClear(t)

Proceed(t) ==
    \/ ServeResident(t) \/ DenyResident(t) \/ MissResident(t)
    \/ AuthorizeGet(t) \/ LoadPayload(t) \/ RememberPortfolio(t)
    \/ CheckDuplicate(t) \/ SaveSession(t)
    \/ AuthorizeDelete(t) \/ ForgetSession(t) \/ DeleteRow(t)
    \/ EvictUser(t) \/ DeleteAccount(t) \/ ClearStore(t)

Next ==
    \/ \E t \in Threads : Arrive(t) \/ Proceed(t)
    \/ \E st \in Stores : \E e \in resident[st] : GoIdle(st, e)
    \/ \E st \in Stores : PurgeExpired(st)
    \/ Restart

Spec == Init /\ [][Next]_vars

\* A worker finishes the request it serves; the janitor sweeps for ever.
FairSpec ==
    /\ Spec
    /\ \A t \in Threads : WF_vars(Proceed(t))
    /\ \A st \in Stores : WF_vars(PurgeExpired(st))

-----------------------------------------------------------------------------
(* Properties.                                                             *)

\* A store never holds more portfolios than its cap, whatever mix of uploads
\* and rehydrations fills it (_remember evicts down to MAX_RESIDENT_SESSIONS).
ResidentBounded ==
    \A st \in Stores : Cardinality(resident[st]) <= MaxResident

\* A resident portfolio is the one its session id was issued for: the right
\* owner is on the entry and the right ledger in it, even when the row has been
\* deleted since and nothing else can name the owner (_remember's docstring).
ResidentFaithful ==
    \A st \in Stores : \A e \in resident[st] :
      \E r \in issued : r.sid = e.sid /\ r.owner = e.owner /\ r.ledger = e.ledger

\* get_session hands a portfolio only to the account it was stored for (or to
\* anybody if it was stored for nobody), and it is that session's portfolio,
\* whichever of memory and registry answered and whatever was deleted meanwhile.
ServedToOwner ==
    \A t \in Threads :
      (job[t].op = "get" /\ job[t].reply = "ok") =>
        \E r \in issued : /\ r.sid = job[t].sid
                          /\ r.ledger = job[t].ledger
                          /\ OwnsRecord(job[t].caller, r.owner)

\* The id create_session returns was committed for this caller and this ledger,
\* in this domain - also when the upload lost a race against its duplicate and
\* never stored the id it drew (docstring of equity create_session).
CreatedIdIsRegistered ==
    \A t \in Threads :
      (job[t].op = "create" /\ job[t].reply = "ok") =>
        \E r \in issued : /\ r.sid = job[t].sid
                          /\ r.store = job[t].store
                          /\ r.owner = job[t].caller
                          /\ r.ledger = job[t].ledger

\* However many uploads of one ledger race, its signed-in owner has one row.
OwnedUploadsDedup ==
    \A r1, r2 \in rows :
      (/\ r1.owner = r2.owner /\ r1.owner # NoUser
       /\ r1.store = r2.store /\ r1.ledger = r2.ledger) => r1 = r2

\* A session is gone when it has no row, no resident copy and no request about
\* to make it resident.
Gone(s) ==
    /\ s \in SidsOf(issued)
    /\ s \notin SidsOf(rows)
    /\ \A st \in Stores : s \notin SidsOf(resident[st])
    /\ \A t \in Threads : job[t].step = "remember" => job[t].sid # s

\* Once gone, a session never comes back: no interleaving of rehydration,
\* re-upload of the same ledger and deletion revives it.
GoneForGood ==
    [][\A s \in Sids : Gone(s) => Gone(s)']_vars

\* The memory half of a delete misses no store: with one request at a time a
\* portfolio is resident only while its row exists, whichever request failed or
\* was cut short by a restart (session_stores' module docstring).
NoOrphanAtRest ==
    (\A t \in Threads : job[t].step = "idle") =>
      \A st \in Stores : SidsOf(resident[st]) \subseteq SidsOf(rows)

\* An idle portfolio leaves memory or is used again: the janitor reaches both
\* stores.
IdleReleased ==
    \A st \in Stores, s \in Sids :
      (\E e \in resident[st] : e.sid = s /\ e.idle)
        ~> ~(\E e \in resident[st] : e.sid = s /\ e.idle)

\* Stated by the test of the registry check: after its registry row is deleted,
\* a still-resident session must not be accessible, even by the original owner.
DeletedNotAccessible ==
    [][\A t \in Threads :
         (At(t, "get", "probe") /\ job'[t].reply = "ok")
           => job[t].sid \in SidsOf(rows)]_vars

=============================================================================
