----------------------------- MODULE TaxSessions -----------------------------
(***************************************************************************)
(* The tax expert's session store: dicts in an OrderedDict, written through *)
(* to the database, evicted without touching it, restored on a miss, and a  *)
(* memo of tax computations keyed by a version counter inside the dict.     *)
(*                                                                         *)
(* A request keeps a reference to the dict it opened.  The store may drop   *)
(* that dict and restore the session as another one, so dicts have an       *)
(* identity here (Dicts) apart from the session they are of.  What a worker *)
(* does under _SESSIONS_LOCK, one database transaction and one access of    *)
(* the unlocked memo are one step each.                                     *)
(*                                                                         *)
(* Edits are what callers save: as overrides, entered into a nested dict, or *)
(* as an ITR document, which replaces a top-level value.                     *)
(***************************************************************************)
EXTENDS Integers, FiniteSets, Recency

CONSTANTS
    Users,            \* account ids; an AIS upload insists on a signed-in caller
    Sids,             \* the uuid4 session ids this run may draw
    NoSid,
    Docs,             \* parsed AIS documents, told apart by their fingerprint
    NoDoc,
    Edits,            \* overrides, each under a key of its own, or ITR documents
    NoEdit,
    Dicts,            \* identities of Python dicts
    NoDict,
    Threads,          \* worker threads
    MaxSessions,      \* MAX_SESSIONS
    MaxVersion,       \* bound on _version
    Ops,              \* the requests the clients of this run send
    DatabaseMayFail   \* the values of flaky to consider

AllOps == {"parse", "summary", "recalculate", "itr", "delete", "purge", "logout", "clear"}

ASSUME ConstantsAssumption ==
    /\ NoSid \notin Sids /\ NoDoc \notin Docs /\ NoEdit \notin Edits
    /\ NoDict \notin Dicts
    /\ IsFiniteSet(Dicts)
    /\ MaxSessions \in Nat \ {0}
    /\ MaxVersion \in Nat
    /\ Ops \subseteq AllOps
    /\ DatabaseMayFail \in SUBSET BOOLEAN

VARIABLES
    users,     \* accounts that still have a users row
    rows,      \* registry rows of tax sessions with their documents
    written,   \* written[<<a, b>>]: row a was written before row b (updated_at)
    parsed,    \* every session id drawn, with its owner (history)
    deleted,   \* sessions whose deletion was answered with success (history)
    loaded,    \* _sessions_loaded
    heap,      \* heap[d]: what dict d holds
    resident,  \* the dicts in _tax_sessions
    older,     \* their LRU order
    cache,     \* memoized computations
    job,       \* job[t]: the request worker t is serving, or its last answer
    flaky      \* whether a transaction may fail for no reason of ours

vars == <<users, rows, written, parsed, deleted, loaded, heap, resident, older,
          cache, job, flaky>>

store == <<loaded, heap, resident, older>>
database == <<users, rows, written>>

Record == [sid: Sids, owner: Users, doc: Docs, over: SUBSET Edits,
           itr: Edits \union {NoEdit}, version: 0..MaxVersion]
Free   == [sid |-> NoSid]
Memo   == [sid: Sids, version: -1..MaxVersion, over: SUBSET Edits]

Steps == {"idle", "ensure", "dedup", "find", "read", "insert", "apply", "snapshot",
          "write", "version", "lookup", "calculate", "memoize", "owner", "peek",
          "forget", "drop", "evict", "uncache"}
Phases == {"create", "open", "edit", "version", "forget"}

Job == [op: AllOps \union {"none"},
        step: Steps,
        phase: Phases,
        caller: Users \union {"nobody"},
        sid: Sids \union {NoSid},
        doc: Docs \union {NoDoc},
        edit: Edits \union {NoEdit},
        dict: Dicts \union {NoDict},      \* what get_tax_session returned
        target: Dicts \union {NoDict},    \* what _mutate or _persist_one works on
        copy: Record \union {Free},       \* a row read, or a snapshot to write
        version: -1..MaxVersion,
        over: SUBSET Edits,               \* the overrides in the computation
        doomed: SUBSET Sids,
        reply: {"none", "ok", "notfound", "failed"}]

NoJob == [op |-> "none", step |-> "idle", phase |-> "open", caller |-> "nobody",
          sid |-> NoSid, doc |-> NoDoc, edit |-> NoEdit, dict |-> NoDict,
          target |-> NoDict, copy |-> Free, version |-> 0, over |-> {},
          doomed |-> {}, reply |-> "none"]

TypeOK ==
    /\ users \in SUBSET Users
    /\ rows \in SUBSET Record
    /\ written \in SUBSET (Sids \X Sids)
    /\ parsed \in SUBSET [sid: Sids, owner: Users]
    /\ deleted \in SUBSET Sids
    /\ loaded \in BOOLEAN
    /\ heap \in [Dicts -> Record \union {Free}]
    /\ resident \in SUBSET Dicts
    /\ older \in SUBSET (Dicts \X Dicts)
    /\ cache \in SUBSET Memo
    /\ job \in [Threads -> Job]
    /\ flaky \in BOOLEAN

Init ==
    /\ users = Users
    /\ rows = {} /\ written = {} /\ parsed = {} /\ deleted = {}
    /\ loaded = FALSE
    /\ heap = [d \in Dicts |-> Free]
    /\ resident = {} /\ older = {} /\ cache = {}
    /\ job = [t \in Threads |-> NoJob]
    /\ flaky \in DatabaseMayFail

-----------------------------------------------------------------------------
(* Dicts and the store.                                                     *)

SidsOf(records) == {r.sid : r \in records}

\* The dict that is resident for session s, as a set of at most one.
Held(s) == {d \in resident : heap[d].sid = s}

\* A dict lives as long as the store or a request refers to it.
Alive(held, jobs) ==
    held \union UNION {{jobs[t].dict, jobs[t].target} : t \in Threads}

\* The heap after a step that left it as h and the references as they are now.
Collect(h) ==
    heap' = [d \in Dicts |-> IF d \in Alive(resident', job') THEN h[d] ELSE Free]

Unused == Dicts \ Alive(resident, job)

\* Bug: an eviction leaves the session's computations behind.
AdmitUncleared(new, h) ==
    LET all   == resident \union {new}
        order == MoveToEnd(older, all, new)
    IN  \E keep \in SUBSET all :
          /\ new \in keep /\ Cardinality(keep) <= MaxSessions
          /\ \A x \in all \ keep, y \in keep : <<x, y>> \in order
          /\ resident' = keep
          /\ older' = Among(order, keep)
          /\ UNCHANGED cache

\* _evict_locked, after `new' was inserted: whatever is idle past the TTL goes,
\* then the least recently used down to the cap, and their computations too.
Admit(new, h) ==
    LET all   == resident \union {new}
        order == MoveToEnd(older, all, new)
    IN  \E keep \in SUBSET all :
          /\ new \in keep /\ Cardinality(keep) <= MaxSessions
          /\ \A x \in all \ keep, y \in keep : <<x, y>> \in order
          /\ resident' = keep
          /\ older' = Among(order, keep)
          /\ cache' = {c \in cache : \A x \in all \ keep : h[x].sid # c.sid}

Touch(d) == older' = MoveToEnd(older, resident, d)

-----------------------------------------------------------------------------
(* Requests.                                                                *)

Set(t, j) == job' = [job EXCEPT ![t] = j]

Goto(t, step) == Set(t, [job[t] EXCEPT !.step = step])

Answer(t, what) == Set(t, [NoJob EXCEPT !.reply = what])

\* A computation is returned: for whom, of which session, with which overrides.
Serve(t, over) ==
    Set(t, [NoJob EXCEPT !.op = job[t].op, !.caller = job[t].caller,
                         !.sid = job[t].sid, !.edit = job[t].edit,
                         !.over = over, !.reply = "ok"])

Begin(t, request) ==
    /\ job[t].step = "idle"
    /\ request.op \in Ops
    /\ Set(t, request)
    /\ UNCHANGED <<database, parsed, deleted, cache, store>>

\* Bound: no upload starts unless it is sure to find an undrawn session id.
BeginParse(t) ==
    /\ Cardinality(Sids) > Cardinality(SidsOf(parsed))
         + Cardinality({x \in Threads : job[x].op = "parse" /\ job[x].phase = "create"})
    /\ \E u \in Users, x \in Docs :
         Begin(t, [NoJob EXCEPT !.op = "parse", !.step = "ensure", !.phase = "create",
                                !.caller = u, !.doc = x])

\* The ids a client can know: from the history, or from the answer to an upload.
\* Any account may name any of them.
Known ==
    {s \in SidsOf(parsed) :
       s \in SidsOf(rows) \/ \A t \in Threads : job[t].op = "parse" => job[t].sid # s}

BeginSummary(t) ==
    \E u \in Users, s \in Known :
        Begin(t, [NoJob EXCEPT !.op = "summary", !.step = "ensure",
                               !.caller = u, !.sid = s])

BeginRecalculate(t) ==
    \E u \in Users, s \in Known, e \in Edits :
        Begin(t, [NoJob EXCEPT !.op = "recalculate", !.step = "ensure",
                               !.caller = u, !.sid = s, !.edit = e])

BeginItr(t) ==
    \E u \in Users, s \in Known, e \in Edits :
        Begin(t, [NoJob EXCEPT !.op = "itr", !.step = "ensure",
                               !.caller = u, !.sid = s, !.edit = e])

BeginDelete(t) ==
    \E u \in Users, s \in Known :
        Begin(t, [NoJob EXCEPT !.op = "delete", !.step = "owner", !.phase = "forget",
                               !.caller = u, !.sid = s])

BeginPurge(t) ==
    \E u \in Users :
        Begin(t, [NoJob EXCEPT !.op = "purge", !.step = "evict", !.caller = u])

BeginLogout(t) ==
    \E u \in Users :
        Begin(t, [NoJob EXCEPT !.op = "logout", !.step = "evict", !.caller = u])

BeginClear(t) == Begin(t, [NoJob EXCEPT !.op = "clear", !.step = "evict"])

-----------------------------------------------------------------------------
(* Opening a session: get_tax_session, and the same lookup inside _mutate   *)
(* ("edit") and get_session_version ("version").                            *)

\* Bug: the reload forgets its LIMIT.
LoadFromDiskUnlimited ==
    \E keep \in SUBSET rows :
      /\ keep = rows \/ (flaky /\ keep = {})
      /\ \E f \in [keep -> Dicts \ Alive({}, job)] :
           /\ \A x, y \in keep : f[x] = f[y] => x = y
           /\ resident' = {f[x] : x \in keep}
           /\ older' = {<<f[p[1]], f[p[2]]>> :
                           p \in {q \in keep \X keep : <<q[1].sid, q[2].sid>> \in written}}
           /\ Collect([d \in Dicts |-> IF \E x \in keep : f[x] = d
                                       THEN CHOOSE x \in keep : f[x] = d
                                       ELSE heap[d]])

\* _load_from_disk_locked: the newest rows become the store, whatever was in it.
LoadFromDisk ==
    \E keep \in SUBSET rows :
      /\ \A x \in rows \ keep, y \in keep : <<x.sid, y.sid>> \in written
      /\ \/ Cardinality(keep) = IF Cardinality(rows) > MaxSessions
                                THEN MaxSessions ELSE Cardinality(rows)
         \/ flaky /\ keep = {}
      /\ \E f \in [keep -> Dicts \ Alive({}, job)] :
           /\ \A x, y \in keep : f[x] = f[y] => x = y
           /\ resident' = {f[x] : x \in keep}
           /\ older' = {<<f[p[1]], f[p[2]]>> :
                           p \in {q \in keep \X keep : <<q[1].sid, q[2].sid>> \in written}}
           /\ Collect([d \in Dicts |-> IF \E x \in keep : f[x] = d
                                       THEN CHOOSE x \in keep : f[x] = d
                                       ELSE heap[d]])

EnsureLoaded(t) ==
    /\ job[t].step = "ensure"
    /\ Goto(t, IF job[t].phase = "create" THEN "dedup"
               ELSE IF job[t].phase = "forget" THEN "forget" ELSE "find")
    /\ IF loaded THEN UNCHANGED store ELSE loaded' = TRUE /\ LoadFromDisk
    /\ UNCHANGED <<database, parsed, deleted, cache>>

\* Bug: whoever knows the session id is let in.
OwnsAnything(j, d, h) == j.caller \in Users

\* _owned_or_none denies somebody else's session like an absent one.
Owns(j, d, h) == j.caller = h[d].owner

ToCompute(j) == [j EXCEPT !.step = "version", !.phase = "version",
                          !.copy = Free, !.target = NoDict]
ToEdit(j)    == [j EXCEPT !.step = "ensure", !.phase = "edit", !.copy = Free]

\* _mutate returned.  Neither handler looks at what it returned: a recalculation
\* computes and an ITR upload reports success, whether the edit was made or not.
Edited(t) ==
    IF job[t].op = "itr" THEN Answer(t, "ok") ELSE Set(t, ToCompute(job[t]))

\* The lookup found dict d: the request goes on with it, unless it is denied.
Use(t, d, h) ==
    LET j == job[t] IN
    \/ /\ j.phase = "open" /\ ~Owns(j, d, h)
       /\ Answer(t, "notfound")
    \/ /\ j.phase = "open" /\ Owns(j, d, h) /\ j.op \in {"recalculate", "itr"}
       /\ Set(t, ToEdit([j EXCEPT !.dict = d]))
    \/ /\ j.phase = "open" /\ Owns(j, d, h) /\ j.op \notin {"recalculate", "itr"}
       /\ Set(t, ToCompute([j EXCEPT !.dict = d]))
    \/ /\ j.phase = "edit" /\ Owns(j, d, h)
       /\ Set(t, [j EXCEPT !.step = "apply", !.target = d, !.copy = Free])
    \/ /\ j.phase = "edit" /\ ~Owns(j, d, h)
       /\ Edited(t)
    \/ /\ j.phase = "version"
       /\ Set(t, [j EXCEPT !.step = "lookup", !.version = h[d].version, !.copy = Free])

\* The lookup found nothing.  An upload hands the None on to its computation.
Missing(t) ==
    LET j == job[t] IN
    \/ j.phase = "open" /\ j.op # "parse" /\ Answer(t, "notfound")
    \/ j.phase = "open" /\ j.op = "parse" /\ Set(t, ToCompute(j))
    \/ j.phase = "edit" /\ Edited(t)
    \/ j.phase = "version" /\ Set(t, [j EXCEPT !.step = "lookup", !.version = -1])

\* Under the lock: get_tax_session touches what it finds, the others do not.
FindResident(t) ==
    /\ job[t].step \in {"find", "version"}
    /\ UNCHANGED <<database, parsed, deleted, loaded, resident, cache>>
    /\ \/ \E d \in Held(job[t].sid) :
            /\ IF job[t].phase = "open" THEN Touch(d) ELSE UNCHANGED older
            /\ Use(t, d, heap)
       \/ /\ Held(job[t].sid) = {}
          /\ Goto(t, "read")
          /\ UNCHANGED older
    /\ Collect(heap)

ReadRow(t) ==
    /\ job[t].step = "read"
    /\ UNCHANGED <<database, parsed, deleted, loaded, resident, older, cache>>
    /\ \/ \E r \in rows :
            /\ r.sid = job[t].sid
            /\ Set(t, [job[t] EXCEPT !.copy = r, !.step = "insert"])
       \/ /\ job[t].sid \in SidsOf(rows) => flaky
          /\ Missing(t)
    /\ Collect(heap)

\* Bug: the restored dict goes in without a second look at the store.
RehydrateBlindly(t) ==
    /\ job[t].step = "insert" /\ job[t].phase # "create"
    /\ UNCHANGED <<database, parsed, deleted, loaded>>
    /\ \E d \in Unused :
         LET h == [heap EXCEPT ![d] = job[t].copy] IN
         /\ Admit(d, h)
         /\ Use(t, d, h)
         /\ Collect(h)

\* _rehydrate's second half: another thread may have restored the session first.
Rehydrate(t) ==
    /\ job[t].step = "insert" /\ job[t].phase # "create"
    /\ UNCHANGED <<database, parsed, deleted, loaded>>
    /\ \/ \E d \in Held(job[t].sid) :
            /\ UNCHANGED <<resident, cache>>
            /\ Touch(d)
            /\ Use(t, d, heap)
            /\ Collect(heap)
       \/ /\ Held(job[t].sid) = {}
          /\ \E d \in Unused :
               LET h == [heap EXCEPT ![d] = job[t].copy] IN
               /\ Admit(d, h)
               /\ Use(t, d, h)
               /\ Collect(h)

-----------------------------------------------------------------------------
(* create_tax_session and _mutate.                                          *)

\* A dedup lookup that fails counts as a miss.
FindDuplicate(t) ==
    LET same == {r \in rows : r.owner = job[t].caller /\ r.doc = job[t].doc} IN
    /\ job[t].step = "dedup"
    /\ \/ \E r \in same :
            Set(t, [job[t] EXCEPT !.sid = r.sid, !.step = "ensure", !.phase = "open"])
       \/ /\ same = {} \/ flaky
          /\ Goto(t, "insert")
    /\ UNCHANGED <<database, parsed, deleted, store, cache>>

\* Bug: a new session gets the version that stands for "no such session".
InsertSessionUnversioned(t) ==
    /\ job[t].step = "insert" /\ job[t].phase = "create"
    /\ \E s \in Sids \ SidsOf(parsed), d \in Unused :
         LET h == [heap EXCEPT ![d] = [sid |-> s, owner |-> job[t].caller,
                                       doc |-> job[t].doc, over |-> {}, itr |-> NoEdit,
                                       version |-> -1]]
         IN  /\ parsed' = parsed \union {[sid |-> s, owner |-> job[t].caller]}
             /\ Set(t, [job[t] EXCEPT !.sid = s, !.step = "snapshot", !.phase = "open"])
             /\ Admit(d, h)
             /\ Collect(h)
    /\ UNCHANGED <<database, deleted, loaded>>

InsertSession(t) ==
    /\ job[t].step = "insert" /\ job[t].phase = "create"
    /\ \E s \in Sids \ SidsOf(parsed), d \in Unused :
         LET h == [heap EXCEPT ![d] = [sid |-> s, owner |-> job[t].caller,
                                       doc |-> job[t].doc, over |-> {}, itr |-> NoEdit,
                                       version |-> 0]]
         IN  /\ parsed' = parsed \union {[sid |-> s, owner |-> job[t].caller]}
             /\ Set(t, [job[t] EXCEPT !.sid = s, !.step = "snapshot", !.phase = "open"])
             /\ Admit(d, h)
             /\ Collect(h)
    /\ UNCHANGED <<database, deleted, loaded>>

\* Bug: _bump is forgotten.
AppliedUnbumped(j, r) ==
    IF j.op = "itr" THEN [r EXCEPT !.itr = j.edit]
    ELSE [r EXCEPT !.over = @ \union {j.edit}]

\* What the edit makes of the dict.  An override goes into the nested dict in
\* place; an ITR document takes the place of the one before.
Applied(j, r) ==
    IF j.op = "itr" THEN [r EXCEPT !.itr = j.edit, !.version = @ + 1]
    ELSE [r EXCEPT !.over = @ \union {j.edit}, !.version = @ + 1]

\* Bug: the edit is not written through.
ApplyEditUnsaved(t) ==
    LET d == job[t].target IN
    /\ job[t].step = "apply"
    /\ heap[d].version < MaxVersion
    /\ UNCHANGED <<database, parsed, deleted, loaded, resident, cache>>
    /\ \E r \in Held(job[t].sid) : Touch(r)
    /\ Edited(t)
    /\ Collect([heap EXCEPT ![d] = Applied(job[t], @)])

\* The edit goes into the dict found earlier, which need not be the one that is
\* resident by now; it is dropped when none is.
ApplyEdit(t) ==
    LET d == job[t].target IN
    /\ job[t].step = "apply"
    /\ UNCHANGED <<database, parsed, deleted, loaded, resident, cache>>
    /\ \/ /\ heap[d].version < MaxVersion
          /\ \E r \in Held(job[t].sid) : Touch(r)
          /\ Set(t, [job[t] EXCEPT !.step = "snapshot", !.target = NoDict])
          /\ Collect([heap EXCEPT ![d] = Applied(job[t], @)])
       \/ /\ Held(job[t].sid) = {}
          /\ UNCHANGED older
          /\ Edited(t)
          /\ Collect(heap)

\* After the write-through an upload opens its session.
Persisted(t) ==
    IF job[t].op = "parse"
    THEN Set(t, [job[t] EXCEPT !.step = "ensure", !.copy = Free, !.target = NoDict])
    ELSE Edited(t)

\* _persist_one under the lock: a shallow copy, whose overrides are still the
\* dict's own; nothing is written for a session that is not resident.
TakeSnapshot(t) ==
    /\ job[t].step = "snapshot"
    /\ UNCHANGED <<database, parsed, deleted, store, cache>>
    /\ \/ \E d \in Held(job[t].sid) :
            Set(t, [job[t] EXCEPT !.step = "write", !.target = d, !.copy = heap[d]])
       \/ /\ Held(job[t].sid) = {}
          /\ Persisted(t)

\* The row a snapshot becomes.  The overrides are read only now: the write holds
\* the row's lock since its first statement and serializes after it.
Stored(j) == [j.copy EXCEPT !.over = heap[j.target].over]

\* One transaction, outside the lock.  The foreign key rejects a purged account,
\* the unique index a second session with this owner and document; both are
\* logged and forgotten like any other failure.
WriteRow(t) ==
    LET new     == Stored(job[t])
        others  == {r \in rows : r.sid # new.sid}
        allowed == /\ new.owner \in users
                   /\ \A r \in others : ~(r.owner = new.owner /\ r.doc = new.doc)
    IN
    /\ job[t].step = "write"
    /\ UNCHANGED <<users, parsed, deleted, loaded, resident, older, cache>>
    /\ Persisted(t)
    /\ \/ /\ allowed
          /\ rows' = others \union {new}
          /\ written' = MoveToEnd(written, SidsOf(others) \union {new.sid}, new.sid)
       \/ /\ ~allowed \/ flaky
          /\ UNCHANGED <<rows, written>>
    /\ Collect(heap)

-----------------------------------------------------------------------------
(* get_computation.  The memo has no lock: each access is a step of its own. *)

\* MAX_ENTRIES: two regimes for every resident session.
MaxEntries == 2 * MaxSessions

\* Bug: the memo is keyed on the session alone.
LookUpAnyVersion(t) ==
    LET hits == {c \in cache : c.sid = job[t].sid} IN
    /\ job[t].step = "lookup"
    /\ UNCHANGED <<database, parsed, deleted, loaded, resident, older, cache>>
    /\ \/ \E c \in hits : Serve(t, c.over)
       \/ hits = {} /\ Goto(t, "calculate")
    /\ Collect(heap)

LookUp(t) ==
    LET hits == {c \in cache : c.sid = job[t].sid /\ c.version = job[t].version} IN
    /\ job[t].step = "lookup"
    /\ UNCHANGED <<database, parsed, deleted, loaded, resident, older, cache>>
    /\ \/ \E c \in hits : Serve(t, c.over)
       \/ hits = {} /\ Goto(t, "calculate")
    /\ Collect(heap)

\* compute_tax reads the dict the request opened, whichever is resident by now.
Calculate(t) ==
    /\ job[t].step = "calculate"
    /\ UNCHANGED <<database, parsed, deleted, loaded, resident, older, cache>>
    /\ \/ /\ job[t].dict = NoDict
          /\ Answer(t, "failed")
       \/ /\ job[t].dict # NoDict
          /\ Set(t, [job[t] EXCEPT !.step = "memoize", !.over = heap[job[t].dict].over])
    /\ Collect(heap)

\* Which entries a full memo loses is left open; it never loses the new one.
Memoize(t) ==
    LET new == [sid |-> job[t].sid, version |-> job[t].version, over |-> job[t].over]
        all == {c \in cache : c.sid # new.sid \/ c.version # new.version} \union {new}
    IN
    /\ job[t].step = "memoize"
    /\ UNCHANGED <<database, parsed, deleted, loaded, resident, older>>
    /\ \E keep \in SUBSET all :
         /\ new \in keep
         /\ Cardinality(keep) = IF Cardinality(all) > MaxEntries
                                THEN MaxEntries ELSE Cardinality(all)
         /\ cache' = keep
    /\ Serve(t, job[t].over)
    /\ Collect(heap)

-----------------------------------------------------------------------------
(* Deletion, purge, logout, cache clearing, restart.                        *)

\* The registry decides who may delete; for a session that has no row (yet), the
\* resident dict does.
AuthorizeDelete(t) ==
    LET row == {r \in rows : r.sid = job[t].sid} IN
    /\ job[t].step = "owner"
    /\ \/ (\E r \in row : r.owner = job[t].caller) /\ Goto(t, "ensure")
       \/ (\E r \in row : r.owner # job[t].caller) /\ Answer(t, "notfound")
       \/ row = {} /\ Goto(t, "peek")
       \/ flaky /\ Answer(t, "failed")
    /\ UNCHANGED <<database, parsed, deleted, store, cache>>

AuthorizeResident(t) ==
    LET mine == {d \in Held(job[t].sid) : heap[d].owner = job[t].caller} IN
    /\ job[t].step = "peek"
    /\ \/ mine # {} /\ Goto(t, "ensure")
       \/ mine = {} /\ Answer(t, "notfound")
    /\ UNCHANGED <<database, parsed, deleted, store, cache>>

\* The memory half: the deleted session, the account's sessions, or all of them.
Doomed(j) ==
    IF j.op = "delete" THEN Held(j.sid)
    ELSE IF j.op = "clear" THEN resident
    ELSE {d \in resident : heap[d].owner = j.caller}

DropResident(t) ==
    LET j == job[t] IN
    /\ j.step \in {"forget", "evict"}
    /\ UNCHANGED <<database, parsed, deleted, cache>>
    /\ resident' = resident \ Doomed(j)
    /\ older' = Among(older, resident \ Doomed(j))
    /\ loaded' = (loaded /\ j.op # "clear")
    /\ Set(t, [j EXCEPT !.step = IF j.op = "delete" THEN "drop" ELSE "uncache",
                        !.doomed = IF j.op = "delete" THEN {j.sid}
                                   ELSE IF j.op = "clear" THEN Sids
                                   ELSE {heap[d].sid : d \in Doomed(j)}])
    /\ Collect(heap)

\* _delete_many logs a failure and goes on.
DeleteRow(t) ==
    /\ job[t].step = "drop" /\ job[t].op = "delete"
    /\ Goto(t, "uncache")
    /\ \/ /\ rows' = {r \in rows : r.sid # job[t].sid}
          /\ written' = Among(written, SidsOf(rows) \ {job[t].sid})
       \/ flaky /\ UNCHANGED <<rows, written>>
    /\ UNCHANGED <<users, parsed, deleted, store, cache>>

DropComputations(t) ==
    /\ job[t].step = "uncache"
    /\ cache' = {c \in cache : c.sid \notin job[t].doomed}
    /\ IF job[t].op = "purge" THEN Goto(t, "drop") ELSE Answer(t, "ok")
    /\ deleted' = IF job[t].op = "delete" THEN deleted \union {job[t].sid} ELSE deleted
    /\ UNCHANGED <<database, parsed, store>>

DeleteAccount(t) ==
    LET theirs == {r \in rows : r.owner = job[t].caller} IN
    /\ job[t].step = "drop" /\ job[t].op = "purge"
    /\ \/ /\ users' = users \ {job[t].caller}
          /\ rows' = rows \ theirs
          /\ written' = Among(written, SidsOf(rows \ theirs))
          /\ Answer(t, "ok")
       \/ /\ flaky
          /\ Answer(t, "failed")
          /\ UNCHANGED database
    /\ UNCHANGED <<parsed, deleted, store, cache>>

Restart ==
    /\ loaded' = FALSE
    /\ heap' = [d \in Dicts |-> Free]
    /\ resident' = {} /\ older' = {} /\ cache' = {}
    /\ job' = [t \in Threads |-> NoJob]
    /\ UNCHANGED <<database, parsed, deleted>>

-----------------------------------------------------------------------------

Arrive(t) ==
    BeginParse(t) \/ BeginSummary(t) \/ BeginRecalculate(t) \/ BeginItr(t)
      \/ BeginDelete(t) \/ BeginPurge(t) \/ BeginLogout(t) \/ BeginClear(t)

Proceed(t) ==
    \/ EnsureLoaded(t) \/ FindResident(t) \/ ReadRow(t) \/ Rehydrate(t)
    \/ FindDuplicate(t) \/ InsertSession(t) \/ ApplyEdit(t)
    \/ TakeSnapshot(t) \/ WriteRow(t)
    \/ LookUp(t) \/ Calculate(t) \/ Memoize(t)
    \/ AuthorizeDelete(t) \/ AuthorizeResident(t) \/ DropResident(t)
    \/ DeleteRow(t) \/ DropComputations(t) \/ DeleteAccount(t)

Next == UNCHANGED flaky /\ ((\E t \in Threads : Arrive(t) \/ Proceed(t)) \/ Restart)

Spec == Init /\ [][Next]_vars

-----------------------------------------------------------------------------
(* Properties.                                                              *)

\* However many threads restore a session at once, one dict of it is resident
\* (_rehydrate: "so two callers never hold different dicts for one session").
OneDictPerSession ==
    \A c, d \in resident : heap[c].sid = heap[d].sid => c = d

\* Uploads, restored sessions and a reload from disk together never fill the store
\* past its cap.
StoreBounded == Cardinality(resident) <= MaxSessions

\* A computation is answered only to the account that uploaded the session.
ComputedForOwner ==
    \A t \in Threads :
      (job[t].op \in {"summary", "recalculate"} /\ job[t].reply = "ok") =>
        [sid |-> job[t].sid, owner |-> job[t].caller] \in parsed

\* A memoized computation filed under the version a session has now was computed
\* from what the session holds now (computation_cache's module docstring).
MemoIsCurrent ==
    \A c \in cache, d \in resident :
      (heap[d].sid = c.sid /\ heap[d].version = c.version) => c.over = heap[d].over

AtRest == \A t \in Threads : job[t].step = "idle"

\* Between requests and with a database that answers, what a resident session of an
\* account that still exists holds is what its row holds.
RowsFollowMemory ==
    AtRest /\ ~flaky => \A d \in resident : heap[d].owner \in users => heap[d] \in rows

\* The answer to a recalculation contains the override it saved ("this
\* necessarily recomputes rather than returning a stale cache entry").
RecalculatedWithEdit ==
    \A t \in Threads :
      (job[t].op = "recalculate" /\ job[t].reply = "ok") => job[t].edit \in job[t].over

\* A session whose deletion was answered with success has no row: a write that
\* was in flight does not bring it back (_mutate's docstring).
DeletedStaysDeleted == deleted \intersect SidsOf(rows) = {}

\* Making room loses nothing: what is evicted can be restored from its row
\* (_evict_locked's docstring).
EvictedIsRestorable ==
    [][\A d \in resident \ resident' :
         (resident' \ resident # {} /\ loaded) => heap[d].sid \in SidsOf(rows)]_vars

=============================================================================
