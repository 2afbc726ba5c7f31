----------------------- MODULE ResidentSessionsProofs -----------------------
(***************************************************************************)
(* Proofs about ResidentSessions for every number of accounts, sessions,   *)
(* ledgers, workers and any resident cap.                                  *)
(*                                                                         *)
(* The inductive invariant relates three things: what was ever committed   *)
(* (issued), what the stores hold, and what each request in flight already *)
(* knows.  A request that passed the registry lookup carries an owner it   *)
(* read earlier; the invariant says that knowledge cannot go stale, because*)
(* an id is committed once (IssuedOnce) and never with another owner.      *)
(* The last section is about one worker, where requests do not overlap.    *)
(***************************************************************************)
EXTENDS ResidentSessions, FiniteSetTheorems, TLAPS

IssuedOnce == \A r1, r2 \in issued : r1.sid = r2.sid => r1 = r2

\* What a request in flight, or its answer, may rely on, given the rows `iss'
\* committed so far.
InCreate(j, iss) ==
    (j.op = "create" /\ j.step \in {"dedup", "save"}) =>
      j.owner = j.caller /\ j.ledger \in Ledgers

InLoad(j, iss) ==
    j.step = "load" =>
      /\ j.op = "get"
      /\ \E r \in iss : r.sid = j.sid /\ r.owner = j.owner
                         /\ OwnsRecord(j.caller, r.owner)

InRemember(j, iss) ==
    j.step = "remember" =>
      /\ j.op \in {"get", "create"}
      /\ \E r \in iss :
           /\ r.sid = j.sid /\ r.owner = j.owner /\ r.ledger = j.ledger
           /\ j.op = "get" => OwnsRecord(j.caller, r.owner)
           /\ j.op = "create" => r.store = j.store /\ r.owner = j.caller

AnsweredGet(j, iss) ==
    (j.op = "get" /\ j.reply = "ok") =>
      \E r \in iss : r.sid = j.sid /\ r.ledger = j.ledger
                      /\ OwnsRecord(j.caller, r.owner)

AnsweredCreate(j, iss) ==
    (j.op = "create" /\ j.reply = "ok") =>
      \E r \in iss : /\ r.sid = j.sid /\ r.store = j.store
                      /\ r.owner = j.caller /\ r.ledger = j.ledger

JobOK(j, iss) ==
    InCreate(j, iss) /\ InLoad(j, iss) /\ InRemember(j, iss)
      /\ AnsweredGet(j, iss) /\ AnsweredCreate(j, iss)

JobsOK == \A t \in Threads : JobOK(job[t], issued)

\* The entry of a resident portfolio names the row its id was issued for.
EntryOK(e, iss) ==
    \E r \in iss : r.sid = e.sid /\ r.owner = e.owner /\ r.ledger = e.ledger

EntriesOK == \A st \in Stores : \A e \in resident[st] : EntryOK(e, issued)

Bounded ==
    \A st \in Stores : /\ IsFiniteSet(resident[st])
                       /\ Cardinality(resident[st]) <= MaxResident

IInv ==
    /\ TypeOK
    /\ rows \subseteq issued
    /\ IssuedOnce
    /\ JobsOK
    /\ EntriesOK
    /\ OwnedUploadsDedup
    /\ Bounded

-----------------------------------------------------------------------------
(* The three store operations.                                             *)

\* Whatever Remember keeps is the new entry or was resident before, and no more
\* than the cap.
LEMMA RememberLemma ==
    ASSUME TypeOK, Bounded, NEW st \in Stores, NEW e \in Entry, Remember(st, e)
    PROVE  /\ resident' \in [Stores -> SUBSET Entry]
           /\ older' \in [Stores -> SUBSET (Sids \X Sids)]
           /\ \A s2 \in Stores : resident'[s2] \subseteq resident[s2] \union {e}
           /\ Bounded'
<1> DEFINE all == {x \in resident[st] : x.sid # e.sid} \union {e}
           order == MoveToEnd(older[st], SidsOf(all), e.sid)
<1>1. PICK keep \in SUBSET all :
        /\ Cardinality(keep) = IF Cardinality(all) > MaxResident
                               THEN MaxResident ELSE Cardinality(all)
        /\ resident' = [resident EXCEPT ![st] = keep]
        /\ older' = [older EXCEPT ![st] = Among(order, SidsOf(keep))]
  BY DEF Remember
<1>2. all \in SUBSET Entry
  BY DEF TypeOK
<1>3. resident' \in [Stores -> SUBSET Entry]
  BY <1>1, <1>2 DEF TypeOK
<1>4. order \in SUBSET (Sids \X Sids)
  BY <1>2 DEF TypeOK, MoveToEnd, SidsOf, Entry
<1>5. older' \in [Stores -> SUBSET (Sids \X Sids)]
  <2>1. Among(order, SidsOf(keep)) \in SUBSET (Sids \X Sids)
    BY <1>4 DEF Among
  <2>2. QED BY <2>1, <1>1 DEF TypeOK
<1>6. \A s2 \in Stores : resident'[s2] \subseteq resident[s2] \union {e}
  BY <1>1 DEF TypeOK
<1>7. Bounded'
  <2>1. IsFiniteSet(all)
    <3>1. IsFiniteSet({x \in resident[st] : x.sid # e.sid})
      BY FS_Subset DEF Bounded
    <3>2. QED BY <3>1, FS_AddElement
  <2>2. IsFiniteSet(keep) /\ Cardinality(all) \in Nat
    BY <2>1, <1>1, FS_Subset, FS_CardinalityType
  <2>3. Cardinality(keep) <= MaxResident
    BY <2>2, <1>1, ConstantsAssumption
  <2>4. QED BY <2>2, <2>3, <1>1 DEF Bounded, TypeOK
<1>8. QED BY <1>3, <1>5, <1>6, <1>7

\* Discard leaves a subset of every store.
LEMMA DiscardLemma ==
    ASSUME TypeOK, Bounded, NEW st \in Stores, NEW doomed, Discard(st, doomed)
    PROVE  /\ resident' \in [Stores -> SUBSET Entry]
           /\ older' \in [Stores -> SUBSET (Sids \X Sids)]
           /\ \A s2 \in Stores : resident'[s2] \subseteq resident[s2]
           /\ Bounded'
<1>1. /\ resident' \in [Stores -> SUBSET Entry]
      /\ \A s2 \in Stores : resident'[s2] \subseteq resident[s2]
  BY DEF TypeOK, Discard
<1>2. older' \in [Stores -> SUBSET (Sids \X Sids)]
  BY DEF TypeOK, Discard, Among
<1>3. Bounded'
  <2> SUFFICES ASSUME NEW s2 \in Stores
               PROVE  /\ IsFiniteSet(resident'[s2])
                      /\ Cardinality(resident'[s2]) <= MaxResident
    BY DEF Bounded
  <2>1. /\ IsFiniteSet(resident[s2]) /\ Cardinality(resident[s2]) <= MaxResident
        /\ resident'[s2] \subseteq resident[s2]
    BY <1>1 DEF Bounded
  <2>2. /\ IsFiniteSet(resident'[s2])
        /\ Cardinality(resident'[s2]) <= Cardinality(resident[s2])
    BY <2>1, FS_Subset
  <2>3. /\ Cardinality(resident'[s2]) \in Nat /\ Cardinality(resident[s2]) \in Nat
    BY <2>1, <2>2, FS_CardinalityType
  <2>4. QED BY <2>1, <2>2, <2>3, ConstantsAssumption
<1>4. QED BY <1>1, <1>2, <1>3

\* Replacing an entry by the same entry, used or idle, keeps what it stands for.
LEMMA ReplaceLemma ==
    ASSUME TypeOK, Bounded, NEW st \in Stores, NEW e \in resident[st],
           NEW b \in BOOLEAN,
           resident' = [resident EXCEPT ![st] = (@ \ {e}) \union {[e EXCEPT !.idle = b]}]
    PROVE  /\ resident' \in [Stores -> SUBSET Entry]
           /\ \A s2 \in Stores : \A x \in resident'[s2] : \E y \in resident[s2] :
                x.sid = y.sid /\ x.owner = y.owner /\ x.ledger = y.ledger
           /\ Bounded'
<1> DEFINE f == [e EXCEPT !.idle = b]
<1>1. e \in Entry /\ f \in Entry /\ f.sid = e.sid /\ f.owner = e.owner
        /\ f.ledger = e.ledger
  BY DEF TypeOK, Entry
<1>2. resident' = [resident EXCEPT ![st] = (resident[st] \ {e}) \union {f}]
  OBVIOUS
<1> HIDE DEF f
<1>3. resident' \in [Stores -> SUBSET Entry]
  BY <1>1, <1>2 DEF TypeOK
<1>4. \A s2 \in Stores : \A x \in resident'[s2] : \E y \in resident[s2] :
        x.sid = y.sid /\ x.owner = y.owner /\ x.ledger = y.ledger
  BY <1>1, <1>2 DEF TypeOK
<1>5. Bounded'
  <2>1. IsFiniteSet(resident[st]) /\ Cardinality(resident[st]) <= MaxResident
    BY DEF Bounded
  <2>2. /\ IsFiniteSet(resident[st] \ {e})
        /\ Cardinality(resident[st] \ {e}) = Cardinality(resident[st]) - 1
    BY <2>1, FS_RemoveElement
  <2>3. /\ IsFiniteSet((resident[st] \ {e}) \union {f})
        /\ Cardinality((resident[st] \ {e}) \union {f}) =
             IF f \in resident[st] \ {e} THEN Cardinality(resident[st] \ {e})
             ELSE Cardinality(resident[st] \ {e}) + 1
    BY <2>2, FS_AddElement
  <2>4. Cardinality(resident[st]) \in Nat
    BY <2>1, FS_CardinalityType
  <2>5. Cardinality((resident[st] \ {e}) \union {f}) <= MaxResident
    BY <2>1, <2>2, <2>3, <2>4, ConstantsAssumption
  <2>6. QED BY <1>2, <2>3, <2>5 DEF Bounded, TypeOK
<1>6. QED BY <1>3, <1>4, <1>5

-----------------------------------------------------------------------------
(* A step changes one request, and what is committed only grows.            *)

\* What a request knows stays true when more rows are committed.
LEMMA JobMonotone ==
    ASSUME NEW j, NEW iss, NEW iss2, iss \subseteq iss2, JobOK(j, iss)
    PROVE  JobOK(j, iss2)
BY DEF JobOK, InCreate, InLoad, InRemember, AnsweredGet, AnsweredCreate

\* One worker's new request suffices to re-establish the jobs' invariant.
LEMMA JobStep ==
    ASSUME TypeOK, JobsOK, NEW t \in Threads, NEW j \in Job,
           job' = [job EXCEPT ![t] = j],
           issued \subseteq issued', JobOK(j, issued')
    PROVE  job' \in [Threads -> Job] /\ JobsOK'
<1>1. job' \in [Threads -> Job]
  BY DEF TypeOK
<1>2. ASSUME NEW u \in Threads PROVE JobOK(job'[u], issued')
  <2>1. CASE u = t
    BY <2>1 DEF TypeOK
  <2>2. CASE u # t
    <3>1. job'[u] = job[u] BY <2>2 DEF TypeOK
    <3>2. JobOK(job[u], issued) BY DEF JobsOK
    <3>3. QED BY <3>1, <3>2, JobMonotone
  <2>3. QED BY <2>1, <2>2
<1>3. QED BY <1>1, <1>2 DEF JobsOK

\* An idle request without an answer, or with a refusal, relies on nothing.
LEMMA AnswerLemma ==
    ASSUME TypeOK, JobsOK, NEW t \in Threads,
           NEW what \in {"none", "ok", "notfound", "failed"},
           Answer(t, what), issued \subseteq issued'
    PROVE  job' \in [Threads -> Job] /\ JobsOK'
<1> DEFINE j == [NoJob EXCEPT !.reply = what]
<1>1. j \in Job
  BY DEF NoJob, Job, Stores, Callers
<1>2. JobOK(j, issued')
  BY DEF NoJob, JobOK, InCreate, InLoad, InRemember, AnsweredGet, AnsweredCreate
<1>3. job' = [job EXCEPT ![t] = j]
  BY DEF Answer
<1>4. QED
  <2> HIDE DEF j
  <2> QED BY <1>1, <1>2, <1>3, JobStep

-----------------------------------------------------------------------------
(* The registry: accounts, rows and what was ever committed.                *)

RegistryOK ==
    /\ users \in SUBSET Users
    /\ rows \in SUBSET Row
    /\ issued \in SUBSET Row
    /\ rows \subseteq issued
    /\ IssuedOnce
    /\ OwnedUploadsDedup

\* The one action that commits a row: its id is new, and no other row has its
\* owner, domain and ledger.
LEMMA SaveRegistry ==
    ASSUME IInv, NEW t \in Threads, SaveSession(t)
    PROVE  RegistryOK' /\ issued \subseteq issued'
<1> DEFINE j == job[t]
<1>1. CASE UNCHANGED <<users, rows, issued>>
  BY <1>1 DEF IInv, TypeOK, RegistryOK, IssuedOnce, OwnedUploadsDedup
<1>2. CASE /\ Conflicts(j.store, j.caller, j.ledger) = {}
           /\ users' = users
           /\ \E s \in Sids \ SidsOf(issued) :
                LET r == [sid |-> s, store |-> j.store, owner |-> j.caller,
                          ledger |-> j.ledger]
                IN  rows' = rows \union {r} /\ issued' = issued \union {r}
  <2>1. PICK s \in Sids \ SidsOf(issued) :
          LET r == [sid |-> s, store |-> j.store, owner |-> j.caller,
                    ledger |-> j.ledger]
          IN  rows' = rows \union {r} /\ issued' = issued \union {r}
    BY <1>2
  <2> DEFINE r == [sid |-> s, store |-> j.store, owner |-> j.caller,
                   ledger |-> j.ledger]
  <2>2. r \in Row
    <3>1. j \in Job /\ j.op = "create" /\ j.step = "save"
      BY DEF SaveSession, At, IInv, TypeOK
    <3>2. j.ledger \in Ledgers
      BY <3>1 DEF IInv, JobsOK, JobOK, InCreate
    <3>3. QED BY <3>1, <3>2 DEF Job, Row
  <2>3. r.sid = s /\ r.store = j.store /\ r.owner = j.caller /\ r.ledger = j.ledger
    OBVIOUS
  <2>4. rows' = rows \union {r} /\ issued' = issued \union {r}
    BY <2>1
  <2>5. \A x \in issued : x.sid # s
    BY DEF SidsOf
  <2>6. \A x \in rows : ~(/\ x.owner = j.caller /\ x.owner # NoUser
                          /\ x.store = j.store /\ x.ledger = j.ledger)
    BY <1>2 DEF Conflicts, Duplicates
  <2> HIDE DEF r, j
  <2>7. IssuedOnce'
    BY <2>3, <2>4, <2>5 DEF IInv, IssuedOnce
  <2>8. OwnedUploadsDedup'
    BY <2>3, <2>4, <2>6 DEF IInv, OwnedUploadsDedup
  <2>9. QED BY <1>2, <2>2, <2>4, <2>7, <2>8 DEF IInv, TypeOK, RegistryOK
<1>3. QED BY <1>1, <1>2 DEF SaveSession

\* No step undoes or duplicates a commit: what was issued only grows.
LEMMA RegistryStep ==
    ASSUME IInv, [Next]_vars
    PROVE  RegistryOK' /\ issued \subseteq issued'
<1>1. CASE UNCHANGED <<users, rows, issued>>
  BY <1>1 DEF IInv, TypeOK, RegistryOK, IssuedOnce, OwnedUploadsDedup
<1>2. CASE users' \subseteq users /\ rows' \subseteq rows /\ issued' = issued
  BY <1>2 DEF IInv, TypeOK, RegistryOK, IssuedOnce, OwnedUploadsDedup
<1>3. ASSUME NEW t \in Threads, Arrive(t)
      PROVE  UNCHANGED <<users, rows, issued>>
  BY <1>3 DEF Arrive, Begin, BeginGet, BeginCreate, BeginDelete, BeginPurge,
              BeginLogout, BeginClear
<1>4. ASSUME NEW t \in Threads, Proceed(t)
      PROVE  \/ UNCHANGED <<users, rows, issued>>
             \/ users' \subseteq users /\ rows' \subseteq rows /\ issued' = issued
             \/ SaveSession(t)
  BY <1>4 DEF Proceed, ServeResident, DenyResident, MissResident, AuthorizeGet,
              LoadPayload, RememberPortfolio, CheckDuplicate, AuthorizeDelete,
              ForgetSession, DeleteRow, EvictUser, DeleteAccount, ClearStore
<1>5. CASE \E t \in Threads : SaveSession(t)
  BY <1>5, SaveRegistry
<1>6. CASE \/ \E st \in Stores : \E e \in resident[st] : GoIdle(st, e)
           \/ \E st \in Stores : PurgeExpired(st)
           \/ Restart
           \/ UNCHANGED vars
  BY <1>1, <1>6 DEF GoIdle, PurgeExpired, Restart, vars
<1>7. QED BY <1>1, <1>2, <1>3, <1>4, <1>5, <1>6 DEF Next

-----------------------------------------------------------------------------
(* The stores.                                                              *)

StoresOK ==
    /\ resident \in [Stores -> SUBSET Entry]
    /\ older \in [Stores -> SUBSET (Sids \X Sids)]
    /\ EntriesOK
    /\ Bounded

\* The four ways a step treats the stores: leaves them alone, ...
LEMMA StoresUnchanged ==
    ASSUME IInv, issued \subseteq issued', UNCHANGED <<resident, older>>
    PROVE  StoresOK'
BY DEF IInv, TypeOK, StoresOK, EntriesOK, EntryOK, Bounded

\* ... discards entries of one of them, ...
LEMMA StoresDiscard ==
    ASSUME IInv, issued \subseteq issued', NEW st \in Stores, NEW doomed,
           Discard(st, doomed)
    PROVE  StoresOK'
<1>1. TypeOK /\ Bounded /\ EntriesOK
  BY DEF IInv
<1>2. /\ resident' \in [Stores -> SUBSET Entry]
      /\ older' \in [Stores -> SUBSET (Sids \X Sids)]
      /\ \A s2 \in Stores : resident'[s2] \subseteq resident[s2]
      /\ Bounded'
  BY <1>1, DiscardLemma
<1>3. EntriesOK'
  BY <1>1, <1>2 DEF EntriesOK, EntryOK
<1>4. QED BY <1>2, <1>3 DEF StoresOK

\* ... marks an entry used or idle, ...
LEMMA StoresReplace ==
    ASSUME IInv, issued \subseteq issued', NEW st \in Stores, NEW e \in resident[st],
           NEW b \in BOOLEAN,
           resident' = [resident EXCEPT ![st] = (@ \ {e}) \union {[e EXCEPT !.idle = b]}],
           older' \in [Stores -> SUBSET (Sids \X Sids)]
    PROVE  StoresOK'
<1>1. TypeOK /\ Bounded /\ EntriesOK
  BY DEF IInv
<1>2. /\ resident' \in [Stores -> SUBSET Entry]
      /\ \A s2 \in Stores : \A x \in resident'[s2] : \E y \in resident[s2] :
           x.sid = y.sid /\ x.owner = y.owner /\ x.ledger = y.ledger
      /\ Bounded'
  BY <1>1, ReplaceLemma
<1>3. EntriesOK'
  BY <1>1, <1>2 DEF EntriesOK, EntryOK
<1>4. QED BY <1>2, <1>3 DEF StoresOK

\* ... or makes a portfolio resident, whose row its request has read or written.
LEMMA StoresRemember ==
    ASSUME IInv, issued \subseteq issued', NEW t \in Threads, RememberPortfolio(t)
    PROVE  StoresOK'
<1> DEFINE e == [sid |-> job[t].sid, owner |-> job[t].owner,
                 ledger |-> job[t].ledger, idle |-> FALSE]
<1>1. TypeOK /\ Bounded /\ EntriesOK
  BY DEF IInv
<1>2. PICK r \in issued : /\ r.sid = job[t].sid /\ r.owner = job[t].owner
                          /\ r.ledger = job[t].ledger
  BY DEF RememberPortfolio, IInv, JobsOK, JobOK, InRemember
<1>3. r \in Row /\ job[t].store \in Stores
  BY <1>1 DEF TypeOK, Job
<1>4. e \in Entry
  BY <1>2, <1>3 DEF Row, Entry
<1>5. EntryOK(e, issued')
  BY <1>2 DEF EntryOK
<1>6. Remember(job[t].store, e)
  BY DEF RememberPortfolio
<1> HIDE DEF e
<1>7. /\ resident' \in [Stores -> SUBSET Entry]
      /\ older' \in [Stores -> SUBSET (Sids \X Sids)]
      /\ \A s2 \in Stores : resident'[s2] \subseteq resident[s2] \union {e}
      /\ Bounded'
  BY <1>1, <1>3, <1>4, <1>6, RememberLemma
<1>8. EntriesOK'
  BY <1>1, <1>5, <1>7 DEF EntriesOK, EntryOK
<1>9. QED BY <1>7, <1>8 DEF StoresOK

\* Every step keeps the stores typed, within their cap and faithful.
LEMMA StoresStep ==
    ASSUME IInv, [Next]_vars, issued \subseteq issued'
    PROVE  StoresOK'
<1> USE DEF StoresOK
<1>1. ASSUME NEW t \in Threads, Arrive(t) PROVE UNCHANGED <<resident, older>>
  BY <1>1 DEF Arrive, Begin, BeginGet, BeginCreate, BeginDelete, BeginPurge,
              BeginLogout, BeginClear
<1>2. ASSUME NEW t \in Threads, Proceed(t)
      PROVE  \/ UNCHANGED <<resident, older>>
             \/ \E doomed : Discard(job[t].store, doomed)
             \/ ServeResident(t)
             \/ RememberPortfolio(t)
  BY <1>2 DEF Proceed, DenyResident, MissResident, AuthorizeGet, LoadPayload,
              CheckDuplicate, SaveSession, AuthorizeDelete, ForgetSession,
              DeleteRow, EvictUser, DeleteAccount, ClearStore
<1>3. \A t \in Threads : job[t].store \in Stores
  BY DEF IInv, TypeOK, Job
<1>4. ASSUME NEW t \in Threads, ServeResident(t) PROVE StoresOK'
  <2>1. PICK e \in resident[job[t].store] : Touch(job[t].store, e)
    BY <1>4 DEF ServeResident
  <2>2. e.sid \in Sids /\ SidsOf(resident[job[t].store]) \subseteq Sids
    BY <1>3, <2>1 DEF IInv, TypeOK, Entry, SidsOf
  <2>3. older' \in [Stores -> SUBSET (Sids \X Sids)]
    BY <1>3, <2>1, <2>2 DEF Touch, MoveToEnd, IInv, TypeOK
  <2>4. QED BY <1>3, <2>1, <2>3, StoresReplace DEF Touch
<1>5. ASSUME NEW st \in Stores, NEW e \in resident[st], GoIdle(st, e) PROVE StoresOK'
  <2>1. older' \in [Stores -> SUBSET (Sids \X Sids)]
    BY <1>5 DEF GoIdle, IInv, TypeOK
  <2>2. QED BY <1>5, <2>1, StoresReplace DEF GoIdle
<1>6. CASE Restart
  <2>1. /\ resident' \in [Stores -> SUBSET Entry]
        /\ older' \in [Stores -> SUBSET (Sids \X Sids)]
        /\ EntriesOK'
    BY <1>6 DEF Restart, EntriesOK
  <2>2. Bounded'
    BY <1>6, FS_EmptySet, ConstantsAssumption DEF Restart, Bounded
  <2>3. QED BY <2>1, <2>2
<1>7. ASSUME NEW st \in Stores, PurgeExpired(st) PROVE StoresOK'
  BY <1>7, StoresDiscard DEF PurgeExpired
<1>8. CASE UNCHANGED vars
  BY <1>8, StoresUnchanged DEF vars
<1>9. ASSUME NEW t \in Threads, Proceed(t) PROVE StoresOK'
  BY <1>2, <1>3, <1>4, <1>9, StoresUnchanged, StoresDiscard, StoresRemember
<1>10. QED BY <1>1, <1>5, <1>6, <1>7, <1>8, <1>9, StoresUnchanged DEF Next

-----------------------------------------------------------------------------
(* The requests.                                                            *)

\* Going on to a step that relies on nothing new.
LEMMA GotoLemma ==
    ASSUME TypeOK, JobsOK, NEW t \in Threads, issued \subseteq issued',
           NEW step \in {"owner", "save", "forget", "drop"},
           step = "save" => At(t, "create", "dedup"),
           Goto(t, step)
    PROVE  job' \in [Threads -> Job] /\ JobsOK'
<1> DEFINE j == [job[t] EXCEPT !.step = step]
<1>1. job[t] \in Job /\ JobOK(job[t], issued)
  BY DEF TypeOK, JobsOK
<1>2. j \in Job
  BY <1>1 DEF Job
<1>3. JobOK(j, issued')
  <2>1. JobOK(job[t], issued')
    BY <1>1, JobMonotone
  <2>2. /\ j.op = job[t].op /\ j.step = step /\ j.store = job[t].store
        /\ j.caller = job[t].caller /\ j.sid = job[t].sid /\ j.reply = job[t].reply
        /\ j.ledger = job[t].ledger /\ j.owner = job[t].owner
    BY <1>1, ZenonT(30) DEF Job
  <2> HIDE DEF j
  <2>3. InCreate(j, issued')
    BY <2>1, <2>2 DEF JobOK, InCreate, At
  <2>4. InLoad(j, issued') /\ InRemember(j, issued')
    BY <2>2 DEF InLoad, InRemember
  <2>5. AnsweredGet(j, issued') /\ AnsweredCreate(j, issued')
    BY <2>1, <2>2 DEF JobOK, AnsweredGet, AnsweredCreate
  <2>6. QED BY <2>3, <2>4, <2>5 DEF JobOK
<1>4. job' = [job EXCEPT ![t] = j]
  BY <1>1 DEF Goto, TypeOK
<1> HIDE DEF j
<1>5. QED BY <1>2, <1>3, <1>4, JobStep

\* Going on to the next registered store, for a request that is no get or create.
LEMMA NextStoreLemma ==
    ASSUME TypeOK, JobsOK, NEW t \in Threads, issued \subseteq issued',
           job[t].op \notin {"get", "create"},
           job[t].step \notin {"load", "remember"},
           job' = [job EXCEPT ![t].store = "equity"]
    PROVE  job' \in [Threads -> Job] /\ JobsOK'
<1> DEFINE j == [job[t] EXCEPT !.store = "equity"]
<1>1. job[t] \in Job
  BY DEF TypeOK
<1>2. j \in Job /\ j.op = job[t].op /\ j.step = job[t].step
  BY <1>1 DEF Job, Stores
<1>3. job' = [job EXCEPT ![t] = j]
  BY <1>1 DEF TypeOK
<1> HIDE DEF j
<1>4. JobOK(j, issued')
  BY <1>2 DEF JobOK, InCreate, InLoad, InRemember, AnsweredGet, AnsweredCreate
<1>5. QED BY <1>2, <1>3, <1>4, JobStep

\* An upload that goes on under, or is answered with, a row of its own.
LEMMA AdoptLemma ==
    ASSUME TypeOK, JobsOK, NEW t \in Threads, issued \subseteq issued',
           job[t].op = "create", job[t].owner = job[t].caller,
           NEW r \in issued', issued' \subseteq Row,
           r.store = job[t].store, r.owner = job[t].caller, r.ledger = job[t].ledger,
           \/ job' = [job EXCEPT ![t].step = "remember", ![t].sid = r.sid]
           \/ Serve(t, r.sid, job[t].ledger)
    PROVE  job' \in [Threads -> Job] /\ JobsOK'
<1>1. job[t] \in Job /\ r.sid \in Sids /\ r \in Row
  BY DEF TypeOK, Row
<1>2. CASE job' = [job EXCEPT ![t].step = "remember", ![t].sid = r.sid]
  <2> DEFINE j == [job[t] EXCEPT !.step = "remember", !.sid = r.sid]
  <2>1. /\ j \in Job /\ j.op = "create" /\ j.step = "remember" /\ j.sid = r.sid
        /\ j.store = job[t].store /\ j.caller = job[t].caller
        /\ j.ledger = job[t].ledger /\ j.owner = job[t].owner
    BY <1>1, ZenonT(30) DEF Job
  <2>2. job' = [job EXCEPT ![t] = j]
    BY <1>1, <1>2 DEF TypeOK
  <2> HIDE DEF j
  <2>3. JobOK(j, issued')
    BY <2>1 DEF JobOK, InCreate, InLoad, InRemember, AnsweredGet, AnsweredCreate
  <2>4. QED BY <2>1, <2>2, <2>3, JobStep
<1>3. CASE Serve(t, r.sid, job[t].ledger)
  <2> DEFINE j == [job[t] EXCEPT !.step = "idle", !.reply = "ok", !.sid = r.sid,
                                 !.ledger = job[t].ledger, !.owner = NoUser]
  <2>1. /\ j \in Job /\ j.op = "create" /\ j.step = "idle" /\ j.sid = r.sid
        /\ j.store = job[t].store /\ j.caller = job[t].caller
        /\ j.ledger = job[t].ledger
    BY <1>1, ZenonT(30) DEF Job, Callers
  <2>2. job' = [job EXCEPT ![t] = j]
    BY <1>1, <1>3 DEF Serve, TypeOK
  <2> HIDE DEF j
  <2>3. JobOK(j, issued')
    BY <2>1 DEF JobOK, InCreate, InLoad, InRemember, AnsweredGet, AnsweredCreate
  <2>4. QED BY <2>1, <2>2, <2>3, JobStep
<1>4. QED BY <1>2, <1>3

\* Every step, whichever worker takes it, leaves every request with what it
\* relies on.
LEMMA ProceedJobs ==
    ASSUME IInv, NEW t \in Threads, Proceed(t),
           issued \subseteq issued', issued' \subseteq Row
    PROVE  job' \in [Threads -> Job] /\ JobsOK'
<1>1. TypeOK /\ JobsOK
  BY DEF IInv
<1>2. job[t] \in Job /\ JobOK(job[t], issued)
  BY <1>1 DEF TypeOK, JobsOK
<1>3. rows \subseteq issued /\ issued \subseteq Row /\ IssuedOnce
  BY DEF IInv, TypeOK
<1>4. ASSUME NEW what \in {"none", "ok", "notfound", "failed"}, Answer(t, what)
      PROVE  job' \in [Threads -> Job] /\ JobsOK'
  BY <1>1, <1>4, AnswerLemma
<1>5. CASE ServeResident(t)
  <2>1. PICK e \in resident[job[t].store] :
          /\ e.sid = job[t].sid
          /\ OwnsRecord(job[t].caller, e.owner)
          /\ Serve(t, e.sid, e.ledger)
    BY <1>5 DEF ServeResident
  <2>2. EntryOK(e, issued) /\ e \in Entry
    BY <1>1, <1>2 DEF IInv, EntriesOK, TypeOK, Job
  <2> DEFINE j == [job[t] EXCEPT !.step = "idle", !.reply = "ok", !.sid = e.sid,
                                 !.ledger = e.ledger, !.owner = NoUser]
  <2>3. /\ j \in Job /\ j.op = "get" /\ j.step = "idle" /\ j.sid = e.sid
        /\ j.caller = job[t].caller /\ j.ledger = e.ledger
    BY <1>2, <1>5, <2>2, ZenonT(30) DEF Job, Callers, Entry, ServeResident, At
  <2>4. job' = [job EXCEPT ![t] = j]
    BY <1>1, <2>1 DEF Serve, TypeOK
  <2> HIDE DEF j
  <2>5. JobOK(j, issued')
    BY <2>1, <2>2, <2>3
       DEF EntryOK, JobOK, InCreate, InLoad, InRemember, AnsweredGet, AnsweredCreate
  <2>6. QED BY <1>1, <2>3, <2>4, <2>5, JobStep
<1>6. CASE DenyResident(t)
  BY <1>4, <1>6 DEF DenyResident
<1>7. CASE MissResident(t)
  BY <1>1, <1>7, GotoLemma DEF MissResident
<1>8. CASE AuthorizeGet(t)
  <2>1. ASSUME NEW r \in rows, r.sid = job[t].sid, OwnsRecord(job[t].caller, r.owner),
               job' = [job EXCEPT ![t].step = "load", ![t].owner = r.owner]
        PROVE  job' \in [Threads -> Job] /\ JobsOK'
    <3> DEFINE j == [job[t] EXCEPT !.step = "load", !.owner = r.owner]
    <3>1. r \in Row /\ r \in issued'
      BY <1>3
    <3>2. /\ j \in Job /\ j.op = "get" /\ j.step = "load" /\ j.sid = job[t].sid
          /\ j.caller = job[t].caller /\ j.ledger = job[t].ledger
          /\ j.owner = r.owner /\ j.reply = job[t].reply
      BY <1>2, <1>8, <3>1, ZenonT(30) DEF Job, Row, AuthorizeGet, At
    <3>3. job' = [job EXCEPT ![t] = j]
      BY <1>1, <2>1 DEF TypeOK
    <3>4. JobOK(job[t], issued')
      BY <1>2, JobMonotone
    <3>5. job[t].op = "get"
      BY <1>8 DEF AuthorizeGet, At
    <3> HIDE DEF j
    <3>6. InCreate(j, issued') /\ InRemember(j, issued') /\ AnsweredCreate(j, issued')
      BY <3>2 DEF InCreate, InRemember, AnsweredCreate
    <3>7. InLoad(j, issued')
      BY <2>1, <3>1, <3>2 DEF InLoad
    <3>8. AnsweredGet(j, issued')
      BY <3>2, <3>4, <3>5 DEF JobOK, AnsweredGet
    <3>9. QED BY <1>1, <3>2, <3>3, <3>6, <3>7, <3>8, JobStep DEF JobOK
  <2>2. QED BY <1>4, <1>8, <2>1 DEF AuthorizeGet
<1>9. CASE LoadPayload(t)
  \* The row read now is the one the registry lookup authorised: IssuedOnce.
  <2>1. ASSUME NEW r \in rows, r.sid = job[t].sid,
               job' = [job EXCEPT ![t].step = "remember", ![t].ledger = r.ledger]
        PROVE  job' \in [Threads -> Job] /\ JobsOK'
    <3>1. PICK r0 \in issued : /\ r0.sid = job[t].sid /\ r0.owner = job[t].owner
                               /\ OwnsRecord(job[t].caller, r0.owner)
      BY <1>2, <1>9 DEF LoadPayload, At, JobOK, InLoad
    <3>2. r0 = r /\ r \in Row /\ r \in issued'
      BY <1>3, <2>1, <3>1 DEF IssuedOnce
    <3> DEFINE j == [job[t] EXCEPT !.step = "remember", !.ledger = r.ledger]
    <3>3. /\ j \in Job /\ j.op = "get" /\ j.step = "remember" /\ j.sid = job[t].sid
          /\ j.caller = job[t].caller /\ j.ledger = r.ledger /\ j.owner = job[t].owner
      BY <1>2, <1>9, <3>2, ZenonT(30) DEF Job, Row, LoadPayload, At
    <3>4. job' = [job EXCEPT ![t] = j]
      BY <1>1, <2>1 DEF TypeOK
    <3> HIDE DEF j
    <3>5. JobOK(j, issued')
      BY <2>1, <3>1, <3>2, <3>3
         DEF JobOK, InCreate, InLoad, InRemember, AnsweredGet, AnsweredCreate
    <3>6. QED BY <1>1, <3>3, <3>4, <3>5, JobStep
  <2>2. QED BY <1>4, <1>9, <2>1 DEF LoadPayload
<1>10. CASE RememberPortfolio(t)
  <2>1. PICK r \in issued :
          /\ r.sid = job[t].sid /\ r.owner = job[t].owner /\ r.ledger = job[t].ledger
          /\ job[t].op \in {"get", "create"}
          /\ job[t].op = "get" => OwnsRecord(job[t].caller, r.owner)
          /\ job[t].op = "create" => r.store = job[t].store /\ r.owner = job[t].caller
    BY <1>2, <1>10 DEF RememberPortfolio, JobOK, InRemember
  <2> DEFINE j == [job[t] EXCEPT !.step = "idle", !.reply = "ok", !.sid = job[t].sid,
                                 !.ledger = job[t].ledger, !.owner = NoUser]
  <2>2. /\ j \in Job
        /\ j.op = job[t].op /\ j.step = "idle" /\ j.sid = job[t].sid
        /\ j.caller = job[t].caller /\ j.ledger = job[t].ledger
        /\ j.store = job[t].store
    <3>1. j \in Job
      BY <1>2, ZenonT(30) DEF Job, Callers
    <3>2. /\ j.op = job[t].op /\ j.step = "idle" /\ j.sid = job[t].sid
          /\ j.caller = job[t].caller /\ j.ledger = job[t].ledger
          /\ j.store = job[t].store
      BY <1>2, ZenonT(30) DEF Job
    <3>3. QED BY <3>1, <3>2
  <2>3. job' = [job EXCEPT ![t] = j]
    BY <1>1, <1>2, <1>10 DEF RememberPortfolio, Serve, TypeOK
  <2> HIDE DEF j
  <2>4. JobOK(j, issued')
    BY <2>1, <2>2
       DEF JobOK, InCreate, InLoad, InRemember, AnsweredGet, AnsweredCreate
  <2>5. QED BY <1>1, <2>2, <2>3, <2>4, JobStep
<1>11. CASE CheckDuplicate(t)
  <2>1. job[t].op = "create" /\ job[t].owner = job[t].caller
    BY <1>2, <1>11 DEF CheckDuplicate, At, JobOK, InCreate
  <2>2. ASSUME NEW r \in Duplicates(job[t].store, job[t].caller, job[t].ledger),
               Adopt(t, r.sid)
        PROVE  job' \in [Threads -> Job] /\ JobsOK'
    BY <1>1, <1>3, <2>1, <2>2, AdoptLemma DEF Adopt, Duplicates
  <2>3. CASE Goto(t, "save")
    BY <1>1, <1>11, <2>3, GotoLemma DEF CheckDuplicate
  <2>4. QED BY <1>4, <1>11, <2>2, <2>3 DEF CheckDuplicate
<1>12. CASE SaveSession(t)
  <2>1. /\ job[t].op = "create" /\ job[t].owner = job[t].caller
        /\ job[t].ledger \in Ledgers
    BY <1>2, <1>12 DEF SaveSession, At, JobOK, InCreate
  <2>2. ASSUME NEW s \in Sids,
               issued' = issued \union {[sid |-> s, store |-> job[t].store,
                                        owner |-> job[t].caller, ledger |-> job[t].ledger]},
               job' = [job EXCEPT ![t].step = "remember", ![t].sid = s]
        PROVE  job' \in [Threads -> Job] /\ JobsOK'
    <3> DEFINE r == [sid |-> s, store |-> job[t].store,
                     owner |-> job[t].caller, ledger |-> job[t].ledger]
    <3>1. /\ r \in issued' /\ r.sid = s /\ r.store = job[t].store
          /\ r.owner = job[t].caller /\ r.ledger = job[t].ledger
      BY <2>2
    <3> HIDE DEF r
    <3>2. job' = [job EXCEPT ![t].step = "remember", ![t].sid = r.sid]
      BY <2>2, <3>1
    <3>3. QED BY <1>1, <2>1, <3>1, <3>2, AdoptLemma
  <2>3. ASSUME NEW r \in Conflicts(job[t].store, job[t].caller, job[t].ledger),
               Adopt(t, r.sid)
        PROVE  job' \in [Threads -> Job] /\ JobsOK'
    <3>1. /\ r \in issued' /\ r.store = job[t].store /\ r.owner = job[t].caller
          /\ r.ledger = job[t].ledger
      BY <1>3, <2>3 DEF Conflicts, Duplicates
    <3>2. QED BY <1>1, <2>1, <2>3, <3>1, AdoptLemma DEF Adopt
  <2>4. QED BY <1>4, <1>12, <2>2, <2>3 DEF SaveSession
<1>13. CASE AuthorizeDelete(t)
  <2>1. CASE Goto(t, "forget")
    BY <1>1, <2>1, GotoLemma
  <2>2. QED BY <1>4, <1>13, <2>1 DEF AuthorizeDelete
<1>14. CASE ForgetSession(t) \/ EvictUser(t) \/ ClearStore(t)
  <2>1. job[t].op \notin {"get", "create"} /\ job[t].step \notin {"load", "remember"}
    BY <1>14 DEF ForgetSession, EvictUser, ClearStore, At
  <2>2. \/ job' = [job EXCEPT ![t].store = "equity"]
        \/ Goto(t, "drop")
        \/ Answer(t, "ok")
    BY <1>14 DEF ForgetSession, EvictUser, ClearStore, NextStore
  <2>3. CASE job' = [job EXCEPT ![t].store = "equity"]
    BY <1>1, <2>1, <2>3, NextStoreLemma
  <2>4. CASE Goto(t, "drop")
    BY <1>1, <2>4, GotoLemma
  <2>5. QED BY <1>4, <2>2, <2>3, <2>4
<1>15. CASE DeleteRow(t)
  BY <1>4, <1>15 DEF DeleteRow
<1>16. CASE DeleteAccount(t)
  BY <1>4, <1>16 DEF DeleteAccount
<1>17. QED
  BY <1>5, <1>6, <1>7, <1>8, <1>9, <1>10, <1>11, <1>12, <1>13, <1>14, <1>15, <1>16
     DEF Proceed

\* Whatever happens, a worker, the janitor or a restart: the requests' invariant.
LEMMA JobsStep ==
    ASSUME IInv, [Next]_vars, issued \subseteq issued', issued' \subseteq Row
    PROVE  job' \in [Threads -> Job] /\ JobsOK'
<1>1. TypeOK /\ JobsOK
  BY DEF IInv
<1>2. ASSUME NEW t \in Threads, NEW j \in Job, Begin(t, j),
             j.step \in {"probe", "dedup", "owner", "evict"}, j.reply = "none",
             j.step = "dedup" => j.owner = j.caller /\ j.ledger \in Ledgers
      PROVE  job' \in [Threads -> Job] /\ JobsOK'
  <2>1. JobOK(j, issued')
    BY <1>2 DEF JobOK, InCreate, InLoad, InRemember, AnsweredGet, AnsweredCreate
  <2>2. job' = [job EXCEPT ![t] = j]
    BY <1>2 DEF Begin
  <2>3. QED BY <1>1, <2>1, <2>2, JobStep
<1>3. NoJob \in Job /\ SidsOf(issued) \subseteq Sids
  BY <1>1 DEF NoJob, Job, Stores, Callers, TypeOK, SidsOf, Row
<1>4. ASSUME NEW t \in Threads, BeginGet(t) PROVE job' \in [Threads -> Job] /\ JobsOK'
  <2>1. PICK st \in Stores, u \in Callers, s \in SidsOf(issued) :
          Begin(t, [NoJob EXCEPT !.op = "get", !.step = "probe", !.store = st,
                                 !.caller = u, !.sid = s])
    BY <1>4 DEF BeginGet
  <2>2. [NoJob EXCEPT !.op = "get", !.step = "probe", !.store = st,
                      !.caller = u, !.sid = s] \in Job
    BY <1>3 DEF NoJob, Job
  <2>3. QED BY <1>2, <2>1, <2>2 DEF NoJob
<1>5. ASSUME NEW t \in Threads, BeginCreate(t) PROVE job' \in [Threads -> Job] /\ JobsOK'
  <2>1. PICK st \in Stores, u \in Callers, l \in Ledgers :
          Begin(t, [NoJob EXCEPT !.op = "create", !.step = "dedup", !.store = st,
                                 !.caller = u, !.owner = u, !.ledger = l])
    BY <1>5 DEF BeginCreate
  <2>2. [NoJob EXCEPT !.op = "create", !.step = "dedup", !.store = st,
                      !.caller = u, !.owner = u, !.ledger = l] \in Job
    BY <1>3 DEF NoJob, Job
  <2>3. QED BY <1>2, <2>1, <2>2 DEF NoJob
<1>6. ASSUME NEW t \in Threads, BeginDelete(t) PROVE job' \in [Threads -> Job] /\ JobsOK'
  <2>1. PICK u \in Callers, s \in SidsOf(issued) :
          Begin(t, [NoJob EXCEPT !.op = "delete", !.step = "owner",
                                 !.caller = u, !.sid = s])
    BY <1>6 DEF BeginDelete
  <2>2. [NoJob EXCEPT !.op = "delete", !.step = "owner",
                      !.caller = u, !.sid = s] \in Job
    BY <1>3 DEF NoJob, Job
  <2>3. QED BY <1>2, <2>1, <2>2 DEF NoJob
<1>7. ASSUME NEW t \in Threads, BeginPurge(t) \/ BeginLogout(t) \/ BeginClear(t)
      PROVE  job' \in [Threads -> Job] /\ JobsOK'
  <2>1. ASSUME NEW op \in {"purge", "logout"}, NEW u \in Users,
               Begin(t, [NoJob EXCEPT !.op = op, !.step = "evict", !.caller = u])
        PROVE  job' \in [Threads -> Job] /\ JobsOK'
    <3>1. [NoJob EXCEPT !.op = op, !.step = "evict", !.caller = u] \in Job
      BY <1>3 DEF NoJob, Job, Callers
    <3>2. QED BY <1>2, <2>1, <3>1 DEF NoJob
  <2>2. CASE BeginClear(t)
    <3>1. [NoJob EXCEPT !.op = "clear", !.step = "evict"] \in Job
      BY <1>3 DEF NoJob, Job
    <3>2. QED BY <1>2, <2>2, <3>1 DEF NoJob, BeginClear
  <2>3. QED BY <1>7, <2>1, <2>2 DEF BeginPurge, BeginLogout
<1>8. CASE UNCHANGED job
  BY <1>1, <1>8, JobMonotone DEF TypeOK, JobsOK
<1>9. CASE Restart
  <2>1. \A t \in Threads : job'[t] = NoJob
    BY <1>9 DEF Restart
  <2>2. JobOK(NoJob, issued')
    BY DEF NoJob, JobOK, InCreate, InLoad, InRemember, AnsweredGet, AnsweredCreate
  <2>3. QED BY <1>3, <1>9, <2>1, <2>2 DEF Restart, JobsOK
<1>10. QED
  BY <1>4, <1>5, <1>6, <1>7, <1>8, <1>9, ProceedJobs
     DEF Next, Arrive, GoIdle, PurgeExpired, vars

-----------------------------------------------------------------------------
(* The invariant holds, and what follows from it.                           *)

\* The process starts with nothing resident, stored or under way.
LEMMA InitIInv == Init => IInv
<1> SUFFICES ASSUME Init PROVE IInv
  OBVIOUS
<1> USE DEF Init
<1>1. NoJob \in Job
  BY DEF NoJob, Job, Stores, Callers
<1>2. TypeOK
  BY <1>1 DEF TypeOK
<1>3. JobsOK
  BY DEF NoJob, JobsOK, JobOK, InCreate, InLoad, InRemember, AnsweredGet, AnsweredCreate
<1>4. Bounded
  BY FS_EmptySet, ConstantsAssumption DEF Bounded
<1>5. QED
  BY <1>2, <1>3, <1>4 DEF IInv, IssuedOnce, EntriesOK, OwnedUploadsDedup

\* No step of anybody breaks the invariant.
LEMMA NextIInv == IInv /\ [Next]_vars => IInv'
<1> SUFFICES ASSUME IInv, [Next]_vars PROVE IInv'
  OBVIOUS
<1>1. RegistryOK' /\ issued \subseteq issued'
  BY RegistryStep
<1>2. StoresOK'
  BY <1>1, StoresStep
<1>3. issued' \subseteq Row
  BY <1>1 DEF RegistryOK
<1>4. job' \in [Threads -> Job] /\ JobsOK'
  BY <1>1, <1>3, JobsStep
<1>5. TypeOK'
  BY <1>1, <1>2, <1>4 DEF TypeOK, RegistryOK, StoresOK
<1>6. QED BY <1>1, <1>2, <1>4, <1>5 DEF IInv, RegistryOK, StoresOK

\* The inductive invariant is an invariant.
LEMMA Inductive == Spec => []IInv
<1> QED BY InitIInv, NextIInv, PTL DEF Spec

\* The registry, the stores and the requests keep their shapes; in particular a
\* finished upload or read always carries a real session id.
THEOREM TypeCorrect == Spec => []TypeOK
<1>1. IInv => TypeOK
  BY DEF IInv
<1> QED BY <1>1, Inductive, PTL

\* For any number of workers and any cap, get_session never hands a portfolio to
\* an account it was not stored for, and never the wrong portfolio: the owner on
\* a resident entry and the owner read before the payload stay true through
\* eviction, deletion, purge and restart.
THEOREM ServedToItsOwner == Spec => []ServedToOwner
<1>1. IInv => ServedToOwner
  BY DEF IInv, JobsOK, JobOK, AnsweredGet, ServedToOwner
<1> QED BY <1>1, Inductive, PTL

\* The owner and the ledger a resident entry carries are those its id was issued
\* with, in either store.
THEOREM EntriesAreFaithful == Spec => []ResidentFaithful
<1>1. IInv => ResidentFaithful
  BY DEF IInv, EntriesOK, EntryOK, ResidentFaithful
<1> QED BY <1>1, Inductive, PTL

\* create_session returns only ids that were committed for this caller, this
\* ledger and this domain, whoever won the insert.
THEOREM CreatedIdsExist == Spec => []CreatedIdIsRegistered
<1>1. IInv => CreatedIdIsRegistered
  BY DEF IInv, JobsOK, JobOK, AnsweredCreate, CreatedIdIsRegistered
<1> QED BY <1>1, Inductive, PTL

\* A signed-in account never has the same ledger twice in one domain.
THEOREM OwnedLedgersAreUnique == Spec => []OwnedUploadsDedup
<1>1. IInv => OwnedUploadsDedup
  BY DEF IInv
<1> QED BY <1>1, Inductive, PTL

\* Neither store ever exceeds MAX_RESIDENT_SESSIONS.
THEOREM StoresAreBounded == Spec => []ResidentBounded
<1>1. IInv => ResidentBounded
  BY DEF IInv, Bounded, ResidentBounded
<1> QED BY <1>1, Inductive, PTL

-----------------------------------------------------------------------------
(* A session that is gone stays gone.                                       *)

\* A row is there because it was, or because an upload just drew its fresh id.
LEMMA RowsStep ==
    ASSUME [Next]_vars
    PROVE  SidsOf(rows') \ SidsOf(rows) \subseteq Sids \ SidsOf(issued)
<1>1. CASE rows' \subseteq rows
  BY <1>1 DEF SidsOf
<1>2. ASSUME NEW t \in Threads, Arrive(t) PROVE rows' \subseteq rows
  BY <1>2 DEF Arrive, Begin, BeginGet, BeginCreate, BeginDelete, BeginPurge,
              BeginLogout, BeginClear
<1>3. ASSUME NEW t \in Threads, Proceed(t)
      PROVE  rows' \subseteq rows \/ SaveSession(t)
  BY <1>3 DEF Proceed, ServeResident, DenyResident, MissResident, AuthorizeGet,
              LoadPayload, RememberPortfolio, CheckDuplicate, AuthorizeDelete,
              ForgetSession, DeleteRow, EvictUser, DeleteAccount, ClearStore
<1>4. ASSUME NEW t \in Threads, SaveSession(t)
      PROVE  SidsOf(rows') \ SidsOf(rows) \subseteq Sids \ SidsOf(issued)
  <2>1. CASE rows' = rows
    BY <1>1, <2>1
  <2>2. CASE \E s \in Sids \ SidsOf(issued) : \E r :
               r.sid = s /\ rows' = rows \union {r}
    BY <2>2 DEF SidsOf
  <2>3. QED BY <1>4, <2>1, <2>2 DEF SaveSession
<1>5. CASE \/ \E st \in Stores : \E e \in resident[st] : GoIdle(st, e)
           \/ \E st \in Stores : PurgeExpired(st)
           \/ Restart
           \/ UNCHANGED vars
  BY <1>1, <1>5 DEF GoIdle, PurgeExpired, Restart, vars
<1>6. QED BY <1>1, <1>2, <1>3, <1>4, <1>5 DEF Next

\* A request that is about to make a session resident was already, or has just
\* seen its row, or has just committed it under a fresh id.
LEMMA RememberStep ==
    ASSUME IInv, [Next]_vars, NEW t \in Threads, job'[t].step = "remember"
    PROVE  \/ job[t].step = "remember" /\ job'[t].sid = job[t].sid
           \/ job'[t].sid \in SidsOf(rows)
           \/ job'[t].sid \in SidsOf(rows') \ SidsOf(issued)
<1>1. job \in [Threads -> Job] /\ job[t] \in Job
  BY DEF IInv, TypeOK
<1>14. ASSUME NEW what, Answer(t, what) PROVE job'[t].step = "idle"
  BY <1>1, <1>14 DEF Answer, NoJob
<1>15. ASSUME NEW step, Goto(t, step) PROVE job'[t].step = step
  BY <1>1, <1>15 DEF Goto, Job
<1>16. ASSUME NEW x, NEW l, Serve(t, x, l) PROVE job'[t].step = "idle"
  BY <1>1, <1>16 DEF Serve, Job
<1>2. ASSUME NEW u \in Threads, u # t, Arrive(u) \/ Proceed(u) PROVE job'[t] = job[t]
  BY <1>1, <1>2 DEF Arrive, Begin, BeginGet, BeginCreate, BeginDelete, BeginPurge,
     BeginLogout, BeginClear, Proceed, ServeResident, DenyResident, MissResident,
     AuthorizeGet, LoadPayload, RememberPortfolio, CheckDuplicate, SaveSession,
     AuthorizeDelete, ForgetSession, DeleteRow, EvictUser, DeleteAccount,
     ClearStore, Goto, Serve, Answer, Adopt, NextStore
<1>3. CASE Arrive(t)
  BY ZenonT(40), <1>1, <1>3 DEF Arrive, Begin, BeginGet, BeginCreate, BeginDelete, BeginPurge,
     BeginLogout, BeginClear, NoJob
<1>4. CASE LoadPayload(t)
  <2>1. CASE \E r \in rows :
               /\ r.sid = job[t].sid
               /\ job' = [job EXCEPT ![t].step = "remember", ![t].ledger = r.ledger]
    <3>1. job'[t].sid = job[t].sid
      BY <1>1, <2>1 DEF Job
    <3>2. QED BY <2>1, <3>1 DEF SidsOf
  <2>2. CASE Answer(t, "notfound") \/ Answer(t, "failed")
    BY <1>14, <2>2
  <2>3. QED BY <1>4, <2>1, <2>2 DEF LoadPayload
<1>5. ASSUME NEW s, Adopt(t, s) PROVE job'[t].sid = s
  BY <1>1, <1>5 DEF Adopt, Serve, Job
<1>6. CASE CheckDuplicate(t)
  <2>1. CASE \E r \in rows : Adopt(t, r.sid)
    BY <1>5, <2>1 DEF SidsOf
  <2>2. CASE Goto(t, "save") \/ Answer(t, "failed")
    BY <1>14, <1>15, <2>2
  <2>3. QED BY <1>6, <2>1, <2>2 DEF CheckDuplicate, Duplicates
<1>7. CASE SaveSession(t)
  <2>1. CASE \E r \in rows : Adopt(t, r.sid)
    BY <1>5, <2>1 DEF SidsOf
  <2>2. CASE Answer(t, "failed")
    BY <1>14, <2>2
  <2>3. CASE \E s \in Sids \ SidsOf(issued) : \E r :
               /\ r.sid = s /\ rows' = rows \union {r}
               /\ job' = [job EXCEPT ![t].step = "remember", ![t].sid = s]
    BY <1>1, <2>3 DEF Job, SidsOf
  <2>4. QED BY <1>7, <2>1, <2>2, <2>3 DEF SaveSession, Conflicts, Duplicates
<1>8. CASE ServeResident(t) \/ DenyResident(t) \/ RememberPortfolio(t) \/ DeleteRow(t)
             \/ DeleteAccount(t)
  <2>1. (\E s, l : Serve(t, s, l)) \/ (\E what : Answer(t, what))
    BY <1>8 DEF ServeResident, DenyResident, RememberPortfolio, DeleteRow, DeleteAccount
  <2>2. job'[t].step = "idle"
    BY <1>14, <1>16, <2>1
  <2>3. QED BY <2>2
<1>9. CASE MissResident(t) \/ AuthorizeGet(t) \/ AuthorizeDelete(t)
  <2>1. ASSUME NEW r,
               job' = [job EXCEPT ![t].step = "load", ![t].owner = r.owner]
        PROVE  job'[t].step = "load"
    BY <1>1, <2>1 DEF Job
  <2>2. QED BY <1>9, <1>14, <1>15, <2>1 DEF MissResident, AuthorizeGet, AuthorizeDelete
<1>10. CASE ForgetSession(t) \/ EvictUser(t) \/ ClearStore(t)
  <2>1. CASE job' = [job EXCEPT ![t].store = "equity"]
    <3>1. job'[t].step = job[t].step
      BY <1>1, <2>1 DEF Job
    <3>2. job[t].step # "remember"
      BY <1>10 DEF ForgetSession, EvictUser, ClearStore, At
    <3>3. QED BY <3>1, <3>2
  <2>2. QED
    BY <1>10, <1>14, <1>15, <2>1 DEF ForgetSession, EvictUser, ClearStore, NextStore
<1>11. CASE Restart
  BY <1>11 DEF Restart, NoJob
<1>12. CASE job' = job
  BY <1>12
<1>13. QED
  BY <1>2, <1>3, <1>4, <1>6, <1>7, <1>8, <1>9, <1>10, <1>11, <1>12
     DEF Next, Proceed, GoIdle, PurgeExpired, vars

\* A session becomes resident only by a request that was about to remember it.
LEMMA ResidentStep ==
    ASSUME IInv, [Next]_vars, NEW st \in Stores, NEW s \in SidsOf(resident'[st])
    PROVE  \/ s \in SidsOf(resident[st])
           \/ \E t \in Threads : job[t].step = "remember" /\ job[t].sid = s
<1>1. TypeOK /\ Bounded
  BY DEF IInv
<1>2. \A t \in Threads : job[t].store \in Stores
  BY <1>1 DEF TypeOK, Job
<1>3. CASE resident' = resident
  BY <1>3
<1>4. ASSUME NEW s2 \in Stores, NEW doomed, Discard(s2, doomed)
      PROVE  s \in SidsOf(resident[st])
  BY <1>1, <1>4, DiscardLemma DEF SidsOf
<1>5. ASSUME NEW s2 \in Stores, NEW e \in resident[s2], NEW b \in BOOLEAN,
             resident' = [resident EXCEPT ![s2] = (@ \ {e}) \union {[e EXCEPT !.idle = b]}]
      PROVE  s \in SidsOf(resident[st])
  <2>1. \A s3 \in Stores : \A x \in resident'[s3] : \E y \in resident[s3] :
          x.sid = y.sid /\ x.owner = y.owner /\ x.ledger = y.ledger
    <3> HIDE DEF TypeOK, Bounded
    <3> QED BY <1>1, <1>5, ReplaceLemma, Zenon
  <2>2. QED BY <2>1 DEF SidsOf
<1>6. ASSUME NEW t \in Threads, RememberPortfolio(t)
      PROVE  \/ s \in SidsOf(resident[st])
             \/ job[t].step = "remember" /\ job[t].sid = s
  <2> DEFINE e == [sid |-> job[t].sid, owner |-> job[t].owner,
                   ledger |-> job[t].ledger, idle |-> FALSE]
  <2>1. job[t].step = "remember" /\ Remember(job[t].store, e) /\ e.sid = job[t].sid
    BY <1>6 DEF RememberPortfolio
  <2>2. resident'[st] \subseteq resident[st] \union {e}
    BY <1>1, <1>2, <2>1 DEF Remember, TypeOK
  <2>3. QED BY <2>1, <2>2 DEF SidsOf
<1>7. CASE Restart
  BY <1>7 DEF Restart, SidsOf
<1>8. ASSUME NEW t \in Threads, Arrive(t) PROVE resident' = resident
  BY <1>8 DEF Arrive, Begin, BeginGet, BeginCreate, BeginDelete, BeginPurge,
              BeginLogout, BeginClear
<1>9. ASSUME NEW t \in Threads, Proceed(t)
      PROVE  \/ resident' = resident
             \/ \E doomed : Discard(job[t].store, doomed)
             \/ \E e \in resident[job[t].store] : Touch(job[t].store, e)
             \/ RememberPortfolio(t)
  BY <1>9 DEF Proceed, ServeResident, DenyResident, MissResident, AuthorizeGet,
              LoadPayload, CheckDuplicate, SaveSession, AuthorizeDelete,
              ForgetSession, DeleteRow, EvictUser, DeleteAccount, ClearStore
<1>10. ASSUME NEW t \in Threads, NEW e \in resident[job[t].store], Touch(job[t].store, e)
       PROVE  s \in SidsOf(resident[st])
  BY <1>2, <1>5, <1>10 DEF Touch
<1>11. ASSUME NEW s2 \in Stores, NEW e \in resident[s2], GoIdle(s2, e)
       PROVE  s \in SidsOf(resident[st])
  BY <1>5, <1>11 DEF GoIdle
<1>12. QED
  BY <1>2, <1>3, <1>4, <1>6, <1>7, <1>8, <1>9, <1>10, <1>11
     DEF Next, PurgeExpired, vars

\* No step of anybody revives a session that is gone.
LEMMA GoneStep ==
    ASSUME IInv, [Next]_vars, NEW s \in Sids, Gone(s)
    PROVE  Gone(s)'
<1>1. s \in SidsOf(issued')
  BY RegistryStep DEF Gone, SidsOf
<1>2. s \notin SidsOf(rows')
  BY RowsStep DEF Gone
<1>3. \A st \in Stores : s \notin SidsOf(resident'[st])
  BY ResidentStep DEF Gone
<1>4. \A t \in Threads : job'[t].step = "remember" => job'[t].sid # s
  BY RememberStep DEF Gone
<1>5. QED BY <1>1, <1>2, <1>3, <1>4 DEF Gone, SidsOf

\* However requests, evictions, deletions and restarts interleave, a session
\* that has no row, no resident copy and no request about to remember it never
\* comes back.
THEOREM NoRevival == Spec => GoneForGood
<1>1. IInv /\ [Next]_vars => [\A s \in Sids : Gone(s) => Gone(s)']_vars
  BY GoneStep
<1> QED BY <1>1, Inductive, PTL DEF Spec, GoneForGood

-----------------------------------------------------------------------------
(* One worker: no request overlaps another.                                 *)

\* The ids of the rows that the deletion or the purge under way will remove.
Doomed(j) ==
    {r.sid : r \in {x \in rows : \/ j.op = "delete" /\ x.sid = j.sid
                                 \/ j.op = "purge" /\ x.owner = j.caller}}

\* The stores that deletion or purge has been through.
Cleared(j, st) ==
    \/ j.step = "drop"
    \/ j.step \in {"forget", "evict"} /\ j.store = "equity" /\ st = "mutual_funds"

\* What is resident has its row, what is about to be resident has its row, a
\* deletion starts at the first store, and a store that was cleared holds nothing
\* of what is about to lose its row.
Attended(w) ==
    /\ \A st \in Stores : SidsOf(resident[st]) \subseteq SidsOf(rows)
    /\ job[w].step = "remember" => job[w].sid \in SidsOf(rows)
    /\ At(w, "delete", "owner") => job[w].store = "mutual_funds"
    /\ \A st \in Stores :
         Cleared(job[w], st) => Doomed(job[w]) \cap SidsOf(resident[st]) = {}

\* Rows go only when a deletion or a purge drops them, and then exactly its own.
LEMMA RowsKept ==
    ASSUME [Next]_vars
    PROVE  \/ SidsOf(rows) \subseteq SidsOf(rows')
           \/ \E t \in Threads :
                /\ job[t].step = "drop" /\ UNCHANGED resident
                /\ SidsOf(rows) \ Doomed(job[t]) \subseteq SidsOf(rows')
                /\ \E what : Answer(t, what)
<1>1. CASE rows' = rows
  BY <1>1
<1>2. ASSUME NEW t \in Threads, Arrive(t) PROVE rows' = rows
  BY <1>2 DEF Arrive, Begin, BeginGet, BeginCreate, BeginDelete, BeginPurge,
              BeginLogout, BeginClear
<1>3. ASSUME NEW t \in Threads, Proceed(t)
      PROVE  rows' = rows \/ SaveSession(t) \/ DeleteRow(t) \/ DeleteAccount(t)
  BY <1>3 DEF Proceed, ServeResident, DenyResident, MissResident, AuthorizeGet,
              LoadPayload, RememberPortfolio, CheckDuplicate, AuthorizeDelete,
              ForgetSession, EvictUser, ClearStore
<1>4. ASSUME NEW t \in Threads, SaveSession(t) PROVE rows \subseteq rows'
  BY <1>4 DEF SaveSession
<1>5. ASSUME NEW t \in Threads, DeleteRow(t) \/ DeleteAccount(t)
      PROVE  /\ job[t].step = "drop" /\ UNCHANGED resident
             /\ SidsOf(rows) \ Doomed(job[t]) \subseteq SidsOf(rows')
             /\ \E what : Answer(t, what)
  <2>1. CASE DeleteRow(t)
    BY <2>1 DEF DeleteRow, At, SidsOf, Doomed
  <2>2. CASE DeleteAccount(t)
    BY <2>2 DEF DeleteAccount, At, SidsOf, Doomed
  <2>3. QED BY <1>5, <2>1, <2>2
<1>6. CASE \/ \E st \in Stores : \E e \in resident[st] : GoIdle(st, e)
           \/ \E st \in Stores : PurgeExpired(st)
           \/ Restart
           \/ UNCHANGED vars
  BY <1>1, <1>6 DEF GoIdle, PurgeExpired, Restart, vars
<1>7. ASSUME NEW t \in Threads, SaveSession(t) PROVE SidsOf(rows) \subseteq SidsOf(rows')
  BY <1>4, <1>7 DEF SidsOf
<1>8. QED BY <1>1, <1>2, <1>3, <1>5, <1>6, <1>7 DEF Next

\* The worker alone decides what becomes resident and whose rows go.
LEMMA AttendedRows ==
    ASSUME NEW w, Threads = {w}, IInv, Attended(w), [Next]_vars
    PROVE  /\ \A st \in Stores : SidsOf(resident'[st]) \subseteq SidsOf(rows)
           /\ \A st \in Stores : SidsOf(resident'[st]) \subseteq SidsOf(rows')
           /\ job'[w].step = "remember" => job'[w].sid \in SidsOf(rows')
<1>1. \A st \in Stores : SidsOf(resident'[st]) \subseteq SidsOf(rows)
  BY ResidentStep DEF Attended
<1>2. job'[w].step = "remember" =>
        job'[w].sid \in SidsOf(rows) \/ job'[w].sid \in SidsOf(rows')
  BY RememberStep DEF Attended
<1>3. CASE SidsOf(rows) \subseteq SidsOf(rows')
  BY <1>1, <1>2, <1>3
<1>4. CASE /\ job[w].step = "drop" /\ UNCHANGED resident
           /\ SidsOf(rows) \ Doomed(job[w]) \subseteq SidsOf(rows')
           /\ \E what : Answer(w, what)
  <2>1. \A st \in Stores : SidsOf(resident'[st]) \subseteq SidsOf(rows')
    BY <1>1, <1>4 DEF Attended, Cleared
  <2>2. job'[w].step = "idle"
    BY <1>4 DEF Answer, NoJob, IInv, TypeOK
  <2>3. QED BY <1>1, <2>1, <2>2
<1>5. QED BY <1>3, <1>4, RowsKept

\* Discarding a session's entries, or an account's, clears the store of it.
LEMMA DiscardClears ==
    ASSUME IInv, NEW t \in Threads, ForgetSession(t) \/ EvictUser(t), UNCHANGED rows,
           job[t].op # "logout"
    PROVE  Doomed(job[t]) \cap SidsOf(resident'[job[t].store]) = {}
<1> DEFINE st == job[t].store
<1>1. st \in Stores /\ resident \in [Stores -> SUBSET Entry]
  BY DEF IInv, TypeOK, Job
<1>2. CASE ForgetSession(t)
  <2>1. \A e \in resident'[st] : e.sid # job[t].sid
    BY <1>1, <1>2 DEF ForgetSession, Discard
  <2>2. job[t].op = "delete"
    BY <1>2 DEF ForgetSession, At
  <2>3. QED BY <2>1, <2>2 DEF Doomed, SidsOf
<1>3. CASE EvictUser(t)
  <2>1. \A e \in resident'[st] : e \in resident[st] /\ e.owner # job[t].caller
    BY <1>1, <1>3 DEF EvictUser, Discard
  <2>2. job[t].op = "purge"
    BY <1>3 DEF EvictUser
  <2>3. ASSUME NEW e \in resident'[st], NEW r \in rows, r.owner = job[t].caller
        PROVE  e.sid # r.sid
    <3>1. PICK q \in issued : q.sid = e.sid /\ q.owner = e.owner
      BY <1>1, <2>1 DEF IInv, EntriesOK, EntryOK
    <3>2. r \in issued
      BY DEF IInv
    <3>3. QED BY <2>1, <2>3, <3>1, <3>2 DEF IInv, IssuedOnce
  <2>4. QED BY <2>2, <2>3 DEF Doomed, SidsOf
<1>4. QED BY <1>2, <1>3

\* Most moves lead to a request that has cleared nothing, or has nothing to drop.
Harmless(j) == j.op \in {"delete", "purge"} => \A st \in Stores : ~Cleared(j, st)

\* A finished request has cleared nothing.
LEMMA AnsweredHarmless ==
    ASSUME TypeOK, NEW t \in Threads
    PROVE  /\ \A what : Answer(t, what) => Harmless(job'[t]) /\ job'[t].op = "none"
           /\ \A s, l : Serve(t, s, l) => Harmless(job'[t]) /\ job'[t].op = job[t].op
                                            /\ job'[t].step = "idle"
<1>1. job \in [Threads -> Job] /\ job[t] \in Job
  BY DEF TypeOK
<1>2. ASSUME NEW what, Answer(t, what) PROVE job'[t].op = "none" /\ job'[t].step = "idle"
  BY <1>1, <1>2 DEF Answer, NoJob
<1>3. ASSUME NEW s, NEW l, Serve(t, s, l)
      PROVE  job'[t].op = job[t].op /\ job'[t].step = "idle"
  BY <1>1, <1>3 DEF Serve, Job
<1>4. QED BY <1>2, <1>3 DEF Harmless, Cleared

\* A request starts at the first store and has cleared nothing.
LEMMA ArriveHarmless ==
    ASSUME TypeOK, NEW t \in Threads, Arrive(t)
    PROVE  /\ Harmless(job'[t])
           /\ job'[t].op = "delete" => job'[t].store = "mutual_funds"
<1>1. job \in [Threads -> Job]
  BY DEF TypeOK
<1>2. CASE BeginGet(t) \/ BeginCreate(t) \/ BeginLogout(t) \/ BeginClear(t)
  <2>1. job'[t].op \in {"get", "create", "logout", "clear"}
    BY ZenonT(40), <1>1, <1>2 DEF BeginGet, BeginCreate, BeginLogout, BeginClear, Begin, NoJob
  <2>2. QED BY <2>1 DEF Harmless
<1>3. CASE BeginDelete(t)
  <2>1. job'[t].store = "mutual_funds" /\ job'[t].step = "owner"
    BY <1>1, <1>3 DEF BeginDelete, Begin, NoJob
  <2>2. QED BY <2>1 DEF Harmless, Cleared
<1>4. CASE BeginPurge(t)
  <2>1. job'[t].store = "mutual_funds" /\ job'[t].step = "evict" /\ job'[t].op = "purge"
    BY <1>1, <1>4 DEF BeginPurge, Begin, NoJob
  <2>2. QED BY <2>1 DEF Harmless, Cleared
<1>5. QED BY <1>2, <1>3, <1>4 DEF Arrive

\* Reading, uploading, authorizing and clearing the caches drop no row later.
LEMMA ProceedHarmless ==
    ASSUME TypeOK, NEW t \in Threads, Proceed(t), ~ForgetSession(t), ~EvictUser(t),
           At(t, "delete", "owner") => job[t].store = "mutual_funds"
    PROVE  Harmless(job'[t]) /\ ~At(t, "delete", "owner")'
<1>1. job \in [Threads -> Job] /\ job[t] \in Job
  BY DEF TypeOK
<1>2. ASSUME \/ \E what : Answer(t, what)
             \/ \E s, l : Serve(t, s, l)
      PROVE  Harmless(job'[t]) /\ ~At(t, "delete", "owner")'
  <2>1. job'[t].op = "none" \/ job'[t].step = "idle"
    BY <1>2, AnsweredHarmless
  <2>2. QED BY <1>2, <2>1, AnsweredHarmless DEF At
<1>3. ASSUME job'[t].op = job[t].op, job[t].op \in {"get", "create", "clear"}
      PROVE  Harmless(job'[t]) /\ ~At(t, "delete", "owner")'
  BY <1>3 DEF Harmless, At
<1>4. ASSUME NEW step, Goto(t, step)
      PROVE  /\ job'[t].op = job[t].op /\ job'[t].store = job[t].store
             /\ job'[t].step = step
  BY <1>1, <1>4 DEF Goto, Job
<1>5. ASSUME NEW s, Adopt(t, s), job[t].op = "create"
      PROVE  Harmless(job'[t]) /\ ~At(t, "delete", "owner")'
  <2>1. CASE \E l : Serve(t, s, l)
    BY <1>2, <2>1
  <2>2. CASE job' = [job EXCEPT ![t].step = "remember", ![t].sid = s]
    <3>1. job'[t].op = job[t].op
      BY <1>1, <2>2 DEF Job
    <3>2. QED BY <1>3, <1>5, <3>1
  <2>3. QED BY <1>5, <2>1, <2>2 DEF Adopt
<1>6. CASE ServeResident(t) \/ DenyResident(t) \/ RememberPortfolio(t) \/ DeleteRow(t)
             \/ DeleteAccount(t)
  BY <1>2, <1>6 DEF ServeResident, DenyResident, RememberPortfolio, DeleteRow, DeleteAccount
<1>7. CASE MissResident(t)
  BY <1>3, <1>4, <1>7 DEF MissResident, At
<1>8. CASE AuthorizeGet(t)
  <2>1. ASSUME NEW r,
               job' = [job EXCEPT ![t].step = "load", ![t].owner = r.owner]
        PROVE  job'[t].op = job[t].op
    BY <1>1, <2>1 DEF Job
  <2>2. QED BY <1>2, <1>3, <1>8, <2>1 DEF AuthorizeGet, At
<1>9. CASE LoadPayload(t)
  <2>1. ASSUME NEW r,
               job' = [job EXCEPT ![t].step = "remember", ![t].ledger = r.ledger]
        PROVE  job'[t].op = job[t].op
    BY <1>1, <2>1 DEF Job
  <2>2. QED BY <1>2, <1>3, <1>9, <2>1 DEF LoadPayload, At
<1>10. CASE CheckDuplicate(t)
  BY <1>2, <1>3, <1>4, <1>5, <1>10 DEF CheckDuplicate, At
<1>11. CASE SaveSession(t)
  <2>1. ASSUME NEW s,
               job' = [job EXCEPT ![t].step = "remember", ![t].sid = s]
        PROVE  job'[t].op = job[t].op
    BY <1>1, <2>1 DEF Job
  <2>2. QED BY <1>2, <1>3, <1>5, <1>11, <2>1 DEF SaveSession, At
<1>12. CASE AuthorizeDelete(t)
  <2>1. CASE Goto(t, "forget")
    <3>1. job'[t].store = "mutual_funds" /\ job'[t].step = "forget"
      BY <1>4, <1>12, <2>1 DEF AuthorizeDelete
    <3>2. QED BY <3>1 DEF Harmless, Cleared, At
  <2>2. QED BY <1>2, <1>12, <2>1 DEF AuthorizeDelete
<1>13. CASE ClearStore(t)
  <2>1. ASSUME job' = [job EXCEPT ![t].store = "equity"] PROVE job'[t].op = job[t].op
    BY <1>1, <2>1 DEF Job
  <2>2. QED BY <1>2, <1>3, <1>13, <2>1 DEF ClearStore, NextStore, At
<1>14. QED
  BY <1>6, <1>7, <1>8, <1>9, <1>10, <1>11, <1>12, <1>13 DEF Proceed

\* A store passed by a deletion or a purge is clear, and so is the one before.
LEMMA AttendedClears ==
    ASSUME NEW w, Threads = {w}, IInv, Attended(w), [Next]_vars,
           ForgetSession(w) \/ EvictUser(w),
           NEW st \in Stores, Cleared(job'[w], st),
           job'[w].op \in {"delete", "purge"}
    PROVE  Doomed(job[w]) \cap SidsOf(resident'[st]) = {}
<1> DEFINE j == job[w]
<1>1. job \in [Threads -> Job] /\ j \in Job /\ w \in Threads
  BY DEF IInv, TypeOK
<1>2. CASE /\ job' = [job EXCEPT ![w].store = "equity"]
           /\ j.store = "mutual_funds"
  <2>1. job'[w].store = "equity" /\ job'[w].step = j.step /\ job'[w].op = j.op
    BY <1>1, <1>2 DEF Job
  <2>2. j.step \in {"forget", "evict"}
    BY DEF ForgetSession, EvictUser, At
  <2>3. st = "mutual_funds" /\ j.op # "logout"
    BY <2>1, <2>2 DEF Cleared
  <2>4. UNCHANGED rows
    BY DEF ForgetSession, EvictUser
  <2>5. QED BY <1>1, <1>2, <2>3, <2>4, DiscardClears
<1>3. CASE Goto(w, "drop") /\ j.store # "mutual_funds"
  <2>1. j.store = "equity" /\ job'[w].op = j.op
    BY <1>1, <1>3 DEF Goto, Job, Stores
  <2>2. j.step \in {"forget", "evict"} /\ j.op # "logout" /\ UNCHANGED rows
    BY <2>1 DEF ForgetSession, EvictUser, At
  <2>3. CASE st = "equity"
    BY <1>1, <2>1, <2>2, <2>3, DiscardClears
  <2>4. CASE st = "mutual_funds"
    <3>1. Doomed(j) \cap SidsOf(resident[st]) = {}
      BY <2>1, <2>2, <2>4 DEF Attended, Cleared
    <3>2. SidsOf(resident'[st]) \subseteq SidsOf(resident[st])
      BY <2>2, ResidentStep
    <3>3. QED BY <3>1, <3>2
  <2>5. QED BY <2>3, <2>4 DEF Stores
<1>4. CASE \E what : Answer(w, what)
  BY <1>1, <1>4, AnsweredHarmless DEF IInv
<1>5. QED BY <1>2, <1>3, <1>4 DEF ForgetSession, EvictUser, NextStore

\* No step of the only worker, of the janitor or of time breaks it.
LEMMA AttendedStep ==
    ASSUME NEW w, Threads = {w}, IInv, Attended(w), [Next]_vars
    PROVE  Attended(w)'
<1>1. TypeOK /\ job \in [Threads -> Job] /\ job[w] \in Job /\ w \in Threads
  BY DEF IInv, TypeOK
<1>2. ASSUME Harmless(job'[w]), At(w, "delete", "owner")' => job'[w].store = "mutual_funds"
      PROVE  Attended(w)'
  <2>1. ASSUME NEW st \in Stores, Cleared(job'[w], st)
        PROVE  Doomed(job[w])' = {}
    BY <1>2, <2>1 DEF Harmless, Doomed
  <2>2. QED BY <1>2, <2>1, AttendedRows DEF Attended
<1>3. CASE Arrive(w)
  BY <1>1, <1>2, <1>3, ArriveHarmless DEF At
<1>4. CASE Proceed(w) /\ ~ForgetSession(w) /\ ~EvictUser(w)
  BY <1>1, <1>2, <1>4, ProceedHarmless DEF Attended
<1>5. CASE ForgetSession(w) \/ EvictUser(w)
  <2>1. ASSUME NEW st \in Stores, Cleared(job'[w], st), job'[w].op \in {"delete", "purge"}
        PROVE  Doomed(job[w])' \cap SidsOf(resident'[st]) = {}
    <3>1. Doomed(job[w]) \cap SidsOf(resident'[st]) = {}
      BY <1>5, <2>1, AttendedClears
    <3>2. rows' = rows
      BY <1>5 DEF ForgetSession, EvictUser
    <3>3. \/ /\ job'[w].op = job[w].op /\ job'[w].sid = job[w].sid
             /\ job'[w].caller = job[w].caller
          \/ \E what : Answer(w, what)
      BY <1>1, <1>5 DEF ForgetSession, EvictUser, NextStore, Goto, Job
    <3>4. /\ job'[w].op = job[w].op /\ job'[w].sid = job[w].sid
          /\ job'[w].caller = job[w].caller
      BY <1>1, <2>1, <3>3, AnsweredHarmless
    <3>5. Doomed(job[w])' = Doomed(job[w])
      BY <3>2, <3>4 DEF Doomed
    <3>6. QED BY <3>1, <3>5
  <2>2. ~At(w, "delete", "owner")'
    <3>1. CASE job' = [job EXCEPT ![w].store = "equity"] \/ Goto(w, "drop")
      <4>1. job'[w].step \in {job[w].step, "drop"}
        BY <1>1, <3>1 DEF Goto, Job
      <4>2. QED BY <1>5, <4>1 DEF ForgetSession, EvictUser, At
    <3>2. CASE \E what : Answer(w, what)
      BY <1>1, <3>2, AnsweredHarmless DEF At
    <3>3. QED BY <1>5, <3>1, <3>2 DEF ForgetSession, EvictUser, NextStore
  <2>3. ASSUME NEW st \in Stores, job'[w].op \notin {"delete", "purge"}
        PROVE  Doomed(job[w])' = {}
    BY <2>3 DEF Doomed
  <2>4. QED BY <2>1, <2>2, <2>3, AttendedRows DEF Attended
<1>6. CASE Restart
  <2>1. Harmless(job'[w]) /\ ~At(w, "delete", "owner")'
    BY <1>1, <1>6 DEF Restart, NoJob, Harmless, At
  <2>2. QED BY <1>2, <2>1
<1>7. CASE UNCHANGED <<job, rows>>
  <2>1. ASSUME NEW st \in Stores, Cleared(job[w], st)
        PROVE  Doomed(job[w]) \cap SidsOf(resident'[st]) = {}
    <3>1. job[w].step # "remember" /\ Doomed(job[w]) \cap SidsOf(resident[st]) = {}
      BY <2>1 DEF Attended, Cleared
    <3>2. SidsOf(resident'[st]) \subseteq SidsOf(resident[st])
      BY <3>1, ResidentStep
    <3>3. QED BY <3>1, <3>2
  <2>2. Doomed(job[w])' = Doomed(job[w])
    BY <1>7 DEF Doomed
  <2>3. QED BY <1>7, <2>1, <2>2, AttendedRows DEF Attended, At
<1>8. QED
  BY <1>1, <1>3, <1>4, <1>5, <1>6, <1>7 DEF Next, GoIdle, PurgeExpired, vars

\* With one worker, whatever is resident between two requests still has its row:
\* forgetting a session, or purging an account, clears both stores before the
\* rows go, whichever of its steps fails and wherever a restart cuts it short.
THEOREM NoOrphans ==
    ASSUME NEW w, Threads = {w}
    PROVE  Spec => []NoOrphanAtRest
<1>1. Init => Attended(w)
  BY DEF Init, Attended, SidsOf, NoJob, At, Cleared
<1>2. IInv /\ Attended(w) /\ [Next]_vars => Attended(w)'
  BY AttendedStep
<1>3. Attended(w) => NoOrphanAtRest
  BY DEF Attended, NoOrphanAtRest
<1> QED BY <1>1, <1>2, <1>3, Inductive, PTL DEF Spec

=============================================================================
