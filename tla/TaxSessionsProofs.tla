-------------------------- MODULE TaxSessionsProofs --------------------------
(***************************************************************************)
(* Proofs about TaxSessions for every number of accounts, sessions, dicts,  *)
(* workers and any cap.                                                     *)
(*                                                                         *)
(* A request keeps a dict it opened, or a row it read, across steps in      *)
(* which the store may drop and restore the session.  The inductive          *)
(* invariant says what such a reference is still good for: whatever dict a   *)
(* worker or the store refers to is a session as it was uploaded, with the    *)
(* owner it was uploaded by (LiveOK), and so is whatever a worker is about to *)
(* insert or to write (JobOK).                                              *)
(***************************************************************************)
EXTENDS TaxSessions, FiniteSetTheorems, TLAPS

\* Record r is of a session that was uploaded by the owner it names.
Owned(r, par) == [sid |-> r.sid, owner |-> r.owner] \in par

\* The requests that are about one session.
SessionOps == {"parse", "summary", "recalculate", "itr", "delete"}

\* What a request knows of its session, given the uploads `par' so far.
Named(j) ==
    /\ (j.op \in SessionOps /\ j.phase # "create") => j.sid \in Sids
    /\ j.step \notin {"idle", "evict", "uncache", "drop"} => j.op \in SessionOps

InCreate(j) ==
    /\ j.step = "dedup" => j.phase = "create"
    /\ j.phase = "create" =>
         /\ j.op = "parse" /\ j.step \in {"ensure", "dedup", "insert"}
         /\ j.caller \in Users /\ j.doc \in Docs

InEdit(j) ==
    /\ (j.op \in {"recalculate", "itr"} \/ j.phase = "edit") => j.edit \in Edits
    /\ j.step = "apply" => j.phase = "edit" /\ j.target \in Dicts
    /\ (j.step \in {"snapshot", "write"} /\ j.op # "parse") => j.phase = "edit"

InInsert(j, par) ==
    (j.step = "insert" /\ j.phase # "create") =>
      j.copy \in Record /\ j.copy.sid = j.sid /\ Owned(j.copy, par)

InWrite(j, par) ==
    j.step = "write" =>
      /\ j.copy \in Record /\ j.copy.sid = j.sid /\ Owned(j.copy, par)
      /\ j.target \in Dicts

\* Past the ownership check, and in the answer, the caller is the owner.
InCompute(j, par) ==
    /\ j.step \in {"version", "lookup", "calculate", "memoize"} => j.phase = "version"
    /\ (/\ j.op \in {"summary", "recalculate"}
        /\ j.phase \in {"edit", "version"} \/ j.reply = "ok")
         => [sid |-> j.sid, owner |-> j.caller] \in par

JobOK(j, par) ==
    /\ Named(j) /\ InCreate(j) /\ InEdit(j)
    /\ InInsert(j, par) /\ InWrite(j, par) /\ InCompute(j, par)

JobsOK ==
    /\ job \in [Threads -> Job]
    /\ \A t \in Threads : JobOK(job[t], parsed)

DatabaseOK ==
    /\ users \in SUBSET Users
    /\ rows \in SUBSET Record /\ IsFiniteSet(rows)
    /\ written \in SUBSET (Sids \X Sids)
    /\ parsed \in SUBSET [sid: Sids, owner: Users]
    /\ deleted \in SUBSET Sids
    /\ \A r \in rows : Owned(r, parsed)
    /\ \A q, r \in rows : q.sid = r.sid => q = r

\* Every dict somebody refers to holds an uploaded session.
LiveOK ==
    \A d \in Dicts \intersect Alive(resident, job) :
      heap[d] \in Record /\ Owned(heap[d], parsed)

StoreOK ==
    /\ loaded \in BOOLEAN
    /\ heap \in [Dicts -> Record \union {Free}]
    /\ resident \in SUBSET Dicts
    /\ older \in SUBSET (Dicts \X Dicts)
    /\ LiveOK
    /\ OneDictPerSession
    /\ StoreBounded

IInv ==
    /\ DatabaseOK
    /\ StoreOK
    /\ cache \in SUBSET Memo
    /\ JobsOK
    /\ flaky \in BOOLEAN

-----------------------------------------------------------------------------
(* One request moves on.                                                    *)

\* Worker t's request becomes one that keeps to the invariant and refers to no
\* dicts but those of requests already and `fresh'.
Moves(t, fresh) ==
    \E j \in Job :
      /\ Set(t, j)
      /\ JobOK(j, parsed')
      /\ {j.dict, j.target} \subseteq Alive({}, job) \union {NoDict} \union fresh

\* What a request knows stays true when more sessions are uploaded.
LEMMA JobMonotone ==
    ASSUME NEW j, NEW par, NEW par2, par \subseteq par2, JobOK(j, par)
    PROVE  JobOK(j, par2)
BY DEF JobOK, InInsert, InWrite, InCompute, Owned

\* The other requests are left as they were, and so are their references.
LEMMA JobStep ==
    ASSUME JobsOK, NEW t \in Threads, NEW fresh, Moves(t, fresh), parsed \subseteq parsed'
    PROVE  /\ JobsOK'
           /\ Alive(resident', job') \subseteq
                resident' \union Alive({}, job) \union {NoDict} \union fresh
<1>1. PICK j \in Job :
        /\ job' = [job EXCEPT ![t] = j]
        /\ JobOK(j, parsed')
        /\ {j.dict, j.target} \subseteq Alive({}, job) \union {NoDict} \union fresh
  BY DEF Moves, Set
<1>2. /\ job' \in [Threads -> Job] /\ job'[t] = j
      /\ \A u \in Threads \ {t} : job'[u] = job[u]
  BY <1>1 DEF JobsOK
<1>3. ASSUME NEW u \in Threads PROVE JobOK(job'[u], parsed')
  <2>1. CASE u = t
    BY <2>1, <1>1, <1>2
  <2>2. CASE u # t
    BY <2>2, <1>2, JobMonotone DEF JobsOK
  <2>3. QED BY <2>1, <2>2
<1>4. ASSUME NEW d \in Alive(resident', job')
      PROVE  d \in resident' \union Alive({}, job) \union {NoDict} \union fresh
  <2>1. CASE d \in resident'
    BY <2>1
  <2>2. CASE \E u \in Threads : d \in {job'[u].dict, job'[u].target}
    <3>1. PICK u \in Threads : d \in {job'[u].dict, job'[u].target}
      BY <2>2
    <3>2. CASE u = t
      BY <3>1, <3>2, <1>1, <1>2
    <3>3. CASE u # t
      BY <3>1, <3>3, <1>2 DEF Alive
    <3>4. QED BY <3>2, <3>3
  <2>3. QED BY <2>1, <2>2 DEF Alive
<1>5. QED BY <1>2, <1>3, <1>4 DEF JobsOK

\* The names of the steps and the phases, for facts about Job that leave the two
\* sets unexpanded.
LEMMA Names ==
    /\ "idle" \in Steps /\ "ensure" \in Steps /\ "dedup" \in Steps
    /\ "find" \in Steps /\ "read" \in Steps /\ "insert" \in Steps
    /\ "apply" \in Steps /\ "snapshot" \in Steps /\ "write" \in Steps
    /\ "version" \in Steps /\ "lookup" \in Steps /\ "calculate" \in Steps
    /\ "memoize" \in Steps /\ "owner" \in Steps /\ "peek" \in Steps
    /\ "forget" \in Steps /\ "drop" \in Steps /\ "evict" \in Steps
    /\ "uncache" \in Steps
    /\ "create" \in Phases /\ "open" \in Phases /\ "edit" \in Phases
    /\ "version" \in Phases /\ "forget" \in Phases
BY DEF Steps, Phases

\* An answer relies on nothing.
LEMMA AnswerMoves ==
    ASSUME NEW t \in Threads, NEW fresh, NEW what \in {"none", "ok", "notfound", "failed"},
           Answer(t, what)
    PROVE  Moves(t, fresh)
<1> DEFINE j == [NoJob EXCEPT !.reply = what]
<1>1. j \in Job /\ JobOK(j, parsed') /\ {j.dict, j.target} \subseteq {NoDict}
  BY ConstantsAssumption, Names
     DEF NoJob, Job, JobOK, Named, InCreate, InEdit, InInsert, InWrite, InCompute,
         SessionOps, AllOps
<1>2. Set(t, j)
  BY DEF Answer
<1>3. QED
  <2> HIDE DEF j
  <2> QED BY <1>1, <1>2 DEF Moves

-----------------------------------------------------------------------------
(* The store.                                                               *)

\* Touching a dict, or dropping some, keeps the order one of dicts.
LEMMA OrderType ==
    ASSUME NEW S, NEW order \in SUBSET (S \X S), NEW held \in SUBSET S, NEW k \in S
    PROVE  /\ MoveToEnd(order, held, k) \in SUBSET (S \X S)
           /\ Among(order, held) \in SUBSET (S \X S)
BY DEF MoveToEnd, Among

LEMMA TouchLemma ==
    ASSUME IInv, NEW d \in Dicts, Touch(d)
    PROVE  older' \in SUBSET (Dicts \X Dicts)
<1>1. older \in SUBSET (Dicts \X Dicts) /\ resident \in SUBSET Dicts
  BY DEF IInv, StoreOK
<1>2. MoveToEnd(older, resident, d) \in SUBSET (Dicts \X Dicts)
  BY <1>1, OrderType
<1>3. QED BY <1>2 DEF Touch

\* A set of dicts within a bounded set of dicts is bounded.
LEMMA Fewer ==
    ASSUME NEW X \in SUBSET Dicts, NEW Y \in SUBSET X
    PROVE  /\ IsFiniteSet(Y) /\ Cardinality(Y) \in Nat
           /\ Cardinality(Y) <= Cardinality(X)
<1>1. IsFiniteSet(Dicts)
  BY ConstantsAssumption
<1>2. IsFiniteSet(X)
  BY <1>1, FS_Subset
<1>3. QED BY <1>2, FS_Subset, FS_CardinalityType

\* What a step leaves on the heap, when everything referred to is a session and
\* no session is resident twice.
LEMMA CollectLemma ==
    ASSUME NEW h, Collect(h), resident' \in SUBSET Dicts,
           \A d \in Dicts \intersect Alive(resident', job') :
             h[d] \in Record /\ Owned(h[d], parsed'),
           \A c, d \in resident' : h[c].sid = h[d].sid => c = d
    PROVE  heap' \in [Dicts -> Record \union {Free}] /\ LiveOK' /\ OneDictPerSession'
<1>1. heap' = [d \in Dicts |-> IF d \in Alive(resident', job') THEN h[d] ELSE Free]
  BY DEF Collect
<1>2. \A d \in resident' : d \in Alive(resident', job')
  BY DEF Alive
<1>3. QED BY <1>1, <1>2 DEF LiveOK, OneDictPerSession

\* A step that brings no dict in and edits none.
LEMMA StoreKeeps ==
    ASSUME IInv, parsed \subseteq parsed',
           resident' \subseteq resident, older' \in SUBSET (Dicts \X Dicts),
           loaded' \in BOOLEAN,
           Alive(resident', job') \subseteq
             resident' \union Alive(resident, job) \union {NoDict},
           Collect(heap) \/ heap' = heap
    PROVE  StoreOK'
<1>1. resident' \in SUBSET Dicts
  BY DEF IInv, StoreOK
<1>2. resident \subseteq Alive(resident, job)
  BY DEF Alive
<1>3. Dicts \intersect Alive(resident', job') \subseteq Dicts \intersect Alive(resident, job)
  BY <1>2, ConstantsAssumption
<1>4. \A d \in Dicts \intersect Alive(resident', job') :
        heap[d] \in Record /\ Owned(heap[d], parsed')
  BY <1>3 DEF IInv, StoreOK, LiveOK, Owned
<1>5. \A c, d \in resident' : heap[c].sid = heap[d].sid => c = d
  BY DEF IInv, StoreOK, OneDictPerSession
<1>6. heap' \in [Dicts -> Record \union {Free}] /\ LiveOK' /\ OneDictPerSession'
  <2>1. CASE Collect(heap)
    BY <1>1, <1>4, <1>5, <2>1, CollectLemma
  <2>2. CASE heap' = heap
    BY <1>1, <1>4, <1>5, <2>2 DEF IInv, StoreOK, LiveOK, OneDictPerSession
  <2>3. QED BY <2>1, <2>2
<1>7. StoreBounded'
  <2>1. /\ Cardinality(resident') <= Cardinality(resident)
        /\ Cardinality(resident') \in Nat /\ Cardinality(resident) \in Nat
    BY <1>1, Fewer DEF IInv, StoreOK
  <2>2. Cardinality(resident) <= MaxSessions /\ MaxSessions \in Nat
    BY ConstantsAssumption DEF IInv, StoreOK, StoreBounded
  <2>3. QED BY <2>1, <2>2 DEF StoreBounded
<1>8. QED BY <1>1, <1>6, <1>7 DEF StoreOK

\* Making room for a dict keeps it, adds nothing else and stays within the cap.
LEMMA AdmitLemma ==
    ASSUME IInv, NEW d \in Dicts, NEW h, Admit(d, h)
    PROVE  /\ resident' \subseteq resident \union {d}
           /\ older' \in SUBSET (Dicts \X Dicts)
           /\ cache' \in SUBSET Memo
           /\ StoreBounded'
<1> DEFINE all   == resident \union {d}
           order == MoveToEnd(older, all, d)
<1>1. PICK keep \in SUBSET all :
        /\ Cardinality(keep) <= MaxSessions
        /\ resident' = keep
        /\ older' = Among(order, keep)
        /\ cache' = {c \in cache : \A x \in all \ keep : h[x].sid # c.sid}
  BY DEF Admit
<1>2. all \in SUBSET Dicts /\ older \in SUBSET (Dicts \X Dicts) /\ cache \in SUBSET Memo
  BY DEF IInv, StoreOK
<1>3. order \in SUBSET (Dicts \X Dicts)
  BY <1>2, OrderType
<1>4. older' \in SUBSET (Dicts \X Dicts)
  BY <1>1, <1>3 DEF Among
<1>5. QED BY <1>1, <1>2, <1>4 DEF StoreBounded

\* A step that makes a session resident that was not.
LEMMA StoreAdds ==
    ASSUME IInv, parsed \subseteq parsed', UNCHANGED loaded,
           NEW d \in Dicts, d \notin Alive(resident, job),
           NEW r \in Record, Owned(r, parsed'), Held(r.sid) = {},
           Admit(d, [heap EXCEPT ![d] = r]), Collect([heap EXCEPT ![d] = r]),
           Alive(resident', job') \subseteq
             resident' \union Alive(resident, job) \union {NoDict} \union {d}
    PROVE  StoreOK' /\ cache' \in SUBSET Memo
<1> DEFINE h == [heap EXCEPT ![d] = r]
<1>1. /\ resident' \subseteq resident \union {d}
      /\ older' \in SUBSET (Dicts \X Dicts)
      /\ cache' \in SUBSET Memo
      /\ StoreBounded'
  BY AdmitLemma
<1>2. resident \subseteq Dicts /\ resident \subseteq Alive(resident, job) /\ loaded' \in BOOLEAN
  BY DEF IInv, StoreOK, Alive
<1>3. resident' \in SUBSET Dicts
  BY <1>1, <1>2
<1>4. h[d] = r /\ \A x \in Dicts \ {d} : h[x] = heap[x]
  BY DEF IInv, StoreOK
<1>5. Collect(h)
  OBVIOUS
<1> HIDE DEF h
<1>6. ASSUME NEW x \in Dicts \intersect Alive(resident', job')
      PROVE  h[x] \in Record /\ Owned(h[x], parsed')
  <2>1. CASE x = d
    BY <2>1, <1>4
  <2>2. CASE x # d
    <3>1. x \in Alive(resident, job)
      BY <2>2, <1>1, <1>2, ConstantsAssumption
    <3>2. QED BY <2>2, <3>1, <1>4 DEF IInv, StoreOK, LiveOK, Owned
  <2>3. QED BY <2>1, <2>2
<1>7. ASSUME NEW x \in resident', NEW y \in resident', h[x].sid = h[y].sid
      PROVE  x = y
  <2>1. \A z \in resident : z # d /\ h[z] = heap[z] /\ heap[z].sid # r.sid
    BY <1>2, <1>4 DEF Held
  <2>2. QED BY <1>1, <1>4, <1>7, <2>1 DEF IInv, StoreOK, OneDictPerSession
<1>8. heap' \in [Dicts -> Record \union {Free}] /\ LiveOK' /\ OneDictPerSession'
  BY <1>3, <1>5, <1>6, <1>7, CollectLemma
<1>9. QED BY <1>1, <1>2, <1>3, <1>8 DEF StoreOK

\* A step that edits a dict, of whichever session, in place.
LEMMA StoreEdits ==
    ASSUME IInv, UNCHANGED <<parsed, loaded, resident>>,
           older' \in SUBSET (Dicts \X Dicts),
           NEW d \in Dicts, NEW r \in Record,
           r.sid = heap[d].sid, r.owner = heap[d].owner, d \in Alive(resident, job),
           Collect([heap EXCEPT ![d] = r]),
           Alive(resident', job') \subseteq
             resident' \union Alive(resident, job) \union {NoDict}
    PROVE  StoreOK'
<1> DEFINE h == [heap EXCEPT ![d] = r]
<1>1. /\ resident' \in SUBSET Dicts /\ resident \subseteq Alive(resident, job)
      /\ loaded' \in BOOLEAN
  BY DEF IInv, StoreOK, Alive
<1>2. h[d] = r /\ \A x \in Dicts \ {d} : h[x] = heap[x]
  BY DEF IInv, StoreOK
<1>3. Collect(h)
  OBVIOUS
<1> HIDE DEF h
<1>4. \A x \in Dicts \intersect Alive(resident', job') :
        h[x] \in Record /\ Owned(h[x], parsed')
  <2>1. \A x \in Dicts \intersect Alive(resident', job') :
          /\ x \in Alive(resident, job) /\ heap[x] \in Record
          /\ Owned(heap[x], parsed)
    BY <1>1, ConstantsAssumption DEF IInv, StoreOK, LiveOK
  <2>2. QED BY <1>2, <2>1 DEF Owned
<1>5. \A x, y \in resident' : h[x].sid = h[y].sid => x = y
  <2>1. \A x \in resident' : x \in Dicts /\ h[x].sid = heap[x].sid
    BY <1>1, <1>2
  <2>2. QED BY <2>1 DEF IInv, StoreOK, OneDictPerSession
<1>6. heap' \in [Dicts -> Record \union {Free}] /\ LiveOK' /\ OneDictPerSession'
  BY <1>1, <1>3, <1>4, <1>5, CollectLemma
<1>7. StoreBounded'
  BY DEF IInv, StoreOK, StoreBounded
<1>8. QED BY <1>1, <1>6, <1>7 DEF StoreOK

\* The rows that become the store are uploads, one dict each, and no more than fit.
LEMMA LoadLemma ==
    ASSUME IInv, UNCHANGED parsed, loaded' \in BOOLEAN, LoadFromDisk,
           Alive(resident', job') \subseteq resident' \union Alive({}, job) \union {NoDict}
    PROVE  StoreOK'
<1> DEFINE Loads(keep, f) ==
             [d \in Dicts |-> IF \E x \in keep : f[x] = d
                              THEN CHOOSE x \in keep : f[x] = d
                              ELSE heap[d]]
<1>1. PICK keep \in SUBSET rows :
        /\ \/ Cardinality(keep) = IF Cardinality(rows) > MaxSessions
                                  THEN MaxSessions ELSE Cardinality(rows)
           \/ keep = {}
        /\ \E f \in [keep -> Dicts \ Alive({}, job)] :
             /\ \A x, y \in keep : f[x] = f[y] => x = y
             /\ resident' = {f[x] : x \in keep}
             /\ older' = {<<f[p[1]], f[p[2]]>> :
                   p \in {q \in keep \X keep : <<q[1].sid, q[2].sid>> \in written}}
             /\ Collect(Loads(keep, f))
  BY DEF LoadFromDisk
<1>2. PICK f \in [keep -> Dicts \ Alive({}, job)] :
        /\ \A x, y \in keep : f[x] = f[y] => x = y
        /\ resident' = {f[x] : x \in keep}
        /\ older' = {<<f[p[1]], f[p[2]]>> :
              p \in {q \in keep \X keep : <<q[1].sid, q[2].sid>> \in written}}
        /\ Collect(Loads(keep, f))
  BY <1>1
<1> DEFINE h == Loads(keep, f)
<1>3. \A x \in keep : f[x] \in Dicts /\ f[x] \notin Alive({}, job)
  BY <1>2
<1>4. resident' \in SUBSET Dicts
  BY <1>2, <1>3
<1>5. older' \in SUBSET (Dicts \X Dicts)
  <2>1. ASSUME NEW p \in keep \X keep PROVE <<f[p[1]], f[p[2]]>> \in Dicts \X Dicts
    <3>1. p[1] \in keep /\ p[2] \in keep
      OBVIOUS
    <3>2. QED BY <3>1, <1>3
  <2>2. \A e \in older' : \E p \in keep \X keep : e = <<f[p[1]], f[p[2]]>>
    BY <1>2
  <2>3. QED BY <2>1, <2>2
<1>6. \A x \in keep : h[f[x]] = x
  BY <1>2, <1>3
<1>7. \A d \in Dicts \ resident' : h[d] = heap[d]
  BY <1>2
<1>8. Collect(h)
  BY <1>2
<1> HIDE DEF h
<1>9. ASSUME NEW d \in Dicts \intersect Alive(resident', job')
      PROVE  h[d] \in Record /\ Owned(h[d], parsed')
  <2>1. CASE d \in resident'
    <3>1. PICK x \in keep : d = f[x]
      BY <2>1, <1>2
    <3>2. QED BY <3>1, <1>6 DEF IInv, DatabaseOK, Owned
  <2>2. CASE d \notin resident'
    <3>1. d \in Alive(resident, job)
      BY <2>2, ConstantsAssumption DEF Alive
    <3>2. QED BY <2>2, <3>1, <1>7 DEF IInv, StoreOK, LiveOK, Owned
  <2>3. QED BY <2>1, <2>2
<1>10. ASSUME NEW c \in resident', NEW d \in resident', h[c].sid = h[d].sid
      PROVE  c = d
  <2>1. PICK x \in keep, y \in keep : c = f[x] /\ d = f[y]
    BY <1>2
  <2>2. x.sid = y.sid
    BY <2>1, <1>6, <1>10
  <2>3. QED BY <2>1, <2>2 DEF IInv, DatabaseOK
<1>11. heap' \in [Dicts -> Record \union {Free}] /\ LiveOK' /\ OneDictPerSession'
  BY <1>4, <1>8, <1>9, <1>10, CollectLemma
<1>12. StoreBounded'
  <2>1. IsFiniteSet(rows)
    BY DEF IInv, DatabaseOK
  <2>2. IsFiniteSet(keep) /\ Cardinality(rows) \in Nat
    BY <2>1, FS_Subset, FS_CardinalityType
  <2>3. Cardinality(keep) <= MaxSessions /\ Cardinality(keep) \in Nat
    BY <1>1, <2>2, FS_EmptySet, FS_CardinalityType, ConstantsAssumption
  <2>4. f \in Surjection(keep, resident')
    BY <1>2 DEF Surjection
  <2>5. IsFiniteSet(resident') /\ Cardinality(resident') <= Cardinality(keep)
    BY <2>2, <2>4, FS_Surjection
  <2>6. Cardinality(resident') \in Nat
    BY <2>5, FS_CardinalityType
  <2>7. QED BY <2>3, <2>5, <2>6, ConstantsAssumption DEF StoreBounded
<1>13. QED BY <1>4, <1>5, <1>11, <1>12 DEF StoreOK

-----------------------------------------------------------------------------
(* The database.                                                            *)

\* Rows that go take nothing with them that the others rely on.
LEMMA DatabaseKeeps ==
    ASSUME IInv, users' \subseteq users, rows' \subseteq rows,
           written' \in SUBSET (Sids \X Sids),
           parsed \subseteq parsed', parsed' \in SUBSET [sid: Sids, owner: Users],
           deleted' \in SUBSET Sids
    PROVE  DatabaseOK'
<1>1. \A r \in rows' : Owned(r, parsed')
  BY DEF IInv, DatabaseOK, Owned
<1>2. rows' \in SUBSET Record /\ IsFiniteSet(rows')
  BY FS_Subset DEF IInv, DatabaseOK
<1>3. QED BY <1>1, <1>2 DEF IInv, DatabaseOK

\* A row is written over the one of its session.
LEMMA DatabaseWrites ==
    ASSUME IInv, UNCHANGED <<users, parsed, deleted>>,
           NEW new \in Record, Owned(new, parsed),
           rows' = {r \in rows : r.sid # new.sid} \union {new},
           written' \in SUBSET (Sids \X Sids)
    PROVE  DatabaseOK'
<1>1. IsFiniteSet({r \in rows : r.sid # new.sid})
  BY FS_Subset DEF IInv, DatabaseOK
<1>2. IsFiniteSet(rows')
  BY <1>1, FS_AddElement
<1>3. QED BY <1>2 DEF IInv, DatabaseOK



-----------------------------------------------------------------------------
(* Requests start.                                                          *)

LEMMA MovesMore ==
    ASSUME NEW t \in Threads, NEW fresh, NEW more, fresh \subseteq more, Moves(t, fresh)
    PROVE  Moves(t, more)
BY DEF Moves

\* A step that brings no dict in and edits none.
LEMMA StepKeeps ==
    ASSUME IInv, UNCHANGED flaky, NEW t \in Threads, Moves(t, resident),
           DatabaseOK', parsed \subseteq parsed',
           resident' \subseteq resident, older' \in SUBSET (Dicts \X Dicts),
           loaded' \in BOOLEAN, Collect(heap) \/ heap' = heap, cache' \in SUBSET Memo
    PROVE  IInv'
<1>1. /\ JobsOK'
      /\ Alive(resident', job') \subseteq
           resident' \union Alive({}, job) \union {NoDict} \union resident
  BY JobStep DEF IInv
<1>2. StoreOK'
  BY <1>1, StoreKeeps DEF Alive
<1>3. QED BY <1>1, <1>2 DEF IInv

\* A step that touches only the jobs, and perhaps the memo.
LEMMA OnlyJobs ==
    ASSUME IInv, NEW t \in Threads, Moves(t, resident),
           UNCHANGED <<database, parsed, store, flaky>>,
           deleted' \in SUBSET Sids, cache' \in SUBSET Memo
    PROVE  IInv'
<1>1. DatabaseOK'
  BY DatabaseKeeps DEF database, IInv, DatabaseOK
<1>2. QED BY <1>1, StepKeeps DEF store, IInv, StoreOK

\* A request that relies on nothing but its arguments.
Fresh(j) ==
    /\ Named(j) /\ InCreate(j) /\ InEdit(j)
    /\ j.phase \in {"create", "open", "forget"} /\ j.step \in {"ensure", "owner", "evict"}
    /\ j.reply = "none" /\ j.dict = NoDict /\ j.target = NoDict

LEMMA BeginLemma ==
    ASSUME IInv, UNCHANGED flaky, NEW t \in Threads, NEW j \in Job, Begin(t, j), Fresh(j)
    PROVE  IInv'
<1>1. JobOK(j, parsed')
  BY DEF Fresh, JobOK, InInsert, InWrite, InCompute
<1>2. Moves(t, resident)
  BY <1>1 DEF Fresh, Begin, Moves
<1>3. UNCHANGED <<database, parsed, store, flaky>> /\ deleted' \in SUBSET Sids
        /\ cache' \in SUBSET Memo
  BY DEF Begin, IInv, DatabaseOK
<1>4. QED BY <1>2, <1>3, OnlyJobs

LEMMA Arrivals ==
    ASSUME IInv, NEW t \in Threads, Arrive(t)
    PROVE  \E j \in Job : Begin(t, j) /\ Fresh(j)
<1>1. NoJob \in Job
  BY ConstantsAssumption, Names DEF NoJob, Job, AllOps
<1>2. \A s \in Known : s \in Sids
  BY DEF Known, SidsOf, IInv, DatabaseOK
<1>3. CASE BeginParse(t)
  <2>1. PICK u \in Users, x \in Docs :
          Begin(t, [NoJob EXCEPT !.op = "parse", !.step = "ensure", !.phase = "create",
                                 !.caller = u, !.doc = x])
    BY <1>3 DEF BeginParse
  <2> DEFINE j == [NoJob EXCEPT !.op = "parse", !.step = "ensure", !.phase = "create",
                                !.caller = u, !.doc = x]
  <2>2. j \in Job /\ Fresh(j)
    BY ZenonT(40), <1>1, Names DEF NoJob, Job, Fresh, Named, InCreate, InEdit, SessionOps, AllOps
  <2> HIDE DEF j
  <2>3. Begin(t, j)
    BY <2>1 DEF j
  <2>4. QED BY <2>2, <2>3
<1>4. CASE BeginSummary(t)
  <2>1. PICK u \in Users, s \in Known :
          Begin(t, [NoJob EXCEPT !.op = "summary", !.step = "ensure",
                                 !.caller = u, !.sid = s])
    BY <1>4 DEF BeginSummary
  <2> DEFINE j == [NoJob EXCEPT !.op = "summary", !.step = "ensure",
                                !.caller = u, !.sid = s]
  <2>2. j \in Job /\ Fresh(j)
    BY ZenonT(40), <1>1, <1>2, Names DEF NoJob, Job, Fresh, Named, InCreate, InEdit, SessionOps, AllOps
  <2> HIDE DEF j
  <2>3. Begin(t, j)
    BY <2>1 DEF j
  <2>4. QED BY <2>2, <2>3
<1>5. ASSUME NEW op \in {"recalculate", "itr"}, NEW u \in Users, NEW s \in Known,
             NEW e \in Edits,
             Begin(t, [NoJob EXCEPT !.op = op, !.step = "ensure",
                                    !.caller = u, !.sid = s, !.edit = e])
      PROVE  \E j \in Job : Begin(t, j) /\ Fresh(j)
  <2> DEFINE j == [NoJob EXCEPT !.op = op, !.step = "ensure",
                                !.caller = u, !.sid = s, !.edit = e]
  <2>1. j \in Job /\ Fresh(j)
    <3>1. CASE op = "recalculate"
      BY ZenonT(40), <1>1, <1>2, <3>1, Names DEF NoJob, Job, Fresh, Named, InCreate, InEdit, SessionOps, AllOps
    <3>2. CASE op = "itr"
      BY ZenonT(40), <1>1, <1>2, <3>2, Names DEF NoJob, Job, Fresh, Named, InCreate, InEdit, SessionOps, AllOps
    <3>3. QED BY <3>1, <3>2
  <2>2. Begin(t, j)
    BY <1>5
  <2> HIDE DEF j
  <2>3. QED BY <2>1, <2>2
<1>6. CASE BeginDelete(t)
  <2>1. PICK u \in Users, s \in Known :
          Begin(t, [NoJob EXCEPT !.op = "delete", !.step = "owner", !.phase = "forget",
                                 !.caller = u, !.sid = s])
    BY <1>6 DEF BeginDelete
  <2> DEFINE j == [NoJob EXCEPT !.op = "delete", !.step = "owner", !.phase = "forget",
                                !.caller = u, !.sid = s]
  <2>2. j \in Job /\ Fresh(j)
    BY ZenonT(40), <1>1, <1>2, Names DEF NoJob, Job, Fresh, Named, InCreate, InEdit, SessionOps, AllOps
  <2> HIDE DEF j
  <2>3. Begin(t, j)
    BY <2>1 DEF j
  <2>4. QED BY <2>2, <2>3
<1>7. ASSUME NEW op \in {"purge", "logout"}, NEW u \in Users,
             Begin(t, [NoJob EXCEPT !.op = op, !.step = "evict", !.caller = u])
      PROVE  \E j \in Job : Begin(t, j) /\ Fresh(j)
  <2> DEFINE j == [NoJob EXCEPT !.op = op, !.step = "evict", !.caller = u]
  <2>1. Fresh(j)
    BY <1>1 DEF NoJob, Fresh, Named, InCreate, InEdit, SessionOps
  <2>2. j \in Job
    BY <1>1, Names DEF NoJob, Job, AllOps
  <2>3. Begin(t, j)
    BY <1>7
  <2> HIDE DEF j
  <2>4. QED BY <2>1, <2>2, <2>3
<1>8. CASE BeginClear(t)
  <2> DEFINE j == [NoJob EXCEPT !.op = "clear", !.step = "evict"]
  <2>1. Fresh(j)
    BY <1>1 DEF NoJob, Fresh, Named, InCreate, InEdit, SessionOps
  <2>2. j \in Job
    BY <1>1, Names DEF NoJob, Job, AllOps
  <2>3. Begin(t, j)
    BY <1>8 DEF BeginClear
  <2> HIDE DEF j
  <2>4. QED BY <2>1, <2>2, <2>3
<1>9. QED
  BY <1>3, <1>4, <1>5, <1>6, <1>7, <1>8
     DEF Arrive, BeginRecalculate, BeginItr, BeginPurge, BeginLogout

LEMMA ArriveLemma ==
    ASSUME IInv, UNCHANGED flaky, NEW t \in Threads, Arrive(t)
    PROVE  IInv'
BY Arrivals, BeginLemma

-----------------------------------------------------------------------------
(* What the lookups make of a request.                                      *)

\* The request goes on with what it has.
LEMMA GotoMoves ==
    ASSUME IInv, UNCHANGED parsed, NEW t \in Threads, NEW fresh, NEW step, Goto(t, step),
           \/ job[t].step = "ensure" /\ job[t].phase = "create" /\ step = "dedup"
           \/ job[t].step = "dedup" /\ job[t].phase = "create" /\ step = "insert"
           \/ job[t].step = "ensure" /\ job[t].phase # "create" /\ step \in {"find", "forget"}
           \/ job[t].step \in {"find", "version"} /\ job[t].phase # "create" /\ step = "read"
           \/ job[t].step = "lookup" /\ step = "calculate"
           \/ job[t].step = "owner" /\ step = "peek"
           \/ job[t].step \in {"owner", "peek"} /\ step = "ensure"
           \/ job[t].step = "drop" /\ step = "uncache"
           \/ job[t].step = "uncache" /\ step = "drop"
    PROVE  Moves(t, fresh)
<1> DEFINE j == [job[t] EXCEPT !.step = step]
<1>1. job[t] \in Job /\ JobOK(job[t], parsed)
  BY DEF IInv, JobsOK
<1>2. /\ j = [job[t] EXCEPT !.step = step] /\ j.step = step
      /\ j.op = job[t].op /\ j.phase = job[t].phase /\ j.caller = job[t].caller
      /\ j.sid = job[t].sid /\ j.doc = job[t].doc /\ j.edit = job[t].edit
      /\ j.dict = job[t].dict /\ j.target = job[t].target /\ j.copy = job[t].copy
      /\ j.reply = job[t].reply
  BY <1>1, Names DEF Job
<1>3. j \in Job
  BY <1>1, Names DEF Job
<1>4. Set(t, j)
  BY DEF Goto
<1> HIDE DEF j
<1>5. JobOK(j, parsed')
  BY <1>1, <1>2
     DEF JobOK, Named, InCreate, InEdit, InInsert, InWrite, InCompute
<1>6. {j.dict, j.target} \subseteq Alive({}, job)
  BY <1>2 DEF Alive
<1>7. QED BY <1>3, <1>4, <1>5, <1>6 DEF Moves


\* _mutate returned: the recalculation computes, or the upload of an ITR is
\* answered.
LEMMA EditedMoves ==
    ASSUME IInv, UNCHANGED parsed, NEW t \in Threads, NEW fresh, Edited(t),
           job[t].phase = "edit", job[t].step \notin {"idle", "evict", "uncache", "drop"}
    PROVE  Moves(t, fresh)
<1> DEFINE j == ToCompute(job[t])
<1>1. job[t] \in Job /\ JobOK(job[t], parsed)
  BY DEF IInv, JobsOK
<1>2. /\ j.step = "version" /\ j.phase = "version"
      /\ j.op = job[t].op /\ j.caller = job[t].caller
      /\ j.sid = job[t].sid /\ j.doc = job[t].doc /\ j.edit = job[t].edit
      /\ j.dict = job[t].dict /\ j.target = NoDict
      /\ j.reply = job[t].reply
  BY <1>1, Names DEF Job, ToCompute
<1>3. j \in Job
  BY <1>1, Names DEF Job, ToCompute
<1>4. Set(t, j) \/ Answer(t, "ok")
  BY DEF Edited
<1> HIDE DEF j
<1>5. JobOK(j, parsed')
  BY <1>1, <1>2
     DEF JobOK, Named, InCreate, InEdit, InInsert, InWrite, InCompute, SessionOps
<1>6. {j.dict, j.target} \subseteq Alive({}, job) \union {NoDict}
  BY <1>2 DEF Alive
<1>7. Set(t, j) => Moves(t, fresh)
  BY <1>3, <1>5, <1>6 DEF Moves
<1>8. Answer(t, "ok") => Moves(t, fresh)
  BY AnswerMoves
<1>9. QED BY <1>4, <1>7, <1>8

\* The lookup found dict d of the session: past the ownership check the caller is
\* its owner.
LEMMA UseMoves ==
    ASSUME IInv, UNCHANGED parsed, NEW t \in Threads, NEW d \in Dicts, NEW h,
           h[d] \in Record, Owned(h[d], parsed), h[d].sid = job[t].sid,
           job[t].step \in {"find", "version", "insert"}, Use(t, d, h)
    PROVE  Moves(t, {d})
<1>1. job[t] \in Job /\ JobOK(job[t], parsed)
  BY DEF IInv, JobsOK
<1>2. job[t].op \in SessionOps
  BY <1>1 DEF JobOK, Named
<1>3. Owns(job[t], d, h) => [sid |-> job[t].sid, owner |-> job[t].caller] \in parsed
  BY DEF Owns, Owned
<1>4. {job[t].dict, job[t].target} \subseteq Alive({}, job)
  BY DEF Alive
<1>5. ASSUME NEW j \in Job, Set(t, j), j.op = job[t].op, j.sid = job[t].sid,
             j.caller = job[t].caller, j.doc = job[t].doc, j.edit = job[t].edit,
             j.reply = job[t].reply, j.phase # "create", j.phase = "edit" => j.edit \in Edits,
             job[t].phase # "create",
             j.step \in {"ensure", "apply", "version", "lookup"},
             j.step = "apply" => j.phase = "edit" /\ j.target \in Dicts,
             j.step \in {"version", "lookup"} => j.phase = "version",
             \/ Owns(job[t], d, h)
             \/ job[t].phase \in {"edit", "version"},
             {j.dict, j.target} \subseteq Alive({}, job) \union {NoDict} \union {d}
      PROVE  Moves(t, {d})
  <2>1. JobOK(j, parsed')
    BY <1>1, <1>2, <1>3, <1>5
       DEF JobOK, Named, InCreate, InEdit, InInsert, InWrite, InCompute
  <2>2. QED BY <1>5, <2>1 DEF Moves
<1>6. CASE job[t].phase = "open" /\ ~Owns(job[t], d, h) /\ Answer(t, "notfound")
  BY <1>6, AnswerMoves
<1>7. CASE /\ job[t].phase = "open" /\ Owns(job[t], d, h)
           /\ job[t].op \in {"recalculate", "itr"}
           /\ Set(t, ToEdit([job[t] EXCEPT !.dict = d]))
  <2> DEFINE j == ToEdit([job[t] EXCEPT !.dict = d])
  <2>1. /\ j.op = job[t].op /\ j.sid = job[t].sid
        /\ j.caller = job[t].caller /\ j.doc = job[t].doc /\ j.edit = job[t].edit
        /\ j.reply = job[t].reply /\ j.phase = "edit" /\ j.step = "ensure"
        /\ j.dict = d /\ j.target = job[t].target
    BY <1>1, Names DEF Job, ToEdit
  <2>2. j \in Job
    BY <1>1, Names DEF Job, ToEdit
  <2>3. job[t].edit \in Edits
    BY <1>1, <1>7 DEF JobOK, InEdit
  <2>4. Set(t, j)
    BY <1>7
  <2> HIDE DEF j
  <2>5. QED BY <1>4, <1>5, <1>7, <2>1, <2>2, <2>3, <2>4
<1>8. CASE /\ job[t].phase = "open" /\ Owns(job[t], d, h)
           /\ Set(t, ToCompute([job[t] EXCEPT !.dict = d]))
  <2> DEFINE j == ToCompute([job[t] EXCEPT !.dict = d])
  <2>1. /\ j.op = job[t].op /\ j.sid = job[t].sid
        /\ j.caller = job[t].caller /\ j.doc = job[t].doc /\ j.edit = job[t].edit
        /\ j.reply = job[t].reply /\ j.phase = "version" /\ j.step = "version"
        /\ j.dict = d /\ j.target = NoDict
    BY <1>1, Names DEF Job, ToCompute
  <2>2. j \in Job
    BY ZenonT(40), <1>1, Names DEF Job, ToCompute
  <2>3. Set(t, j)
    BY <1>8
  <2> HIDE DEF j
  <2>4. QED BY <1>5, <1>8, <2>1, <2>2, <2>3
<1>9. CASE /\ job[t].phase = "edit" /\ Owns(job[t], d, h)
           /\ Set(t, [job[t] EXCEPT !.step = "apply", !.target = d, !.copy = Free])
  <2> DEFINE j == [job[t] EXCEPT !.step = "apply", !.target = d, !.copy = Free]
  <2>1. /\ j.op = job[t].op /\ j.sid = job[t].sid
        /\ j.caller = job[t].caller /\ j.doc = job[t].doc /\ j.edit = job[t].edit
        /\ j.reply = job[t].reply /\ j.phase = "edit" /\ j.step = "apply"
        /\ j.dict = job[t].dict /\ j.target = d
    BY <1>1, <1>9, Names DEF Job
  <2>2. j \in Job
    BY ZenonT(40), <1>1, <1>9, Names DEF Job
  <2>3. job[t].edit \in Edits
    BY <1>1, <1>9 DEF JobOK, InEdit
  <2>4. Set(t, j)
    BY <1>9
  <2> HIDE DEF j
  <2>5. QED BY <1>4, <1>5, <1>9, <2>1, <2>2, <2>3, <2>4
<1>10. CASE job[t].phase = "edit" /\ Edited(t)
  BY <1>10, EditedMoves
<1>11. CASE /\ job[t].phase = "version"
            /\ Set(t, [job[t] EXCEPT !.step = "lookup", !.version = h[d].version,
                                     !.copy = Free])
  <2> DEFINE j == [job[t] EXCEPT !.step = "lookup", !.version = h[d].version,
                                 !.copy = Free]
  <2>1. h[d].version \in -1..MaxVersion
    BY ConstantsAssumption DEF Record
  <2>2. /\ j.op = job[t].op /\ j.sid = job[t].sid
        /\ j.caller = job[t].caller /\ j.doc = job[t].doc /\ j.edit = job[t].edit
        /\ j.reply = job[t].reply /\ j.phase = "version" /\ j.step = "lookup"
        /\ j.dict = job[t].dict /\ j.target = job[t].target
    BY <1>1, <1>11, <2>1, Names DEF Job
  <2>3. j \in Job
    BY ZenonT(40), <1>1, <1>11, <2>1, Names DEF Job
  <2>4. Set(t, j)
    BY <1>11
  <2> HIDE DEF j
  <2>5. QED BY <1>4, <1>5, <1>11, <2>2, <2>3, <2>4
<1>12. QED BY <1>6, <1>7, <1>8, <1>9, <1>10, <1>11 DEF Use

\* The lookup found nothing.
LEMMA MissingMoves ==
    ASSUME IInv, UNCHANGED parsed, NEW t \in Threads, NEW fresh,
           job[t].step = "read", Missing(t)
    PROVE  Moves(t, fresh)
<1>1. job[t] \in Job /\ JobOK(job[t], parsed)
  BY DEF IInv, JobsOK
<1>2. {job[t].dict, job[t].target} \subseteq Alive({}, job)
  BY DEF Alive
<1>3. CASE job[t].phase = "open" /\ job[t].op = "parse" /\ Set(t, ToCompute(job[t]))
  <2> DEFINE j == ToCompute(job[t])
  <2>1. /\ j.op = job[t].op /\ j.sid = job[t].sid
        /\ j.caller = job[t].caller /\ j.doc = job[t].doc /\ j.edit = job[t].edit
        /\ j.reply = job[t].reply /\ j.phase = "version" /\ j.step = "version"
        /\ j.dict = job[t].dict /\ j.target = NoDict
    BY <1>1, Names DEF Job, ToCompute
  <2>2. j \in Job
    BY <1>1, Names DEF Job, ToCompute
  <2>3. Set(t, j)
    BY <1>3
  <2> HIDE DEF j
  <2>4. JobOK(j, parsed')
    BY <1>1, <1>3, <2>1
       DEF JobOK, Named, InCreate, InEdit, InInsert, InWrite, InCompute, SessionOps
  <2>5. QED BY <1>2, <2>1, <2>2, <2>3, <2>4 DEF Moves
<1>4. CASE /\ job[t].phase = "version"
           /\ Set(t, [job[t] EXCEPT !.step = "lookup", !.version = -1])
  <2> DEFINE j == [job[t] EXCEPT !.step = "lookup", !.version = -1]
  <2>1. -1 \in -1..MaxVersion
    BY ConstantsAssumption
  <2>2. /\ j.op = job[t].op /\ j.sid = job[t].sid
        /\ j.caller = job[t].caller /\ j.doc = job[t].doc /\ j.edit = job[t].edit
        /\ j.reply = job[t].reply /\ j.phase = "version" /\ j.step = "lookup"
        /\ j.dict = job[t].dict /\ j.target = job[t].target
    BY <1>1, <1>4, <2>1, Names DEF Job
  <2>3. j \in Job
    BY <1>1, <1>4, <2>1, Names DEF Job
  <2>4. Set(t, j)
    BY <1>4
  <2> HIDE DEF j
  <2>5. JobOK(j, parsed')
    BY <1>1, <1>4, <2>2
       DEF JobOK, Named, InCreate, InEdit, InInsert, InWrite, InCompute, SessionOps
  <2>6. QED BY <1>2, <2>2, <2>3, <2>4, <2>5 DEF Moves
<1>5. QED BY <1>3, <1>4, AnswerMoves, EditedMoves DEF Missing

-----------------------------------------------------------------------------
(* Opening a session.                                                       *)

\* The request of a worker at work on a session has a phase past the creation.
LEMMA Past ==
    ASSUME IInv, NEW t \in Threads,
           job[t].step \notin {"ensure", "dedup", "insert"}
    PROVE  job[t].phase # "create"
BY DEF IInv, JobsOK, JobOK, InCreate

\* What is known of a dict that is held for a session.
LEMMA HeldLemma ==
    ASSUME IInv, NEW s, NEW d \in Held(s)
    PROVE  /\ d \in Dicts /\ d \in resident /\ heap[d].sid = s
           /\ heap[d] \in Record /\ Owned(heap[d], parsed)
BY DEF Held, Alive, IInv, StoreOK, LiveOK

LEMMA EnsureLoadedLemma ==
    ASSUME IInv, UNCHANGED flaky, NEW t \in Threads, EnsureLoaded(t)
    PROVE  IInv'
<1>1. UNCHANGED <<users, rows, written, parsed, deleted, cache>>
  BY DEF EnsureLoaded, database
<1>2. ASSUME NEW fresh PROVE Moves(t, fresh)
  BY <1>1, GotoMoves DEF EnsureLoaded
<1>3. CASE UNCHANGED store
  BY <1>1, <1>2, <1>3, OnlyJobs DEF database, IInv, DatabaseOK
<1>4. CASE loaded' = TRUE /\ LoadFromDisk
  <2>1. /\ JobsOK'
        /\ Alive(resident', job') \subseteq
             resident' \union Alive({}, job) \union {NoDict} \union {}
    BY <1>1, <1>2, JobStep DEF IInv
  <2>2. StoreOK'
    BY <1>1, <1>4, <2>1, LoadLemma
  <2>3. DatabaseOK'
    BY <1>1 DEF IInv, DatabaseOK
  <2>4. QED BY <1>1, <2>1, <2>2, <2>3 DEF IInv
<1>5. QED BY <1>3, <1>4 DEF EnsureLoaded

LEMMA FindResidentLemma ==
    ASSUME IInv, UNCHANGED flaky, NEW t \in Threads, FindResident(t)
    PROVE  IInv'
<1>1. /\ UNCHANGED <<users, rows, written, parsed, deleted, loaded, resident, cache>>
      /\ Collect(heap) /\ job[t].step \in {"find", "version"}
  BY DEF FindResident, database
<1>2. DatabaseOK'
  BY <1>1 DEF IInv, DatabaseOK
<1>3. CASE \E d \in Held(job[t].sid) :
             /\ IF job[t].phase = "open" THEN Touch(d) ELSE UNCHANGED older
             /\ Use(t, d, heap)
  <2>1. PICK d \in Held(job[t].sid) :
          /\ IF job[t].phase = "open" THEN Touch(d) ELSE UNCHANGED older
          /\ Use(t, d, heap)
    BY <1>3
  <2>2. /\ d \in Dicts /\ d \in resident /\ heap[d].sid = job[t].sid
        /\ heap[d] \in Record /\ Owned(heap[d], parsed)
    BY HeldLemma
  <2>3. Moves(t, {d})
    BY <1>1, <2>1, <2>2, UseMoves
  <2>4. Moves(t, resident)
    BY <2>3, <2>2, MovesMore
  <2>5. older' \in SUBSET (Dicts \X Dicts)
    BY <2>1, <2>2, TouchLemma DEF IInv, StoreOK
  <2>6. QED BY <1>1, <1>2, <2>4, <2>5, StepKeeps DEF IInv, StoreOK
<1>4. CASE Goto(t, "read") /\ UNCHANGED older
  <2>1. Moves(t, resident)
    BY <1>1, <1>4, Past, GotoMoves
  <2>2. QED BY <1>1, <1>2, <1>4, <2>1, StepKeeps DEF IInv, StoreOK
<1>5. QED BY <1>3, <1>4 DEF FindResident

LEMMA ReadRowLemma ==
    ASSUME IInv, UNCHANGED flaky, NEW t \in Threads, ReadRow(t)
    PROVE  IInv'
<1>1. /\ UNCHANGED <<users, rows, written, parsed, deleted, loaded, resident, older, cache>>
      /\ Collect(heap) /\ job[t].step = "read"
  BY DEF ReadRow, database
<1>2. ASSUME NEW r \in rows, r.sid = job[t].sid,
             Set(t, [job[t] EXCEPT !.copy = r, !.step = "insert"])
      PROVE  Moves(t, resident)
  <2> DEFINE j == [job[t] EXCEPT !.copy = r, !.step = "insert"]
  <2>1. job[t] \in Job /\ JobOK(job[t], parsed) /\ r \in Record /\ Owned(r, parsed)
    BY DEF IInv, JobsOK, DatabaseOK
  <2>2. /\ j.op = job[t].op /\ j.sid = job[t].sid
        /\ j.caller = job[t].caller /\ j.doc = job[t].doc /\ j.edit = job[t].edit
        /\ j.reply = job[t].reply /\ j.phase = job[t].phase /\ j.step = "insert"
        /\ j.dict = job[t].dict /\ j.target = job[t].target /\ j.copy = r
    BY <2>1, Names DEF Job
  <2>3. j \in Job
    BY <2>1, Names DEF Job
  <2>4. Set(t, j)
    BY <1>2
  <2> HIDE DEF j
  <2>5. JobOK(j, parsed')
    BY <1>1, <1>2, <2>1, <2>2
       DEF JobOK, Named, InCreate, InEdit, InInsert, InWrite, InCompute
  <2>6. QED BY <2>2, <2>3, <2>4, <2>5 DEF Moves, Alive
<1>3. Missing(t) => Moves(t, resident)
  BY <1>1, MissingMoves
<1>4. Moves(t, resident)
  BY <1>2, <1>3 DEF ReadRow
<1>5. DatabaseOK'
  BY <1>1 DEF IInv, DatabaseOK
<1>6. QED BY <1>1, <1>4, <1>5, StepKeeps DEF IInv, StoreOK

LEMMA RehydrateLemma ==
    ASSUME IInv, UNCHANGED flaky, NEW t \in Threads, Rehydrate(t)
    PROVE  IInv'
<1>1. /\ UNCHANGED <<users, rows, written, parsed, deleted, loaded>>
      /\ job[t].step = "insert" /\ job[t].phase # "create"
  BY DEF Rehydrate, database
<1>2. DatabaseOK'
  BY <1>1 DEF IInv, DatabaseOK
<1>3. ASSUME NEW d \in Held(job[t].sid), UNCHANGED <<resident, cache>>,
             Touch(d), Use(t, d, heap), Collect(heap)
      PROVE  IInv'
  <2>1. /\ d \in Dicts /\ d \in resident /\ heap[d].sid = job[t].sid
        /\ heap[d] \in Record /\ Owned(heap[d], parsed)
    BY HeldLemma
  <2>2. Moves(t, {d})
    BY <1>1, <1>3, <2>1, UseMoves
  <2>3. Moves(t, resident)
    BY <2>2, <2>1, MovesMore
  <2>4. older' \in SUBSET (Dicts \X Dicts)
    BY <1>3, <2>1, TouchLemma
  <2>5. QED BY <1>1, <1>2, <1>3, <2>3, <2>4, StepKeeps DEF IInv, StoreOK
<1>4. ASSUME Held(job[t].sid) = {}, NEW d \in Unused,
             LET h == [heap EXCEPT ![d] = job[t].copy] IN
             Admit(d, h) /\ Use(t, d, h) /\ Collect(h)
      PROVE  IInv'
  <2> DEFINE h == [heap EXCEPT ![d] = job[t].copy]
  <2>1. /\ job[t].copy \in Record /\ job[t].copy.sid = job[t].sid
        /\ Owned(job[t].copy, parsed)
    BY <1>1 DEF IInv, JobsOK, JobOK, InInsert
  <2>2. d \in Dicts /\ d \notin Alive(resident, job)
    BY DEF Unused
  <2>3. h[d] = job[t].copy
    BY <2>2 DEF IInv, StoreOK
  <2>4. Admit(d, h) /\ Use(t, d, h) /\ Collect(h)
    BY <1>4
  <2>5. Moves(t, {d})
    <3> HIDE DEF h
    <3> QED BY <1>1, <2>1, <2>2, <2>3, <2>4, UseMoves
  <2>6. /\ JobsOK'
        /\ Alive(resident', job') \subseteq
             resident' \union Alive({}, job) \union {NoDict} \union {d}
    BY <1>1, <2>5, JobStep DEF IInv
  <2>7. Alive({}, job) \subseteq Alive(resident, job)
    BY DEF Alive
  <2>8. StoreOK' /\ cache' \in SUBSET Memo
    BY <1>1, <1>4, <2>1, <2>2, <2>4, <2>6, <2>7, StoreAdds DEF Owned
  <2>9. QED BY <1>2, <2>6, <2>8 DEF IInv
<1>5. QED BY <1>3, <1>4 DEF Rehydrate

-----------------------------------------------------------------------------
(* Creating and editing a session.                                          *)

LEMMA FindDuplicateLemma ==
    ASSUME IInv, UNCHANGED flaky, NEW t \in Threads, FindDuplicate(t)
    PROVE  IInv'
<1>1. UNCHANGED <<database, parsed, deleted, store, cache>> /\ job[t].step = "dedup"
  BY DEF FindDuplicate
<1>2. job[t] \in Job /\ JobOK(job[t], parsed)
  BY DEF IInv, JobsOK
<1>3. ASSUME NEW r \in rows,
             Set(t, [job[t] EXCEPT !.sid = r.sid, !.step = "ensure", !.phase = "open"])
      PROVE  Moves(t, resident)
  <2> DEFINE j == [job[t] EXCEPT !.sid = r.sid, !.step = "ensure", !.phase = "open"]
  <2>1. r.sid \in Sids
    BY DEF IInv, DatabaseOK, Record
  <2>2. /\ j.op = job[t].op /\ j.sid = r.sid /\ j.phase = "open" /\ j.step = "ensure"
        /\ j.caller = job[t].caller /\ j.edit = job[t].edit /\ j.reply = job[t].reply
        /\ j.dict = job[t].dict /\ j.target = job[t].target
    BY <1>2 DEF Job
  <2>3. j \in Job
    BY <1>2, <2>1, Names DEF Job
  <2>4. Set(t, j)
    BY <1>3
  <2> HIDE DEF j
  <2>5. job[t].op \in SessionOps /\ (job[t].phase = "create" => job[t].op = "parse")
    BY <1>1, <1>2 DEF JobOK, Named, InCreate
  <2>6. job[t].phase = "create"
    BY <1>1, <1>2 DEF JobOK, InCreate
  <2>7. JobOK(j, parsed')
    BY <1>1, <1>2, <2>1, <2>2, <2>5, <2>6
       DEF JobOK, Named, InCreate, InEdit, InInsert, InWrite, InCompute, SessionOps
  <2>8. QED BY <2>2, <2>3, <2>4, <2>7 DEF Moves, Alive
<1>4. Goto(t, "insert") => Moves(t, resident)
  <2>1. job[t].phase = "create"
    BY <1>1, <1>2 DEF JobOK, InCreate
  <2>2. QED BY <1>1, <2>1, GotoMoves
<1>5. Moves(t, resident)
  BY <1>3, <1>4 DEF FindDuplicate
<1>6. QED BY <1>1, <1>5, OnlyJobs DEF IInv, DatabaseOK

LEMMA InsertSessionLemma ==
    ASSUME IInv, UNCHANGED flaky, NEW t \in Threads, InsertSession(t)
    PROVE  IInv'
<1>1. /\ UNCHANGED <<users, rows, written, deleted, loaded>>
      /\ job[t].step = "insert" /\ job[t].phase = "create"
  BY DEF InsertSession, database
<1> DEFINE Dict(s) == [sid |-> s, owner |-> job[t].caller, doc |-> job[t].doc,
                       over |-> {}, itr |-> NoEdit, version |-> 0]
<1>2. PICK s \in Sids \ SidsOf(parsed), d \in Unused :
        /\ parsed' = parsed \union {[sid |-> s, owner |-> job[t].caller]}
        /\ Set(t, [job[t] EXCEPT !.sid = s, !.step = "snapshot", !.phase = "open"])
        /\ Admit(d, [heap EXCEPT ![d] = Dict(s)])
        /\ Collect([heap EXCEPT ![d] = Dict(s)])
  BY DEF InsertSession
<1> DEFINE r == Dict(s)
<1>3. job[t] \in Job /\ JobOK(job[t], parsed)
  BY DEF IInv, JobsOK
<1>4. job[t].op = "parse" /\ job[t].caller \in Users /\ job[t].doc \in Docs
  BY <1>1, <1>3 DEF JobOK, InCreate
<1>5. r \in Record /\ r.sid = s /\ r.owner = job[t].caller
  BY <1>4, ConstantsAssumption DEF Record
<1>6. d \in Dicts /\ d \notin Alive(resident, job)
  BY DEF Unused
<1>7. parsed \subseteq parsed' /\ Owned(r, parsed')
  BY <1>2 DEF Owned
<1>8. DatabaseOK'
  <2>1. parsed' \in SUBSET [sid: Sids, owner: Users]
    BY <1>2, <1>4 DEF IInv, DatabaseOK
  <2>2. QED BY <1>1, <1>7, <2>1, DatabaseKeeps DEF IInv, DatabaseOK
<1>9. Held(s) = {}
  <2> SUFFICES ASSUME NEW x \in Held(s) PROVE FALSE
    OBVIOUS
  <2>1. heap[x].sid = s /\ Owned(heap[x], parsed)
    BY HeldLemma
  <2>2. QED BY <1>2, <2>1 DEF Owned, SidsOf
<1>10. Moves(t, {d})
  <2> DEFINE j == [job[t] EXCEPT !.sid = s, !.step = "snapshot", !.phase = "open"]
  <2>1. /\ j.op = job[t].op /\ j.sid = s /\ j.phase = "open" /\ j.step = "snapshot"
        /\ j.caller = job[t].caller /\ j.edit = job[t].edit /\ j.reply = job[t].reply
        /\ j.dict = job[t].dict /\ j.target = job[t].target
    BY <1>3 DEF Job
  <2>2. j \in Job
    BY <1>3, Names DEF Job
  <2>3. Set(t, j)
    BY <1>2
  <2> HIDE DEF j
  <2>4. JobOK(j, parsed')
    BY <1>2, <1>3, <1>4, <2>1
       DEF JobOK, Named, InCreate, InEdit, InInsert, InWrite, InCompute, SessionOps
  <2>5. QED BY <2>1, <2>2, <2>3, <2>4 DEF Moves, Alive
<1>11. /\ JobsOK'
       /\ Alive(resident', job') \subseteq
            resident' \union Alive({}, job) \union {NoDict} \union {d}
  BY <1>7, <1>10, JobStep DEF IInv
<1>12. Alive({}, job) \subseteq Alive(resident, job)
  BY DEF Alive
<1>13. Admit(d, [heap EXCEPT ![d] = r]) /\ Collect([heap EXCEPT ![d] = r])
  BY <1>2
<1> HIDE DEF r
<1>14. StoreOK' /\ cache' \in SUBSET Memo
  BY <1>1, <1>5, <1>6, <1>7, <1>9, <1>11, <1>12, <1>13, StoreAdds
<1>15. QED BY <1>8, <1>11, <1>14 DEF IInv

LEMMA ApplyEditLemma ==
    ASSUME IInv, UNCHANGED flaky, NEW t \in Threads, ApplyEdit(t)
    PROVE  IInv'
<1> DEFINE d == job[t].target
<1>1. /\ UNCHANGED <<users, rows, written, parsed, deleted, loaded, resident, cache>>
      /\ job[t].step = "apply"
  BY DEF ApplyEdit, database
<1>2. job[t] \in Job /\ JobOK(job[t], parsed)
  BY DEF IInv, JobsOK
<1>3. job[t].phase = "edit" /\ d \in Dicts /\ job[t].edit \in Edits
  BY <1>1, <1>2 DEF JobOK, InEdit
<1>4. d \in Alive(resident, job)
  BY DEF Alive
<1>5. heap[d] \in Record
  BY <1>3, <1>4 DEF IInv, StoreOK, LiveOK
<1>6. DatabaseOK'
  BY <1>1 DEF IInv, DatabaseOK
<1>7. CASE /\ heap[d].version < MaxVersion
           /\ \E r \in Held(job[t].sid) : Touch(r)
           /\ Set(t, [job[t] EXCEPT !.step = "snapshot", !.target = NoDict])
           /\ Collect([heap EXCEPT ![d] = Applied(job[t], @)])
  <2> DEFINE j == [job[t] EXCEPT !.step = "snapshot", !.target = NoDict]
             x == Applied(job[t], heap[d])
  <2>1. /\ j.op = job[t].op /\ j.sid = job[t].sid /\ j.phase = job[t].phase
        /\ j.step = "snapshot"
        /\ j.caller = job[t].caller /\ j.edit = job[t].edit /\ j.reply = job[t].reply
        /\ j.dict = job[t].dict /\ j.target = NoDict
    BY <1>2 DEF Job
  <2>2. j \in Job
    BY <1>2, Names DEF Job
  <2>3. Set(t, j)
    BY <1>7
  <2> HIDE DEF j
  <2>4. JobOK(j, parsed')
    BY <1>1, <1>2, <1>3, <2>1
       DEF JobOK, Named, InCreate, InEdit, InInsert, InWrite, InCompute, SessionOps
  <2>5. Moves(t, {})
    BY <2>1, <2>2, <2>3, <2>4 DEF Moves, Alive
  <2>6. /\ JobsOK'
        /\ Alive(resident', job') \subseteq
             resident' \union Alive({}, job) \union {NoDict} \union {}
    BY <1>1, <2>5, JobStep DEF IInv
  <2>7. heap[d].version + 1 \in 0..MaxVersion
    BY <1>5, <1>7, ConstantsAssumption DEF Record
  <2>8. x \in Record /\ x.sid = heap[d].sid /\ x.owner = heap[d].owner
    BY <1>3, <1>5, <2>7 DEF Applied, Record
  <2>9. older' \in SUBSET (Dicts \X Dicts)
    BY <1>7, HeldLemma, TouchLemma
  <2>10. Collect([heap EXCEPT ![d] = x])
    BY <1>7
  <2>11. Alive({}, job) \subseteq Alive(resident, job)
    BY DEF Alive
  <2> HIDE DEF x, d
  <2>12. StoreOK'
    BY <1>1, <1>3, <1>4, <2>6, <2>8, <2>9, <2>10, <2>11, StoreEdits
  <2>13. QED BY <1>1, <1>6, <2>6, <2>12 DEF IInv
<1>8. CASE UNCHANGED older /\ Edited(t) /\ Collect(heap)
  <2>1. Moves(t, resident)
    BY <1>1, <1>3, <1>8, EditedMoves
  <2>2. QED BY <1>1, <1>6, <1>8, <2>1, StepKeeps DEF IInv, StoreOK
<1>9. QED BY <1>7, <1>8 DEF ApplyEdit

\* After the write-through an upload opens its session, an edit has returned.
LEMMA PersistedMoves ==
    ASSUME IInv, UNCHANGED parsed, NEW t \in Threads, NEW fresh, Persisted(t),
           job[t].step \in {"snapshot", "write"}
    PROVE  Moves(t, fresh)
<1>1. job[t] \in Job /\ JobOK(job[t], parsed)
  BY DEF IInv, JobsOK
<1>2. CASE /\ job[t].op = "parse"
           /\ Set(t, [job[t] EXCEPT !.step = "ensure", !.copy = Free, !.target = NoDict])
  <2> DEFINE j == [job[t] EXCEPT !.step = "ensure", !.copy = Free, !.target = NoDict]
  <2>1. /\ j.op = job[t].op /\ j.sid = job[t].sid /\ j.phase = job[t].phase
        /\ j.step = "ensure"
        /\ j.caller = job[t].caller /\ j.edit = job[t].edit /\ j.reply = job[t].reply
        /\ j.dict = job[t].dict /\ j.target = NoDict
    BY <1>1 DEF Job
  <2>2. j \in Job
    BY ZenonT(40), <1>1, Names DEF Job
  <2>3. Set(t, j)
    BY <1>2
  <2> HIDE DEF j
  <2>4. JobOK(j, parsed')
    BY <1>1, <1>2, <2>1, Past
       DEF JobOK, Named, InCreate, InEdit, InInsert, InWrite, InCompute, SessionOps
  <2>5. QED BY <2>1, <2>2, <2>3, <2>4 DEF Moves, Alive
<1>3. CASE job[t].op # "parse" /\ Edited(t)
  <2>1. job[t].phase = "edit"
    BY <1>1, <1>3 DEF JobOK, InEdit
  <2>2. QED BY <1>3, <2>1, EditedMoves
<1>4. QED BY <1>2, <1>3 DEF Persisted

LEMMA TakeSnapshotLemma ==
    ASSUME IInv, UNCHANGED flaky, NEW t \in Threads, TakeSnapshot(t)
    PROVE  IInv'
<1>1. UNCHANGED <<database, parsed, deleted, store, cache>> /\ job[t].step = "snapshot"
  BY DEF TakeSnapshot
<1>2. job[t] \in Job /\ JobOK(job[t], parsed)
  BY DEF IInv, JobsOK
<1>3. ASSUME NEW d \in Held(job[t].sid),
             Set(t, [job[t] EXCEPT !.step = "write", !.target = d, !.copy = heap[d]])
      PROVE  Moves(t, resident)
  <2> DEFINE j == [job[t] EXCEPT !.step = "write", !.target = d, !.copy = heap[d]]
  <2>1. /\ d \in Dicts /\ d \in resident /\ heap[d].sid = job[t].sid
        /\ heap[d] \in Record /\ Owned(heap[d], parsed)
    BY HeldLemma
  <2>2. /\ j.op = job[t].op /\ j.sid = job[t].sid /\ j.phase = job[t].phase
        /\ j.step = "write"
        /\ j.caller = job[t].caller /\ j.edit = job[t].edit /\ j.reply = job[t].reply
        /\ j.dict = job[t].dict /\ j.target = d /\ j.copy = heap[d]
    BY <1>2 DEF Job
  <2>3. j \in Job
    BY <1>2, <2>1, Names DEF Job
  <2>4. Set(t, j)
    BY <1>3
  <2> HIDE DEF j
  <2>5. JobOK(j, parsed')
    BY <1>1, <1>2, <2>1, <2>2, Past
       DEF JobOK, Named, InCreate, InEdit, InInsert, InWrite, InCompute, SessionOps
  <2>6. QED BY <2>1, <2>2, <2>3, <2>4, <2>5 DEF Moves, Alive
<1>4. Persisted(t) => Moves(t, resident)
  BY <1>1, PersistedMoves
<1>5. Moves(t, resident)
  BY <1>3, <1>4 DEF TakeSnapshot
<1>6. QED BY <1>1, <1>5, OnlyJobs DEF IInv, DatabaseOK

LEMMA WriteRowLemma ==
    ASSUME IInv, UNCHANGED flaky, NEW t \in Threads, WriteRow(t)
    PROVE  IInv'
<1> DEFINE new    == Stored(job[t])
           others == {r \in rows : r.sid # new.sid}
<1>1. /\ UNCHANGED <<users, parsed, deleted, loaded, resident, older, cache>>
      /\ job[t].step = "write" /\ Persisted(t) /\ Collect(heap)
      /\ \/ /\ rows' = others \union {new}
            /\ written' = MoveToEnd(written, SidsOf(others) \union {new.sid}, new.sid)
         \/ UNCHANGED <<rows, written>>
  BY DEF WriteRow
<1>2. /\ job[t].copy \in Record /\ Owned(job[t].copy, parsed) /\ job[t].target \in Dicts
  BY <1>1 DEF IInv, JobsOK, JobOK, InWrite
<1>3. heap[job[t].target] \in Record
  <2>1. job[t].target \in Alive(resident, job)
    BY DEF Alive
  <2>2. QED BY <1>2, <2>1 DEF IInv, StoreOK, LiveOK
<1>4. new \in Record /\ Owned(new, parsed)
  BY <1>2, <1>3 DEF Stored, Record, Owned
<1>5. new.sid \in Sids /\ SidsOf(others) \union {new.sid} \in SUBSET Sids
        /\ written \in SUBSET (Sids \X Sids)
  BY <1>4 DEF SidsOf, Record, IInv, DatabaseOK
<1> HIDE DEF new
<1>6. DatabaseOK'
  <2>1. CASE UNCHANGED <<rows, written>>
    BY <1>1, <2>1 DEF IInv, DatabaseOK
  <2>2. CASE /\ rows' = others \union {new}
             /\ written' = MoveToEnd(written, SidsOf(others) \union {new.sid}, new.sid)
    <3>1. written' \in SUBSET (Sids \X Sids)
      BY <1>5, <2>2, OrderType
    <3>2. QED BY <1>1, <1>4, <2>2, <3>1, DatabaseWrites
  <2>3. QED BY <1>1, <2>1, <2>2
<1>7. Moves(t, resident)
  BY <1>1, PersistedMoves
<1>8. QED BY <1>1, <1>6, <1>7, StepKeeps DEF IInv, StoreOK

-----------------------------------------------------------------------------
(* Computing.                                                               *)

\* A computation is answered at the end of a request that passed the owner check.
LEMMA ServeMoves ==
    ASSUME IInv, UNCHANGED parsed, NEW t \in Threads, NEW fresh, NEW over \in SUBSET Edits,
           job[t].step \in {"lookup", "memoize"}, Serve(t, over)
    PROVE  Moves(t, fresh)
<1> DEFINE j == [NoJob EXCEPT !.op = job[t].op, !.caller = job[t].caller,
                              !.sid = job[t].sid, !.edit = job[t].edit,
                              !.over = over, !.reply = "ok"]
<1>1. job[t] \in Job /\ JobOK(job[t], parsed) /\ job[t].phase = "version"
  BY DEF IInv, JobsOK, JobOK, InCompute
<1>2. /\ j.op = job[t].op /\ j.sid = job[t].sid /\ j.phase = "open" /\ j.step = "idle"
      /\ j.caller = job[t].caller /\ j.edit = job[t].edit /\ j.reply = "ok"
      /\ j.dict = NoDict /\ j.target = NoDict
  BY DEF NoJob
<1>3. NoJob \in Job
  BY ConstantsAssumption, Names DEF NoJob, Job, AllOps
<1>4. /\ job[t].op \in AllOps \union {"none"} /\ job[t].caller \in Users \union {"nobody"}
      /\ job[t].sid \in Sids \union {NoSid} /\ job[t].edit \in Edits \union {NoEdit}
  BY <1>1 DEF Job
<1>5. j \in Job
  BY ZenonT(40), <1>4, <1>3 DEF Job
<1>6. Set(t, j)
  BY DEF Serve
<1> HIDE DEF j
<1>7. JobOK(j, parsed')
  BY <1>1, <1>2
     DEF JobOK, Named, InCreate, InEdit, InInsert, InWrite, InCompute, SessionOps
<1>8. QED BY <1>2, <1>5, <1>6, <1>7 DEF Moves

LEMMA LookUpLemma ==
    ASSUME IInv, UNCHANGED flaky, NEW t \in Threads, LookUp(t)
    PROVE  IInv'
<1>1. /\ UNCHANGED <<users, rows, written, parsed, deleted, loaded, resident, older, cache>>
      /\ Collect(heap) /\ job[t].step = "lookup"
      /\ (\E c \in cache : Serve(t, c.over)) \/ Goto(t, "calculate")
  BY DEF LookUp, database
<1>2. \A c \in cache : c.over \in SUBSET Edits
  BY DEF IInv, Memo
<1>3. Moves(t, resident)
  BY <1>1, <1>2, ServeMoves, GotoMoves
<1>4. DatabaseOK'
  BY <1>1 DEF IInv, DatabaseOK
<1>5. QED BY <1>1, <1>3, <1>4, StepKeeps DEF IInv, StoreOK

LEMMA CalculateLemma ==
    ASSUME IInv, UNCHANGED flaky, NEW t \in Threads, Calculate(t)
    PROVE  IInv'
<1>1. /\ UNCHANGED <<users, rows, written, parsed, deleted, loaded, resident, older, cache>>
      /\ Collect(heap) /\ job[t].step = "calculate"
  BY DEF Calculate, database
<1>2. job[t] \in Job /\ JobOK(job[t], parsed)
  BY DEF IInv, JobsOK
<1>3. ASSUME job[t].dict # NoDict,
             Set(t, [job[t] EXCEPT !.step = "memoize", !.over = heap[job[t].dict].over])
      PROVE  Moves(t, resident)
  <2> DEFINE j == [job[t] EXCEPT !.step = "memoize", !.over = heap[job[t].dict].over]
  <2>1. job[t].dict \in Dicts /\ job[t].dict \in Alive(resident, job)
    BY <1>2, <1>3 DEF Job, Alive
  <2>2. heap[job[t].dict].over \in SUBSET Edits
    BY <2>1 DEF IInv, StoreOK, LiveOK, Record
  <2>3. /\ j.op = job[t].op /\ j.sid = job[t].sid /\ j.phase = job[t].phase
        /\ j.step = "memoize"
        /\ j.caller = job[t].caller /\ j.edit = job[t].edit /\ j.reply = job[t].reply
        /\ j.dict = job[t].dict /\ j.target = job[t].target
    BY <1>2 DEF Job
  <2>4. j \in Job
    BY <1>2, <2>2, Names DEF Job
  <2>5. Set(t, j)
    BY <1>3
  <2> HIDE DEF j
  <2>6. JobOK(j, parsed')
    BY <1>1, <1>2, <2>3
       DEF JobOK, Named, InCreate, InEdit, InInsert, InWrite, InCompute, SessionOps
  <2>7. {j.dict, j.target} \subseteq Alive({}, job)
    BY <2>3 DEF Alive
  <2>8. QED BY <2>4, <2>5, <2>6, <2>7 DEF Moves
<1>4. Answer(t, "failed") => Moves(t, resident)
  BY AnswerMoves
<1>5. Moves(t, resident)
  BY <1>3, <1>4 DEF Calculate
<1>6. DatabaseOK'
  BY <1>1 DEF IInv, DatabaseOK
<1>7. QED BY <1>1, <1>5, <1>6, StepKeeps DEF IInv, StoreOK

LEMMA MemoizeLemma ==
    ASSUME IInv, UNCHANGED flaky, NEW t \in Threads, Memoize(t)
    PROVE  IInv'
<1> DEFINE new == [sid |-> job[t].sid, version |-> job[t].version, over |-> job[t].over]
           all == {c \in cache : c.sid # new.sid \/ c.version # new.version} \union {new}
<1>1. /\ UNCHANGED <<users, rows, written, parsed, deleted, loaded, resident, older>>
      /\ Collect(heap) /\ job[t].step = "memoize" /\ Serve(t, job[t].over)
      /\ cache' \in SUBSET all
  BY DEF Memoize, database
<1>2. job[t] \in Job /\ JobOK(job[t], parsed)
  BY DEF IInv, JobsOK
<1>3. job[t].over \in SUBSET Edits /\ job[t].version \in -1..MaxVersion
  BY <1>2 DEF Job
<1>4. job[t].sid \in Sids
  BY <1>1, <1>2, Past DEF JobOK, Named
<1>5. new \in Memo
  BY <1>3, <1>4 DEF Memo
<1>6. cache' \in SUBSET Memo
  BY <1>1, <1>5 DEF IInv
<1>7. Moves(t, resident)
  BY <1>1, <1>3, ServeMoves
<1>8. DatabaseOK'
  BY <1>1 DEF IInv, DatabaseOK
<1>9. QED BY <1>1, <1>6, <1>7, <1>8, StepKeeps DEF IInv, StoreOK

-----------------------------------------------------------------------------
(* Deletion, purge, logout, cache clearing, restart.                        *)

LEMMA AuthorizeDeleteLemma ==
    ASSUME IInv, UNCHANGED flaky, NEW t \in Threads,
           AuthorizeDelete(t) \/ AuthorizeResident(t)
    PROVE  IInv'
<1>1. /\ UNCHANGED <<database, parsed, deleted, store, cache>>
      /\ job[t].step \in {"owner", "peek"}
      /\ \/ Goto(t, "ensure")
         \/ job[t].step = "owner" /\ Goto(t, "peek")
         \/ Answer(t, "notfound") \/ Answer(t, "failed")
  BY DEF AuthorizeDelete, AuthorizeResident
<1>2. Moves(t, resident)
  BY <1>1, GotoMoves, AnswerMoves DEF database
<1>3. QED BY <1>1, <1>2, OnlyJobs DEF IInv, DatabaseOK

LEMMA DropResidentLemma ==
    ASSUME IInv, UNCHANGED flaky, NEW t \in Threads, DropResident(t)
    PROVE  IInv'
<1> DEFINE gone == Doomed(job[t])
           doomed == IF job[t].op = "delete" THEN {job[t].sid}
                     ELSE IF job[t].op = "clear" THEN Sids
                     ELSE {heap[d].sid : d \in gone}
           step == IF job[t].op = "delete" THEN "drop" ELSE "uncache"
           j == [job[t] EXCEPT !.step = step, !.doomed = doomed]
<1>1. /\ UNCHANGED <<users, rows, written, parsed, deleted, cache>>
      /\ job[t].step \in {"forget", "evict"} /\ Collect(heap)
      /\ resident' = resident \ gone
      /\ older' = Among(older, resident \ gone)
      /\ loaded' = (loaded /\ job[t].op # "clear")
      /\ Set(t, j)
  BY DEF DropResident, database
<1>2. job[t] \in Job /\ JobOK(job[t], parsed)
  BY DEF IInv, JobsOK
<1>3. \A d \in resident : heap[d].sid \in Sids
  BY DEF IInv, StoreOK, LiveOK, Alive, Record
<1>4. gone \subseteq resident
  BY DEF Doomed, Held
<1>5. doomed \in SUBSET Sids
  <2>1. job[t].op = "delete" => job[t].sid \in Sids
    BY <1>1, <1>2, Past DEF JobOK, Named, SessionOps
  <2>2. \A d \in gone : heap[d].sid \in Sids
    BY <1>3, <1>4
  <2> HIDE DEF gone
  <2>3. QED BY <2>1, <2>2
<1>6. step \in Steps /\ step \in {"drop", "uncache"}
  BY Names
<1> HIDE DEF doomed, step
<1>7. /\ j.op = job[t].op /\ j.sid = job[t].sid /\ j.phase = job[t].phase
      /\ j.step = step
      /\ j.caller = job[t].caller /\ j.edit = job[t].edit /\ j.reply = job[t].reply
      /\ j.dict = job[t].dict /\ j.target = job[t].target
  BY <1>2 DEF Job
<1>8. j \in Job
  BY <1>2, <1>5, <1>6 DEF Job
<1> HIDE DEF j
<1>9. JobOK(j, parsed')
  BY <1>1, <1>2, <1>6, <1>7, Past
     DEF JobOK, Named, InCreate, InEdit, InInsert, InWrite, InCompute
<1>10. Moves(t, resident)
  BY <1>1, <1>7, <1>8, <1>9 DEF Moves, Alive
<1>11. older' \in SUBSET (Dicts \X Dicts) /\ loaded' \in BOOLEAN
  BY <1>1 DEF Among, IInv, StoreOK
<1>12. DatabaseOK'
  BY <1>1 DEF IInv, DatabaseOK
<1> HIDE DEF gone
<1>13. QED BY <1>1, <1>10, <1>11, <1>12, StepKeeps DEF IInv

LEMMA DeleteRowLemma ==
    ASSUME IInv, UNCHANGED flaky, NEW t \in Threads, DeleteRow(t)
    PROVE  IInv'
<1>1. /\ UNCHANGED <<users, parsed, deleted, store, cache>>
      /\ job[t].step = "drop" /\ Goto(t, "uncache")
      /\ rows' \subseteq rows
      /\ written' \in {Among(written, SidsOf(rows) \ {job[t].sid}), written}
  BY DEF DeleteRow
<1>2. Moves(t, resident)
  BY <1>1, GotoMoves
<1>3. written' \in SUBSET (Sids \X Sids)
  BY <1>1 DEF Among, IInv, DatabaseOK
<1>4. DatabaseOK'
  BY <1>1, <1>3, DatabaseKeeps DEF IInv, DatabaseOK
<1>5. QED BY <1>1, <1>2, <1>4, StepKeeps DEF store, IInv, StoreOK

LEMMA DropComputationsLemma ==
    ASSUME IInv, UNCHANGED flaky, NEW t \in Threads, DropComputations(t)
    PROVE  IInv'
<1>1. /\ UNCHANGED <<users, rows, written, parsed, store>>
      /\ job[t].step = "uncache" /\ cache' \subseteq cache
      /\ Goto(t, "drop") \/ Answer(t, "ok")
      /\ deleted' = IF job[t].op = "delete" THEN deleted \union {job[t].sid} ELSE deleted
  BY DEF DropComputations, database
<1>2. job[t] \in Job /\ JobOK(job[t], parsed)
  BY DEF IInv, JobsOK
<1>3. job[t].op = "delete" => job[t].sid \in Sids
  BY <1>1, <1>2, Past DEF JobOK, Named, SessionOps
<1>4. deleted' \in SUBSET Sids
  BY <1>1, <1>3 DEF IInv, DatabaseOK
<1>5. Moves(t, resident)
  BY <1>1, GotoMoves, AnswerMoves
<1>6. QED BY <1>1, <1>4, <1>5, OnlyJobs DEF database, IInv

LEMMA DeleteAccountLemma ==
    ASSUME IInv, UNCHANGED flaky, NEW t \in Threads, DeleteAccount(t)
    PROVE  IInv'
<1> DEFINE kept == SidsOf(rows \ {r \in rows : r.owner = job[t].caller})
<1>1. /\ UNCHANGED <<parsed, deleted, store, cache>>
      /\ Answer(t, "ok") \/ Answer(t, "failed")
      /\ users' \subseteq users /\ rows' \subseteq rows
      /\ written' \in {Among(written, kept), written}
  BY DEF DeleteAccount, database
<1>2. Moves(t, resident)
  BY <1>1, AnswerMoves
<1>3. written' \in SUBSET (Sids \X Sids)
  BY <1>1 DEF Among, IInv, DatabaseOK
<1>4. DatabaseOK'
  BY <1>1, <1>3, DatabaseKeeps DEF IInv, DatabaseOK
<1>5. QED BY <1>1, <1>2, <1>4, StepKeeps DEF store, IInv, StoreOK

\* A process without requests, dicts or memo needs no more than its database.
LEMMA FreshProcess ==
    ASSUME job \in [Threads -> Job], \A t \in Threads : job[t] = NoJob,
           resident = {}, older = {}, loaded = FALSE, heap = [d \in Dicts |-> Free]
    PROVE  StoreOK /\ JobsOK
<1>1. StoreBounded
  BY FS_EmptySet, ConstantsAssumption DEF StoreBounded
<1>2. Alive(resident, job) \subseteq {NoDict}
  BY DEF Alive, NoJob
<1>3. LiveOK
  BY <1>2, ConstantsAssumption DEF LiveOK
<1>4. JobOK(NoJob, parsed)
  BY DEF NoJob, JobOK, Named, InCreate, InEdit, InInsert, InWrite, InCompute, SessionOps
<1>5. QED BY <1>1, <1>3, <1>4 DEF StoreOK, JobsOK, OneDictPerSession

LEMMA NoJobType == NoJob \in Job
BY ConstantsAssumption, Names DEF NoJob, Job, AllOps

LEMMA RestartLemma ==
    ASSUME IInv, UNCHANGED flaky, Restart
    PROVE  IInv'
<1>1. /\ UNCHANGED <<users, rows, written, parsed, deleted>>
      /\ job' = [t \in Threads |-> NoJob]
      /\ resident' = {} /\ older' = {} /\ loaded' = FALSE /\ cache' = {}
      /\ heap' = [d \in Dicts |-> Free]
  BY DEF Restart, database
<1>2. job' \in [Threads -> Job] /\ \A t \in Threads : job'[t] = NoJob
  BY <1>1, NoJobType
<1>3. StoreBounded'
  BY <1>1, FS_EmptySet, ConstantsAssumption DEF StoreBounded
<1>4. Alive(resident', job') \subseteq {NoDict}
  BY <1>1, <1>2 DEF Alive, NoJob
<1>5. LiveOK'
  BY <1>4, ConstantsAssumption DEF LiveOK
<1>6. JobOK(NoJob, parsed')
  BY DEF NoJob, JobOK, Named, InCreate, InEdit, InInsert, InWrite, InCompute, SessionOps
<1>7. StoreOK' /\ JobsOK'
  BY <1>1, <1>2, <1>3, <1>5, <1>6 DEF StoreOK, JobsOK, OneDictPerSession
<1>8. DatabaseOK'
  BY <1>1 DEF IInv, DatabaseOK
<1>9. QED BY <1>1, <1>7, <1>8 DEF IInv

-----------------------------------------------------------------------------
(* The invariant holds, and what follows from it.                           *)

LEMMA InitIInv == Init => IInv
<1> SUFFICES ASSUME Init PROVE IInv
  OBVIOUS
<1>1. job \in [Threads -> Job] /\ \A t \in Threads : job[t] = NoJob
  BY NoJobType DEF Init
<1>2. StoreOK /\ JobsOK
  BY <1>1, FreshProcess DEF Init
<1>3. flaky \in BOOLEAN
  BY ConstantsAssumption DEF Init
<1>4. DatabaseOK
  BY FS_EmptySet DEF Init, DatabaseOK
<1>5. QED BY <1>2, <1>3, <1>4 DEF Init, IInv

LEMMA ProceedLemma ==
    ASSUME IInv, UNCHANGED flaky, NEW t \in Threads, Proceed(t)
    PROVE  IInv'
BY EnsureLoadedLemma, FindResidentLemma, ReadRowLemma, RehydrateLemma,
   FindDuplicateLemma, InsertSessionLemma, ApplyEditLemma, TakeSnapshotLemma,
   WriteRowLemma, LookUpLemma, CalculateLemma, MemoizeLemma, AuthorizeDeleteLemma,
   DropResidentLemma, DeleteRowLemma, DropComputationsLemma, DeleteAccountLemma
   DEF Proceed

\* No step of anybody breaks the invariant.
LEMMA NextIInv == IInv /\ [Next]_vars => IInv'
<1> SUFFICES ASSUME IInv, [Next]_vars PROVE IInv'
  OBVIOUS
<1>1. CASE UNCHANGED vars
  <2>1. UNCHANGED <<users, rows, written, parsed, deleted, loaded, heap, resident, older,
                    cache, job, flaky>>
    BY <1>1 DEF vars
  <2>2. StoreOK'
    BY <2>1 DEF IInv, StoreOK, LiveOK, Alive, OneDictPerSession, StoreBounded
  <2>3. DatabaseOK' /\ JobsOK'
    BY <2>1 DEF IInv, DatabaseOK, JobsOK
  <2>4. QED BY <2>1, <2>2, <2>3 DEF IInv
<1>2. QED BY <1>1, ArriveLemma, ProceedLemma, RestartLemma DEF Next

\* The inductive invariant is an invariant.
LEMMA Inductive == Spec => []IInv
<1> QED BY InitIInv, NextIInv, PTL DEF Spec

\* The database, the store, the memo and the requests keep their shapes; in
\* particular what a request inserts, edits or writes is always a whole session.
THEOREM TypeCorrect == Spec => []TypeOK
<1>1. IInv => TypeOK
  BY DEF IInv, DatabaseOK, StoreOK, JobsOK, TypeOK
<1> QED BY <1>1, Inductive, PTL

\* For any number of workers, however evictions, restores, reloads and restarts
\* interleave, no session is resident as two dicts.
THEOREM OneDictEach == Spec => []OneDictPerSession
<1>1. IInv => OneDictPerSession
  BY DEF IInv, StoreOK
<1> QED BY <1>1, Inductive, PTL

\* Uploads, restores and reloads together never fill the store past MAX_SESSIONS,
\* whatever the cap and whoever competes for it.
THEOREM StoreIsBounded == Spec => []StoreBounded
<1>1. IInv => StoreBounded
  BY DEF IInv, StoreOK
<1> QED BY <1>1, Inductive, PTL

\* A computation is answered only to the account that uploaded the session, however
\* long ago the request was let in and whatever was evicted, restored or deleted
\* since.
THEOREM ComputedForItsOwner == Spec => []ComputedForOwner
<1>1. IInv => ComputedForOwner
  BY DEF IInv, JobsOK, JobOK, InCompute, ComputedForOwner
<1> QED BY <1>1, Inductive, PTL

----------------------------------------------------------------------------
(***************************************************************************)
(* When requests are served one after another, for every number of accounts, *)
(* sessions and dicts, any cap and a database that may fail: the memo is      *)
(* current, a recalculation contains its edit, and between requests memory     *)
(* and rows agree.  Two workers break the first two as soon as the store may   *)
(* evict (the run tax_stale_memo).                                           *)
(*                                                                         *)
(* What makes it hold is that the one request under way cannot lose its      *)
(* session: the dict it opened stays the resident one (OpenOK), so its       *)
(* version and its overrides are the resident dict's until it is answered,   *)
(* and whatever leaves the store leaves the memo with it (MemoOK).           *)
(***************************************************************************)

OneWorker == \E w : Threads = {w}

\* The dict a request opened is the resident one of its session.
OpenOK(j) ==
    /\ j.step \in {"dedup", "find", "read", "insert", "apply", "snapshot", "write",
                   "version", "lookup", "calculate", "memoize"} => loaded
    /\ j.dict # NoDict =>
         /\ loaded /\ j.dict \in resident /\ heap[j.dict].sid = j.sid
         /\ j.phase \in {"edit", "version"}
         /\ j.step \notin {"read", "insert", "forget", "evict"}
    /\ (j.phase = "edit" \/ (j.phase = "version" /\ j.op = "recalculate")) =>
         /\ j.op \in {"recalculate", "itr"}
         /\ j.dict # NoDict /\ heap[j.dict].owner = j.caller
    /\ j.phase = "edit" => j.step \in {"ensure", "find", "apply", "snapshot", "write"}

\* What an edit is applied to, and what a snapshot is of, is resident, too.
EditOK(j) ==
    /\ j.step = "apply" => j.target = j.dict
    /\ j.step = "write" =>
         j.target \in resident /\ heap[j.target].sid = j.sid /\ j.copy = heap[j.target]
    /\ (/\ j.op = "recalculate"
        /\ \/ j.phase = "version"
           \/ j.phase = "edit" /\ j.step \in {"snapshot", "write"}) =>
         j.edit \in heap[j.dict].over
    /\ (j.op = "recalculate" /\ j.reply = "ok") => j.edit \in j.over

\* A computation under way is of the version it will be filed under.
ComputeOK(j) ==
    /\ (j.step \in {"lookup", "calculate", "memoize"} /\ j.dict # NoDict) =>
         j.version = heap[j.dict].version
    /\ j.step = "memoize" => j.dict # NoDict /\ j.over = heap[j.dict].over

\* What is about to be inserted is a row, or has none with its owner and document.
InsertOK(j) ==
    /\ (j.step = "insert" /\ j.phase # "create") => j.copy \in rows
    /\ (j.step = "insert" /\ j.phase = "create" /\ ~flaky) =>
         \A r \in rows : ~(r.owner = j.caller /\ r.doc = j.doc)

\* What is being deleted has left the store, its computations not yet.
Ending(j) == j.step = "uncache" \/ (j.step = "drop" /\ j.op = "delete")
DropOK(j) ==
    Ending(j) => /\ \A d \in resident : heap[d].sid \notin j.doomed
                 /\ j.op = "delete" => j.sid \in j.doomed

\* A memoized computation is of the resident dict, or of an older version of it, or
\* about to go.
MemoOK(j) ==
    \A c \in cache :
      \/ Ending(j) /\ c.sid \in j.doomed
      \/ /\ loaded
         /\ \E d \in resident :
              /\ heap[d].sid = c.sid
              /\ \/ c.version < heap[d].version
                 \/ c.version = heap[d].version /\ c.over = heap[d].over

\* Unless the request under way is about to write it, a resident dict is a row.
Unwritten(j, d) == j.step \in {"snapshot", "write"} /\ heap[d].sid = j.sid
RowsOK(j) ==
    ~flaky => \A d \in resident :
                heap[d].owner \in users => heap[d] \in rows \/ Unwritten(j, d)

\* No two rows, and no resident dict and a row of another session, have their owner
\* and document in common.
DocsOK ==
    /\ \A q, r \in rows : q.owner = r.owner /\ q.doc = r.doc => q = r
    /\ ~flaky => \A d \in resident, r \in rows :
         (heap[d].owner \in users /\ r.owner = heap[d].owner /\ r.doc = heap[d].doc)
           => r.sid = heap[d].sid

AloneOK(j) ==
    OpenOK(j) /\ EditOK(j) /\ ComputeOK(j) /\ InsertOK(j) /\ DropOK(j)
      /\ MemoOK(j) /\ RowsOK(j)

SInv == IInv /\ DocsOK /\ \A t \in Threads : AloneOK(job[t])

-----------------------------------------------------------------------------
(* Steps that leave the store, the memo and the database alone.             *)

\* What a step leaves on the heap, it leaves in every resident dict.
LEMMA Carried ==
    ASSUME NEW h, Collect(h), resident' \in SUBSET Dicts
    PROVE  \A d \in resident' : heap'[d] = h[d]
BY DEF Collect, Alive

\* With one worker, a step re-establishes what is known of its request.
LEMMA SeqStep ==
    ASSUME OneWorker, SInv, NEW t \in Threads, NEW j, Set(t, j), IInv', DocsOK',
           OpenOK(j)', EditOK(j)', ComputeOK(j)', InsertOK(j)', DropOK(j)',
           MemoOK(j)', RowsOK(j)'
    PROVE  SInv'
<1>1. \A u \in Threads : u = t
  BY DEF OneWorker
<1>2. job' = [job EXCEPT ![t] = j] /\ job \in [Threads -> Job]
  BY DEF Set, SInv, IInv, JobsOK
<1>3. \A u \in Threads : job'[u] = j
  BY <1>1, <1>2
<1>4. AloneOK(j)'
  BY DEF AloneOK
<1>5. \A u \in Threads : AloneOK(job[u])'
  <2> SUFFICES ASSUME NEW u \in Threads PROVE AloneOK(job[u])'
    OBVIOUS
  <2>1. job'[u] = j
    BY <1>3
  <2>2. QED
    BY <1>4, <2>1 DEF AloneOK, OpenOK, EditOK, ComputeOK, InsertOK, DropOK, MemoOK,
                      RowsOK, Ending, Unwritten
<1>6. QED BY <1>5 DEF SInv

Quiet ==
    /\ UNCHANGED <<users, rows, loaded, resident, cache, flaky>>
    /\ \A d \in resident : heap'[d] = heap[d]

LEMMA QuietRest ==
    ASSUME SInv, Quiet, NEW j, MemoOK(j), RowsOK(j)
    PROVE  DocsOK' /\ MemoOK(j)' /\ RowsOK(j)'
<1>1. DocsOK'
  BY DEF Quiet, SInv, DocsOK
<1>2. QED BY <1>1 DEF Quiet, MemoOK, RowsOK, Ending, Unwritten

LEMMA QuietStep ==
    ASSUME OneWorker, SInv, NEW t \in Threads, NEW j, Set(t, j), IInv', Quiet,
           OpenOK(j), EditOK(j), ComputeOK(j), InsertOK(j), DropOK(j),
           MemoOK(j), RowsOK(j)
    PROVE  SInv'
<1>1. OpenOK(j)'
  BY DEF Quiet, OpenOK
<1>2. EditOK(j)'
  <2>1. (j.op = "recalculate" /\ j.phase \in {"version", "edit"}) => j.dict \in resident
    BY DEF OpenOK
  <2>2. QED BY <2>1 DEF Quiet, EditOK
<1>3. ComputeOK(j)' /\ InsertOK(j)' /\ DropOK(j)'
  BY DEF Quiet, OpenOK, ComputeOK, InsertOK, DropOK, Ending
<1>4. QED BY <1>1, <1>2, <1>3, QuietRest, SeqStep

\* What the request of the one worker was known of.
LEMMA Alone ==
    ASSUME SInv, NEW t \in Threads
    PROVE  /\ job[t] \in Job /\ JobOK(job[t], parsed) /\ AloneOK(job[t])
           /\ resident \in SUBSET Dicts
           /\ \A c, d \in resident : heap[c].sid = heap[d].sid => c = d
           /\ \A d \in resident : heap[d] \in Record
BY DEF SInv, IInv, JobsOK, StoreOK, OneDictPerSession, LiveOK, Alive

\* A request that is not ending, nor writing, leaves the memo and the rows agreeing
\* with memory.
LEMMA Undisturbed ==
    ASSUME SInv, NEW t \in Threads, NEW j
    PROVE  /\ ~Ending(job[t]) => MemoOK(j)
           /\ job[t].step \notin {"snapshot", "write"} => RowsOK(j)
BY DEF SInv, AloneOK, MemoOK, RowsOK, Unwritten

\* A request that refers to no dict and is at none of the steps that matter.
LEMMA PlainJob ==
    ASSUME NEW j, j.dict = NoDict, j.phase \notin {"edit", "version"},
           j.step \in {"idle", "ensure", "owner", "peek", "evict", "forget"},
           (j.op = "recalculate" /\ j.reply = "ok") => j.edit \in j.over
    PROVE  OpenOK(j) /\ EditOK(j) /\ ComputeOK(j) /\ InsertOK(j) /\ DropOK(j)
BY DEF OpenOK, EditOK, ComputeOK, InsertOK, DropOK, Ending

LEMMA ArriveSeq ==
    ASSUME OneWorker, SInv, UNCHANGED flaky, NEW t \in Threads, Arrive(t), IInv'
    PROVE  SInv'
<1>1. PICK j \in Job : Begin(t, j) /\ Fresh(j)
  BY Arrivals DEF SInv
<1>2. OpenOK(j) /\ EditOK(j) /\ ComputeOK(j) /\ InsertOK(j) /\ DropOK(j)
  BY <1>1, PlainJob DEF Fresh
<1>3. MemoOK(j) /\ RowsOK(j)
  BY <1>1, Undisturbed DEF Begin, Ending
<1>4. Quiet /\ Set(t, j)
  BY <1>1 DEF Begin, Quiet, database, store
<1>5. QED BY <1>2, <1>3, <1>4, QuietStep

-----------------------------------------------------------------------------
(* Opening a session.                                                       *)

\* The lookup found dict d, which is the one the request had opened if any.
LEMMA UseSeq ==
    ASSUME SInv, NEW t \in Threads, NEW d \in Dicts, NEW h, Use(t, d, h),
           job[t].step \in {"find", "version", "insert"},
           loaded', d \in resident', heap'[d] = h[d], h[d].sid = job[t].sid,
           job[t].dict # NoDict => job[t].dict = d /\ h[d] = heap[d]
    PROVE  \E j : /\ Set(t, j)
                  /\ OpenOK(j)' /\ EditOK(j)' /\ ComputeOK(j)' /\ InsertOK(j)' /\ DropOK(j)'
<1>1. job[t] \in Job /\ JobOK(job[t], parsed) /\ AloneOK(job[t])
  BY Alone
<1>2. d # NoDict
  BY ConstantsAssumption
<1>3. CASE job[t].phase = "open" /\ Answer(t, "notfound")
  <2> DEFINE j == [NoJob EXCEPT !.reply = "notfound"]
  <2>1. j.dict = NoDict /\ j.phase = "open" /\ j.step = "idle" /\ j.op = "none"
    BY DEF NoJob
  <2>2. Set(t, j)
    BY <1>3 DEF Answer
  <2> HIDE DEF j
  <2>3. OpenOK(j)' /\ EditOK(j)' /\ ComputeOK(j)' /\ InsertOK(j)' /\ DropOK(j)'
    BY <2>1 DEF OpenOK, EditOK, ComputeOK, InsertOK, DropOK, Ending
  <2>4. QED BY <2>2, <2>3
<1>4. CASE /\ job[t].phase = "open" /\ Owns(job[t], d, h)
           /\ job[t].op \in {"recalculate", "itr"}
           /\ Set(t, ToEdit([job[t] EXCEPT !.dict = d]))
  <2> DEFINE j0 == ToEdit([job[t] EXCEPT !.dict = d])
  <2>1. PICK j : j = j0
    OBVIOUS
  <2>2. /\ j.op = job[t].op /\ j.sid = job[t].sid /\ j.caller = job[t].caller
        /\ j.phase = "edit" /\ j.step = "ensure" /\ j.dict = d /\ j.reply = job[t].reply
        /\ j.edit = job[t].edit /\ j.over = job[t].over
    BY <1>1, <2>1 DEF Job, ToEdit
  <2>3. Set(t, j)
    BY <1>4, <2>1
  <2>4. OpenOK(j)' /\ EditOK(j)' /\ ComputeOK(j)' /\ InsertOK(j)' /\ DropOK(j)'
    BY <1>1, <1>2, <1>4, <2>2
       DEF AloneOK, OpenOK, EditOK, ComputeOK, InsertOK, DropOK, Ending, Owns
  <2>5. QED BY <2>3, <2>4
<1>5. CASE /\ job[t].phase = "open" /\ job[t].op \notin {"recalculate", "itr"}
           /\ Set(t, ToCompute([job[t] EXCEPT !.dict = d]))
  <2>1. PICK j : j = ToCompute([job[t] EXCEPT !.dict = d])
    OBVIOUS
  <2>2. /\ j.op = job[t].op /\ j.sid = job[t].sid /\ j.caller = job[t].caller
        /\ j.phase = "version" /\ j.step = "version" /\ j.dict = d
        /\ j.reply = job[t].reply
        /\ j.edit = job[t].edit /\ j.over = job[t].over
    BY <1>1, <2>1 DEF Job, ToCompute
  <2>3. Set(t, j)
    BY <1>5, <2>1
  <2>4. OpenOK(j)' /\ EditOK(j)' /\ ComputeOK(j)' /\ InsertOK(j)' /\ DropOK(j)'
    BY <1>1, <1>2, <1>5, <2>2
       DEF AloneOK, OpenOK, EditOK, ComputeOK, InsertOK, DropOK, Ending
  <2>5. QED BY <2>3, <2>4
<1>6. CASE /\ job[t].phase = "edit"
           /\ Set(t, [job[t] EXCEPT !.step = "apply", !.target = d, !.copy = Free])
  <2>1. PICK j : j = [job[t] EXCEPT !.step = "apply", !.target = d, !.copy = Free]
    OBVIOUS
  <2>2. /\ j.op = job[t].op /\ j.sid = job[t].sid /\ j.caller = job[t].caller
        /\ j.phase = "edit" /\ j.step = "apply" /\ j.dict = job[t].dict /\ j.target = d
        /\ j.reply = job[t].reply
        /\ j.edit = job[t].edit /\ j.over = job[t].over
    BY <1>1, <1>6, <2>1 DEF Job
  <2>3. Set(t, j)
    BY <1>6, <2>1
  <2>4. OpenOK(j)' /\ EditOK(j)' /\ ComputeOK(j)' /\ InsertOK(j)' /\ DropOK(j)'
    BY <1>1, <1>2, <1>6, <2>2
       DEF AloneOK, OpenOK, EditOK, ComputeOK, InsertOK, DropOK, Ending
  <2>5. QED BY <2>3, <2>4
<1>7. ~(job[t].phase = "edit" /\ ~Owns(job[t], d, h))
  BY <1>1 DEF AloneOK, OpenOK, Owns
<1>8. CASE /\ job[t].phase = "version"
           /\ Set(t, [job[t] EXCEPT !.step = "lookup", !.version = h[d].version,
                                    !.copy = Free])
  <2>1. PICK j : j = [job[t] EXCEPT !.step = "lookup", !.version = h[d].version,
                                    !.copy = Free]
    OBVIOUS
  <2>2. /\ j.op = job[t].op /\ j.sid = job[t].sid /\ j.caller = job[t].caller
        /\ j.phase = "version" /\ j.step = "lookup" /\ j.dict = job[t].dict
        /\ j.reply = job[t].reply /\ j.version = h[d].version
        /\ j.edit = job[t].edit /\ j.over = job[t].over
    BY <1>1, <1>8, <2>1 DEF Job
  <2>3. Set(t, j)
    BY <1>8, <2>1
  <2>4. OpenOK(j)' /\ EditOK(j)' /\ ComputeOK(j)' /\ InsertOK(j)' /\ DropOK(j)'
    BY <1>1, <1>2, <1>8, <2>2
       DEF AloneOK, OpenOK, EditOK, ComputeOK, InsertOK, DropOK, Ending
  <2>5. QED BY <2>3, <2>4
<1>9. QED BY <1>3, <1>4, <1>5, <1>6, <1>7, <1>8 DEF Use

\* A reload leaves nothing resident that is not a row.
LEMMA LoadIsRows ==
    ASSUME LoadFromDisk
    PROVE  \A d \in resident' : heap'[d] \in rows
<1>1. PICK keep \in SUBSET rows :
        \E f \in [keep -> Dicts \ Alive({}, job)] :
          /\ resident' = {f[x] : x \in keep}
          /\ Collect([d \in Dicts |-> IF \E x \in keep : f[x] = d
                                      THEN CHOOSE x \in keep : f[x] = d
                                      ELSE heap[d]])
  BY DEF LoadFromDisk
<1>2. PICK f \in [keep -> Dicts \ Alive({}, job)] :
        /\ resident' = {f[x] : x \in keep}
        /\ Collect([d \in Dicts |-> IF \E x \in keep : f[x] = d
                                    THEN CHOOSE x \in keep : f[x] = d
                                    ELSE heap[d]])
  BY <1>1
<1> DEFINE h == [d \in Dicts |-> IF \E x \in keep : f[x] = d
                                 THEN CHOOSE x \in keep : f[x] = d
                                 ELSE heap[d]]
<1>3. \A x \in keep : f[x] \in Dicts /\ h[f[x]] \in keep
  BY <1>2
<1>4. Collect(h) /\ resident' \in SUBSET Dicts
  BY <1>2, <1>3
<1> HIDE DEF h
<1>5. \A d \in resident' : heap'[d] = h[d]
  BY <1>4, Carried
<1>6. QED BY <1>2, <1>3, <1>5

LEMMA EnsureLoadedSeq ==
    ASSUME OneWorker, SInv, UNCHANGED flaky, NEW t \in Threads, EnsureLoaded(t), IInv'
    PROVE  SInv'
<1>1. job[t] \in Job /\ JobOK(job[t], parsed) /\ AloneOK(job[t])
  BY Alone
<1> DEFINE step == IF job[t].phase = "create" THEN "dedup"
                   ELSE IF job[t].phase = "forget" THEN "forget" ELSE "find"
<1>2. PICK j : j = [job[t] EXCEPT !.step = step]
  OBVIOUS
<1>3. Set(t, j) /\ job[t].step = "ensure" /\ UNCHANGED <<users, rows, cache>>
  BY <1>2 DEF EnsureLoaded, Goto, database
<1>4. /\ j.op = job[t].op /\ j.sid = job[t].sid /\ j.caller = job[t].caller
      /\ j.phase = job[t].phase /\ j.step = step /\ j.dict = job[t].dict
      /\ j.reply = job[t].reply
      /\ j.edit = job[t].edit /\ j.over = job[t].over
  BY <1>1, <1>2 DEF Job
<1>5. step \in {"dedup", "forget", "find"}
  OBVIOUS
<1> HIDE DEF step
<1>6. CASE loaded
  <2>1. Quiet
    BY <1>3, <1>6 DEF EnsureLoaded, Quiet, store, database
  <2>2. step # "find" => job[t].phase \in {"create", "forget"}
    BY DEF step
  <2>3. OpenOK(j) /\ EditOK(j) /\ ComputeOK(j) /\ InsertOK(j) /\ DropOK(j)
    BY <1>1, <1>3, <1>4, <1>5, <1>6, <2>2
       DEF AloneOK, OpenOK, EditOK, ComputeOK, InsertOK, DropOK, Ending
  <2>4. MemoOK(j) /\ RowsOK(j)
    BY <1>3, Undisturbed DEF Ending
  <2>5. QED BY <1>3, <2>1, <2>3, <2>4, QuietStep
<1>7. CASE ~loaded
  <2>1. loaded' = TRUE /\ LoadFromDisk
    BY <1>7 DEF EnsureLoaded
  <2>2. job[t].dict = NoDict /\ job[t].phase # "edit" /\ cache = {}
          /\ ~(job[t].phase = "version" /\ job[t].op = "recalculate")
    BY <1>1, <1>3, <1>7 DEF AloneOK, OpenOK, MemoOK, Ending
  <2>3. \A d \in resident' : heap'[d] \in rows
    BY <2>1, LoadIsRows
  <2>4. OpenOK(j)' /\ EditOK(j)' /\ ComputeOK(j)' /\ InsertOK(j)' /\ DropOK(j)'
    BY <1>1, <1>3, <1>4, <1>5, <2>1, <2>2
       DEF AloneOK, OpenOK, EditOK, ComputeOK, InsertOK, DropOK, Ending
  <2>5. MemoOK(j)' /\ RowsOK(j)'
    BY <1>3, <2>2, <2>3 DEF MemoOK, RowsOK
  <2>6. DocsOK'
    BY <1>3, <2>3 DEF SInv, DocsOK
  <2>7. QED BY <1>3, <2>4, <2>5, <2>6, SeqStep
<1>8. QED BY <1>6, <1>7

LEMMA FindResidentSeq ==
    ASSUME OneWorker, SInv, UNCHANGED flaky, NEW t \in Threads, FindResident(t), IInv'
    PROVE  SInv'
<1>1. /\ job[t] \in Job /\ JobOK(job[t], parsed) /\ AloneOK(job[t])
      /\ resident \in SUBSET Dicts
      /\ \A c, d \in resident : heap[c].sid = heap[d].sid => c = d
  BY Alone
<1>2. /\ UNCHANGED <<users, rows, written, parsed, deleted, loaded, resident, cache>>
      /\ Collect(heap) /\ job[t].step \in {"find", "version"}
  BY DEF FindResident, database
<1>3. Quiet
  BY <1>1, <1>2, Carried DEF Quiet
<1>4. loaded
  BY <1>1, <1>2 DEF AloneOK, OpenOK
<1>5. ASSUME NEW d \in Held(job[t].sid), Use(t, d, heap) PROVE SInv'
  <2>1. d \in resident /\ heap[d].sid = job[t].sid
    BY DEF Held
  <2>2. job[t].dict # NoDict => job[t].dict = d
    BY <1>1, <2>1 DEF AloneOK, OpenOK
  <2>3. PICK j : /\ Set(t, j)
                 /\ OpenOK(j)' /\ EditOK(j)' /\ ComputeOK(j)' /\ InsertOK(j)' /\ DropOK(j)'
    BY <1>1, <1>2, <1>3, <1>4, <1>5, <2>1, <2>2, UseSeq DEF Quiet
  <2>4. MemoOK(j) /\ RowsOK(j)
    BY <1>2, Undisturbed DEF Ending
  <2>5. QED BY <1>3, <2>3, <2>4, QuietRest, SeqStep
<1>6. CASE Held(job[t].sid) = {} /\ Goto(t, "read")
  <2>1. job[t].dict = NoDict
    BY <1>1, <1>6 DEF AloneOK, OpenOK, Held
  <2>2. PICK j : j = [job[t] EXCEPT !.step = "read"]
    OBVIOUS
  <2>3. /\ j.op = job[t].op /\ j.sid = job[t].sid /\ j.caller = job[t].caller
        /\ j.phase = job[t].phase /\ j.step = "read" /\ j.dict = job[t].dict
        /\ j.reply = job[t].reply
        /\ j.edit = job[t].edit /\ j.over = job[t].over
    BY <1>1, <2>2 DEF Job
  <2>4. Set(t, j)
    BY <1>6, <2>2 DEF Goto
  <2>5. OpenOK(j) /\ EditOK(j) /\ ComputeOK(j) /\ InsertOK(j) /\ DropOK(j)
    BY <1>1, <1>2, <1>4, <2>1, <2>3
       DEF AloneOK, OpenOK, EditOK, ComputeOK, InsertOK, DropOK, Ending
  <2>6. MemoOK(j) /\ RowsOK(j)
    BY <1>2, Undisturbed DEF Ending
  <2>7. QED BY <1>3, <2>4, <2>5, <2>6, QuietStep
<1>7. QED BY <1>5, <1>6 DEF FindResident

\* An answer refers to nothing.
LEMMA Replied ==
    ASSUME NEW j, NEW what, j = [NoJob EXCEPT !.reply = what]
    PROVE  OpenOK(j) /\ EditOK(j) /\ ComputeOK(j) /\ InsertOK(j) /\ DropOK(j)
<1>1. j.dict = NoDict /\ j.phase = "open" /\ j.step = "idle" /\ j.op = "none"
  BY DEF NoJob
<1>2. QED BY <1>1, PlainJob

LEMMA ReadRowSeq ==
    ASSUME OneWorker, SInv, UNCHANGED flaky, NEW t \in Threads, ReadRow(t), IInv'
    PROVE  SInv'
<1>1. /\ job[t] \in Job /\ JobOK(job[t], parsed) /\ AloneOK(job[t])
      /\ resident \in SUBSET Dicts
  BY Alone
<1>2. /\ UNCHANGED <<users, rows, written, parsed, deleted, loaded, resident, older, cache>>
      /\ Collect(heap) /\ job[t].step = "read"
  BY DEF ReadRow, database
<1>3. Quiet
  BY <1>1, <1>2, Carried DEF Quiet
<1>4. /\ loaded /\ job[t].dict = NoDict /\ job[t].phase \notin {"create", "edit"}
      /\ ~(job[t].phase = "version" /\ job[t].op = "recalculate")
  BY <1>1, <1>2 DEF AloneOK, OpenOK, JobOK, InCreate
<1>5. ASSUME NEW j, Set(t, j),
             OpenOK(j) /\ EditOK(j) /\ ComputeOK(j) /\ InsertOK(j) /\ DropOK(j)
      PROVE  SInv'
  <2>1. MemoOK(j) /\ RowsOK(j)
    BY <1>2, Undisturbed DEF Ending
  <2>2. QED BY <1>3, <1>5, <2>1, QuietStep
<1>6. ASSUME NEW r \in rows, Set(t, [job[t] EXCEPT !.copy = r, !.step = "insert"])
      PROVE  SInv'
  <2>1. PICK j : j = [job[t] EXCEPT !.copy = r, !.step = "insert"]
    OBVIOUS
  <2>2. /\ j.op = job[t].op /\ j.phase = job[t].phase /\ j.step = "insert"
        /\ j.dict = job[t].dict /\ j.reply = job[t].reply /\ j.copy = r
        /\ j.edit = job[t].edit /\ j.over = job[t].over
    BY <1>1, <2>1 DEF Job
  <2>3. OpenOK(j) /\ EditOK(j) /\ ComputeOK(j) /\ InsertOK(j) /\ DropOK(j)
    BY <1>1, <1>4, <2>2
       DEF AloneOK, OpenOK, EditOK, ComputeOK, InsertOK, DropOK, Ending
  <2>4. QED BY <1>5, <1>6, <2>1, <2>3
<1>7. ASSUME Answer(t, "notfound") PROVE SInv'
  <2>1. PICK j : j = [NoJob EXCEPT !.reply = "notfound"]
    OBVIOUS
  <2>2. QED BY <1>5, <1>7, <2>1, Replied DEF Answer
<1>8. ASSUME job[t].op = "parse", Set(t, ToCompute(job[t])) PROVE SInv'
  <2>1. PICK j : j = ToCompute(job[t])
    OBVIOUS
  <2>2. /\ j.op = job[t].op /\ j.phase = "version" /\ j.step = "version"
        /\ j.dict = job[t].dict
    BY <1>1, <2>1 DEF Job, ToCompute
  <2>3. OpenOK(j) /\ EditOK(j) /\ ComputeOK(j) /\ InsertOK(j) /\ DropOK(j)
    BY <1>1, <1>4, <1>8, <2>2
       DEF OpenOK, EditOK, ComputeOK, InsertOK, DropOK, Ending
  <2>4. QED BY <1>5, <1>8, <2>1, <2>3
<1>9. ASSUME job[t].phase = "version",
             Set(t, [job[t] EXCEPT !.step = "lookup", !.version = -1])
      PROVE  SInv'
  <2>1. PICK j : j = [job[t] EXCEPT !.step = "lookup", !.version = -1]
    OBVIOUS
  <2>2. /\ j.op = job[t].op /\ j.phase = "version" /\ j.step = "lookup"
        /\ j.dict = job[t].dict /\ j.reply = job[t].reply
        /\ j.edit = job[t].edit /\ j.over = job[t].over
    BY <1>1, <1>9, <2>1 DEF Job
  <2>3. OpenOK(j) /\ EditOK(j) /\ ComputeOK(j) /\ InsertOK(j) /\ DropOK(j)
    BY <1>1, <1>4, <1>9, <2>2
       DEF AloneOK, OpenOK, EditOK, ComputeOK, InsertOK, DropOK, Ending
  <2>4. QED BY <1>5, <1>9, <2>1, <2>3
<1>10. Missing(t) => SInv'
  BY <1>4, <1>7, <1>8, <1>9 DEF Missing
<1>11. QED BY <1>6, <1>10 DEF ReadRow

\* Making room for one more dict takes the computations of what goes with it.
LEMMA AdmitMemo ==
    ASSUME SInv, NEW t \in Threads, ~Ending(job[t]), NEW d \in Dicts, NEW h,
           \A x \in resident : h[x] = heap[x], Admit(d, h), Collect(h),
           resident' \in SUBSET Dicts, loaded' = loaded, NEW j
    PROVE  MemoOK(j)'
<1>1. MemoOK(job[t])
  BY Alone DEF AloneOK
<1>2. PICK keep : /\ resident' = keep
                  /\ cache' = {c \in cache : \A x \in (resident \union {d}) \ keep :
                                                h[x].sid # c.sid}
  BY DEF Admit
<1>3. \A x \in resident' : heap'[x] = h[x]
  BY Carried
<1>4. ASSUME NEW c \in cache'
      PROVE  /\ loaded
             /\ \E x \in resident' :
                  /\ heap'[x].sid = c.sid
                  /\ \/ c.version < heap'[x].version
                     \/ c.version = heap'[x].version /\ c.over = heap'[x].over
  <2>1. c \in cache /\ \A x \in (resident \union {d}) \ resident' : h[x].sid # c.sid
    BY <1>2
  <2>2. loaded /\ \E x \in resident :
          /\ heap[x].sid = c.sid
          /\ \/ c.version < heap[x].version
             \/ c.version = heap[x].version /\ c.over = heap[x].over
    BY <1>1, <2>1 DEF MemoOK
  <2>3. PICK x \in resident :
          /\ heap[x].sid = c.sid
          /\ \/ c.version < heap[x].version
             \/ c.version = heap[x].version /\ c.over = heap[x].over
    BY <2>2
  <2>4. h[x] = heap[x]
    OBVIOUS
  <2>5. x \in resident'
    BY <2>1, <2>3, <2>4
  <2>6. heap'[x] = heap[x]
    BY <1>3, <2>4, <2>5
  <2>7. QED BY <2>2, <2>3, <2>5, <2>6
<1>5. QED BY <1>4 DEF MemoOK

LEMMA RehydrateSeq ==
    ASSUME OneWorker, SInv, UNCHANGED flaky, NEW t \in Threads, Rehydrate(t), IInv'
    PROVE  SInv'
<1>1. /\ job[t] \in Job /\ JobOK(job[t], parsed) /\ AloneOK(job[t])
      /\ resident \in SUBSET Dicts
      /\ \A c, d \in resident : heap[c].sid = heap[d].sid => c = d
  BY Alone
<1>2. /\ UNCHANGED <<users, rows, written, parsed, deleted, loaded>>
      /\ job[t].step = "insert" /\ job[t].phase # "create"
  BY DEF Rehydrate, database
<1>3. loaded /\ job[t].dict = NoDict /\ job[t].copy \in rows
        /\ job[t].copy.sid = job[t].sid
  BY <1>1, <1>2 DEF AloneOK, OpenOK, InsertOK, JobOK, InInsert
<1>4. resident' \in SUBSET Dicts
  BY DEF IInv, StoreOK
<1>5. ASSUME NEW d \in Held(job[t].sid), UNCHANGED <<resident, cache>>,
             Use(t, d, heap), Collect(heap)
      PROVE  SInv'
  <2>1. d \in resident /\ d \in Dicts /\ heap[d].sid = job[t].sid
    BY <1>1 DEF Held
  <2>2. Quiet
    BY <1>1, <1>2, <1>5, Carried DEF Quiet
  <2>3. heap'[d] = heap[d] /\ d \in resident' /\ loaded'
    BY <1>2, <1>3, <2>1, <2>2 DEF Quiet
  <2>4. PICK j : /\ Set(t, j)
                 /\ OpenOK(j)' /\ EditOK(j)' /\ ComputeOK(j)' /\ InsertOK(j)' /\ DropOK(j)'
    BY <1>2, <1>3, <1>5, <2>1, <2>3, UseSeq
  <2>5. MemoOK(j) /\ RowsOK(j)
    BY <1>2, Undisturbed DEF Ending
  <2>6. QED BY <2>2, <2>4, <2>5, QuietRest, SeqStep
<1>6. ASSUME NEW d \in Unused, Admit(d, [heap EXCEPT ![d] = job[t].copy]),
             Use(t, d, [heap EXCEPT ![d] = job[t].copy]),
             Collect([heap EXCEPT ![d] = job[t].copy])
      PROVE  SInv'
  <2>1. PICK h : h = [heap EXCEPT ![d] = job[t].copy]
    OBVIOUS
  <2>2. d \in Dicts /\ d \notin resident
    BY DEF Unused, Alive
  <2>3. h[d] = job[t].copy /\ \A x \in resident : h[x] = heap[x]
    BY <1>1, <2>1, <2>2 DEF SInv, IInv, StoreOK
  <2>4. Admit(d, h) /\ Use(t, d, h) /\ Collect(h)
    BY <1>6, <2>1
  <2>5. d \in resident' /\ \A x \in resident' : x \in resident \/ x = d
    BY <2>4 DEF Admit
  <2>6. \A x \in resident' : heap'[x] = h[x]
    BY <1>4, <2>4, Carried
  <2>7. PICK j : /\ Set(t, j)
                 /\ OpenOK(j)' /\ EditOK(j)' /\ ComputeOK(j)' /\ InsertOK(j)' /\ DropOK(j)'
    BY <1>2, <1>3, <2>2, <2>3, <2>4, <2>5, <2>6, UseSeq
  <2>8. MemoOK(j)'
    BY <1>2, <1>4, <2>2, <2>3, <2>4, AdmitMemo DEF Ending
  <2>9. RowsOK(job[t]) /\ DocsOK
    BY <1>1 DEF AloneOK, SInv
  <2>10. RowsOK(j)'
    BY <1>2, <1>3, <2>3, <2>5, <2>6, <2>9 DEF RowsOK, Unwritten
  <2>11. DocsOK'
    <3>1. \A q, r \in rows' : q.owner = r.owner /\ q.doc = r.doc => q = r
      BY <1>2, <2>9 DEF DocsOK
    <3>2. ASSUME ~flaky', NEW x \in resident', NEW r \in rows',
                 heap'[x].owner \in users', r.owner = heap'[x].owner, r.doc = heap'[x].doc
          PROVE  r.sid = heap'[x].sid
      <4>1. CASE x \in resident
        BY <1>2, <2>3, <2>6, <2>9, <3>2, <4>1 DEF DocsOK
      <4>2. CASE x = d
        BY <1>2, <1>3, <2>3, <2>6, <2>9, <3>2, <4>2 DEF DocsOK
      <4>3. QED BY <2>5, <4>1, <4>2
    <3>3. QED BY <3>1, <3>2 DEF DocsOK
  <2>12. QED BY <2>7, <2>8, <2>10, <2>11, SeqStep
<1>7. QED BY <1>5, <1>6 DEF Rehydrate

-----------------------------------------------------------------------------
(* Creating a session and editing one.                                      *)

LEMMA FindDuplicateSeq ==
    ASSUME OneWorker, SInv, UNCHANGED flaky, NEW t \in Threads, FindDuplicate(t), IInv'
    PROVE  SInv'
<1>1. job[t] \in Job /\ JobOK(job[t], parsed) /\ AloneOK(job[t])
  BY Alone
<1>2. /\ job[t].step = "dedup" /\ UNCHANGED <<database, store, cache>>
      /\ \/ \E r \in rows :
              Set(t, [job[t] EXCEPT !.sid = r.sid, !.step = "ensure", !.phase = "open"])
         \/ /\ flaky \/ \A r \in rows : ~(r.owner = job[t].caller /\ r.doc = job[t].doc)
            /\ Goto(t, "insert")
  BY DEF FindDuplicate
<1>3. Quiet
  BY <1>2 DEF Quiet, database, store
<1>4. loaded /\ job[t].dict = NoDict /\ job[t].phase = "create" /\ job[t].op = "parse"
  BY <1>1, <1>2 DEF AloneOK, OpenOK, JobOK, InCreate
<1>5. ASSUME NEW j, Set(t, j),
             OpenOK(j) /\ EditOK(j) /\ ComputeOK(j) /\ InsertOK(j) /\ DropOK(j)
      PROVE  SInv'
  <2>1. MemoOK(j) /\ RowsOK(j)
    BY <1>2, Undisturbed DEF Ending
  <2>2. QED BY <1>3, <1>5, <2>1, QuietStep
<1>6. ASSUME NEW r \in rows,
             Set(t, [job[t] EXCEPT !.sid = r.sid, !.step = "ensure", !.phase = "open"])
      PROVE  SInv'
  <2>1. PICK j : j = [job[t] EXCEPT !.sid = r.sid, !.step = "ensure", !.phase = "open"]
    OBVIOUS
  <2>2. j.op = "parse" /\ j.phase = "open" /\ j.step = "ensure" /\ j.dict = NoDict
    BY <1>1, <1>4, <2>1 DEF Job
  <2>3. QED BY <1>5, <1>6, <2>1, <2>2, PlainJob
<1>7. ASSUME flaky \/ \A r \in rows : ~(r.owner = job[t].caller /\ r.doc = job[t].doc),
             Goto(t, "insert")
      PROVE  SInv'
  <2>1. PICK j : j = [job[t] EXCEPT !.step = "insert"]
    OBVIOUS
  <2>2. /\ j.op = "parse" /\ j.phase = "create" /\ j.step = "insert" /\ j.dict = NoDict
        /\ j.caller = job[t].caller /\ j.doc = job[t].doc
    BY <1>1, <1>4, <2>1 DEF Job
  <2>3. OpenOK(j) /\ EditOK(j) /\ ComputeOK(j) /\ InsertOK(j) /\ DropOK(j)
    BY <1>4, <1>7, <2>2 DEF OpenOK, EditOK, ComputeOK, InsertOK, DropOK, Ending
  <2>4. QED BY <1>5, <1>7, <2>1, <2>3 DEF Goto
<1>8. QED BY <1>2, <1>6, <1>7

LEMMA InsertSessionSeq ==
    ASSUME OneWorker, SInv, UNCHANGED flaky, NEW t \in Threads, InsertSession(t), IInv'
    PROVE  SInv'
<1>1. /\ job[t] \in Job /\ JobOK(job[t], parsed) /\ AloneOK(job[t])
      /\ resident \in SUBSET Dicts
  BY Alone
<1>2. /\ UNCHANGED <<users, rows, written, deleted, loaded>>
      /\ job[t].step = "insert" /\ job[t].phase = "create"
  BY DEF InsertSession, database
<1>3. /\ loaded /\ job[t].dict = NoDict /\ job[t].op = "parse"
      /\ ~flaky => \A r \in rows : ~(r.owner = job[t].caller /\ r.doc = job[t].doc)
  BY <1>1, <1>2 DEF AloneOK, OpenOK, InsertOK, JobOK, InCreate
<1> DEFINE New(s) == [sid |-> s, owner |-> job[t].caller, doc |-> job[t].doc,
                      over |-> {}, itr |-> NoEdit, version |-> 0]
<1>4. PICK s \in Sids, d \in Unused :
        /\ Set(t, [job[t] EXCEPT !.sid = s, !.step = "snapshot", !.phase = "open"])
        /\ Admit(d, [heap EXCEPT ![d] = New(s)])
        /\ Collect([heap EXCEPT ![d] = New(s)])
  BY DEF InsertSession
<1>5. PICK new : new = New(s)
  OBVIOUS
<1>6. PICK h : h = [heap EXCEPT ![d] = new]
  OBVIOUS
<1>7. d \in Dicts /\ d \notin resident
  BY DEF Unused, Alive
<1>8. h[d] = new /\ \A x \in resident : h[x] = heap[x]
  BY <1>6, <1>7 DEF SInv, IInv, StoreOK
<1>9. Admit(d, h) /\ Collect(h)
  BY <1>4, <1>5, <1>6
<1>10. \A x \in resident' : x \in resident \/ x = d
  BY <1>9 DEF Admit
<1>11. resident' \in SUBSET Dicts
  BY DEF IInv, StoreOK
<1>12. \A x \in resident' : heap'[x] = h[x]
  BY <1>9, <1>11, Carried
<1>13. PICK j : j = [job[t] EXCEPT !.sid = s, !.step = "snapshot", !.phase = "open"]
  OBVIOUS
<1>14. /\ j.op = "parse" /\ j.phase = "open" /\ j.step = "snapshot" /\ j.dict = NoDict
       /\ j.sid = s
  BY <1>1, <1>3, <1>13 DEF Job
<1>15. OpenOK(j)' /\ EditOK(j)' /\ ComputeOK(j)' /\ InsertOK(j)' /\ DropOK(j)'
  BY <1>2, <1>3, <1>14 DEF OpenOK, EditOK, ComputeOK, InsertOK, DropOK, Ending
<1>16. MemoOK(j)'
  BY <1>2, <1>7, <1>8, <1>9, <1>11, AdmitMemo DEF Ending
<1>17. RowsOK(job[t]) /\ DocsOK
  BY <1>1 DEF AloneOK, SInv
<1>18. new.sid = s /\ new.owner = job[t].caller /\ new.doc = job[t].doc
  BY <1>5
<1>19. RowsOK(j)'
  <2> SUFFICES ASSUME ~flaky, NEW x \in resident', heap'[x].owner \in users
               PROVE  heap'[x] \in rows \/ (heap'[x].sid = j.sid)
    BY <1>2, <1>14 DEF RowsOK, Unwritten
  <2>1. CASE x \in resident
    BY <1>2, <1>8, <1>12, <1>17, <2>1 DEF RowsOK, Unwritten
  <2>2. CASE x = d
    BY <1>8, <1>12, <1>14, <1>18, <2>2
  <2>3. QED BY <1>10, <2>1, <2>2
<1>20. DocsOK'
  <2>1. \A q, r \in rows' : q.owner = r.owner /\ q.doc = r.doc => q = r
    BY <1>2, <1>17 DEF DocsOK
  <2>2. ASSUME ~flaky', NEW x \in resident', NEW r \in rows',
               heap'[x].owner \in users', r.owner = heap'[x].owner, r.doc = heap'[x].doc
        PROVE  r.sid = heap'[x].sid
    <3>1. CASE x \in resident
      BY <1>2, <1>8, <1>12, <1>17, <2>2, <3>1 DEF DocsOK
    <3>2. CASE x = d
      BY <1>2, <1>3, <1>8, <1>12, <1>18, <2>2, <3>2
    <3>3. QED BY <1>10, <3>1, <3>2
  <2>3. QED BY <2>1, <2>2 DEF DocsOK
<1>21. QED BY <1>4, <1>13, <1>15, <1>16, <1>19, <1>20, SeqStep

\* The edit goes into the resident dict, whose version grows with it.
LEMMA ApplyEditSeq ==
    ASSUME OneWorker, SInv, UNCHANGED flaky, NEW t \in Threads, ApplyEdit(t), IInv'
    PROVE  SInv'
<1>1. /\ job[t] \in Job /\ JobOK(job[t], parsed) /\ AloneOK(job[t])
      /\ resident \in SUBSET Dicts
      /\ \A c, d \in resident : heap[c].sid = heap[d].sid => c = d
      /\ \A d \in resident : heap[d] \in Record
  BY Alone
<1>2. /\ UNCHANGED <<users, rows, written, parsed, deleted, loaded, resident, cache>>
      /\ job[t].step = "apply"
  BY DEF ApplyEdit, database
<1>3. PICK d : d = job[t].target
  OBVIOUS
<1>4. /\ job[t].phase = "edit" /\ job[t].op \in {"recalculate", "itr"}
      /\ loaded /\ d = job[t].dict /\ d # NoDict /\ d \in Dicts
      /\ d \in resident /\ heap[d].sid = job[t].sid /\ heap[d].owner = job[t].caller
  BY <1>1, <1>2, <1>3 DEF AloneOK, OpenOK, EditOK, JobOK, InEdit
<1>5. Held(job[t].sid) # {}
  BY <1>4 DEF Held
<1>6. /\ Set(t, [job[t] EXCEPT !.step = "snapshot", !.target = NoDict])
      /\ Collect([heap EXCEPT ![d] = Applied(job[t], @)])
  BY <1>3, <1>5 DEF ApplyEdit
<1>7. PICK h : h = [heap EXCEPT ![d] = Applied(job[t], heap[d])]
  OBVIOUS
<1>8. \A x \in resident' : heap'[x] = h[x]
  BY <1>1, <1>2, <1>6, <1>7, Carried
<1>9. heap \in [Dicts -> Record \union {Free}]
  BY DEF SInv, IInv, StoreOK
<1>10. \A x \in resident : x # d => heap'[x] = heap[x]
  BY <1>1, <1>2, <1>7, <1>8, <1>9
<1>11. heap'[d] = Applied(job[t], heap[d])
  BY <1>2, <1>4, <1>7, <1>8, <1>9
<1>12. /\ heap'[d].sid = heap[d].sid /\ heap'[d].owner = heap[d].owner
       /\ heap'[d].doc = heap[d].doc /\ heap'[d].version = heap[d].version + 1
       /\ job[t].op = "recalculate" => job[t].edit \in heap'[d].over
       /\ heap[d].version \in Int
  BY <1>1, <1>4, <1>11, ConstantsAssumption DEF Applied, Record
<1>13. PICK j : j = [job[t] EXCEPT !.step = "snapshot", !.target = NoDict]
  OBVIOUS
<1>14. /\ j.op = job[t].op /\ j.phase = "edit" /\ j.step = "snapshot" /\ j.dict = d
       /\ j.sid = job[t].sid /\ j.caller = job[t].caller /\ j.edit = job[t].edit
       /\ j.reply = job[t].reply /\ j.over = job[t].over
  BY <1>1, <1>4, <1>13 DEF Job
<1>15. OpenOK(j)' /\ EditOK(j)' /\ ComputeOK(j)' /\ InsertOK(j)' /\ DropOK(j)'
  BY <1>1, <1>2, <1>4, <1>12, <1>14
     DEF AloneOK, OpenOK, EditOK, ComputeOK, InsertOK, DropOK, Ending
<1>16. MemoOK(j)'
  <2> SUFFICES ASSUME NEW c \in cache
               PROVE  \E x \in resident :
                        /\ heap'[x].sid = c.sid
                        /\ \/ c.version < heap'[x].version
                           \/ c.version = heap'[x].version /\ c.over = heap'[x].over
    BY <1>2, <1>4 DEF MemoOK
  <2>1. PICK x \in resident :
          /\ heap[x].sid = c.sid
          /\ \/ c.version < heap[x].version
             \/ c.version = heap[x].version /\ c.over = heap[x].over
    BY <1>1, <1>2 DEF AloneOK, MemoOK, Ending
  <2>2. CASE x # d
    BY <1>10, <2>1, <2>2
  <2>3. CASE x = d
    <3>1. c.version \in Int
      BY ConstantsAssumption DEF SInv, IInv, Memo
    <3>2. c.version < heap'[d].version
      BY <1>12, <2>1, <2>3, <3>1
    <3>3. QED BY <1>12, <2>1, <2>3, <3>2
  <2>4. QED BY <2>2, <2>3
<1>17. RowsOK(j)'
  BY <1>1, <1>2, <1>4, <1>10, <1>12, <1>14 DEF AloneOK, RowsOK, Unwritten
<1>18. \A x \in resident : /\ heap'[x].sid = heap[x].sid
                           /\ heap'[x].owner = heap[x].owner /\ heap'[x].doc = heap[x].doc
  BY <1>10, <1>12
<1>19. DocsOK'
  BY <1>2, <1>18 DEF SInv, DocsOK
<1>20. QED BY <1>6, <1>13, <1>15, <1>16, <1>17, <1>19, SeqStep

\* After the write-through the request is past its edit.
LEMMA PersistedSeq ==
    ASSUME SInv, NEW t \in Threads, Persisted(t), job[t].step \in {"snapshot", "write"},
           UNCHANGED <<loaded, resident>>, \A d \in resident : heap'[d] = heap[d]
    PROVE  \E j : /\ Set(t, j) /\ j.step \notin {"snapshot", "write"}
                  /\ OpenOK(j)' /\ EditOK(j)' /\ ComputeOK(j)' /\ InsertOK(j)' /\ DropOK(j)'
<1>1. job[t] \in Job /\ JobOK(job[t], parsed) /\ AloneOK(job[t])
  BY Alone
<1>2. CASE job[t].op = "parse"
  <2>1. PICK j : j = [job[t] EXCEPT !.step = "ensure", !.copy = Free, !.target = NoDict]
    OBVIOUS
  <2>2. /\ j.op = "parse" /\ j.step = "ensure" /\ j.phase = job[t].phase
        /\ j.dict = job[t].dict /\ j.sid = job[t].sid /\ j.caller = job[t].caller
    BY <1>1, <1>2, <2>1 DEF Job
  <2>3. Set(t, j)
    BY <1>2, <2>1 DEF Persisted
  <2>4. OpenOK(j)' /\ EditOK(j)' /\ ComputeOK(j)' /\ InsertOK(j)' /\ DropOK(j)'
    BY <1>1, <1>2, <2>2 DEF AloneOK, OpenOK, EditOK, ComputeOK, InsertOK, DropOK, Ending
  <2>5. QED BY <2>2, <2>3, <2>4
<1>3. CASE job[t].op = "itr"
  <2>1. PICK j : j = [NoJob EXCEPT !.reply = "ok"]
    OBVIOUS
  <2>2. j.dict = NoDict /\ j.phase = "open" /\ j.step = "idle" /\ j.op = "none"
    BY <2>1 DEF NoJob
  <2>3. Set(t, j)
    BY <1>3, <2>1 DEF Persisted, Edited, Answer
  <2>4. OpenOK(j)' /\ EditOK(j)' /\ ComputeOK(j)' /\ InsertOK(j)' /\ DropOK(j)'
    BY <2>2 DEF OpenOK, EditOK, ComputeOK, InsertOK, DropOK, Ending
  <2>5. QED BY <2>2, <2>3, <2>4
<1>4. CASE job[t].op \notin {"parse", "itr"}
  <2>1. /\ job[t].phase = "edit" /\ job[t].op = "recalculate"
        /\ loaded /\ job[t].dict # NoDict /\ job[t].dict \in resident
        /\ job[t].edit \in heap[job[t].dict].over
    BY <1>1, <1>4 DEF AloneOK, OpenOK, EditOK, JobOK, InEdit
  <2>2. PICK j : j = ToCompute(job[t])
    OBVIOUS
  <2>3. /\ j.op = job[t].op /\ j.phase = "version" /\ j.step = "version"
        /\ j.dict = job[t].dict /\ j.sid = job[t].sid /\ j.caller = job[t].caller
        /\ j.edit = job[t].edit /\ j.reply = job[t].reply /\ j.over = job[t].over
    BY <1>1, <2>2 DEF Job, ToCompute
  <2>4. Set(t, j)
    BY <1>4, <2>2 DEF Persisted, Edited
  <2>5. OpenOK(j)' /\ EditOK(j)' /\ ComputeOK(j)' /\ InsertOK(j)' /\ DropOK(j)'
    BY <1>1, <2>1, <2>3
       DEF AloneOK, OpenOK, EditOK, ComputeOK, InsertOK, DropOK, Ending
  <2>6. QED BY <2>3, <2>4, <2>5
<1>5. QED BY <1>2, <1>3, <1>4

LEMMA TakeSnapshotSeq ==
    ASSUME OneWorker, SInv, UNCHANGED flaky, NEW t \in Threads, TakeSnapshot(t), IInv'
    PROVE  SInv'
<1>1. job[t] \in Job /\ JobOK(job[t], parsed) /\ AloneOK(job[t])
  BY Alone
<1>2. job[t].step = "snapshot" /\ UNCHANGED <<database, store, cache>>
  BY DEF TakeSnapshot
<1>3. Quiet
  BY <1>2 DEF Quiet, database, store
<1>4. ASSUME NEW d \in Held(job[t].sid),
             Set(t, [job[t] EXCEPT !.step = "write", !.target = d, !.copy = heap[d]])
      PROVE  SInv'
  <2>1. d \in resident /\ heap[d].sid = job[t].sid
    BY DEF Held
  <2>2. PICK j : j = [job[t] EXCEPT !.step = "write", !.target = d, !.copy = heap[d]]
    OBVIOUS
  <2>3. /\ j.op = job[t].op /\ j.phase = job[t].phase /\ j.step = "write"
        /\ j.dict = job[t].dict /\ j.sid = job[t].sid /\ j.caller = job[t].caller
        /\ j.edit = job[t].edit /\ j.reply = job[t].reply /\ j.over = job[t].over
        /\ j.target = d /\ j.copy = heap[d]
    BY <1>1, <2>2 DEF Job
  <2>4. OpenOK(j) /\ EditOK(j) /\ ComputeOK(j) /\ InsertOK(j) /\ DropOK(j)
    BY <1>1, <1>2, <2>1, <2>3
       DEF AloneOK, OpenOK, EditOK, ComputeOK, InsertOK, DropOK, Ending
  <2>5. MemoOK(j)
    BY <1>2, Undisturbed DEF Ending
  <2>6. RowsOK(j)
    BY <1>1, <1>2, <2>3 DEF AloneOK, RowsOK, Unwritten
  <2>7. QED BY <1>3, <1>4, <2>2, <2>4, <2>5, <2>6, QuietStep
<1>5. ASSUME Held(job[t].sid) = {}, Persisted(t) PROVE SInv'
  <2>1. UNCHANGED <<loaded, resident>> /\ \A d \in resident : heap'[d] = heap[d]
    BY <1>3 DEF Quiet
  <2>2. PICK j : /\ Set(t, j)
                 /\ OpenOK(j)' /\ EditOK(j)' /\ ComputeOK(j)' /\ InsertOK(j)' /\ DropOK(j)'
    BY <1>2, <1>5, <2>1, PersistedSeq
  <2>3. MemoOK(j)
    BY <1>2, Undisturbed DEF Ending
  <2>4. RowsOK(j)
    BY <1>1, <1>5 DEF AloneOK, RowsOK, Unwritten, Held
  <2>5. QED BY <1>3, <2>2, <2>3, <2>4, QuietRest, SeqStep
<1>6. QED BY <1>4, <1>5 DEF TakeSnapshot

\* The row becomes what the resident dict holds, unless its account is gone or the
\* database fails: a second session of the owner with the document is excluded.
LEMMA WriteRowSeq ==
    ASSUME OneWorker, SInv, UNCHANGED flaky, NEW t \in Threads, WriteRow(t), IInv'
    PROVE  SInv'
<1>1. /\ job[t] \in Job /\ JobOK(job[t], parsed) /\ AloneOK(job[t])
      /\ resident \in SUBSET Dicts
      /\ \A c, d \in resident : heap[c].sid = heap[d].sid => c = d
      /\ \A d \in resident : heap[d] \in Record
  BY Alone
<1>2. /\ UNCHANGED <<users, loaded, resident, cache>>
      /\ job[t].step = "write" /\ Persisted(t) /\ Collect(heap)
  BY DEF WriteRow
<1>3. \A d \in resident : heap'[d] = heap[d]
  BY <1>1, <1>2, Carried
<1>4. PICK x : x = job[t].target
  OBVIOUS
<1>5. x \in resident /\ heap[x].sid = job[t].sid /\ job[t].copy = heap[x]
  BY <1>1, <1>2, <1>4 DEF AloneOK, EditOK
<1>6. Stored(job[t]) = heap[x]
  BY <1>1, <1>4, <1>5 DEF Stored, Record
<1>7. PICK others : others = {r \in rows : r.sid # heap[x].sid}
  OBVIOUS
<1>8. PICK allowed \in BOOLEAN :
        /\ allowed = (/\ heap[x].owner \in users
                      /\ \A r \in others :
                           ~(r.owner = heap[x].owner /\ r.doc = heap[x].doc))
        /\ \/ allowed /\ rows' = others \union {heap[x]}
           \/ (~allowed \/ flaky) /\ rows' = rows
  BY <1>6, <1>7 DEF WriteRow
<1>9. PICK j : /\ Set(t, j) /\ j.step \notin {"snapshot", "write"}
               /\ OpenOK(j)' /\ EditOK(j)' /\ ComputeOK(j)' /\ InsertOK(j)' /\ DropOK(j)'
  BY <1>2, <1>3, PersistedSeq
<1>10. MemoOK(j)'
  BY <1>1, <1>2, <1>3 DEF AloneOK, MemoOK, Ending
<1>11. ASSUME ~flaky, NEW d \in resident, heap[d].owner \in users, d # x
       PROVE  heap[d] \in others
  <2>1. heap[d].sid # heap[x].sid
    BY <1>1, <1>5, <1>11
  <2>2. heap[d] \in rows
    BY <1>1, <1>5, <1>11, <2>1 DEF AloneOK, RowsOK, Unwritten
  <2>3. QED BY <1>7, <2>1, <2>2
<1>12. ~flaky /\ heap[x].owner \in users => allowed
  BY <1>5, <1>7, <1>8 DEF SInv, DocsOK
<1>13. RowsOK(j)'
  <2> SUFFICES ASSUME ~flaky, NEW d \in resident, heap[d].owner \in users
               PROVE  heap[d] \in rows'
    BY <1>2, <1>3 DEF RowsOK
  <2>1. CASE d = x
    BY <1>8, <1>12, <2>1
  <2>2. CASE d # x
    BY <1>7, <1>8, <1>11, <2>2
  <2>3. QED BY <2>1, <2>2
<1>14. DocsOK'
  <2>1. DocsOK
    BY DEF SInv
  <2>2. \A q, r \in rows' : q.owner = r.owner /\ q.doc = r.doc => q = r
    BY <1>7, <1>8, <2>1 DEF DocsOK
  <2>3. ASSUME ~flaky, NEW d \in resident, NEW r \in rows',
               heap[d].owner \in users, r.owner = heap[d].owner, r.doc = heap[d].doc
        PROVE  r.sid = heap[d].sid
    <3>1. CASE r \in rows
      BY <2>1, <2>3, <3>1 DEF DocsOK
    <3>2. CASE r = heap[x] /\ allowed
      BY <1>8, <1>11, <2>3, <3>2
    <3>3. QED BY <1>7, <1>8, <2>3, <3>1, <3>2
  <2>4. QED BY <1>2, <1>3, <2>2, <2>3 DEF DocsOK
<1>15. QED BY <1>9, <1>10, <1>13, <1>14, SeqStep

-----------------------------------------------------------------------------
(* The computation and its memo.                                            *)

\* The answer to a recalculation contains its edit if what is served does.
LEMMA ServeSeq ==
    ASSUME NEW t \in Threads, job[t] \in Job, NEW over, Serve(t, over),
           job[t].op = "recalculate" => job[t].edit \in over
    PROVE  \E j : /\ Set(t, j) /\ j.step = "idle"
                  /\ OpenOK(j) /\ EditOK(j) /\ ComputeOK(j) /\ InsertOK(j) /\ DropOK(j)
<1>1. PICK j : j = [NoJob EXCEPT !.op = job[t].op, !.caller = job[t].caller,
                                 !.sid = job[t].sid, !.edit = job[t].edit,
                                 !.over = over, !.reply = "ok"]
  OBVIOUS
<1>2. /\ j.op = job[t].op /\ j.edit = job[t].edit /\ j.over = over
      /\ j.dict = NoDict /\ j.phase = "open" /\ j.step = "idle"
  BY <1>1 DEF NoJob
<1>3. Set(t, j)
  BY <1>1 DEF Serve
<1>4. OpenOK(j) /\ EditOK(j) /\ ComputeOK(j) /\ InsertOK(j) /\ DropOK(j)
  BY <1>2, PlainJob
<1>5. QED BY <1>2, <1>3, <1>4

\* A hit was computed from the dict the request opened, as it is now.
LEMMA LookUpSeq ==
    ASSUME OneWorker, SInv, UNCHANGED flaky, NEW t \in Threads, LookUp(t), IInv'
    PROVE  SInv'
<1>1. /\ job[t] \in Job /\ JobOK(job[t], parsed) /\ AloneOK(job[t])
      /\ resident \in SUBSET Dicts
      /\ \A c, d \in resident : heap[c].sid = heap[d].sid => c = d
      /\ \A d \in resident : heap[d] \in Record
  BY Alone
<1>2. /\ UNCHANGED <<users, rows, loaded, resident, cache>>
      /\ job[t].step = "lookup" /\ Collect(heap)
  BY DEF LookUp, database
<1>3. Quiet
  BY <1>1, <1>2, Carried DEF Quiet
<1>4. ASSUME NEW c \in cache, c.sid = job[t].sid, c.version = job[t].version,
             Serve(t, c.over)
      PROVE  SInv'
  <2>1. ASSUME job[t].op = "recalculate" PROVE job[t].edit \in c.over
    <3>1. PICK x : x = job[t].dict
      OBVIOUS
    <3>2. job[t].phase = "version"
      BY <1>1, <1>2 DEF JobOK, InCompute
    <3>3. /\ x # NoDict /\ x \in resident /\ heap[x].sid = job[t].sid
          /\ heap[x].version = job[t].version /\ job[t].edit \in heap[x].over
      BY <1>1, <1>2, <2>1, <3>1, <3>2 DEF AloneOK, OpenOK, EditOK, ComputeOK
    <3>4. PICK d \in resident :
            /\ heap[d].sid = c.sid
            /\ \/ c.version < heap[d].version
               \/ c.version = heap[d].version /\ c.over = heap[d].over
      BY <1>1, <1>2 DEF AloneOK, MemoOK, Ending
    <3>5. d = x
      BY <1>1, <1>4, <3>3, <3>4
    <3>6. heap[x].version \in Int
      BY <1>1, <3>3, ConstantsAssumption DEF Record
    <3>7. QED BY <1>4, <3>3, <3>4, <3>5, <3>6
  <2>2. PICK j : /\ Set(t, j) /\ j.step = "idle"
                 /\ OpenOK(j) /\ EditOK(j) /\ ComputeOK(j) /\ InsertOK(j) /\ DropOK(j)
    BY <1>1, <1>4, <2>1, ServeSeq
  <2>3. MemoOK(j) /\ RowsOK(j)
    BY <1>2, Undisturbed DEF Ending
  <2>4. QED BY <1>3, <2>2, <2>3, QuietStep
<1>5. CASE Goto(t, "calculate")
  <2>1. PICK j : j = [job[t] EXCEPT !.step = "calculate"]
    OBVIOUS
  <2>2. /\ j.op = job[t].op /\ j.sid = job[t].sid /\ j.caller = job[t].caller
        /\ j.phase = job[t].phase /\ j.step = "calculate" /\ j.dict = job[t].dict
        /\ j.reply = job[t].reply /\ j.version = job[t].version
        /\ j.edit = job[t].edit /\ j.over = job[t].over
    BY <1>1, <2>1 DEF Job
  <2>3. OpenOK(j) /\ EditOK(j) /\ ComputeOK(j) /\ InsertOK(j) /\ DropOK(j)
    BY <1>1, <1>2, <2>2
       DEF AloneOK, OpenOK, EditOK, ComputeOK, InsertOK, DropOK, Ending
  <2>4. MemoOK(j) /\ RowsOK(j)
    BY <1>2, Undisturbed DEF Ending
  <2>5. QED BY <1>3, <1>5, <2>1, <2>3, <2>4, QuietStep DEF Goto
<1>6. QED BY <1>4, <1>5 DEF LookUp

LEMMA CalculateSeq ==
    ASSUME OneWorker, SInv, UNCHANGED flaky, NEW t \in Threads, Calculate(t), IInv'
    PROVE  SInv'
<1>1. /\ job[t] \in Job /\ JobOK(job[t], parsed) /\ AloneOK(job[t])
      /\ resident \in SUBSET Dicts
  BY Alone
<1>2. /\ UNCHANGED <<users, rows, loaded, resident, cache>>
      /\ job[t].step = "calculate" /\ Collect(heap)
  BY DEF Calculate, database
<1>3. Quiet
  BY <1>1, <1>2, Carried DEF Quiet
<1>4. CASE Answer(t, "failed")
  <2>1. PICK j : j = [NoJob EXCEPT !.reply = "failed"]
    OBVIOUS
  <2>2. MemoOK(j) /\ RowsOK(j)
    BY <1>2, Undisturbed DEF Ending
  <2>3. Set(t, j)
    BY <1>4, <2>1 DEF Answer
  <2>4. OpenOK(j) /\ EditOK(j) /\ ComputeOK(j) /\ InsertOK(j) /\ DropOK(j)
    BY <2>1, Replied
  <2>5. QED BY <1>3, <2>2, <2>3, <2>4, QuietStep
<1>5. ASSUME job[t].dict # NoDict,
             Set(t, [job[t] EXCEPT !.step = "memoize", !.over = heap[job[t].dict].over])
      PROVE  SInv'
  <2>1. PICK j : j = [job[t] EXCEPT !.step = "memoize", !.over = heap[job[t].dict].over]
    OBVIOUS
  <2>2. /\ j.op = job[t].op /\ j.sid = job[t].sid /\ j.caller = job[t].caller
        /\ j.phase = job[t].phase /\ j.step = "memoize" /\ j.dict = job[t].dict
        /\ j.reply = job[t].reply /\ j.version = job[t].version
        /\ j.edit = job[t].edit /\ j.over = heap[j.dict].over
    BY <1>1, <2>1 DEF Job
  <2>3. job[t].phase = "version"
    BY <1>1, <1>2 DEF JobOK, InCompute
  <2>4. OpenOK(j) /\ EditOK(j) /\ ComputeOK(j) /\ InsertOK(j) /\ DropOK(j)
    BY <1>1, <1>2, <1>5, <2>2, <2>3
       DEF AloneOK, OpenOK, EditOK, ComputeOK, InsertOK, DropOK, Ending
  <2>5. MemoOK(j) /\ RowsOK(j)
    BY <1>2, Undisturbed DEF Ending
  <2>6. QED BY <1>3, <1>5, <2>1, <2>4, <2>5, QuietStep
<1>6. QED BY <1>4, <1>5 DEF Calculate

\* What is memoized is the resident dict's, under the version it has.
LEMMA MemoizeSeq ==
    ASSUME OneWorker, SInv, UNCHANGED flaky, NEW t \in Threads, Memoize(t), IInv'
    PROVE  SInv'
<1>1. /\ job[t] \in Job /\ JobOK(job[t], parsed) /\ AloneOK(job[t])
      /\ resident \in SUBSET Dicts
  BY Alone
<1>2. /\ UNCHANGED <<users, rows, loaded, resident>>
      /\ job[t].step = "memoize" /\ Collect(heap) /\ Serve(t, job[t].over)
  BY DEF Memoize, database
<1>3. \A d \in resident : heap'[d] = heap[d]
  BY <1>1, <1>2, Carried
<1>4. PICK x : x = job[t].dict
  OBVIOUS
<1>5. /\ x # NoDict /\ x \in resident /\ heap[x].sid = job[t].sid /\ loaded
      /\ heap[x].version = job[t].version /\ heap[x].over = job[t].over
      /\ job[t].phase = "version"
  BY <1>1, <1>2, <1>4 DEF AloneOK, OpenOK, ComputeOK, JobOK, InCompute
<1>6. job[t].op = "recalculate" => job[t].edit \in job[t].over
  BY <1>1, <1>4, <1>5 DEF AloneOK, EditOK
<1>7. PICK j : /\ Set(t, j) /\ j.step = "idle"
               /\ OpenOK(j) /\ EditOK(j) /\ ComputeOK(j) /\ InsertOK(j) /\ DropOK(j)
  BY <1>1, <1>2, <1>6, ServeSeq
<1>8. OpenOK(j)' /\ EditOK(j)' /\ ComputeOK(j)' /\ InsertOK(j)' /\ DropOK(j)'
  BY <1>2, <1>3, <1>7 DEF OpenOK, EditOK, ComputeOK, InsertOK, DropOK, Ending
<1>9. PICK new : new = [sid |-> job[t].sid, version |-> job[t].version,
                        over |-> job[t].over]
  OBVIOUS
<1>10. \A c \in cache' : c \in cache \/ c = new
  BY <1>9 DEF Memoize
<1>11. MemoOK(j)'
  <2> SUFFICES ASSUME NEW c \in cache'
               PROVE  \E d \in resident :
                        /\ heap[d].sid = c.sid
                        /\ \/ c.version < heap[d].version
                           \/ c.version = heap[d].version /\ c.over = heap[d].over
    BY <1>2, <1>3, <1>5 DEF MemoOK
  <2>1. CASE c \in cache
    BY <1>1, <1>2, <2>1 DEF AloneOK, MemoOK, Ending
  <2>2. CASE c = new
    BY <1>5, <1>9, <2>2
  <2>3. QED BY <1>10, <2>1, <2>2
<1>12. RowsOK(j)'
  BY <1>1, <1>2, <1>3 DEF AloneOK, RowsOK, Unwritten
<1>13. DocsOK'
  BY <1>2, <1>3 DEF SInv, DocsOK
<1>14. QED BY <1>7, <1>8, <1>11, <1>12, <1>13, SeqStep

-----------------------------------------------------------------------------
(* What takes sessions away.                                                *)

\* A request that goes on to one of these steps relies on no more than before.
LEMMA OnwardSeq ==
    ASSUME SInv, NEW t \in Threads, job[t] \in Job,
           job[t].step \in {"owner", "peek", "drop", "uncache"},
           NEW step \in {"ensure", "peek", "uncache", "drop"},
           step = "uncache" => job[t].step = "drop" /\ job[t].op = "delete",
           step = "drop" => job[t].op # "delete",
           Goto(t, step)
    PROVE  \E j : /\ Set(t, j) /\ j.step = step /\ j.op = job[t].op
                  /\ j.sid = job[t].sid /\ j.doomed = job[t].doomed
                  /\ OpenOK(j) /\ EditOK(j) /\ ComputeOK(j) /\ InsertOK(j) /\ DropOK(j)
<1>1. AloneOK(job[t])
  BY Alone
<1>2. PICK j : j = [job[t] EXCEPT !.step = step]
  OBVIOUS
<1>3. /\ j.op = job[t].op /\ j.sid = job[t].sid /\ j.caller = job[t].caller
      /\ j.phase = job[t].phase /\ j.step = step /\ j.dict = job[t].dict
      /\ j.reply = job[t].reply /\ j.doomed = job[t].doomed
      /\ j.edit = job[t].edit /\ j.over = job[t].over
  BY <1>2 DEF Job
<1>4. Set(t, j)
  BY <1>2 DEF Goto
<1>5. OpenOK(j)
  BY <1>1, <1>3 DEF AloneOK, OpenOK
<1>6. EditOK(j)
  BY <1>1, <1>3, <1>5 DEF AloneOK, OpenOK, EditOK
<1>7. ComputeOK(j) /\ InsertOK(j)
  BY <1>3 DEF ComputeOK, InsertOK
<1>8. DropOK(j)
  BY <1>1, <1>3 DEF AloneOK, DropOK, Ending
<1>9. QED BY <1>3, <1>4, <1>5, <1>6, <1>7, <1>8

LEMMA AuthorizeSeq ==
    ASSUME OneWorker, SInv, UNCHANGED flaky, NEW t \in Threads,
           AuthorizeDelete(t) \/ AuthorizeResident(t), IInv'
    PROVE  SInv'
<1>1. /\ job[t].step \in {"owner", "peek"} /\ UNCHANGED <<database, store, cache>>
      /\ job[t] \in Job
  BY Alone DEF AuthorizeDelete, AuthorizeResident
<1>2. Quiet
  BY <1>1 DEF Quiet, database, store
<1>3. ASSUME NEW j, Set(t, j),
             OpenOK(j) /\ EditOK(j) /\ ComputeOK(j) /\ InsertOK(j) /\ DropOK(j)
      PROVE  SInv'
  <2>1. MemoOK(j) /\ RowsOK(j)
    BY <1>1, Undisturbed DEF Ending
  <2>2. QED BY <1>2, <1>3, <2>1, QuietStep
<1>4. ASSUME NEW step \in {"ensure", "peek"}, Goto(t, step) PROVE SInv'
  <2>1. PICK j : /\ Set(t, j)
                 /\ OpenOK(j) /\ EditOK(j) /\ ComputeOK(j) /\ InsertOK(j) /\ DropOK(j)
    BY <1>1, <1>4, OnwardSeq
  <2>2. QED BY <1>3, <2>1
<1>5. ASSUME NEW what, Answer(t, what) PROVE SInv'
  <2>1. PICK j : j = [NoJob EXCEPT !.reply = what]
    OBVIOUS
  <2>2. QED BY <1>3, <1>5, <2>1, Replied DEF Answer
<1>6. QED BY <1>4, <1>5 DEF AuthorizeDelete, AuthorizeResident

\* What leaves the store is what the request is about to take out of the memo.
LEMMA DropResidentSeq ==
    ASSUME OneWorker, SInv, UNCHANGED flaky, NEW t \in Threads, DropResident(t), IInv'
    PROVE  SInv'
<1> DEFINE gone == Doomed(job[t])
           doomed == IF job[t].op = "delete" THEN {job[t].sid}
                     ELSE IF job[t].op = "clear" THEN Sids
                     ELSE {heap[d].sid : d \in gone}
           step == IF job[t].op = "delete" THEN "drop" ELSE "uncache"
<1>1. /\ job[t] \in Job /\ JobOK(job[t], parsed) /\ AloneOK(job[t])
      /\ resident \in SUBSET Dicts
      /\ \A c, d \in resident : heap[c].sid = heap[d].sid => c = d
      /\ \A d \in resident : heap[d] \in Record
  BY Alone
<1>2. PICK j : j = [job[t] EXCEPT !.step = step, !.doomed = doomed]
  OBVIOUS
<1>3. /\ UNCHANGED <<users, rows, written, parsed, deleted, cache>>
      /\ job[t].step \in {"forget", "evict"} /\ Collect(heap)
      /\ resident' = resident \ gone
      /\ loaded' = (loaded /\ job[t].op # "clear")
      /\ Set(t, j)
  BY <1>2 DEF DropResident, database
<1>4. \A d \in resident' : d \in resident /\ heap'[d] = heap[d]
  BY <1>1, <1>3, Carried
<1>5. ASSUME NEW d \in resident
      PROVE  d \in gone <=> heap[d].sid \in doomed
  <2>1. CASE job[t].op = "delete"
    BY <2>1 DEF Doomed, Held
  <2>2. CASE job[t].op = "clear"
    BY <1>1, <2>2 DEF Doomed, Record
  <2>3. CASE job[t].op \notin {"delete", "clear"}
    <3>1. gone \subseteq resident /\ doomed = {heap[x].sid : x \in gone}
      BY <2>3 DEF Doomed
    <3> HIDE DEF gone, doomed
    <3>2. QED BY <1>1, <3>1
  <2>4. QED BY <2>1, <2>2, <2>3
<1>6. job[t].op = "delete" => job[t].sid \in doomed
  OBVIOUS
<1>7. job[t].op = "clear" => gone = resident
  BY DEF Doomed
<1>8. step = IF job[t].op = "delete" THEN "drop" ELSE "uncache"
  OBVIOUS
<1> HIDE DEF gone, doomed, step
<1>9. /\ j.op = job[t].op /\ j.sid = job[t].sid /\ j.phase = job[t].phase
      /\ j.step = step /\ j.doomed = doomed
      /\ j.caller = job[t].caller /\ j.edit = job[t].edit /\ j.reply = job[t].reply
      /\ j.dict = job[t].dict /\ j.over = job[t].over
  BY <1>1, <1>2 DEF Job
<1>10. /\ job[t].dict = NoDict /\ job[t].phase # "edit"
       /\ ~(job[t].phase = "version" /\ job[t].op = "recalculate")
  BY <1>1, <1>3 DEF AloneOK, OpenOK
<1>11. Ending(j)
  BY <1>8, <1>9 DEF Ending
<1>12. OpenOK(j)' /\ EditOK(j)' /\ ComputeOK(j)' /\ InsertOK(j)'
  BY <1>1, <1>8, <1>9, <1>10 DEF AloneOK, OpenOK, EditOK, ComputeOK, InsertOK
<1>13. DropOK(j)'
  BY <1>3, <1>4, <1>5, <1>6, <1>9 DEF DropOK
<1>14. MemoOK(j)'
  <2> SUFFICES ASSUME NEW c \in cache, c.sid \notin doomed
               PROVE  /\ loaded'
                      /\ \E d \in resident' :
                           /\ heap'[d].sid = c.sid
                           /\ \/ c.version < heap'[d].version
                              \/ c.version = heap'[d].version /\ c.over = heap'[d].over
    BY <1>3, <1>9, <1>11 DEF MemoOK, Ending
  <2>1. loaded /\ \E d \in resident :
          /\ heap[d].sid = c.sid
          /\ \/ c.version < heap[d].version
             \/ c.version = heap[d].version /\ c.over = heap[d].over
    BY <1>1, <1>3 DEF AloneOK, MemoOK, Ending
  <2>2. PICK d \in resident :
          /\ heap[d].sid = c.sid
          /\ \/ c.version < heap[d].version
             \/ c.version = heap[d].version /\ c.over = heap[d].over
    BY <2>1
  <2>3. d \notin gone
    BY <1>5, <2>2
  <2>4. d \in resident' /\ loaded'
    BY <1>3, <1>7, <2>1, <2>3
  <2>5. QED BY <1>4, <2>2, <2>4
<1>15. RowsOK(j)'
  BY <1>1, <1>3, <1>4 DEF AloneOK, RowsOK, Unwritten
<1>16. DocsOK'
  BY <1>3, <1>4 DEF SInv, DocsOK
<1>17. QED BY <1>3, <1>12, <1>13, <1>14, <1>15, <1>16, SeqStep

LEMMA DeleteRowSeq ==
    ASSUME OneWorker, SInv, UNCHANGED flaky, NEW t \in Threads, DeleteRow(t), IInv'
    PROVE  SInv'
<1>1. job[t] \in Job /\ JobOK(job[t], parsed) /\ AloneOK(job[t])
  BY Alone
<1>2. /\ UNCHANGED <<users, loaded, heap, resident, cache>>
      /\ job[t].step = "drop" /\ job[t].op = "delete" /\ Goto(t, "uncache")
      /\ rows' \subseteq rows
      /\ ~flaky => rows' = {r \in rows : r.sid # job[t].sid}
  BY DEF DeleteRow, store
<1>3. PICK j : /\ Set(t, j) /\ j.step = "uncache" /\ j.op = job[t].op
               /\ j.sid = job[t].sid /\ j.doomed = job[t].doomed
               /\ OpenOK(j) /\ EditOK(j) /\ ComputeOK(j) /\ InsertOK(j) /\ DropOK(j)
  BY <1>1, <1>2, OnwardSeq
<1>4. OpenOK(j)' /\ EditOK(j)' /\ ComputeOK(j)' /\ InsertOK(j)' /\ DropOK(j)'
  BY <1>2, <1>3 DEF OpenOK, EditOK, ComputeOK, InsertOK, DropOK, Ending
<1>5. MemoOK(j)'
  BY <1>1, <1>2, <1>3 DEF AloneOK, MemoOK, Ending
<1>6. \A d \in resident : heap[d].sid # job[t].sid
  BY <1>1, <1>2 DEF AloneOK, DropOK, Ending
<1>7. RowsOK(j)'
  BY <1>1, <1>2, <1>6 DEF AloneOK, RowsOK, Unwritten
<1>8. DocsOK'
  BY <1>2 DEF SInv, DocsOK
<1>9. QED BY <1>3, <1>4, <1>5, <1>7, <1>8, SeqStep

LEMMA DropComputationsSeq ==
    ASSUME OneWorker, SInv, UNCHANGED flaky, NEW t \in Threads, DropComputations(t), IInv'
    PROVE  SInv'
<1>1. job[t] \in Job /\ JobOK(job[t], parsed) /\ AloneOK(job[t])
  BY Alone
<1>2. /\ UNCHANGED <<users, rows, loaded, heap, resident>>
      /\ job[t].step = "uncache"
      /\ cache' = {c \in cache : c.sid \notin job[t].doomed}
      /\ (job[t].op = "purge" /\ Goto(t, "drop")) \/ Answer(t, "ok")
  BY DEF DropComputations, store, database
<1>3. PICK j : /\ Set(t, j)
               /\ OpenOK(j) /\ EditOK(j) /\ ComputeOK(j) /\ InsertOK(j) /\ DropOK(j)
  <2>1. CASE job[t].op = "purge" /\ Goto(t, "drop")
    BY <1>1, <1>2, <2>1, OnwardSeq
  <2>2. CASE Answer(t, "ok")
    BY <2>2, Replied DEF Answer
  <2>3. QED BY <1>2, <2>1, <2>2
<1>4. OpenOK(j)' /\ EditOK(j)' /\ ComputeOK(j)' /\ InsertOK(j)' /\ DropOK(j)'
  BY <1>2, <1>3 DEF OpenOK, EditOK, ComputeOK, InsertOK, DropOK, Ending
<1>5. MemoOK(j)'
  BY <1>1, <1>2 DEF AloneOK, MemoOK
<1>6. RowsOK(j)'
  BY <1>1, <1>2 DEF AloneOK, RowsOK, Unwritten
<1>7. DocsOK'
  BY <1>2 DEF SInv, DocsOK
<1>8. QED BY <1>3, <1>4, <1>5, <1>6, <1>7, SeqStep

LEMMA DeleteAccountSeq ==
    ASSUME OneWorker, SInv, UNCHANGED flaky, NEW t \in Threads, DeleteAccount(t), IInv'
    PROVE  SInv'
<1>1. job[t] \in Job /\ JobOK(job[t], parsed) /\ AloneOK(job[t])
  BY Alone
<1>2. /\ UNCHANGED <<loaded, heap, resident, cache>>
      /\ job[t].step = "drop" /\ job[t].op = "purge"
      /\ Answer(t, "ok") \/ Answer(t, "failed")
  BY DEF DeleteAccount, store
<1>3. \/ /\ users' = users \ {job[t].caller}
         /\ rows' = rows \ {r \in rows : r.owner = job[t].caller}
      \/ flaky /\ users' = users /\ rows' = rows
  BY DEF DeleteAccount, database
<1>4. PICK j : /\ Set(t, j) /\ j.step = "idle"
               /\ OpenOK(j) /\ EditOK(j) /\ ComputeOK(j) /\ InsertOK(j) /\ DropOK(j)
  <2>1. ASSUME NEW what, Answer(t, what)
        PROVE  \E j : /\ Set(t, j) /\ OpenOK(j) /\ EditOK(j) /\ ComputeOK(j)
                      /\ InsertOK(j) /\ DropOK(j) /\ j.step = "idle"
    <3>1. PICK j : j = [NoJob EXCEPT !.reply = what]
      OBVIOUS
    <3>2. j.step = "idle"
      BY <3>1 DEF NoJob
    <3>3. Set(t, j)
      BY <2>1, <3>1 DEF Answer
    <3>4. QED BY <3>1, <3>2, <3>3, Replied
  <2>2. QED BY <1>2, <2>1
<1>5. OpenOK(j)' /\ EditOK(j)' /\ ComputeOK(j)' /\ DropOK(j)'
  BY <1>2, <1>4 DEF OpenOK, EditOK, ComputeOK, DropOK, Ending
<1>6. InsertOK(j)'
  BY <1>3, <1>4 DEF InsertOK
<1>7. MemoOK(j)'
  BY <1>1, <1>2 DEF AloneOK, MemoOK, Ending
<1>8. RowsOK(j)'
  BY <1>3, <1>1, <1>2 DEF AloneOK, RowsOK, Unwritten
<1>9. DocsOK'
  BY <1>3, <1>2 DEF SInv, DocsOK
<1>10. QED BY <1>4, <1>5, <1>6, <1>7, <1>8, <1>9, SeqStep

LEMMA RestartSeq ==
    ASSUME SInv, UNCHANGED flaky, Restart, IInv'
    PROVE  SInv'
<1>1. /\ UNCHANGED <<users, rows>> /\ job' = [t \in Threads |-> NoJob]
      /\ resident' = {} /\ cache' = {}
  BY DEF Restart, database
<1>2. DocsOK'
  BY <1>1 DEF SInv, DocsOK
<1>3. PICK j : j = NoJob
  OBVIOUS
<1>4. j.dict = NoDict /\ j.phase = "open" /\ j.step = "idle" /\ j.op = "none"
  BY <1>3 DEF NoJob
<1>5. AloneOK(j)'
  BY <1>1, <1>4 DEF AloneOK, OpenOK, EditOK, ComputeOK, InsertOK, DropOK, MemoOK,
                    RowsOK, Ending
<1>6. \A t \in Threads : job'[t] = j
  BY <1>1, <1>3
<1>7. ASSUME NEW t \in Threads PROVE AloneOK(job[t])'
  <2>1. job'[t] = j
    BY <1>6
  <2>2. QED BY <1>5, <2>1 DEF AloneOK, OpenOK, EditOK, ComputeOK, InsertOK, DropOK,
                              MemoOK, RowsOK, Ending, Unwritten
<1>8. QED BY <1>2, <1>7 DEF SInv

-----------------------------------------------------------------------------
(* The invariant holds, and what follows from it.                           *)

LEMMA InitSInv == Init => SInv
<1> SUFFICES ASSUME Init PROVE SInv
  OBVIOUS
<1>1. IInv
  BY InitIInv
<1>2. DocsOK
  BY DEF Init, DocsOK
<1>3. ASSUME NEW t \in Threads PROVE AloneOK(job[t])
  <2>1. job[t].dict = NoDict /\ job[t].phase = "open" /\ job[t].step = "idle"
          /\ job[t].op = "none"
    BY DEF Init, NoJob
  <2>2. QED BY <2>1 DEF Init, AloneOK, OpenOK, EditOK, ComputeOK, InsertOK, DropOK,
                        MemoOK, RowsOK, Ending
<1>4. QED BY <1>1, <1>2, <1>3 DEF SInv

LEMMA ProceedSeq ==
    ASSUME OneWorker, SInv, UNCHANGED flaky, NEW t \in Threads, Proceed(t), IInv'
    PROVE  SInv'
BY EnsureLoadedSeq, FindResidentSeq, ReadRowSeq, RehydrateSeq, FindDuplicateSeq,
   InsertSessionSeq, ApplyEditSeq, TakeSnapshotSeq, WriteRowSeq, LookUpSeq,
   CalculateSeq, MemoizeSeq, AuthorizeSeq, DropResidentSeq, DeleteRowSeq,
   DropComputationsSeq, DeleteAccountSeq
   DEF Proceed

LEMMA NextSInv ==
    ASSUME OneWorker
    PROVE  SInv /\ [Next]_vars => SInv'
<1> SUFFICES ASSUME SInv, [Next]_vars PROVE SInv'
  OBVIOUS
<1>1. IInv'
  BY NextIInv DEF SInv
<1>2. CASE UNCHANGED vars
  <2>1. UNCHANGED <<users, rows, loaded, heap, resident, cache, job, flaky>>
    BY <1>2 DEF vars
  <2>2. DocsOK'
    BY <2>1 DEF SInv, DocsOK
  <2>3. ASSUME NEW t \in Threads PROVE AloneOK(job[t])'
    <3>1. AloneOK(job[t])
      BY DEF SInv
    <3>2. QED BY <2>1, <3>1 DEF AloneOK, OpenOK, EditOK, ComputeOK, InsertOK, DropOK,
                                MemoOK, RowsOK, Ending, Unwritten
  <2>4. QED BY <1>1, <2>2, <2>3 DEF SInv
<1>3. ASSUME NEW t \in Threads, Arrive(t) \/ Proceed(t), UNCHANGED flaky PROVE SInv'
  BY <1>1, <1>3, ArriveSeq, ProceedSeq
<1>4. ASSUME Restart, UNCHANGED flaky PROVE SInv'
  BY <1>1, <1>4, RestartSeq
<1>5. QED BY <1>2, <1>3, <1>4 DEF Next

LEMMA InductiveSeq == ASSUME OneWorker PROVE Spec => []SInv
<1> QED BY InitSInv, NextSInv, PTL DEF Spec

\* Served one after another, no request can file a computation under a version the
\* session has with other contents: an eviction takes the session's computations with
\* it, so a session restored at an old version finds none of that version.
THEOREM MemoStaysCurrent == ASSUME OneWorker PROVE Spec => []MemoIsCurrent
<1>1. SInv => MemoIsCurrent
  <2> SUFFICES ASSUME SInv, NEW c \in cache, NEW d \in resident,
                      heap[d].sid = c.sid, heap[d].version = c.version
               PROVE  c.over = heap[d].over
    BY DEF MemoIsCurrent
  <2>1. PICK t : Threads = {t}
    BY DEF OneWorker
  <2>2. /\ AloneOK(job[t])
        /\ \A x, y \in resident : heap[x].sid = heap[y].sid => x = y
        /\ heap[d].version \in Int
    BY <2>1, Alone, ConstantsAssumption DEF Record
  <2>3. ~(Ending(job[t]) /\ c.sid \in job[t].doomed)
    BY <2>2 DEF AloneOK, DropOK
  <2>4. QED BY <2>2, <2>3 DEF AloneOK, MemoOK
<1> QED BY <1>1, InductiveSeq, PTL

\* Served one after another and with a database that answers, memory and rows agree
\* whenever no request is under way: whatever an eviction drops can be restored.
THEOREM RowsFollow == ASSUME OneWorker PROVE Spec => []RowsFollowMemory
<1>1. SInv => RowsFollowMemory
  <2> SUFFICES ASSUME SInv, AtRest PROVE RowsFollowMemory
    BY DEF RowsFollowMemory
  <2>1. PICK t : Threads = {t}
    BY DEF OneWorker
  <2>2. job[t].step = "idle" /\ AloneOK(job[t])
    BY <2>1, Alone DEF AtRest
  <2>3. QED BY <2>2 DEF AloneOK, RowsOK, Unwritten, RowsFollowMemory
<1> QED BY <1>1, InductiveSeq, PTL

\* Served one after another, a recalculation's answer contains the override it saved,
\* even where eviction is at work and the database may fail.
THEOREM EditIsServed == ASSUME OneWorker PROVE Spec => []RecalculatedWithEdit
<1>1. SInv => RecalculatedWithEdit
  BY DEF SInv, AloneOK, EditOK, RecalculatedWithEdit
<1> QED BY <1>1, InductiveSeq, PTL

=============================================================================
