---------------------------- MODULE PagesTaxProofs ---------------------------
(***************************************************************************)
(* Theorems about the tax pages, as Pages composes them: the panel and        *)
(* dashboard of a tax session, and the tabs of an open one; and about the       *)
(* statements of the mutual funds and their comparison with other funds.        *)
(*                                                                         *)
(* TaxInv says for the panel that whatever is mounted and waits has its         *)
(* request under way, and that an open session the server does not know has an  *)
(* answer coming that closes it.  ReturnInv says for the tabs where the figures *)
(* that are not the server's may be (Fresh), that no key on screen is forgotten *)
(* (BeingRead), and how the form relates to what the server is to hold (OnForm). *)
(* HistoryInv says that a deleted statement which is still open, or compared      *)
(* with, has the answer of a deletion coming that knew it to be.                   *)
(***************************************************************************)
EXTENDS Pages, FiniteSetTheorems, TLAPS

\* A set all of whose members are equal has one at most.
LEMMA AtMostOne ==
    ASSUME NEW S, \A x, y \in S : x = y
    PROVE  Cardinality(S) <= 1
<1>1. CASE S = {}
  BY <1>1, FS_EmptySet
<1>2. CASE S # {}
  <2>1. PICK x \in S : TRUE
    BY <1>2
  <2>2. S = {x}
    BY <2>1
  <2> QED BY <2>2, FS_Singleton
<1> QED BY <1>1, <1>2

----------------------------------------------------------------------------
\* The tax panel.

LEMMA TaxSteps == [Next]_vars => [Tax!Next]_taxVars
BY DEF Next, vars, taxVars

TaxRequests == [op : {"list", "analyze", "upload", "summary", "delete"},
                by : {"mounted", "gone", "dashboard"}, of : Tax!Maybe, active : Tax!Maybe,
                done : BOOLEAN]
Uploads == {"analyze", "upload"}
TaxForms == [file : BOOLEAN, busy : BOOLEAN, error : BOOLEAN]

\* A summary and a deletion are of a session.
TaxSound(c) == c \in TaxRequests /\ (c.op \in {"summary", "delete"} => c.of \in Returns)

\* What is open is known, or an answer is still to come that closes it: its summary, or
\* that of its deletion, once the server has deleted it.
Answering(c, s) == c.of = s /\ (c.op = "summary" \/ (c.op = "delete" /\ c.done))
OpenIsKnown ==
    \/ taxSessionId \in returns \union {NoReturn} \union expected
    \/ \E c \in taxCalls : Answering(c, taxSessionId)

\* What is mounted waits for what it shows to be under way.
FormWaits ==
    taxForm.busy => \E c \in taxCalls : c.by = "mounted" /\ c.op \in Uploads
DialogWaits ==
    taxDeleting => /\ confirm # NoReturn
                   /\ \E c \in taxCalls : c.by = "mounted" /\ c.op = "delete" /\ c.of = confirm

TaxTypes ==
    /\ returns \subseteq Returns /\ taxSessionId \in Tax!Maybe
    /\ summaries \subseteq Returns /\ expected \subseteq Returns /\ taxListed \subseteq Returns
    /\ taxForm \in TaxForms /\ confirm \in Tax!Maybe
    /\ sessionExpired \in BOOLEAN /\ exporting \in BOOLEAN /\ popped \in BOOLEAN
    /\ taxDeleting \in BOOLEAN

TaxInv ==
    /\ TaxTypes /\ \A c \in taxCalls : TaxSound(c)
    /\ FormWaits /\ DialogWaits /\ OpenIsKnown

LEMMA NewTaxRequest ==
    ASSUME taxSessionId \in Tax!Maybe, NEW op, NEW by, NEW of
    PROVE  LET y == Tax!Call(op, by, of)
           IN  /\ y.op = op /\ y.by = by /\ y.of = of
               /\ (/\ op \in {"list", "analyze", "upload", "summary", "delete"}
                   /\ by \in {"mounted", "gone", "dashboard"} /\ of \in Tax!Maybe
                   => y \in TaxRequests)
BY DEF Tax!Call, TaxRequests

LEMMA GoneTaxRequest ==
    ASSUME NEW x, TaxSound(x)
    PROVE  LET y == [x EXCEPT !.by = "gone"]
           IN TaxSound(y) /\ y.op = x.op /\ y.of = x.of /\ y.done = x.done
BY DEF TaxSound, TaxRequests

\* What becomes of requests cs when s is shown: they go on, but for lists nobody
\* waits for any more.
LEMMA ShownTaxRequests ==
    ASSUME taxSessionId \in Tax!Maybe, NEW s, NEW known, NEW cs, NEW u,
           Tax!Show(s, known, cs, u), \A c \in cs : TaxSound(c)
    PROVE  /\ \A c \in taxCalls' : TaxSound(c)
           /\ \A x \in cs : x.op # "list" =>
                \E c \in taxCalls' : c.op = x.op /\ c.of = x.of /\ c.done = x.done
           /\ taxSessionId' = s /\ summaries' = known
           /\ \/ /\ taxCalls' = cs /\ popped' = u[1] /\ taxListed' = u[2] /\ taxForm' = u[3]
                 /\ confirm' = u[4] /\ taxDeleting' = u[5]
              \/ /\ popped' = FALSE /\ taxListed' = {} /\ taxForm' = Tax!NoForm
                 /\ confirm' = NoReturn /\ taxDeleting' = FALSE
<1> DEFINE m == Tax!Shown(s, known, cs)
           gone == {IF c.by = "mounted" THEN [c EXCEPT !.by = "gone"] ELSE c
                      : c \in {x \in cs : x.op # "list"}}
           new == Tax!Call("list", "mounted", NoReturn)
<1>1. new.op = "list" /\ new \in TaxRequests
  BY NewTaxRequest DEF Tax!Maybe
<1>2. TaxSound(new)
  BY <1>1 DEF TaxSound
<1>3. /\ taxSessionId' = s /\ summaries' = known
      /\ \/ /\ m = Tax!Here /\ taxCalls' = cs /\ popped' = u[1] /\ taxListed' = u[2]
            /\ taxForm' = u[3] /\ confirm' = u[4] /\ taxDeleting' = u[5]
         \/ /\ taxCalls' \in {gone, gone \union {new}}
            /\ popped' = FALSE /\ taxListed' = {} /\ taxForm' = Tax!NoForm
            /\ confirm' = NoReturn /\ taxDeleting' = FALSE
  BY DEF Tax!Show
<1>4. /\ \A c \in gone :
           \E x \in cs : c = IF x.by = "mounted" THEN [x EXCEPT !.by = "gone"] ELSE x
      /\ \A x \in cs : x.op # "list" =>
           (IF x.by = "mounted" THEN [x EXCEPT !.by = "gone"] ELSE x) \in gone
  OBVIOUS
<1> HIDE DEF gone, new, m
<1>5. \A x \in cs : LET y == IF x.by = "mounted" THEN [x EXCEPT !.by = "gone"] ELSE x
                    IN TaxSound(y) /\ y.op = x.op /\ y.of = x.of /\ y.done = x.done
  BY GoneTaxRequest
<1>6. \A c \in gone : TaxSound(c)
  BY <1>4, <1>5
<1>7. \A x \in cs : x.op # "list" =>
        \E c \in gone : c.op = x.op /\ c.of = x.of /\ c.done = x.done
  BY <1>4, <1>5
<1>8. CASE taxCalls' = cs
  BY <1>3, <1>8
<1>9. CASE taxCalls' \in {gone, gone \union {new}}
  <2>1. \A c \in taxCalls' : TaxSound(c)
    BY <1>2, <1>6, <1>9
  <2>2. gone \subseteq taxCalls'
    BY <1>9
  <2>3. \A x \in cs : x.op # "list" =>
          \E c \in taxCalls' : c.op = x.op /\ c.of = x.of /\ c.done = x.done
    BY <1>7, <2>2
  <2> QED BY <1>3, <2>1, <2>3
<1> QED BY <1>3, <1>8, <1>9

\* A move that shows s keeps the invariant.
LEMMA TaxShowKeeps ==
    ASSUME TaxInv, NEW s \in Tax!Maybe, NEW known \in SUBSET Returns, NEW cs,
           NEW po \in BOOLEAN, NEW li \in SUBSET Returns, NEW fo \in TaxForms,
           NEW co \in Tax!Maybe, NEW de \in BOOLEAN,
           Tax!Show(s, known, cs, <<po, li, fo, co, de>>), \A c \in cs : TaxSound(c),
           fo.busy => \E c \in cs : c.by = "mounted" /\ c.op \in Uploads,
           de => /\ co # NoReturn
                 /\ \E c \in cs : c.by = "mounted" /\ c.op = "delete" /\ c.of = co,
           returns' \subseteq Returns, expected' \subseteq Returns,
           sessionExpired' \in BOOLEAN, exporting' \in BOOLEAN,
           \/ s \in returns' \union {NoReturn} \union expected'
           \/ \E c \in cs : Answering(c, s)
    PROVE  TaxInv'
<1>1. /\ \A c \in taxCalls' : TaxSound(c)
      /\ \A x \in cs : x.op # "list" =>
           \E c \in taxCalls' : c.op = x.op /\ c.of = x.of /\ c.done = x.done
      /\ taxSessionId' = s /\ summaries' = known
      /\ \/ /\ taxCalls' = cs /\ popped' = po /\ taxListed' = li /\ taxForm' = fo
            /\ confirm' = co /\ taxDeleting' = de
         \/ /\ popped' = FALSE /\ taxListed' = {} /\ taxForm' = Tax!NoForm
            /\ confirm' = NoReturn /\ taxDeleting' = FALSE
  <2> DEFINE u == <<po, li, fo, co, de>>
  <2>1. u[1] = po /\ u[2] = li /\ u[3] = fo /\ u[4] = co /\ u[5] = de
    OBVIOUS
  <2>2. Tax!Show(s, known, cs, u) /\ taxSessionId \in Tax!Maybe
    BY DEF TaxInv, TaxTypes
  <2>3. \A c \in cs : TaxSound(c)
    OBVIOUS
  <2> HIDE DEF u
  <2>4. /\ \A c \in taxCalls' : TaxSound(c)
        /\ \A x \in cs : x.op # "list" =>
             \E c \in taxCalls' : c.op = x.op /\ c.of = x.of /\ c.done = x.done
    BY ONLY <2>2, <2>3, ShownTaxRequests
  <2>5. taxSessionId' = s /\ summaries' = known
    BY ONLY <2>2, <2>3, ShownTaxRequests
  <2>6. \/ /\ taxCalls' = cs /\ popped' = u[1] /\ taxListed' = u[2] /\ taxForm' = u[3]
           /\ confirm' = u[4] /\ taxDeleting' = u[5]
        \/ /\ popped' = FALSE /\ taxListed' = {} /\ taxForm' = Tax!NoForm
           /\ confirm' = NoReturn /\ taxDeleting' = FALSE
    BY ONLY <2>2, <2>3, ShownTaxRequests
  <2>7. \/ /\ taxCalls' = cs /\ popped' = po /\ taxListed' = li /\ taxForm' = fo
           /\ confirm' = co /\ taxDeleting' = de
        \/ /\ popped' = FALSE /\ taxListed' = {} /\ taxForm' = Tax!NoForm
           /\ confirm' = NoReturn /\ taxDeleting' = FALSE
    BY <2>1, <2>6
  <2> QED BY <2>4, <2>5, <2>7
<1>2. Tax!NoForm \in TaxForms /\ Tax!NoForm.busy = FALSE
  BY DEF Tax!NoForm, TaxForms
<1>3. TaxTypes'
  <2>1. taxForm' \in TaxForms /\ confirm' \in Tax!Maybe
    BY <1>1, <1>2 DEF Tax!Maybe
  <2>2. taxListed' \subseteq Returns /\ popped' \in BOOLEAN /\ taxDeleting' \in BOOLEAN
    BY <1>1
  <2>3. taxSessionId' \in Tax!Maybe /\ summaries' \subseteq Returns
    BY <1>1
  <2> QED BY <2>1, <2>2, <2>3 DEF TaxTypes
<1>4. FormWaits' /\ DialogWaits'
  BY <1>1, <1>2 DEF FormWaits, DialogWaits
<1>5. OpenIsKnown'
  <2>1. CASE \E c \in cs : Answering(c, s)
    <3>1. PICK x \in cs : Answering(x, s)
      BY <2>1
    <3>2. PICK c \in taxCalls' : c.op = x.op /\ c.of = x.of /\ c.done = x.done
      BY <1>1, <3>1 DEF Answering
    <3>3. Answering(c, s)
      BY <3>1, <3>2 DEF Answering
    <3> QED BY <1>1, <3>3 DEF OpenIsKnown
  <2> QED BY <1>1, <2>1 DEF OpenIsKnown
<1> QED BY <1>1, <1>3, <1>4, <1>5 DEF TaxInv

\* A move that leaves what is open, and what is mounted with it.
LEMMA TaxStayKeeps ==
    ASSUME TaxInv, UNCHANGED <<taxSessionId, summaries>>,
           returns' \subseteq Returns, expected' \subseteq Returns, taxListed' \subseteq Returns,
           taxForm' \in TaxForms, confirm' \in Tax!Maybe, sessionExpired' \in BOOLEAN,
           exporting' \in BOOLEAN, popped' \in BOOLEAN, taxDeleting' \in BOOLEAN,
           \A c \in taxCalls' : TaxSound(c),
           FormWaits', DialogWaits', OpenIsKnown'
    PROVE  TaxInv'
BY DEF TaxInv, TaxTypes

LEMMA TaxAlone ==
    ASSUME TaxInv
    PROVE  /\ returns \subseteq Returns /\ taxSessionId \in Tax!Maybe
           /\ summaries \subseteq Returns /\ expected \subseteq Returns
           /\ taxListed \subseteq Returns /\ taxForm \in TaxForms /\ confirm \in Tax!Maybe
           /\ sessionExpired \in BOOLEAN /\ exporting \in BOOLEAN /\ popped \in BOOLEAN
           /\ taxDeleting \in BOOLEAN
           /\ \A c \in taxCalls : TaxSound(c)
BY DEF TaxInv, TaxTypes

\* A move that touches neither requests nor what waits for them.
LEMMA TaxIdleKeeps ==
    ASSUME TaxInv,
           UNCHANGED <<returns, taxSessionId, summaries, taxListed, taxDeleting, expected>>,
           taxForm' \in TaxForms, taxForm'.busy = taxForm.busy, confirm' \in Tax!Maybe,
           taxDeleting => confirm' = confirm, sessionExpired' \in BOOLEAN,
           exporting' \in BOOLEAN, popped' \in BOOLEAN,
           \/ taxCalls' = taxCalls
           \/ \E c \in TaxRequests : c.op = "list" /\ taxCalls' = taxCalls \union {c}
    PROVE  TaxInv'
<1>1. taxCalls \subseteq taxCalls' /\ \A c \in taxCalls' : TaxSound(c)
  BY TaxAlone DEF TaxSound
<1>2. FormWaits' /\ DialogWaits' /\ OpenIsKnown'
  BY <1>1 DEF TaxInv, FormWaits, DialogWaits, OpenIsKnown, Answering
<1> QED BY <1>1, <1>2, TaxAlone, TaxStayKeeps

LEMMA TaxClicksKeep ==
    ASSUME TaxInv,
           \/ Tax!TogglePopover \/ Tax!OnDrop \/ Tax!Cancel \/ Tax!HandleExportTaxReport
           \/ Tax!ExportEnds \/ UNCHANGED taxVars
           \/ \E s \in Returns : Tax!AskDelete(s)
    PROVE  TaxInv'
<1>1. CASE Tax!TogglePopover
  <2> DEFINE c == Tax!Call("list", "mounted", NoReturn)
  <2>1. c \in TaxRequests /\ c.op = "list"
    BY TaxAlone, NewTaxRequest DEF Tax!Maybe
  <2>2. /\ taxCalls' \in {taxCalls, taxCalls \union {c}} /\ popped' = ~popped
        /\ UNCHANGED <<returns, taxSessionId, sessionExpired, summaries, exporting, taxListed,
                       taxForm, confirm, taxDeleting, expected>>
    BY <1>1 DEF Tax!TogglePopover
  <2> HIDE DEF c
  <2>3. popped' \in BOOLEAN
    BY <2>2
  <2> QED BY <2>1, <2>2, <2>3, TaxAlone, TaxIdleKeeps
<1>2. CASE Tax!OnDrop
  <2>1. /\ taxForm' = [taxForm EXCEPT !.file = TRUE, !.error = FALSE]
        /\ UNCHANGED <<returns, taxSessionId, sessionExpired, summaries, exporting, popped,
                       taxListed, confirm, taxDeleting, taxCalls, expected>>
    BY <1>2 DEF Tax!OnDrop
  <2>2. taxForm' \in TaxForms /\ taxForm'.busy = taxForm.busy
    BY <2>1, TaxAlone DEF TaxForms
  <2> QED BY <2>1, <2>2, TaxAlone, TaxIdleKeeps
<1>3. CASE Tax!Cancel
  <2>1. /\ ~taxDeleting /\ confirm' = NoReturn
        /\ UNCHANGED <<returns, taxSessionId, sessionExpired, summaries, exporting, popped,
                       taxListed, taxForm, taxDeleting, taxCalls, expected>>
    BY <1>3 DEF Tax!Cancel, Tax!CanCancel
  <2> QED BY <2>1, TaxAlone, TaxIdleKeeps DEF Tax!Maybe
<1>4. ASSUME NEW s \in Returns, Tax!AskDelete(s) PROVE TaxInv'
  <2>1. /\ confirm = NoReturn /\ confirm' = s
        /\ UNCHANGED <<returns, taxSessionId, sessionExpired, summaries, exporting, popped,
                       taxListed, taxForm, taxDeleting, taxCalls, expected>>
    BY <1>4 DEF Tax!AskDelete, Tax!Usable
  <2>2. ~taxDeleting
    BY <2>1 DEF TaxInv, DialogWaits
  <2> QED BY <2>1, <2>2, TaxAlone, TaxIdleKeeps DEF Tax!Maybe
<1>5. CASE Tax!HandleExportTaxReport \/ Tax!ExportEnds \/ UNCHANGED taxVars
  <2>1. /\ exporting' \in BOOLEAN
        /\ UNCHANGED <<returns, taxSessionId, sessionExpired, summaries, popped, confirm,
                       taxListed, taxForm, taxDeleting, taxCalls, expected>>
    BY <1>5, TaxAlone DEF Tax!HandleExportTaxReport, Tax!ExportEnds, taxVars, Tax!ui
  <2> QED BY <2>1, TaxAlone, TaxIdleKeeps
<1> QED BY <1>1, <1>2, <1>3, <1>4, <1>5

\* Sending an upload or a deletion.
LEMMA TaxSendsKeep ==
    ASSUME TaxInv, Tax!HandleAnalyze \/ Tax!HandleDelete
    PROVE  TaxInv'
<1>1. CASE Tax!HandleAnalyze
  <2> DEFINE op == IF Tax!Here = "panel" THEN "analyze" ELSE "upload"
             c == Tax!Call(op, "mounted", NoReturn)
  <2>1. op \in Uploads
    BY DEF Uploads
  <2> HIDE DEF op
  <2>2. c \in TaxRequests /\ c.op \in Uploads /\ c.by = "mounted"
    BY <2>1, TaxAlone, NewTaxRequest DEF Tax!Maybe, Uploads
  <2>3. /\ taxForm' = [taxForm EXCEPT !.busy = TRUE, !.error = FALSE]
        /\ taxCalls' = taxCalls \union {c}
        /\ UNCHANGED <<returns, taxSessionId, sessionExpired, summaries, exporting, popped,
                       taxListed, confirm, taxDeleting, expected>>
    BY <1>1 DEF Tax!HandleAnalyze, op
  <2> HIDE DEF c
  <2>4. taxForm' \in TaxForms
    BY <2>3, TaxAlone DEF TaxForms
  <2>5. FormWaits' /\ DialogWaits' /\ OpenIsKnown'
    BY <2>2, <2>3 DEF TaxInv, FormWaits, DialogWaits, OpenIsKnown, Answering
  <2>6. \A x \in taxCalls' : TaxSound(x)
    BY <2>2, <2>3, TaxAlone DEF TaxSound, Uploads
  <2> QED BY <2>3, <2>4, <2>5, <2>6, TaxAlone, TaxStayKeeps
<1>2. CASE Tax!HandleDelete
  <2> DEFINE c == Tax!Call("delete", "mounted", confirm)
  <2>1. /\ confirm # NoReturn /\ taxDeleting' = TRUE
        /\ taxCalls' = taxCalls \union {c}
        /\ UNCHANGED <<returns, taxSessionId, sessionExpired, summaries, exporting, popped,
                       taxListed, taxForm, confirm, expected>>
    BY <1>2 DEF Tax!HandleDelete
  <2>2. c \in TaxRequests /\ c.op = "delete" /\ c.by = "mounted" /\ c.of = confirm
    BY TaxAlone, NewTaxRequest
  <2> HIDE DEF c
  <2>3. FormWaits' /\ OpenIsKnown' /\ DialogWaits'
    BY <2>1, <2>2 DEF TaxInv, FormWaits, OpenIsKnown, Answering, DialogWaits
  <2>4. \A x \in taxCalls' : TaxSound(x)
    BY <2>1, <2>2, TaxAlone DEF TaxSound, Tax!Maybe
  <2> QED BY <2>1, <2>3, <2>4, TaxAlone, TaxStayKeeps
<1> QED BY <1>1, <1>2

\* The server's side, and answers nothing looks at.
LEMMA TaxServerKeeps ==
    ASSUME TaxInv,
           \/ \E s \in Returns : Tax!Lose(s)
           \/ \E c \in taxCalls : Tax!ReceiveList(c) \/ Tax!ParseFails(c) \/ Tax!ServeDelete(c)
    PROVE  TaxInv'
<1>1. ASSUME NEW s \in Returns, Tax!Lose(s) PROVE TaxInv'
  <2>1. /\ returns' = returns \ {s}
        /\ expected' = IF s = taxSessionId THEN expected \union {s} ELSE expected
        /\ UNCHANGED <<taxSessionId, sessionExpired, summaries, exporting, popped, taxListed,
                       taxForm, confirm, taxDeleting, taxCalls>>
    BY <1>1 DEF Tax!Lose, Tax!ui
  <2>2. FormWaits' /\ OpenIsKnown' /\ DialogWaits'
    BY <2>1 DEF TaxInv, FormWaits, OpenIsKnown, DialogWaits
  <2>3. returns' \subseteq Returns /\ expected' \subseteq Returns
    BY <2>1, TaxAlone
  <2> QED BY <2>1, <2>2, <2>3, TaxAlone, TaxStayKeeps
<1>2. ASSUME NEW d \in taxCalls, Tax!ReceiveList(d) PROVE TaxInv'
  <2>1. /\ taxCalls' = taxCalls \ {d} /\ d.op = "list" /\ taxListed' \in {returns, taxListed}
        /\ UNCHANGED <<returns, taxSessionId, sessionExpired, summaries, exporting, popped,
                       taxForm, confirm, taxDeleting, expected>>
    BY <1>2 DEF Tax!ReceiveList
  <2>2. FormWaits' /\ OpenIsKnown' /\ DialogWaits'
    BY <2>1 DEF TaxInv, FormWaits, OpenIsKnown, DialogWaits, Answering, Uploads
  <2>3. taxListed' \subseteq Returns /\ \A c \in taxCalls' : TaxSound(c)
    BY <2>1, TaxAlone
  <2> QED BY <2>1, <2>2, <2>3, TaxAlone, TaxStayKeeps
<1>3. ASSUME NEW d \in taxCalls, Tax!ParseFails(d) PROVE TaxInv'
  <2>1. /\ taxCalls' = taxCalls \ {d} /\ d.op \in Uploads
        /\ taxForm' = IF d.by = "mounted" THEN [taxForm EXCEPT !.busy = FALSE, !.error = TRUE]
                      ELSE taxForm
        /\ UNCHANGED <<returns, taxSessionId, sessionExpired, summaries, exporting, popped,
                       taxListed, confirm, taxDeleting, expected>>
    BY <1>3 DEF Tax!ParseFails, Uploads
  <2>2. taxForm' \in TaxForms /\ (d.by = "mounted" => ~taxForm'.busy)
    BY <2>1, TaxAlone DEF TaxForms
  <2>3. FormWaits'
    BY <2>1, <2>2 DEF TaxInv, FormWaits
  <2>4. OpenIsKnown' /\ DialogWaits'
    BY <2>1 DEF TaxInv, OpenIsKnown, DialogWaits, Answering, Uploads
  <2>5. \A c \in taxCalls' : TaxSound(c)
    BY <2>1, TaxAlone
  <2> QED BY <2>1, <2>2, <2>3, <2>4, <2>5, TaxAlone, TaxStayKeeps
<1>4. ASSUME NEW d \in taxCalls, Tax!ServeDelete(d) PROVE TaxInv'
  <2> DEFINE y == [d EXCEPT !.done = TRUE]
  <2>1. /\ taxCalls' = (taxCalls \ {d}) \union {y} /\ d.op = "delete"
        /\ returns' = returns \ {d.of}
        /\ UNCHANGED <<taxSessionId, sessionExpired, summaries, exporting, popped, taxListed,
                       taxForm, confirm, taxDeleting, expected>>
    BY <1>4 DEF Tax!ServeDelete, Tax!ui
  <2>2. /\ TaxSound(y) /\ y.op = "delete" /\ y.by = d.by /\ y.of = d.of /\ y.done
    BY <2>1, TaxAlone DEF TaxSound, TaxRequests
  <2> HIDE DEF y
  <2>3. FormWaits' /\ DialogWaits'
    BY <2>1, <2>2 DEF TaxInv, FormWaits, DialogWaits, Uploads
  <2>4. OpenIsKnown'
    <3>1. CASE d.of = taxSessionId
      BY <2>1, <2>2, <3>1 DEF OpenIsKnown, Answering
    <3>2. CASE d.of # taxSessionId
      BY <2>1, <3>2 DEF TaxInv, OpenIsKnown, Answering
    <3> QED BY <3>1, <3>2
  <2>5. returns' \subseteq Returns /\ \A c \in taxCalls' : TaxSound(c)
    BY <2>1, <2>2, TaxAlone
  <2> QED BY <2>1, <2>3, <2>4, <2>5, TaxAlone, TaxStayKeeps
<1> QED BY <1>1, <1>2, <1>3, <1>4

\* The summary a move asks for is of the session it opens.
LEMMA RereadTax ==
    ASSUME TaxInv, NEW s \in Tax!Maybe
    PROVE  /\ \A c \in Tax!Reread(s) : TaxSound(c) /\ Answering(c, s) /\ c.op = "summary"
           /\ s # NoReturn => \E c \in Tax!Reread(s) : TRUE
<1> DEFINE y == Tax!Call("summary", "dashboard", s)
<1>1. y.op = "summary" /\ y.of = s /\ y \in TaxRequests
  BY TaxAlone, NewTaxRequest
<1>2. Tax!Reread(s) = IF s = NoReturn THEN {} ELSE {y}
  BY DEF Tax!Reread
<1> HIDE DEF y
<1>3. s # NoReturn => TaxSound(y)
  BY <1>1 DEF TaxSound, Tax!Maybe
<1> QED BY <1>1, <1>2, <1>3 DEF Answering

LEMMA TaxSelectKeeps ==
    ASSUME TaxInv, NEW s \in Returns, Tax!HandleSelect(s)
    PROVE  TaxInv'
<1> DEFINE cs == taxCalls \union Tax!Reread(s)
<1>1. /\ Tax!Show(s, summaries, cs, <<FALSE, taxListed, taxForm, confirm, taxDeleting>>)
      /\ expected' \subseteq expected \union {s}
      /\ UNCHANGED <<returns, sessionExpired, exporting>>
  BY DEF Tax!HandleSelect
<1>2. s \in Tax!Maybe /\ s # NoReturn
  BY PagesAssumption DEF Tax!Maybe
<1>3. /\ \A c \in cs : TaxSound(c)
      /\ \E c \in cs : Answering(c, s)
  BY <1>2, RereadTax, TaxAlone
<1>4. /\ taxForm.busy => \E c \in cs : c.by = "mounted" /\ c.op \in Uploads
      /\ taxDeleting => /\ confirm # NoReturn
                        /\ \E c \in cs : c.by = "mounted" /\ c.op = "delete" /\ c.of = confirm
  BY DEF TaxInv, FormWaits, DialogWaits
<1>5. /\ returns' \subseteq Returns /\ expected' \subseteq Returns
      /\ sessionExpired' \in BOOLEAN /\ exporting' \in BOOLEAN
  BY <1>1, TaxAlone
<1> HIDE DEF cs
<1> QED BY <1>1, <1>2, <1>3, <1>4, <1>5, TaxAlone, TaxShowKeeps

LEMMA TaxParseKeeps ==
    ASSUME TaxInv, NEW d \in taxCalls, Tax!ReceiveParse(d)
    PROVE  TaxInv'
<1>1. PICK s \in Returns :
        /\ returns' = returns \union {s}
        /\ expected' \subseteq expected \union {s}
        /\ Tax!Show(s, summaries, (taxCalls \ {d}) \union Tax!Reread(s),
                    IF d.by = "mounted"
                    THEN <<FALSE, taxListed, [taxForm EXCEPT !.busy = FALSE], confirm,
                           taxDeleting>>
                    ELSE <<popped, taxListed, taxForm, confirm, taxDeleting>>)
  BY DEF Tax!ReceiveParse, Tax!ui
<1>2. /\ d.op \in Uploads /\ exporting' = exporting
      /\ sessionExpired' = (sessionExpired /\ d.op = "upload")
  BY DEF Tax!ReceiveParse, Uploads
<1> DEFINE cs == (taxCalls \ {d}) \union Tax!Reread(s)
           po == IF d.by = "mounted" THEN FALSE ELSE popped
           fo == IF d.by = "mounted" THEN [taxForm EXCEPT !.busy = FALSE] ELSE taxForm
<1>3. Tax!Show(s, summaries, cs, <<po, taxListed, fo, confirm, taxDeleting>>)
  BY <1>1
<1>4. s \in Tax!Maybe /\ s # NoReturn /\ s \in returns'
  BY <1>1, PagesAssumption DEF Tax!Maybe
<1>5. \A c \in cs : TaxSound(c)
  BY <1>4, RereadTax, TaxAlone
<1>6. fo \in TaxForms /\ po \in BOOLEAN /\ (d.by = "mounted" => ~fo.busy)
  BY TaxAlone DEF TaxForms
<1>7. fo.busy => \E c \in cs : c.by = "mounted" /\ c.op \in Uploads
  BY <1>6 DEF TaxInv, FormWaits
<1>8. taxDeleting => /\ confirm # NoReturn
                     /\ \E c \in cs : c.by = "mounted" /\ c.op = "delete" /\ c.of = confirm
  BY <1>2 DEF TaxInv, DialogWaits, Uploads
<1>9. /\ returns' \subseteq Returns /\ expected' \subseteq Returns
      /\ sessionExpired' \in BOOLEAN /\ exporting' \in BOOLEAN
  BY <1>1, <1>2, TaxAlone
<1> HIDE DEF cs, po, fo
<1> QED BY <1>3, <1>4, <1>5, <1>6, <1>7, <1>8, <1>9, TaxAlone, TaxShowKeeps

\* A summary that arrives: request d is over and session s is shown.
LEMMA TaxReadKeeps ==
    ASSUME TaxInv, NEW d \in taxCalls, d.op = "summary", NEW s \in Tax!Maybe,
           NEW known \in SUBSET Returns,
           Tax!Show(s, known, taxCalls \ {d}, Tax!ui),
           returns' = returns, expected' \subseteq Returns, expected \subseteq expected',
           sessionExpired' \in BOOLEAN, exporting' = exporting,
           \/ s = NoReturn
           \/ s = taxSessionId /\ (d.of = s => s \in returns \union expected')
    PROVE  TaxInv'
<1> DEFINE cs == taxCalls \ {d}
<1>1. /\ Tax!Show(s, known, cs, <<popped, taxListed, taxForm, confirm, taxDeleting>>)
      /\ \A c \in cs : TaxSound(c)
  BY TaxAlone DEF Tax!ui
<1>2. /\ taxForm.busy => \E c \in cs : c.by = "mounted" /\ c.op \in Uploads
      /\ taxDeleting => /\ confirm # NoReturn
                        /\ \E c \in cs : c.by = "mounted" /\ c.op = "delete" /\ c.of = confirm
  BY DEF TaxInv, FormWaits, DialogWaits, Uploads
<1>3. \/ s \in returns' \union {NoReturn} \union expected'
      \/ \E c \in cs : Answering(c, s)
  BY DEF TaxInv, OpenIsKnown, Answering
<1>4. /\ returns' \subseteq Returns /\ exporting' \in BOOLEAN
  BY TaxAlone
<1> HIDE DEF cs
<1> QED BY <1>1, <1>2, <1>3, <1>4, TaxAlone, TaxShowKeeps

LEMMA TaxSummaryKeeps ==
    ASSUME TaxInv, NEW d \in taxCalls, Tax!ReceiveNotFound(d) \/ Tax!ReceiveSummary(d)
    PROVE  TaxInv'
<1>1. NoReturn \in Tax!Maybe /\ taxSessionId \in Tax!Maybe
  BY TaxAlone DEF Tax!Maybe
<1>2. CASE Tax!ReceiveNotFound(d)
  <2>1. /\ d.op = "summary" /\ UNCHANGED <<returns, exporting, expected>>
        /\ \/ /\ Tax!Show(NoReturn, summaries, taxCalls \ {d}, Tax!ui)
              /\ sessionExpired' = TRUE
           \/ /\ d.of # taxSessionId /\ sessionExpired' = sessionExpired
              /\ Tax!Show(taxSessionId, summaries, taxCalls \ {d}, Tax!ui)
    BY <1>2 DEF Tax!ReceiveNotFound
  <2>2. expected' \subseteq Returns /\ sessionExpired' \in BOOLEAN
    BY <2>1, TaxAlone
  <2>3. CASE Tax!Show(NoReturn, summaries, taxCalls \ {d}, Tax!ui)
    BY <1>1, <2>1, <2>2, <2>3, TaxAlone, TaxReadKeeps
  <2>4. CASE /\ d.of # taxSessionId
             /\ Tax!Show(taxSessionId, summaries, taxCalls \ {d}, Tax!ui)
    BY <1>1, <2>1, <2>2, <2>4, TaxAlone, TaxReadKeeps
  <2> QED BY <2>1, <2>3, <2>4
<1>3. CASE Tax!ReceiveSummary(d)
  <2>1. /\ d.op = "summary" /\ UNCHANGED <<returns, exporting, sessionExpired>>
        /\ \/ /\ Tax!Show(taxSessionId, summaries \union {d.of}, taxCalls \ {d}, Tax!ui)
              /\ d.of \in returns /\ expected' = expected
           \/ /\ Tax!Show(taxSessionId, summaries, taxCalls \ {d}, Tax!ui)
              /\ expected' = expected \union ({d.of} \ returns)
    BY <1>3 DEF Tax!ReceiveSummary
  <2>2. d.of \in Returns
    BY <2>1, TaxAlone DEF TaxSound
  <2>3. CASE /\ Tax!Show(taxSessionId, summaries \union {d.of}, taxCalls \ {d}, Tax!ui)
             /\ d.of \in returns /\ expected' = expected
    <3>1. summaries \union {d.of} \in SUBSET Returns
      BY <2>2, TaxAlone
    <3> QED BY <1>1, <2>1, <2>3, <3>1, TaxAlone, TaxReadKeeps
  <2>4. CASE /\ Tax!Show(taxSessionId, summaries, taxCalls \ {d}, Tax!ui)
             /\ expected' = expected \union ({d.of} \ returns)
    <3>1. /\ expected' \subseteq Returns /\ expected \subseteq expected'
          /\ d.of \in returns \union expected'
      BY <2>2, <2>4, TaxAlone
    <3> QED BY <1>1, <2>1, <2>4, <3>1, TaxAlone, TaxReadKeeps
  <2> QED BY <2>1, <2>3, <2>4
<1> QED BY <1>2, <1>3

\* The dialog of a deletion that is answered closes, if it is still there.
LEMMA TaxDeletedKeeps ==
    ASSUME TaxInv, NEW d \in taxCalls, Tax!ReceiveDelete(d) \/ Tax!DeleteFails(d)
    PROVE  TaxInv'
<1> DEFINE s == IF Tax!ReceiveDelete(d) THEN Tax!SessionAfter(d) ELSE taxSessionId
           cs == (taxCalls \ {d})
                   \union (IF Tax!ReceiveDelete(d) THEN Tax!Reread(s) ELSE {})
           li == IF d.by = "mounted" /\ Tax!ReceiveDelete(d) THEN taxListed \ {d.of}
                 ELSE taxListed
           co == IF d.by = "mounted" THEN NoReturn ELSE confirm
           de == IF d.by = "mounted" THEN FALSE ELSE taxDeleting
<1>1. /\ d.op = "delete" /\ UNCHANGED <<returns, sessionExpired, exporting>>
      /\ Tax!Show(s, summaries, cs, <<popped, li, taxForm, co, de>>)
      /\ Tax!ReceiveDelete(d) => expected' = expected
      /\ ~Tax!ReceiveDelete(d) =>
           expected' = IF d.done THEN expected \union {d.of} ELSE expected
  <2>1. CASE Tax!ReceiveDelete(d)
    <3>1. /\ d.op = "delete" /\ UNCHANGED <<returns, sessionExpired, exporting, expected>>
          /\ Tax!Show(Tax!SessionAfter(d), summaries,
                      (taxCalls \ {d}) \union Tax!Reread(Tax!SessionAfter(d)),
                      IF d.by = "mounted"
                      THEN <<popped, taxListed \ {d.of}, taxForm, NoReturn, FALSE>>
                      ELSE <<popped, taxListed, taxForm, confirm, taxDeleting>>)
      BY <2>1 DEF Tax!ReceiveDelete, Tax!ui
    <3> QED BY <2>1, <3>1
  <2>2. CASE ~Tax!ReceiveDelete(d)
    <3>1. /\ d.op = "delete" /\ UNCHANGED <<returns, sessionExpired, exporting>>
          /\ expected' = IF d.done THEN expected \union {d.of} ELSE expected
          /\ Tax!Show(taxSessionId, summaries, taxCalls \ {d},
                      IF d.by = "mounted"
                      THEN <<popped, taxListed, taxForm, NoReturn, FALSE>>
                      ELSE <<popped, taxListed, taxForm, confirm, taxDeleting>>)
      BY <2>2 DEF Tax!DeleteFails, Tax!ui
    <3> QED BY <2>2, <3>1
  <2> QED BY <2>1, <2>2
<1>2. s \in Tax!Maybe /\ s \in {taxSessionId, NoReturn}
  BY TaxAlone DEF Tax!SessionAfter, Tax!Maybe
<1>3. \A c \in cs : TaxSound(c)
  BY <1>2, RereadTax, TaxAlone
<1>4. d.of \in Returns
  BY <1>1, TaxAlone DEF TaxSound
<1>5. /\ li \in SUBSET Returns /\ co \in Tax!Maybe /\ expected' \subseteq Returns
      /\ de \in BOOLEAN
  BY <1>1, <1>4, TaxAlone DEF Tax!Maybe
<1>6. taxForm.busy => \E c \in cs : c.by = "mounted" /\ c.op \in Uploads
  BY <1>1 DEF TaxInv, FormWaits, Uploads
<1>7. de => /\ co # NoReturn
            /\ \E c \in cs : c.by = "mounted" /\ c.op = "delete" /\ c.of = co
  BY DEF TaxInv, DialogWaits
<1>8. \/ s \in returns' \union {NoReturn} \union expected'
      \/ \E c \in cs : Answering(c, s)
  <2>1. CASE Tax!ReceiveDelete(d)
    BY <1>2, <2>1, RereadTax
  <2>2. CASE ~Tax!ReceiveDelete(d)
    BY <1>1, <2>2 DEF TaxInv, OpenIsKnown, Answering
  <2> QED BY <2>1, <2>2
<1>9. /\ returns' \subseteq Returns
      /\ sessionExpired' \in BOOLEAN /\ exporting' \in BOOLEAN
  BY <1>1, TaxAlone
<1> HIDE DEF s, cs, li, co, de
<1> QED BY <1>1, <1>2, <1>3, <1>5, <1>6, <1>7, <1>8, <1>9, TaxAlone, TaxShowKeeps

LEMMA TaxStarts == Init => TaxInv
<1> SUFFICES ASSUME Init PROVE TaxInv
  OBVIOUS
<1>1. /\ returns \in SUBSET Returns /\ taxSessionId \in returns \union {NoReturn}
      /\ sessionExpired = FALSE /\ summaries = {} /\ exporting = FALSE
      /\ popped = FALSE /\ taxListed = {} /\ taxForm = Tax!NoForm
      /\ confirm = NoReturn /\ taxDeleting = FALSE /\ expected = {}
      /\ taxCalls = IF taxSessionId = NoReturn
                    THEN {Tax!Call("list", "mounted", NoReturn)}
                    ELSE {Tax!Call("summary", "dashboard", taxSessionId)}
  BY DEF Init, Tax!Init
<1>2. taxSessionId \in Tax!Maybe /\ NoReturn \in Tax!Maybe
  BY <1>1 DEF Tax!Maybe
<1>3. taxForm \in TaxForms /\ taxForm.busy = FALSE
  BY <1>1 DEF Tax!NoForm, TaxForms
<1>4. TaxTypes
  BY <1>1, <1>2, <1>3 DEF TaxTypes
<1>5. \A c \in taxCalls : TaxSound(c)
  <2> DEFINE a == Tax!Call("list", "mounted", NoReturn)
             b == Tax!Call("summary", "dashboard", taxSessionId)
  <2>1. a \in TaxRequests /\ a.op = "list"
    BY <1>2, NewTaxRequest
  <2>2. b \in TaxRequests /\ b.of = taxSessionId
    BY <1>2, NewTaxRequest
  <2>3. taxCalls = IF taxSessionId = NoReturn THEN {a} ELSE {b}
    BY <1>1
  <2> HIDE DEF a, b
  <2> QED BY <1>2, <2>1, <2>2, <2>3 DEF TaxSound, Tax!Maybe
<1> QED BY <1>1, <1>3, <1>4, <1>5 DEF TaxInv, FormWaits, DialogWaits, OpenIsKnown

LEMMA TaxKeeps == TaxInv /\ [Next]_vars => TaxInv'
<1> SUFFICES ASSUME TaxInv, [Tax!Next]_taxVars PROVE TaxInv'
  BY TaxSteps
<1>1. CASE \/ Tax!TogglePopover \/ Tax!OnDrop \/ Tax!Cancel \/ Tax!HandleExportTaxReport
           \/ Tax!ExportEnds \/ UNCHANGED taxVars
           \/ \E s \in Returns : Tax!AskDelete(s)
  BY <1>1, TaxClicksKeep
<1>2. CASE Tax!HandleAnalyze \/ Tax!HandleDelete
  BY <1>2, TaxSendsKeep
<1>3. ASSUME NEW s \in Returns, Tax!HandleSelect(s) \/ Tax!Lose(s) PROVE TaxInv'
  BY <1>3, TaxSelectKeeps, TaxServerKeeps
<1>4. ASSUME NEW c \in taxCalls,
             Tax!ReceiveList(c) \/ Tax!ParseFails(c) \/ Tax!ServeDelete(c)
      PROVE  TaxInv'
  BY <1>4, TaxServerKeeps
<1>5. ASSUME NEW c \in taxCalls,
             \/ Tax!ReceiveParse(c) \/ Tax!ReceiveNotFound(c) \/ Tax!ReceiveSummary(c)
             \/ Tax!ReceiveDelete(c) \/ Tax!DeleteFails(c)
      PROVE  TaxInv'
  BY <1>5, TaxParseKeeps, TaxSummaryKeeps, TaxDeletedKeeps
<1> QED BY <1>1, <1>2, <1>3, <1>4, <1>5 DEF Tax!Next

\* The dialog names the return being deleted, and an unknown one does not stay open.
LEMMA TaxPanelHolds == TaxInv => Tax!DialogNamesDeletion /\ Tax!UnknownIsClosed
BY DEF TaxInv, DialogWaits, OpenIsKnown, Answering,
       Tax!DialogNamesDeletion, Tax!UnknownIsClosed, Tax!Waiting

----------------------------------------------------------------------------
\* The tabs of the open tax return.

LEMMA ReturnSteps == [Next]_vars => [Return!Next]_filingVars
BY DEF Next, vars, filingVars

FormBoxes == [Boxes -> Return!Amounts]
Sheet(k) == [Return!Depends(k) -> FormBoxes]

SaveSound(s) ==
    /\ DOMAIN s = {"id", "part", "body", "at", "quiet"}
    /\ s.part \in Return!Parts /\ s.at \in {"sent", "taken"}
    /\ DOMAIN s.body \subseteq Boxes /\ \A f \in DOMAIN s.body : s.body[f] \in Return!Amounts

ReturnTypes ==
    /\ server \in [Return!Parts -> FormBoxes]
    /\ returnTab \in Return!Tabs /\ regime \in Return!Regimes
    /\ returnForm \in FormBoxes /\ focus \in Boxes \union {"none"}
    /\ DOMAIN cached = Return!Keys /\ DOMAIN returnReading = Return!Keys
    /\ \A k \in Return!Keys : /\ cached[k] # Return!Nothing => cached[k] \in Sheet(k)
                              /\ returnReading[k] \subseteq Sheet(k)
    /\ \A s \in returnSaves : SaveSound(s)

\* What server data sv is once save s is taken.
After(sv, s) ==
    [sv EXCEPT ![s.part] = [f \in Boxes |-> IF f \in DOMAIN s.body THEN s.body[f] ELSE @[f]]]

\* What the server is to hold: what it holds, or that and the save that was sent.
Due(due) ==
    \/ due = server /\ \A s \in returnSaves : s.at = "taken"
    \/ \E s \in returnSaves : s.at = "sent" /\ due = After(server, s)

OneSave ==
    /\ \A s, t \in returnSaves : s = t
    /\ focus # "none" => returnTab = "income"

\* Figures are the server's, but for those that a save that was taken and has not been
\* answered will invalidate.
TakenFor(k) == \E s \in returnSaves : s.at = "taken" /\ k \in Return!Invalidates(s.part)
FreshFor(k) ==
    /\ returnReading[k] \subseteq {Return!Figures(k, server)}
    /\ cached[k] # Return!Nothing /\ k \notin invalid => cached[k] = Return!Figures(k, server)
Fresh == \A k \in Return!Keys : ~TakenFor(k) => FreshFor(k)

\* What is on screen is valid or being read; only the filed return may be missing.
BeingRead ==
    \A k \in Return!Shown :
        \/ returnReading[k] # {}
        \/ cached[k] # Return!Nothing /\ k \notin invalid
        \/ /\ k = "itr" /\ cached[k] = Return!Nothing
           /\ server["filed"] = Return!Untouched \/ TakenFor(k)

\* A return that was filed stays filed.
FiledOnce ==
    /\ server["filed"] = Return!Untouched =>
         /\ cached["itr"] = Return!Nothing
         /\ \A x \in returnReading["itr"] : x["filed"] = Return!Untouched
    /\ cached["itr"] # Return!Nothing =>
         \A x \in returnReading["itr"] : x["filed"] # Return!Untouched
    /\ \A s \in returnSaves : s.part = "filed" => s.body = [f \in Boxes |-> 1]

\* An override of its own that is not 0 somewhere is not 0 where it is to be.
Lasting(due) ==
    \A p \in Return!Overrides, f \in Boxes : Return!Loose(p, f) =>
        /\ server[p][f] # 0 => due[p][f] # 0
        /\ \A k \in Return!Keys : p \in Return!Depends(k) =>
             /\ cached[k] # Return!Nothing /\ cached[k][p][f] # 0 => due[p][f] # 0
             /\ \A x \in returnReading[k] : x[p][f] # 0 => due[p][f] # 0

\* The boxes of a form, but for the one that is typed in, hold what is to be, or what the
\* figures that filled them say.
Filled(P, C, due) ==
    \A g \in Boxes \ {focus} :
        /\ Return!Loose(P, g) /\ returnForm[g] # 0 => due[P][g] # 0
        /\ C # Return!Nothing =>
             IF Return!Loose(P, g) THEN C[P][g] # 0 => returnForm[g] # 0
             ELSE C[P][g] = due[P][g] => returnForm[g] = due[P][g]
OnForm(due) ==
    returnTab \in DOMAIN Return!Forms =>
        Filled(Return!Forms[returnTab], cached[Return!Source(returnTab, regime)], due)

\* A save made at rest is of one box.
OneBox ==
    \A s \in returnSaves : s.at = "sent" /\ s.quiet /\ s.part \in Return!Overrides =>
        \E g \in Boxes : \A f \in DOMAIN s.body \ {g} : s.body[f] = server[s.part][f]

ReturnSound ==
    /\ ReturnTypes /\ OneSave /\ Fresh /\ BeingRead /\ FiledOnce /\ OneBox
    /\ \A due : Due(due) => Lasting(due) /\ OnForm(due)
ReturnInv == mishaps = {} => ReturnSound

LEMMA KeysAre ==
    /\ "itr" \in Return!Keys
    /\ \A t \in Return!Tabs, r \in Return!Regimes : Return!KeysOf(t, r) \subseteq Return!Keys
BY DEF Return!Keys, Return!KeysOf, Return!Regimes, Return!Tabs

LEMMA DependsOn ==
    /\ Return!Depends("itr") = {"filed"}
    /\ \A k \in Return!Keys : /\ Return!Depends(k) \subseteq Return!Parts
                              /\ Return!Depends(k) # {}
                              /\ k # "itr" => "filed" \notin Return!Depends(k)
BY DEF Return!Keys, Return!Depends, Return!Regimes, Return!Parts, Return!Overrides

LEMMA SourceOf ==
    ASSUME NEW t \in DOMAIN Return!Forms, NEW r \in Return!Regimes
    PROVE  /\ Return!Source(t, r) \in Return!KeysOf(t, r)
           /\ Return!Source(t, r) \in Return!Keys /\ Return!Source(t, r) # "itr"
           /\ Return!Forms[t] \in Return!Depends(Return!Source(t, r))
           /\ Return!Forms[t] \in Return!Overrides
<1>1. t \in {"income", "savings", "gains"}
  BY DEF Return!Forms
<1>2. /\ Return!Forms["income"] = "business" /\ Return!Forms["savings"] = "deductions"
      /\ Return!Forms["gains"] = "losses"
  BY DEF Return!Forms
<1>3. r \in {"new", "old"}
  BY DEF Return!Regimes
<1> QED BY <1>1, <1>2, <1>3 DEF Return!Source, Return!KeysOf, Return!Keys, Return!Regimes,
       Return!Depends, Return!Overrides

\* Figures are a sheet of their key, and a restriction is looked up like what it restricts.
LEMMA FiguresAre ==
    ASSUME NEW k \in Return!Keys, NEW sv \in [Return!Parts -> FormBoxes]
    PROVE  /\ Return!Figures(k, sv) \in Sheet(k)
           /\ \A p \in Return!Depends(k) : Return!Figures(k, sv)[p] = sv[p]
BY DependsOn DEF Return!Figures, Return!Restrict, Sheet

LEMMA SheetIsSome ==
    ASSUME NEW k \in Return!Keys, NEW x \in Sheet(k)
    PROVE  x # Return!Nothing
<1>1. DOMAIN x # {}
  BY DependsOn DEF Sheet
<1>2. DOMAIN Return!Nothing = {}
  BY DEF Return!Nothing
<1> QED BY <1>1, <1>2

LEMMA AfterIs ==
    ASSUME NEW sv \in [Return!Parts -> FormBoxes], NEW s, SaveSound(s)
    PROVE  /\ After(sv, s) \in [Return!Parts -> FormBoxes]
           /\ \A p \in Return!Parts : p # s.part => After(sv, s)[p] = sv[p]
           /\ \A f \in Boxes : After(sv, s)[s.part][f]
                = IF f \in DOMAIN s.body THEN s.body[f] ELSE sv[s.part][f]
<1> DEFINE new == [f \in Boxes |-> IF f \in DOMAIN s.body THEN s.body[f]
                                   ELSE sv[s.part][f]]
<1>1. s.part \in Return!Parts
  BY DEF SaveSound
<1>2. sv[s.part] \in FormBoxes
  BY <1>1
<1>3. new \in FormBoxes
  BY <1>2 DEF SaveSound, FormBoxes
<1>4. After(sv, s) = [sv EXCEPT ![s.part] = new]
  BY <1>1 DEF After
<1>5. \A f \in Boxes : new[f] = IF f \in DOMAIN s.body THEN s.body[f] ELSE sv[s.part][f]
  OBVIOUS
<1> HIDE DEF new
<1> QED BY <1>1, <1>3, <1>4, <1>5

LEMMA ReturnAlone ==
    ASSUME ReturnSound
    PROVE  /\ server \in [Return!Parts -> FormBoxes]
           /\ returnTab \in Return!Tabs /\ regime \in Return!Regimes
           /\ returnForm \in FormBoxes /\ focus \in Boxes \union {"none"}
           /\ DOMAIN cached = Return!Keys /\ DOMAIN returnReading = Return!Keys
           /\ \A k \in Return!Keys : /\ cached[k] # Return!Nothing => cached[k] \in Sheet(k)
                                     /\ returnReading[k] \subseteq Sheet(k)
           /\ \A s \in returnSaves : SaveSound(s)
           /\ \A s, t \in returnSaves : s = t
           /\ focus # "none" => returnTab = "income"
BY DEF ReturnSound, ReturnTypes, OneSave

LEMMA DueTypes ==
    ASSUME ReturnSound, NEW due, Due(due)
    PROVE  due \in [Return!Parts -> FormBoxes]
BY ReturnAlone, AfterIs DEF Due

LEMMA DueHolds ==
    ASSUME ReturnSound, NEW due, Due(due)
    PROVE  Lasting(due) /\ OnForm(due)
BY DEF ReturnSound

LEMMA DueStays ==
    ASSUME UNCHANGED <<server, returnSaves>>, NEW due, Due(due)'
    PROVE  Due(due)
<1>1. CASE due = server' /\ \A s \in returnSaves' : s.at = "taken"
  BY <1>1 DEF Due
<1>2. ASSUME NEW s \in returnSaves', s.at = "sent", due = After(server', s)
      PROVE  Due(due)
  BY <1>2 DEF Due
<1>3. \/ due = server' /\ \A s \in returnSaves' : s.at = "taken"
      \/ \E s \in returnSaves' : s.at = "sent" /\ due = After(server', s)
  BY DEF Due
<1> QED BY <1>1, <1>2, <1>3

LEMMA OverridesAreParts == Return!Overrides \subseteq Return!Parts
BY DEF Return!Parts

\* With the figures that fill it those of the server, so is the form.
LEMMA FormIsServer ==
    ASSUME ReturnSound, Due(server), returnTab \in DOMAIN Return!Forms,
           LET k == Return!Source(returnTab, regime)
           IN  cached[k] # Return!Nothing /\ cached[k] = Return!Figures(k, server)
    PROVE  \A g \in Boxes \ {focus} :
             returnForm[g] = server[Return!Forms[returnTab]][g]
<1> DEFINE P == Return!Forms[returnTab]
           k == Return!Source(returnTab, regime)
<1>1. P \in Return!Overrides /\ P \in Return!Depends(k) /\ k \in Return!Keys
  BY ReturnAlone, SourceOf
<1>2. P \in Return!Parts
  BY <1>1, OverridesAreParts
<1>3. cached[k] # Return!Nothing /\ cached[k][P] = server[P]
  BY <1>1, FiguresAre, ReturnAlone
<1>4. Filled(P, cached[k], server)
  BY DueHolds DEF OnForm
<1>5. returnForm \in FormBoxes /\ server[P] \in FormBoxes
  BY <1>2, ReturnAlone
<1> HIDE DEF P, k
<1> SUFFICES ASSUME NEW g \in Boxes \ {focus}
             PROVE  returnForm[g] = server[P][g]
  BY DEF P
<1>6. returnForm[g] \in {0, 1} /\ server[P][g] \in {0, 1}
  BY <1>5 DEF FormBoxes, Return!Amounts
<1>7. CASE Return!Loose(P, g)
  <2>1. /\ returnForm[g] # 0 => server[P][g] # 0
        /\ server[P][g] # 0 => returnForm[g] # 0
    BY <1>3, <1>4, <1>7 DEF Filled
  <2> QED BY <1>6, <2>1
<1>8. CASE ~Return!Loose(P, g)
  BY <1>3, <1>4, <1>8 DEF Filled
<1> QED BY <1>7, <1>8

----------------------------------------------------------------------------
\* Reading again: every key in ks that is missing or invalid is being read.
LEMMA ReadIs ==
    ASSUME ReturnSound, NEW ks \in SUBSET Return!Keys, NEW k \in Return!Keys
    PROVE  /\ DOMAIN Return!Read(ks) = Return!Keys
           /\ Return!Read(ks)[k] \in {returnReading[k], {Return!Figures(k, server)}}
           /\ k \in ks => \/ Return!Read(ks)[k] # {}
                          \/ cached[k] # Return!Nothing /\ k \notin invalid
BY DEF Return!Read

LEMMA ReadKeeps ==
    ASSUME ReturnSound, NEW ks \in SUBSET Return!Keys,
           returnReading' = Return!Read(ks),
           UNCHANGED <<server, focus, cached, invalid, returnSaves>>,
           returnTab' \in Return!Tabs, regime' \in Return!Regimes,
           returnForm' \in FormBoxes,
           Return!KeysOf(returnTab', regime') \subseteq ks,
           focus # "none" => returnTab' = "income",
           \A due \in [Return!Parts -> FormBoxes] : Due(due) => OnForm(due)'
    PROVE  ReturnSound'
<1>1. \A k \in Return!Keys :
         /\ returnReading'[k] \in {returnReading[k], {Return!Figures(k, server)}}
         /\ k \in ks => \/ returnReading'[k] # {}
                        \/ cached[k] # Return!Nothing /\ k \notin invalid
  BY ReadIs
<1>2. DOMAIN returnReading' = Return!Keys
  BY KeysAre, ReadIs
<1>3. \A k \in Return!Keys : returnReading'[k] \subseteq Sheet(k)
  BY <1>1, FiguresAre, ReturnAlone
<1>4. ReturnTypes'
  BY <1>2, <1>3, ReturnAlone DEF ReturnTypes
<1>5. OneSave' /\ OneBox'
  BY DEF ReturnSound, OneSave, OneBox
<1>6. Fresh'
  BY <1>1 DEF ReturnSound, Fresh, FreshFor, TakenFor
<1>7. BeingRead'
  BY <1>1 DEF BeingRead, Return!Shown
<1>8. FiledOnce'
  <2>1. "itr" \in Return!Keys /\ Return!Figures("itr", server)["filed"] = server["filed"]
    BY KeysAre, DependsOn, FiguresAre, ReturnAlone
  <2>2. returnReading'["itr"] \in {returnReading["itr"], {Return!Figures("itr", server)}}
    BY <1>1, <2>1
  <2> QED BY <2>1, <2>2 DEF ReturnSound, FiledOnce
<1>9. ASSUME NEW due, Due(due)' PROVE Lasting(due)' /\ OnForm(due)'
  <2>1. Due(due)
    BY <1>9, DueStays
  <2>2. Lasting(due)
    BY <2>1, DueHolds
  <2>3. \A k \in Return!Keys : \A p \in Return!Depends(k) :
          Return!Figures(k, server)[p] = server[p]
    BY FiguresAre, ReturnAlone
  <2>4. Lasting(due)'
    BY <1>1, <2>2, <2>3 DEF Lasting
  <2> QED BY <2>1, <2>4, DueTypes
<1> QED BY <1>4, <1>5, <1>6, <1>7, <1>8, <1>9 DEF ReturnSound

LEMMA VisitKeeps ==
    ASSUME ReturnSound, NEW t \in Return!Tabs, Return!Visit(t)
    PROVE  ReturnSound'
<1> DEFINE C == cached[Return!Source(t, regime)]
           ks == Return!KeysOf(t, regime)
<1>1. /\ focus = "none" /\ returnTab' = t /\ returnReading' = Return!Read(ks)
      /\ returnForm' = Return!Seeded(t, C, Return!Untouched)
      /\ UNCHANGED <<server, regime, focus, cached, invalid, returnSaves>>
  BY DEF Return!Visit, Return!NoBox
<1>2. ks \in SUBSET Return!Keys
  BY ReturnAlone, KeysAre
<1>3. Return!Untouched \in FormBoxes /\ \A g \in Boxes : Return!Untouched[g] = 0
  BY DEF Return!Untouched, FormBoxes, Return!Amounts
<1> HIDE DEF ks
<1>4. CASE t \notin DOMAIN Return!Forms
  <2>1. returnForm' = Return!Untouched
    BY <1>1, <1>4 DEF Return!Seeded
  <2>2. \A due \in [Return!Parts -> FormBoxes] : Due(due) => OnForm(due)'
    BY <1>1, <1>4 DEF OnForm
  <2> QED BY <1>1, <1>2, <1>3, <2>1, <2>2, ReturnAlone, ReadKeeps DEF ks
<1>5. CASE t \in DOMAIN Return!Forms
  <2> DEFINE P == Return!Forms[t]
  <2>1. /\ Return!Source(t, regime) \in Return!Keys
        /\ P \in Return!Depends(Return!Source(t, regime)) /\ P \in Return!Overrides
    BY <1>5, ReturnAlone, SourceOf
  <2> HIDE DEF P
  <2>2. C # Return!Nothing => C[P] \in FormBoxes
    BY <2>1, ReturnAlone DEF Sheet
  <2> HIDE DEF C
  <2>3. CASE C = Return!Nothing
    <3>1. returnForm' = Return!Untouched
      BY <1>1, <1>5, <2>3 DEF Return!Seeded
    <3>2. \A due : Filled(P, C, due)'
      BY <1>1, <1>3, <2>3, <3>1 DEF Filled, C
    <3>3. \A due \in [Return!Parts -> FormBoxes] : Due(due) => OnForm(due)'
      BY <1>1, <3>2 DEF OnForm, C, P
    <3> QED BY <1>1, <1>2, <1>3, <3>1, <3>3, ReturnAlone, ReadKeeps DEF ks
  <2>4. CASE C # Return!Nothing
    <3>1. returnForm' = [f \in Boxes |->
            IF Return!Loose(P, f) /\ C[P][f] = 0 THEN Return!Untouched[f] ELSE C[P][f]]
      BY <1>1, <1>5, <2>4 DEF Return!Seeded, P
    <3>2. \A f \in Boxes : returnForm'[f] = C[P][f]
      BY <1>3, <3>1
    <3>3. returnForm' \in FormBoxes
      BY <2>2, <2>4, <3>1, <1>3 DEF FormBoxes, Return!Amounts
    <3>4. ASSUME NEW due \in [Return!Parts -> FormBoxes], Due(due) PROVE OnForm(due)'
      <4>1. \A f \in Boxes : Return!Loose(P, f) /\ C[P][f] # 0 => due[P][f] # 0
        BY <2>1, <2>4, <3>4, DueHolds DEF Lasting, C
      <4>2. C' = C /\ focus' = focus
        BY <1>1 DEF C
      <4>3. \A g \in Boxes \ {focus'} :
              /\ Return!Loose(P, g) /\ returnForm'[g] # 0 => due[P][g] # 0
              /\ C # Return!Nothing =>
                   IF Return!Loose(P, g) THEN C[P][g] # 0 => returnForm'[g] # 0
                   ELSE C[P][g] = due[P][g] => returnForm'[g] = due[P][g]
        BY <3>2, <4>1
      <4> QED BY <1>1, <1>5, <4>2, <4>3 DEF OnForm, Filled, P, C
    <3> QED BY <1>1, <1>2, <3>3, <3>4, ReturnAlone, ReadKeeps DEF ks
  <2> QED BY <2>3, <2>4
<1> QED BY <1>4, <1>5

LEMMA RegimeKeeps ==
    ASSUME ReturnSound, NEW r \in Return!Regimes, Return!SetRegime(r)
    PROVE  ReturnSound'
<1>1. /\ returnTab = "itr" /\ regime' = r
      /\ returnReading' = Return!Read(Return!KeysOf(returnTab, r))
      /\ UNCHANGED <<server, returnTab, returnForm, focus, cached, invalid, returnSaves>>
  BY DEF Return!SetRegime
<1>2. "itr" \notin DOMAIN Return!Forms
  BY DEF Return!Forms
<1>3. Return!KeysOf(returnTab, r) \in SUBSET Return!Keys
  BY ReturnAlone, KeysAre
<1>4. \A due \in [Return!Parts -> FormBoxes] : Due(due) => OnForm(due)'
  BY <1>1, <1>2 DEF OnForm
<1> QED BY <1>1, <1>3, <1>4, ReturnAlone, ReadKeeps

LEMMA TypeKeeps ==
    ASSUME ReturnSound, NEW b \in Boxes, NEW v \in Return!Amounts, Return!Type(b, v)
    PROVE  ReturnSound'
<1>1. /\ returnTab = "income" /\ focus \in {"none", b} /\ focus' = b
      /\ returnForm' = [returnForm EXCEPT ![b] = v]
      /\ UNCHANGED <<server, returnTab, regime, cached, invalid, returnReading, returnSaves>>
  BY DEF Return!Type, Return!NoBox
<1>2. returnForm' \in FormBoxes /\ \A g \in Boxes : g # b => returnForm'[g] = returnForm[g]
  BY <1>1, ReturnAlone DEF FormBoxes
<1>3. ReturnTypes'
  BY <1>1, <1>2, ReturnAlone DEF ReturnTypes
<1>4. OneSave' /\ OneBox' /\ FiledOnce'
  BY <1>1 DEF ReturnSound, OneSave, OneBox, FiledOnce
<1>5. Fresh' /\ BeingRead'
  BY <1>1 DEF ReturnSound, Fresh, FreshFor, TakenFor, BeingRead, Return!Shown
<1>6. ASSUME NEW due, Due(due)' PROVE Lasting(due)' /\ OnForm(due)'
  <2>1. Lasting(due) /\ OnForm(due)
    BY <1>1, <1>6, DueStays, DueHolds
  <2>2. Lasting(due)'
    BY <1>1, <2>1 DEF Lasting
  <2>3. OnForm(due)'
    <3>1. \A g \in Boxes \ {b} : g \in Boxes \ {focus} /\ returnForm'[g] = returnForm[g]
      BY <1>1, <1>2, PagesAssumption
    <3> QED BY <1>1, <2>1, <3>1 DEF OnForm, Filled
  <2> QED BY <2>2, <2>3
<1> QED BY <1>3, <1>4, <1>5, <1>6 DEF ReturnSound

----------------------------------------------------------------------------
\* A save goes out: nothing else is under way, and it sets no override of its own to 0.
Sends(s) ==
    /\ returnSaves = {} /\ returnSaves' = {s} /\ SaveSound(s) /\ s.at = "sent"
    /\ \A f \in DOMAIN s.body : Return!Loose(s.part, f) /\ s.body[f] = 0 => server[s.part][f] = 0
    /\ UNCHANGED <<server, returnTab, regime, cached, invalid, returnReading>>

LEMMA SendIs ==
    ASSUME ReturnSound, NEW p \in Return!Parts, NEW body,
           DOMAIN body \subseteq Boxes, \A f \in DOMAIN body : body[f] \in Return!Amounts,
           Return!Save(p, body), mishaps' = {},
           UNCHANGED <<server, returnTab, regime, cached, invalid, returnReading>>
    PROVE  \E s : /\ Sends(s) /\ s.part = p /\ s.body = body
                  /\ s.quiet => \A k \in Return!Shown : returnReading[k] = {}
<1> DEFINE s == [id |-> returnClicks, part |-> p, body |-> body, at |-> "sent",
                 quiet |-> returnSaves = {} /\ \A k \in Return!Shown : returnReading[k] = {}]
<1>1. returnSaves' = returnSaves \union {s}
  BY DEF Return!Save
<1>2. /\ returnSaves = {}
      /\ ~ \E f \in DOMAIN body : Return!Loose(p, f) /\ body[f] = 0 /\ server[p][f] # 0
  BY DEF Return!Save
<1>3. /\ DOMAIN s = {"id", "part", "body", "at", "quiet"}
      /\ s.part = p /\ s.body = body /\ s.at = "sent"
  OBVIOUS
<1>4. s.quiet => \A k \in Return!Shown : returnReading[k] = {}
  OBVIOUS
<1> HIDE DEF s
<1>5. SaveSound(s)
  BY <1>3 DEF SaveSound
<1> QED BY <1>1, <1>2, <1>3, <1>4, <1>5 DEF Sends

\* What holds of it whatever it is.
LEMMA SendKeeps ==
    ASSUME ReturnSound, NEW s, Sends(s), returnForm' \in FormBoxes,
           focus' \in Boxes \union {"none"}, focus' # "none" => returnTab' = "income",
           s.part = "filed" => s.body = [f \in Boxes |-> 1],
           s.quiet /\ s.part \in Return!Overrides =>
             \E g \in Boxes : \A f \in DOMAIN s.body \ {g} : s.body[f] = server[s.part][f],
           Lasting(After(server, s)) => \A due : due = After(server, s) => OnForm(due)'
    PROVE  ReturnSound'
<1> DEFINE d == After(server, s)
<1>1. /\ returnSaves = {} /\ returnSaves' = {s} /\ SaveSound(s) /\ s.at = "sent"
      /\ UNCHANGED <<server, returnTab, regime, cached, invalid, returnReading>>
  BY DEF Sends
<1>2. ReturnTypes'
  BY <1>1, ReturnAlone DEF ReturnTypes
<1>3. OneSave' /\ OneBox' /\ FiledOnce'
  BY <1>1 DEF ReturnSound, OneSave, OneBox, FiledOnce
<1>4. Fresh' /\ BeingRead'
  BY <1>1 DEF ReturnSound, Fresh, FreshFor, TakenFor, BeingRead, Return!Shown
<1>5. Lasting(server)
  BY <1>1, DueHolds DEF Due
<1>6. \A p \in Return!Overrides, f \in Boxes :
        Return!Loose(p, f) /\ server[p][f] # 0 => d[p][f] # 0
  <2> SUFFICES ASSUME NEW p \in Return!Overrides, NEW f \in Boxes,
                      Return!Loose(p, f), server[p][f] # 0
               PROVE  d[p][f] # 0
    OBVIOUS
  <2>1. /\ p # s.part => d[p] = server[p]
        /\ p = s.part => d[p][f] = IF f \in DOMAIN s.body THEN s.body[f] ELSE server[p][f]
    BY <1>1, AfterIs, OverridesAreParts, ReturnAlone
  <2> HIDE DEF d
  <2> QED BY <2>1 DEF Sends
<1>7. Lasting(d)
  <2> HIDE DEF d
  <2> QED BY <1>5, <1>6 DEF Lasting
<1>8. \A due : Due(due)' => due = d
  BY <1>1 DEF Due, After
<1>9. ASSUME NEW due, Due(due)' PROVE Lasting(due)' /\ OnForm(due)'
  <2>1. due = d
    BY <1>8, <1>9
  <2>2. Lasting(due)
    BY <1>7, <2>1
  <2>3. Lasting(due)'
    BY <1>1, <2>2 DEF Lasting
  <2> QED BY <1>7, <2>1, <2>3
<1> QED BY <1>2, <1>3, <1>4, <1>9 DEF ReturnSound

\* The figures on screen at rest are the server's.
LEMMA QuietIsFresh ==
    ASSUME ReturnSound, returnSaves = {}, \A k \in Return!Shown : returnReading[k] = {},
           NEW j \in Return!Shown, j # "itr"
    PROVE  cached[j] # Return!Nothing /\ cached[j] = Return!Figures(j, server)
<1>1. j \in Return!Keys
  BY ReturnAlone, KeysAre DEF Return!Shown
<1>2. cached[j] # Return!Nothing /\ j \notin invalid
  BY DEF ReturnSound, BeingRead
<1>3. ~TakenFor(j)
  BY DEF TakenFor
<1> QED BY <1>1, <1>2, <1>3 DEF ReturnSound, Fresh, FreshFor

LEMMA FormAtRest ==
    ASSUME ReturnSound, returnSaves = {}, \A k \in Return!Shown : returnReading[k] = {},
           returnTab \in DOMAIN Return!Forms
    PROVE  \A g \in Boxes \ {focus} :
             returnForm[g] = server[Return!Forms[returnTab]][g]
<1>1. LET k == Return!Source(returnTab, regime)
      IN  cached[k] # Return!Nothing /\ cached[k] = Return!Figures(k, server)
  BY ReturnAlone, SourceOf, QuietIsFresh DEF Return!Shown
<1>2. Due(server)
  BY DEF Due
<1> QED BY <1>1, <1>2, FormIsServer

LEMMA BlurKeeps ==
    ASSUME ReturnSound, Return!Blur, mishaps' = {}
    PROVE  ReturnSound'
<1> DEFINE D == IF focus \in Scalars THEN {focus} ELSE Boxes \ Scalars
           body == Return!Restrict(returnForm, D)
           C == cached[Return!Source("income", regime)]
<1>1. /\ focus # "none" /\ focus' = "none" /\ Return!Save("business", body)
      /\ UNCHANGED <<server, returnTab, regime, returnForm, cached, invalid, returnReading>>
  BY DEF Return!Blur, Return!NoBox
<1>2. returnTab = "income" /\ focus \in Boxes
  BY <1>1, ReturnAlone
<1>3. D \subseteq Boxes
  BY <1>2
<1>4. DOMAIN body = D /\ \A f \in D : body[f] = returnForm[f]
  BY DEF Return!Restrict
<1>5. \A f \in D : body[f] \in Return!Amounts
  BY <1>3, <1>4, ReturnAlone DEF FormBoxes
<1>6. "business" \in Return!Parts /\ "business" \in Return!Overrides
  BY DEF Return!Parts, Return!Overrides
<1>7. PICK s : /\ Sends(s) /\ s.part = "business" /\ s.body = body
               /\ s.quiet => \A k \in Return!Shown : returnReading[k] = {}
  <2> HIDE DEF D, body
  <2> QED BY <1>1, <1>3, <1>4, <1>5, <1>6, SendIs
<1>8. "income" \in DOMAIN Return!Forms /\ Return!Forms["income"] = "business"
  BY DEF Return!Forms
<1>9. s.quiet => \A f \in DOMAIN s.body \ {focus} : s.body[f] = server["business"][f]
  <2> HIDE DEF body, D
  <2> QED BY <1>2, <1>3, <1>4, <1>7, <1>8, FormAtRest DEF Sends
<1>10. ASSUME Lasting(After(server, s)), NEW due, due = After(server, s)
       PROVE  OnForm(due)'
  <2>1. Filled("business", C, server)
    BY <1>2, <1>7, <1>8, DueHolds DEF OnForm, Sends, Due
  <2>2. \A g \in Boxes :
          due["business"][g] = IF g \in D THEN returnForm[g] ELSE server["business"][g]
    <3> HIDE DEF D, body
    <3> QED BY <1>4, <1>7, <1>10, AfterIs, ReturnAlone DEF Sends
  <2>3. \A g \in Boxes : Return!Loose("business", g) <=> g \in Scalars
    BY DEF Return!Loose
  <2>4. \A g \in Boxes : Return!Loose("business", g) =>
          /\ server["business"][g] # 0 => due["business"][g] # 0
          /\ C # Return!Nothing /\ C["business"][g] # 0 => due["business"][g] # 0
    <3>1. /\ "business" \in Return!Depends(Return!Source("income", regime))
          /\ Return!Source("income", regime) \in Return!Keys
      BY <1>8, SourceOf, ReturnAlone
    <3> HIDE DEF C
    <3> QED BY <1>6, <1>10, <3>1 DEF Lasting, C
  <2> HIDE DEF C
  <2>5. ASSUME NEW g \in Boxes
        PROVE  /\ Return!Loose("business", g) /\ returnForm[g] # 0 => due["business"][g] # 0
               /\ C # Return!Nothing =>
                    IF Return!Loose("business", g)
                    THEN C["business"][g] # 0 => returnForm[g] # 0
                    ELSE C["business"][g] = due["business"][g] =>
                           returnForm[g] = due["business"][g]
    <3>1. CASE g # focus
      BY <2>1, <2>2, <2>3, <2>4, <3>1 DEF Filled
    <3>2. CASE g = focus
      BY <2>2, <2>3, <2>4, <3>2
    <3> QED BY <3>1, <3>2
  <2>6. returnTab' = "income" /\ returnForm' = returnForm /\ C' = C
    BY <1>1, <1>2 DEF C
  <2> QED BY <1>8, <2>5, <2>6 DEF OnForm, Filled, C
<1>11. focus' \in Boxes \union {"none"} /\ ~(focus' # "none") /\ returnForm' \in FormBoxes
  BY <1>1, ReturnAlone
<1>12. s.part # "filed"
  BY <1>7
<1> HIDE DEF D, body, C
<1> QED BY <1>2, <1>7, <1>9, <1>10, <1>11, <1>12, SendKeeps

LEMMA EditKeeps ==
    ASSUME ReturnSound, NEW b \in Boxes, NEW v \in Return!Amounts,
           Return!Edit(b, v), mishaps' = {}
    PROVE  ReturnSound'
<1> DEFINE P == Return!Forms[returnTab]
           k == Return!Source(returnTab, regime)
           new == [returnForm EXCEPT ![b] = v]
<1>1. /\ returnTab \in {"savings", "gains"}
      /\ returnForm' = new /\ Return!Save(P, new)
      /\ UNCHANGED <<server, returnTab, regime, focus, cached, invalid, returnReading>>
  BY DEF Return!Edit
<1>2. returnTab \in DOMAIN Return!Forms
  BY <1>1 DEF Return!Forms
<1>3. /\ P \in Return!Depends(k) /\ k \in Return!Keys
      /\ P \in Return!Overrides /\ P \in Return!Parts /\ P # "filed"
  BY <1>2, ReturnAlone, SourceOf, OverridesAreParts DEF Return!Overrides
<1>4. /\ new \in FormBoxes /\ DOMAIN new = Boxes
      /\ \A g \in Boxes : new[g] \in Return!Amounts
      /\ \A g \in Boxes : g # b => new[g] = returnForm[g]
  BY ReturnAlone DEF FormBoxes
<1>5. focus = "none"
  BY <1>1, ReturnAlone
<1> HIDE DEF P, k, new
<1>6. PICK s : /\ Sends(s) /\ s.part = P /\ s.body = new
               /\ s.quiet => \A j \in Return!Shown : returnReading[j] = {}
  BY <1>1, <1>3, <1>4, SendIs
<1>7. s.quiet => \A g \in DOMAIN s.body \ {b} : s.body[g] = server[P][g]
  BY <1>2, <1>4, <1>5, <1>6, PagesAssumption, FormAtRest DEF Sends, P
<1>8. ASSUME Lasting(After(server, s)), NEW due, due = After(server, s)
      PROVE  OnForm(due)'
  <2>1. \A g \in Boxes : due[P][g] = new[g]
    BY <1>4, <1>6, <1>8, AfterIs, ReturnAlone DEF Sends
  <2>2. \A g \in Boxes : Return!Loose(P, g) =>
          (cached[k] # Return!Nothing /\ cached[k][P][g] # 0 => due[P][g] # 0)
    BY <1>3, <1>8 DEF Lasting
  <2>3. returnTab' = returnTab /\ cached' = cached /\ regime' = regime
    BY <1>1
  <2>4. Return!Forms[returnTab'] = P /\ cached'[Return!Source(returnTab', regime')] = cached[k]
    BY <2>3 DEF P, k
  <2> QED BY <1>1, <2>1, <2>2, <2>4 DEF OnForm, Filled
<1>9. focus' \in Boxes \union {"none"} /\ focus' = "none" /\ returnForm' \in FormBoxes
  BY <1>1, <1>4, <1>5
<1> QED BY <1>3, <1>6, <1>7, <1>8, <1>9, SendKeeps

\* What is not of the form on screen.
LEMMA OtherSaveKeeps ==
    ASSUME ReturnSound, mishaps' = {},
           \/ \E b \in Boxes, v \in Return!Amounts : Return!HandleSaveCost(b, v)
           \/ Return!ReconcileBrokerFile \/ Return!UploadITR
    PROVE  ReturnSound'
<1>1. PICK p \in {"trades", "filed"} : \E body :
        /\ Return!Save(p, body)
        /\ DOMAIN body \subseteq Boxes /\ \A f \in DOMAIN body : body[f] \in Return!Amounts
        /\ p = "filed" => body = [f \in Boxes |-> 1]
        /\ UNCHANGED <<server, returnTab, regime, returnForm, focus, cached, invalid,
                       returnReading>>
  <2>1. ASSUME NEW b \in Boxes, NEW v \in Return!Amounts, Return!HandleSaveCost(b, v)
        PROVE  \E p \in {"trades", "filed"} : \E body :
                 /\ Return!Save(p, body)
                 /\ DOMAIN body \subseteq Boxes
                 /\ \A f \in DOMAIN body : body[f] \in Return!Amounts
                 /\ p = "filed" => body = [f \in Boxes |-> 1]
                 /\ UNCHANGED <<server, returnTab, regime, returnForm, focus, cached,
                                invalid, returnReading>>
    <3> DEFINE one == [x \in {b} |-> v]
    <3>1. DOMAIN one = {b} /\ \A f \in {b} : one[f] = v
      OBVIOUS
    <3>2. /\ Return!Save("trades", one)
          /\ UNCHANGED <<server, returnTab, regime, returnForm, focus, cached, invalid,
                         returnReading>>
      BY <2>1 DEF Return!HandleSaveCost
    <3> HIDE DEF one
    <3> QED BY <3>1, <3>2
  <2>2. CASE Return!ReconcileBrokerFile \/ Return!UploadITR
    <3> DEFINE all == [f \in Boxes |-> 1]
    <3>1. /\ DOMAIN all = Boxes /\ \A f \in Boxes : all[f] \in Return!Amounts
          /\ all = [f \in Boxes |-> 1]
      BY DEF Return!Amounts
    <3>2. /\ \E p \in {"trades", "filed"} : Return!Save(p, all)
          /\ UNCHANGED <<server, returnTab, regime, returnForm, focus, cached, invalid,
                         returnReading>>
      BY <2>2 DEF Return!ReconcileBrokerFile, Return!UploadITR
    <3> HIDE DEF all
    <3> QED BY <3>1, <3>2
  <2> QED BY <2>1, <2>2
<1>2. p \in Return!Parts /\ p \notin Return!Overrides
  BY DEF Return!Parts, Return!Overrides
<1>3. PICK s : Sends(s) /\ s.part = p /\ (p = "filed" => s.body = [f \in Boxes |-> 1])
  BY <1>1, <1>2, SendIs
<1>4. ASSUME NEW due, due = After(server, s) PROVE OnForm(due)'
  <2>1. \A P \in Return!Overrides : due[P] = server[P]
    BY <1>2, <1>3, <1>4, AfterIs, ReturnAlone, OverridesAreParts DEF Sends
  <2>2. OnForm(server)
    BY <1>3, DueHolds DEF Sends, Due
  <2>3. returnTab \in DOMAIN Return!Forms => Return!Forms[returnTab] \in Return!Overrides
    BY ReturnAlone, SourceOf
  <2> QED BY <1>1, <2>1, <2>2, <2>3 DEF OnForm, Filled
<1> QED BY <1>1, <1>2, <1>3, <1>4, ReturnAlone, SendKeeps

----------------------------------------------------------------------------
\* The answers.

\* A save changes no figures but those it invalidates.
LEMMA Elsewhere ==
    ASSUME NEW k \in Return!Keys, NEW p \in Return!Parts, k \notin Return!Invalidates(p)
    PROVE  p \notin Return!Depends(k)
BY DependsOn DEF Return!Invalidates, Return!Keys, Return!Parts

LEMMA SameFigures ==
    ASSUME NEW k \in Return!Keys, NEW sv \in [Return!Parts -> FormBoxes],
           NEW sw \in [Return!Parts -> FormBoxes],
           \A p \in Return!Depends(k) : sv[p] = sw[p]
    PROVE  Return!Figures(k, sv) = Return!Figures(k, sw)
BY DEF Return!Figures, Return!Restrict

LEMMA TakeKeeps ==
    ASSUME ReturnSound, NEW s \in returnSaves, Return!Take(s)
    PROVE  ReturnSound'
<1> DEFINE y == [s EXCEPT !.at = "taken"]
           d == After(server, s)
<1>1. /\ s.at = "sent" /\ server' = d
      /\ returnSaves' = (returnSaves \ {s}) \union {y}
      /\ returnReading' = [k \in Return!Keys |->
                             IF returnReading[k] = {} THEN {}
                             ELSE returnReading[k] \union {Return!Figures(k, server')}]
      /\ UNCHANGED <<returnTab, regime, returnForm, focus, cached, invalid>>
  BY DEF Return!Take, After
<1>2. SaveSound(s) /\ \A x \in returnSaves : x = s
  BY ReturnAlone
<1>3. /\ d \in [Return!Parts -> FormBoxes]
      /\ \A p \in Return!Parts : p # s.part => d[p] = server[p]
      /\ \A f \in Boxes : d[s.part][f]
           = IF f \in DOMAIN s.body THEN s.body[f] ELSE server[s.part][f]
  BY <1>2, AfterIs, ReturnAlone
<1>4. Due(d)
  BY <1>1 DEF Due
<1>5. /\ SaveSound(y) /\ y.at = "taken" /\ y.part = s.part /\ y.body = s.body
  BY <1>2 DEF SaveSound
<1>6. returnSaves' = {y}
  BY <1>1, <1>2
<1> HIDE DEF y, d
<1>7. \A k \in Return!Keys :
        /\ Return!Figures(k, d) \in Sheet(k)
        /\ \A p \in Return!Depends(k) : Return!Figures(k, d)[p] = d[p]
  BY <1>3, FiguresAre
<1>8. /\ DOMAIN returnReading' = Return!Keys
      /\ \A k \in Return!Keys :
           /\ returnReading'[k] \subseteq returnReading[k] \union {Return!Figures(k, d)}
           /\ returnReading[k] # {} => returnReading'[k] # {}
           /\ returnReading[k] = {} => returnReading'[k] = {}
  BY <1>1
<1>9. ReturnTypes'
  <2>1. \A k \in Return!Keys : returnReading'[k] \subseteq Sheet(k)
    BY <1>7, <1>8, ReturnAlone
  <2> QED BY <1>1, <1>3, <1>5, <1>6, <1>8, <2>1, ReturnAlone DEF ReturnTypes
<1>10. OneSave' /\ OneBox'
  BY <1>1, <1>5, <1>6 DEF ReturnSound, OneSave, OneBox
<1>11. ~ \E k : TakenFor(k)
  BY <1>1, <1>2 DEF TakenFor
<1>12. \A k : k \in Return!Invalidates(s.part) => TakenFor(k)'
  BY <1>5, <1>6 DEF TakenFor
<1>13. s.part \in Return!Parts
  BY <1>2 DEF SaveSound
<1>14. Fresh'
  <2> SUFFICES ASSUME NEW k \in Return!Keys, ~TakenFor(k)' PROVE FreshFor(k)'
    BY DEF Fresh
  <2>1. s.part \notin Return!Depends(k)
    BY <1>12, <1>13, Elsewhere
  <2>2. \A p \in Return!Depends(k) : d[p] = server[p]
    BY <1>3, <2>1, DependsOn
  <2>3. Return!Figures(k, server) = Return!Figures(k, d)
    BY <1>3, <2>2, SameFigures, ReturnAlone
  <2>4. FreshFor(k)
    BY <1>11 DEF ReturnSound, Fresh
  <2> QED BY <1>1, <1>8, <2>3, <2>4 DEF FreshFor
<1>15. "filed" \in Return!Parts /\ "itr" \in Return!Keys
  BY KeysAre DEF Return!Parts
<1>16. BeingRead'
  <2> SUFFICES ASSUME NEW k \in Return!Shown
               PROVE  \/ returnReading'[k] # {}
                      \/ cached[k] # Return!Nothing /\ k \notin invalid
                      \/ /\ k = "itr" /\ cached[k] = Return!Nothing
                         /\ server'["filed"] = Return!Untouched \/ TakenFor(k)'
    BY <1>1 DEF BeingRead, Return!Shown
  <2>1. k \in Return!Keys
    BY ReturnAlone, KeysAre DEF Return!Shown
  <2>2. s.part = "filed" => TakenFor("itr")'
    BY <1>12 DEF Return!Invalidates
  <2>3. s.part # "filed" => server'["filed"] = server["filed"]
    BY <1>1, <1>3, <1>15
  <2> QED BY <1>8, <1>11, <2>1, <2>2, <2>3 DEF ReturnSound, BeingRead
<1>17. FiledOnce'
  <2>1. \A x \in returnReading'["itr"] :
          x \in returnReading["itr"] \/ x["filed"] = server'["filed"]
    BY <1>1, <1>7, <1>8, <1>15, DependsOn
  <2>2. CASE s.part = "filed"
    <3>1. PICK f \in Boxes : TRUE
      BY PagesAssumption
    <3>2. s.body = [g \in Boxes |-> 1]
      BY <2>2 DEF ReturnSound, FiledOnce
    <3>3. d["filed"][f] = 1
      BY <1>3, <2>2, <3>2
    <3>4. d["filed"] # Return!Untouched
      BY <3>3 DEF Return!Untouched
    <3> QED BY <1>1, <1>5, <1>6, <2>1, <3>2, <3>4 DEF ReturnSound, FiledOnce
  <2>3. CASE s.part # "filed"
    <3>1. server'["filed"] = server["filed"]
      BY <1>1, <1>3, <1>15, <2>3
    <3> QED BY <1>1, <1>5, <1>6, <2>1, <2>3, <3>1 DEF ReturnSound, FiledOnce
  <2> QED BY <2>2, <2>3
<1>18. ASSUME NEW due, Due(due)' PROVE Lasting(due)' /\ OnForm(due)'
  <2>1. due = d
    BY <1>1, <1>5, <1>6, <1>18 DEF Due
  <2>2. Lasting(d) /\ OnForm(d)
    BY <1>4, DueHolds
  <2>3. Lasting(due)'
    BY <1>1, <1>7, <1>8, <2>1, <2>2 DEF Lasting
  <2>4. OnForm(due)'
    BY <1>1, <2>1, <2>2 DEF OnForm, Filled
  <2> QED BY <2>3, <2>4
<1> QED BY <1>9, <1>10, <1>14, <1>16, <1>17, <1>18 DEF ReturnSound

LEMMA SucceedKeeps ==
    ASSUME ReturnSound, NEW s \in returnSaves, Return!Succeed(s), mishaps = {}, mishaps' = {}
    PROVE  ReturnSound'
<1> DEFINE ks == Return!Invalidates(s.part)
           restarted == {k \in ks \intersect Return!Shown :
                           returnReading[k] = {} \/ cached[k] # Return!Nothing}
<1>1. /\ s.at = "taken" /\ returnSaves' = returnSaves \ {s}
      /\ invalid' = invalid \union {k \in ks : cached[k] # Return!Nothing}
      /\ returnReading' = [k \in Return!Keys |->
                             IF k \in restarted THEN {Return!Figures(k, server)}
                             ELSE returnReading[k]]
      /\ UNCHANGED <<server, returnTab, regime, returnForm, focus, cached>>
  BY DEF Return!Succeed
<1>2. \A k \in ks \ restarted : returnReading[k] = {}
  BY DEF Return!Succeed
<1>3. \A k : k \in restarted <=> /\ k \in ks /\ k \in Return!Shown
                                 /\ returnReading[k] = {} \/ cached[k] # Return!Nothing
  OBVIOUS
<1> HIDE DEF restarted
<1>4. \A x \in returnSaves : x = s
  BY ReturnAlone
<1>5. returnSaves' = {}
  BY <1>1, <1>4
<1>6. Due(server)
  BY <1>1, <1>4 DEF Due
<1>7. \A k \in Return!Keys :
        /\ Return!Figures(k, server) \in Sheet(k)
        /\ \A p \in Return!Depends(k) : Return!Figures(k, server)[p] = server[p]
  BY FiguresAre, ReturnAlone
<1>8. /\ DOMAIN returnReading' = Return!Keys
      /\ \A k \in Return!Keys :
           returnReading'[k] = IF k \in restarted THEN {Return!Figures(k, server)}
                               ELSE returnReading[k]
  BY <1>1
<1>9. \A k : k \in ks <=> TakenFor(k)
  BY <1>1, <1>4 DEF TakenFor
<1>10. \A k : ~TakenFor(k)'
  BY <1>5 DEF TakenFor
<1>11. \A k : k \in invalid' <=> k \in invalid \/ (k \in ks /\ cached[k] # Return!Nothing)
  BY <1>1
<1> HIDE DEF ks
<1>12. ReturnTypes'
  BY <1>1, <1>5, <1>7, <1>8, ReturnAlone DEF ReturnTypes
<1>13. OneSave' /\ OneBox'
  BY <1>1, <1>5 DEF ReturnSound, OneSave, OneBox
<1>14. Fresh'
  <2> SUFFICES ASSUME NEW k \in Return!Keys PROVE FreshFor(k)'
    BY DEF Fresh
  <2>1. CASE k \in ks
    BY <1>1, <1>2, <1>8, <1>11, <2>1 DEF FreshFor
  <2>2. CASE k \notin ks
    <3>1. FreshFor(k)
      BY <1>9, <2>2 DEF ReturnSound, Fresh
    <3> QED BY <1>1, <1>3, <1>8, <1>11, <2>2, <3>1 DEF FreshFor
  <2> QED BY <2>1, <2>2
<1>15. BeingRead'
  <2> SUFFICES ASSUME NEW k \in Return!Shown
               PROVE  \/ returnReading'[k] # {}
                      \/ cached[k] # Return!Nothing /\ k \notin invalid'
                      \/ /\ k = "itr" /\ cached[k] = Return!Nothing
                         /\ server["filed"] = Return!Untouched
    BY <1>1 DEF BeingRead, Return!Shown
  <2>1. k \in Return!Keys
    BY ReturnAlone, KeysAre DEF Return!Shown
  <2>2. CASE k \in ks
    BY <1>2, <1>3, <1>8, <2>1, <2>2
  <2>3. CASE k \notin ks
    BY <1>3, <1>8, <1>9, <1>11, <2>1, <2>3 DEF ReturnSound, BeingRead
  <2> QED BY <2>2, <2>3
<1>16. FiledOnce'
  <2>1. \A x \in returnReading'["itr"] :
          x \in returnReading["itr"] \/ x["filed"] = server["filed"]
    BY <1>7, <1>8, KeysAre, DependsOn
  <2> QED BY <1>1, <1>5, <2>1 DEF ReturnSound, FiledOnce
<1>17. ASSUME NEW due, Due(due)' PROVE Lasting(due)' /\ OnForm(due)'
  <2>1. due = server
    BY <1>1, <1>5, <1>17 DEF Due
  <2>2. Lasting(server) /\ OnForm(server)
    BY <1>6, DueHolds
  <2>3. Lasting(due)'
    BY <1>1, <1>7, <1>8, <2>1, <2>2 DEF Lasting
  <2>4. OnForm(due)'
    BY <1>1, <2>1, <2>2 DEF OnForm, Filled
  <2> QED BY <2>3, <2>4
<1> QED BY <1>12, <1>13, <1>14, <1>15, <1>16, <1>17 DEF ReturnSound

LEMMA AnswerKeeps ==
    ASSUME ReturnSound, NEW j \in Return!Keys, NEW x \in returnReading[j], Return!Answer(j, x)
    PROVE  ReturnSound'
<1> DEFINE k == Return!Source(returnTab, regime)
           filled == j = k /\ Return!Entered(x) # Return!Entered(cached[j])
<1>1. /\ ~(j = "itr" /\ x["filed"] = Return!Untouched)
      /\ cached' = [cached EXCEPT ![j] = x] /\ invalid' = invalid \ {j}
      /\ returnReading' = [returnReading EXCEPT ![j] = {}]
      /\ returnForm' = IF filled THEN Return!Seeded(returnTab, x, returnForm) ELSE returnForm
      /\ UNCHANGED <<server, returnTab, regime, focus, returnSaves>>
  BY DEF Return!Answer
<1> HIDE DEF filled, k
<1>2. x \in Sheet(j) /\ x # Return!Nothing
  BY ReturnAlone, SheetIsSome
<1>3. /\ DOMAIN cached' = Return!Keys /\ DOMAIN returnReading' = Return!Keys
      /\ \A i \in Return!Keys :
           /\ cached'[i] = IF i = j THEN x ELSE cached[i]
           /\ returnReading'[i] = IF i = j THEN {} ELSE returnReading[i]
  BY <1>1, ReturnAlone
<1>4. \A due : Due(due)' => Due(due)
  BY <1>1, DueStays
<1>5. /\ returnForm' \in FormBoxes
      /\ \A due : Due(due) => OnForm(due)'
  <2>1. CASE returnTab \notin DOMAIN Return!Forms
    <3>1. returnForm' = returnForm
      BY <1>1, <2>1 DEF Return!Seeded
    <3> QED BY <1>1, <2>1, <3>1, ReturnAlone DEF OnForm
  <2>2. CASE returnTab \in DOMAIN Return!Forms
    <3> DEFINE P == Return!Forms[returnTab]
    <3>1. P \in Return!Depends(k) /\ P \in Return!Overrides /\ k \in Return!Keys
      BY <2>2, ReturnAlone, SourceOf DEF k
    <3> HIDE DEF P
    <3>2. \A due : Due(due) => Filled(P, cached[k], due)
      BY <2>2, DueHolds DEF OnForm, P, k
    <3> DEFINE Refilled(C, due) ==
                 \A g \in Boxes \ {focus} :
                   /\ Return!Loose(P, g) /\ returnForm'[g] # 0 => due[P][g] # 0
                   /\ C # Return!Nothing =>
                        IF Return!Loose(P, g) THEN C[P][g] # 0 => returnForm'[g] # 0
                        ELSE C[P][g] = due[P][g] => returnForm'[g] = due[P][g]
    <3>3. ASSUME NEW due, Refilled(cached'[k], due) PROVE OnForm(due)'
      BY <1>1, <3>3 DEF OnForm, Filled, P, k
    <3>4. CASE ~filled /\ j # k
      <4>1. returnForm' = returnForm /\ cached'[k] = cached[k]
        BY <1>1, <1>3, <3>1, <3>4
      <4>2. \A due : Filled(P, cached[k], due) => Refilled(cached'[k], due)
        BY <1>1, <4>1 DEF Filled
      <4> QED BY <3>2, <3>3, <4>1, <4>2, ReturnAlone
    <3>5. CASE ~filled /\ j = k
      <4>1. returnForm' = returnForm /\ cached'[k] = x
        BY <1>1, <1>3, <3>1, <3>5
      <4>2. Return!Entered(x) = Return!Entered(cached[k])
        BY <3>5 DEF filled
      <4>3. P \in DOMAIN x
        BY <1>2, <3>1, <3>5 DEF Sheet
      <4>4. Return!Entered(x) # Return!Nothing
        <5>1. P \in DOMAIN Return!Entered(x)
          BY <1>2, <3>1, <4>3 DEF Return!Entered, Return!Restrict
        <5>2. DOMAIN Return!Nothing = {}
          BY DEF Return!Nothing
        <5> QED BY <5>1, <5>2
      <4>5. cached[k] # Return!Nothing
        BY <4>2, <4>4 DEF Return!Entered
      <4>6. P \in DOMAIN cached[k]
        BY <3>1, <4>5, ReturnAlone DEF Sheet
      <4>7. cached[k][P] = x[P]
        <5>1. /\ Return!Entered(x)[P] = x[P]
              /\ Return!Entered(cached[k])[P] = cached[k][P]
          BY <1>2, <3>1, <4>3, <4>5, <4>6 DEF Return!Entered, Return!Restrict
        <5> QED BY <4>2, <5>1
      <4>8. \A due : Filled(P, cached[k], due) => Refilled(cached'[k], due)
        BY <1>1, <1>2, <4>1, <4>5, <4>7 DEF Filled
      <4> QED BY <3>2, <3>3, <4>1, <4>8, ReturnAlone
    <3>6. CASE filled
      <4>1. j = k /\ cached'[k] = x
        BY <1>3, <3>1, <3>6 DEF filled
      <4>2. returnForm' = [f \in Boxes |->
              IF Return!Loose(P, f) /\ x[P][f] = 0 THEN returnForm[f] ELSE x[P][f]]
        BY <1>1, <1>2, <2>2, <3>6 DEF Return!Seeded, P
      <4>3. x[P] \in FormBoxes
        BY <1>2, <3>1, <4>1 DEF Sheet
      <4>4. returnForm' \in FormBoxes
        BY <4>2, <4>3, ReturnAlone DEF FormBoxes
      <4>5. \A f \in Boxes : returnForm'[f] =
              IF Return!Loose(P, f) /\ x[P][f] = 0 THEN returnForm[f] ELSE x[P][f]
        BY <4>2
      <4>6. ASSUME NEW due, Due(due) PROVE OnForm(due)'
        <5>1. \A g \in Boxes : Return!Loose(P, g) /\ x[P][g] # 0 => due[P][g] # 0
          BY <3>1, <4>1, <4>6, DueHolds DEF Lasting
        <5>2. \A g \in Boxes \ {focus} :
                Return!Loose(P, g) /\ returnForm[g] # 0 => due[P][g] # 0
          BY <3>2, <4>6 DEF Filled
        <5>3. \A g \in Boxes \ {focus} :
                /\ Return!Loose(P, g) /\ returnForm'[g] # 0 => due[P][g] # 0
                /\ IF Return!Loose(P, g) THEN x[P][g] # 0 => returnForm'[g] # 0
                   ELSE x[P][g] = due[P][g] => returnForm'[g] = due[P][g]
          BY <4>5, <5>1, <5>2
        <5>4. Refilled(cached'[k], due)
          BY <1>1, <4>1, <5>3 DEF Filled
        <5> QED BY <3>3, <5>4
      <4> QED BY <4>4, <4>6
    <3> QED BY <3>4, <3>5, <3>6
  <2> QED BY <2>1, <2>2
<1>6. ReturnTypes'
  BY <1>1, <1>2, <1>3, <1>5, ReturnAlone DEF ReturnTypes
<1>7. OneSave' /\ OneBox'
  BY <1>1 DEF ReturnSound, OneSave, OneBox
<1>8. Fresh'
  <2>1. \A i : TakenFor(i)' <=> TakenFor(i)
    BY <1>1 DEF TakenFor
  <2>2. ASSUME NEW i \in Return!Keys, ~TakenFor(i) PROVE FreshFor(i)'
    <3>1. FreshFor(i)
      BY <2>2 DEF ReturnSound, Fresh
    <3> QED BY <1>1, <1>3, <3>1 DEF FreshFor
  <2> QED BY <2>1, <2>2 DEF Fresh
<1>9. BeingRead'
  <2> SUFFICES ASSUME NEW i \in Return!Shown
               PROVE  \/ returnReading'[i] # {}
                      \/ cached'[i] # Return!Nothing /\ i \notin invalid'
                      \/ /\ i = "itr" /\ cached'[i] = Return!Nothing
                         /\ server["filed"] = Return!Untouched \/ TakenFor(i)
    BY <1>1 DEF BeingRead, Return!Shown, TakenFor
  <2>1. i \in Return!Keys
    BY ReturnAlone, KeysAre DEF Return!Shown
  <2> QED BY <1>1, <1>2, <1>3, <2>1 DEF ReturnSound, BeingRead
<1>10. FiledOnce'
  BY <1>1, <1>3, KeysAre DEF ReturnSound, FiledOnce
<1>11. ASSUME NEW due, Due(due)' PROVE Lasting(due)'
  <2>1. Lasting(due)
    BY <1>4, <1>11, DueHolds
  <2> QED BY <1>1, <1>3, <2>1 DEF Lasting
<1> QED BY <1>4, <1>5, <1>6, <1>7, <1>8, <1>9, <1>10, <1>11 DEF ReturnSound

LEMMA NotFiledKeeps ==
    ASSUME ReturnSound, Return!NotFiled
    PROVE  ReturnSound'
<1>1. PICK x \in returnReading["itr"] : x["filed"] = Return!Untouched
  BY DEF Return!NotFiled
<1>2. /\ returnReading' = [returnReading EXCEPT !["itr"] = {}]
      /\ UNCHANGED <<server, returnTab, regime, returnForm, focus, cached, invalid,
                     returnSaves>>
  BY DEF Return!NotFiled
<1>3. /\ DOMAIN returnReading' = Return!Keys
      /\ \A i \in Return!Keys :
           returnReading'[i] = IF i = "itr" THEN {} ELSE returnReading[i]
  BY <1>2, ReturnAlone
<1>4. ReturnTypes'
  BY <1>2, <1>3, ReturnAlone DEF ReturnTypes
<1>5. OneSave' /\ OneBox'
  BY <1>2 DEF ReturnSound, OneSave, OneBox
<1>6. \A i : TakenFor(i)' <=> TakenFor(i)
  BY <1>2 DEF TakenFor
<1>7. Fresh'
  BY <1>2, <1>3, <1>6 DEF ReturnSound, Fresh, FreshFor
<1>8. cached["itr"] = Return!Nothing
  BY <1>1 DEF ReturnSound, FiledOnce
<1>9. server["filed"] = Return!Untouched \/ TakenFor("itr")
  <2>1. Return!Figures("itr", server)["filed"] = server["filed"]
    BY KeysAre, DependsOn, FiguresAre, ReturnAlone
  <2> QED BY <1>1, <2>1, KeysAre DEF ReturnSound, Fresh, FreshFor
<1>10. BeingRead'
  <2> SUFFICES ASSUME NEW i \in Return!Shown
               PROVE  \/ returnReading'[i] # {}
                      \/ cached[i] # Return!Nothing /\ i \notin invalid
                      \/ /\ i = "itr" /\ cached[i] = Return!Nothing
                         /\ server["filed"] = Return!Untouched \/ TakenFor(i)
    BY <1>2 DEF BeingRead, Return!Shown, TakenFor
  <2>1. i \in Return!Keys
    BY ReturnAlone, KeysAre DEF Return!Shown
  <2> QED BY <1>3, <1>8, <1>9, <2>1 DEF ReturnSound, BeingRead
<1>11. FiledOnce'
  BY <1>2, <1>3, KeysAre DEF ReturnSound, FiledOnce
<1>12. ASSUME NEW due, Due(due)' PROVE Lasting(due)' /\ OnForm(due)'
  <2>1. Lasting(due) /\ OnForm(due)
    BY <1>2, <1>12, DueStays, DueHolds
  <2>2. Lasting(due)'
    BY <1>2, <1>3, <2>1 DEF Lasting
  <2>3. OnForm(due)'
    BY <1>2, <2>1 DEF OnForm, Filled
  <2> QED BY <2>2, <2>3
<1> QED BY <1>4, <1>5, <1>7, <1>10, <1>11, <1>12 DEF ReturnSound

LEMMA StillKeeps ==
    ASSUME ReturnSound, UNCHANGED filingVars
    PROVE  ReturnSound'
<1>1. /\ UNCHANGED <<server, returnTab, regime, returnForm, focus, cached, invalid>>
      /\ UNCHANGED <<returnReading, returnSaves>>
  BY DEF filingVars
<1>2. ReturnTypes' /\ OneSave' /\ OneBox' /\ FiledOnce'
  BY <1>1 DEF ReturnSound, ReturnTypes, OneSave, OneBox, FiledOnce
<1>3. Fresh' /\ BeingRead'
  BY <1>1 DEF ReturnSound, Fresh, FreshFor, TakenFor, BeingRead, Return!Shown
<1>4. ASSUME NEW due, Due(due)' PROVE Lasting(due)' /\ OnForm(due)'
  <2>1. Lasting(due) /\ OnForm(due)
    BY <1>1, <1>4, DueStays, DueHolds
  <2> QED BY <1>1, <2>1 DEF Lasting, OnForm, Filled
<1> QED BY <1>2, <1>3, <1>4 DEF ReturnSound

LEMMA ReturnStarts == Init => ReturnInv
<1> SUFFICES ASSUME Init PROVE ReturnSound
  BY DEF ReturnInv
<1>1. /\ server = [p \in Return!Parts |->
                     [f \in Boxes |-> IF p \in Return!Overrides THEN 1 ELSE 0]]
      /\ returnTab = "overview" /\ regime = "new"
      /\ returnForm = Return!Untouched /\ focus = "none"
      /\ cached = [k \in Return!Keys |-> Return!Nothing] /\ invalid = {}
      /\ returnReading = [k \in Return!Keys |->
           IF k \in Return!Shown THEN {Return!Figures(k, server)} ELSE {}]
      /\ returnSaves = {}
  BY DEF Init, Return!Init, Return!NoBox
<1>2. server \in [Return!Parts -> FormBoxes]
  BY <1>1 DEF FormBoxes, Return!Amounts
<1>3. \A k \in Return!Keys :
        /\ Return!Figures(k, server) \in Sheet(k)
        /\ \A p \in Return!Depends(k) : Return!Figures(k, server)[p] = server[p]
  BY <1>2, FiguresAre
<1>4. /\ DOMAIN cached = Return!Keys /\ DOMAIN returnReading = Return!Keys
      /\ \A k \in Return!Keys :
           /\ cached[k] = Return!Nothing
           /\ returnReading[k] \subseteq {Return!Figures(k, server)}
           /\ k \in Return!Shown => returnReading[k] # {}
  BY <1>1
<1>5. returnTab \in Return!Tabs /\ regime \in Return!Regimes
  BY <1>1 DEF Return!Tabs, Return!Regimes
<1>6. returnForm \in FormBoxes
  BY <1>1 DEF Return!Untouched, FormBoxes, Return!Amounts
<1>7. ReturnTypes
  BY <1>1, <1>2, <1>3, <1>4, <1>5, <1>6 DEF ReturnTypes
<1>8. OneSave /\ OneBox
  BY <1>1 DEF OneSave, OneBox
<1>9. Fresh
  BY <1>4 DEF Fresh, FreshFor
<1>10. Return!Shown \subseteq Return!Keys
  BY <1>5, KeysAre DEF Return!Shown
<1>11. BeingRead
  BY <1>4, <1>10 DEF BeingRead
<1>12. FiledOnce
  <2>1. Return!Figures("itr", server)["filed"] = server["filed"]
    BY <1>3, KeysAre, DependsOn
  <2> QED BY <1>1, <1>4, <2>1, KeysAre DEF FiledOnce
<1>13. ASSUME NEW due, Due(due) PROVE Lasting(due) /\ OnForm(due)
  <2>1. due = server
    BY <1>1, <1>13 DEF Due
  <2>2. Lasting(due)
    BY <1>3, <1>4, <2>1 DEF Lasting
  <2>3. "overview" \notin DOMAIN Return!Forms
    BY DEF Return!Forms
  <2> QED BY <1>1, <2>2, <2>3 DEF OnForm
<1> QED BY <1>7, <1>8, <1>9, <1>11, <1>12, <1>13 DEF ReturnSound

LEMMA ReturnKeeps == ReturnInv /\ [Next]_vars => ReturnInv'
<1> SUFFICES ASSUME ReturnInv, [Return!Next]_filingVars, mishaps' = {} PROVE ReturnSound'
  BY ReturnSteps DEF ReturnInv
<1>1. CASE UNCHANGED filingVars
  <2>1. ReturnSound
    BY <1>1 DEF ReturnInv, filingVars
  <2> QED BY <1>1, <2>1, StillKeeps
<1>2. CASE Return!Next
  <2>1. mishaps = {}
    BY <1>2 DEF Return!Next
  <2>2. ReturnSound
    BY <2>1 DEF ReturnInv
  <2>3. ASSUME NEW t \in Return!Tabs, Return!Visit(t) PROVE ReturnSound'
    BY <2>2, <2>3, VisitKeeps
  <2>4. ASSUME NEW r \in Return!Regimes, Return!SetRegime(r) PROVE ReturnSound'
    BY <2>2, <2>4, RegimeKeeps
  <2>5. ASSUME NEW b \in Boxes, NEW v \in Return!Amounts,
               Return!Type(b, v) \/ Return!Edit(b, v) \/ Return!HandleSaveCost(b, v)
        PROVE  ReturnSound'
    BY <2>2, <2>5, TypeKeeps, EditKeeps, OtherSaveKeeps
  <2>6. CASE Return!Blur \/ Return!ReconcileBrokerFile \/ Return!UploadITR
    BY <2>2, <2>6, BlurKeeps, OtherSaveKeeps
  <2>7. ASSUME NEW s \in returnSaves, Return!Take(s) \/ Return!Succeed(s) PROVE ReturnSound'
    BY <2>1, <2>2, <2>7, TakeKeeps, SucceedKeeps
  <2>8. ASSUME NEW j \in Return!Keys, NEW x \in returnReading[j], Return!Answer(j, x)
        PROVE  ReturnSound'
    BY <2>2, <2>8, AnswerKeeps
  <2>9. CASE Return!NotFiled
    BY <2>2, <2>9, NotFiledKeeps
  <2>10. /\ \A s : ~Return!SaveFails(s)
         /\ \A k : ~Return!ReadFails(k)
    BY DEF Return!SaveFails, Return!ReadFails, Return!Fail
  <2> QED BY <1>2, <2>3, <2>4, <2>5, <2>6, <2>7, <2>8, <2>9, <2>10 DEF Return!Next
<1> QED BY <1>1, <1>2

\* At rest form and figures are the server's.
LEMMA AtRestAgrees == ReturnInv => Return!ScreenIsServer
<1> SUFFICES ASSUME ReturnInv, Return!AtRest, mishaps = {}
             PROVE  /\ returnTab \in DOMAIN Return!Forms =>
                         returnForm = server[Return!Forms[returnTab]]
                    /\ \A k \in Return!Shown :
                         IF cached[k] = Return!Nothing
                         THEN k = "itr" /\ server["filed"] = Return!Untouched
                         ELSE cached[k] = Return!Figures(k, server)
  BY DEF Return!ScreenIsServer
<1>1. ReturnSound
  BY DEF ReturnInv
<1>2. /\ returnSaves = {} /\ focus = "none"
      /\ \A k \in Return!Keys : returnReading[k] = {}
  BY DEF Return!AtRest, Return!NoBox
<1>3. Return!Shown \subseteq Return!Keys
  BY <1>1, ReturnAlone, KeysAre DEF Return!Shown
<1>4. \A k : ~TakenFor(k)
  BY <1>2 DEF TakenFor
<1>5. ASSUME returnTab \in DOMAIN Return!Forms
      PROVE  returnForm = server[Return!Forms[returnTab]]
  <2> DEFINE P == Return!Forms[returnTab]
  <2>1. \A g \in Boxes \ {focus} : returnForm[g] = server[P][g]
    BY <1>1, <1>2, <1>3, <1>5, FormAtRest
  <2>2. P \in Return!Parts
    BY <1>1, <1>5, ReturnAlone, SourceOf, OverridesAreParts
  <2> HIDE DEF P
  <2>3. returnForm \in FormBoxes /\ server[P] \in FormBoxes
    BY <1>1, <2>2, ReturnAlone
  <2>4. \A g \in Boxes : returnForm[g] = server[P][g]
    BY <1>2, <2>1, PagesAssumption
  <2>5. returnForm = server[P]
    BY <2>3, <2>4 DEF FormBoxes
  <2> QED BY <2>5 DEF P
<1>6. ASSUME NEW k \in Return!Shown
      PROVE  IF cached[k] = Return!Nothing
             THEN k = "itr" /\ server["filed"] = Return!Untouched
             ELSE cached[k] = Return!Figures(k, server)
  <2>1. \/ cached[k] # Return!Nothing /\ k \notin invalid
        \/ /\ k = "itr" /\ cached[k] = Return!Nothing
           /\ server["filed"] = Return!Untouched
    BY <1>1, <1>2, <1>3, <1>4, <1>6 DEF ReturnSound, BeingRead
  <2>2. FreshFor(k)
    BY <1>1, <1>3, <1>4, <1>6 DEF ReturnSound, Fresh
  <2> QED BY <2>1, <2>2 DEF FreshFor
<1> QED BY <1>5, <1>6

LEMMA ReturnCardinality ==
    ASSUME NEW S
    PROVE  Return!Cardinality(S) = Cardinality(S)
BY Zenon DEF Return!Cardinality, Cardinality

\* A save made at rest changes one box at most.
LEMMA EditIsOne == ReturnInv => Return!SaveIsTheEdit
<1> SUFFICES ASSUME ReturnInv, mishaps = {}, NEW s \in returnSaves, s.at = "sent", s.quiet,
                    s.part \in Return!Overrides
             PROVE  Return!Cardinality({f \in DOMAIN s.body :
                                          s.body[f] # server[s.part][f]}) <= 1
  BY DEF Return!SaveIsTheEdit
<1> DEFINE D == {f \in DOMAIN s.body : s.body[f] # server[s.part][f]}
<1>1. PICK g \in Boxes : \A f \in DOMAIN s.body \ {g} : s.body[f] = server[s.part][f]
  BY DEF ReturnInv, ReturnSound, OneBox
<1>2. D \subseteq {g}
  BY <1>1
<1> HIDE DEF D
<1>3. \A x, y \in D : x = y
  BY <1>2
<1>4. Cardinality(D) <= 1
  BY <1>3, AtMostOne
<1> QED BY <1>4, ReturnCardinality DEF D

\* The deletion dialog names the return being deleted, and a return the server does not
\* know does not stay open.  At rest the forms and figures of the open return are the
\* server's, whatever was typed, saved, read and visited meanwhile, and a save changes
\* what was edited only.
THEOREM TaxKeepsFaith == Spec => []TaxReturnAgrees
<1>1. Init => TaxInv /\ ReturnInv
  BY TaxStarts, ReturnStarts
<1>2. TaxInv /\ ReturnInv /\ [Next]_vars => (TaxInv /\ ReturnInv)'
  BY TaxKeeps, ReturnKeeps
<1>3. TaxInv /\ ReturnInv => TaxReturnAgrees
  BY TaxPanelHolds, AtRestAgrees, EditIsOne DEF TaxReturnAgrees
<1> QED BY <1>1, <1>2, <1>3, PTL DEF Spec

----------------------------------------------------------------------------
\* The statements of the mutual funds.

LEMMA HistorySteps == [Next]_vars => [History!Next]_historyVars
BY DEF Next, vars, historyVars

Imports == {"analyze", "upload", "relist"}
HistoryCalls == [op : {"list", "compare", "delete"} \union Imports, by : {"mounted", "gone"},
                 of : History!Maybe, active : History!Maybe, with : History!Maybe,
                 password : BOOLEAN, done : BOOLEAN]
UploadForms == [open : BOOLEAN, file : BOOLEAN, password : BOOLEAN, busy : BOOLEAN,
                error : BOOLEAN]
IsBaseline(b) == /\ DOMAIN b = {"with", "result", "busy", "hideClosed"}
                 /\ b.with \in History!Maybe

\* A deletion is of a statement, and a panel that imports is still what is mounted.
CallSound(c) ==
    /\ c \in HistoryCalls /\ (c.op = "delete" => c.of \in Papers)
    /\ (c.op = "analyze" /\ c.by = "mounted") => History!Here = "panel"

\* Of statements on: s is one of them, or the answer to its deletion is still to come;
\* and whoever deletes it knew it as the open one, or as the one compared with.
Deletes(c, s) == c.op = "delete" /\ c.of = s
StaysFor(s, on, cs) ==
    s \in on \union {NoPaper} \/ \E c \in cs : Deletes(c, s) /\ c.done
OpenIn(s, on, cs) ==
    StaysFor(s, on, cs) /\ \A c \in cs : Deletes(c, s) => c.active = s
BaselineIn(s, on, cs) ==
    /\ StaysFor(s, on, cs)
    /\ \A c \in cs : Deletes(c, s) => c.by = "mounted" /\ c.with = s

\* A busy form waits for a request of its own.
WaitsIn(up, cs) == up.busy => \E c \in cs : c.by = "mounted" /\ c.op \in Imports

HistoryTypes ==
    /\ papers \subseteq Papers /\ mfSessionId \in History!Maybe /\ rows \subseteq Papers
    /\ onHistory \in BOOLEAN /\ doomed \in BOOLEAN /\ upload \in UploadForms
    /\ IsBaseline(baseline)

HistoryInv ==
    /\ HistoryTypes /\ \A c \in mfCalls : CallSound(c)
    /\ WaitsIn(upload, mfCalls)
    /\ ~doomed => /\ OpenIn(mfSessionId, papers, mfCalls)
                  /\ BaselineIn(baseline.with, papers, mfCalls)

LEMMA NewHistoryCall ==
    ASSUME HistoryInv, NEW op \in {"list", "compare", "delete"} \union Imports,
           NEW of \in History!Maybe
    PROVE  LET y == History!Call(op, of)
           IN  /\ y \in HistoryCalls /\ y.op = op /\ y.by = "mounted" /\ y.of = of
               /\ y.active = mfSessionId /\ y.with = baseline.with
<1>1. /\ mfSessionId \in History!Maybe /\ baseline.with \in History!Maybe
      /\ upload.password \in BOOLEAN
  BY DEF HistoryInv, HistoryTypes, IsBaseline, UploadForms
<1> QED BY <1>1 DEF History!Call, HistoryCalls

\* The list a page asks for when it is mounted.
LEMMA NewHistoryList ==
    ASSUME NEW y, y \in HistoryCalls, y.op = "list", y.by = "mounted"
    PROVE  LET z == [y EXCEPT !.active = NoPaper, !.with = NoPaper, !.password = FALSE]
           IN z \in HistoryCalls /\ z.op = "list"
BY DEF HistoryCalls, History!Maybe

LEMMA GoneHistoryCall ==
    ASSUME NEW x, x \in HistoryCalls
    PROVE  LET y == [x EXCEPT !.by = "gone"]
           IN  /\ y \in HistoryCalls /\ y.op = x.op /\ y.of = x.of /\ y.by = "gone"
               /\ y.active = x.active /\ y.done = x.done
BY DEF HistoryCalls

\* What becomes of requests cs when s is shown: with the page the same they go on as they
\* were; with another all but lists go on, of nobody mounted.
LEMMA ShownHistoryCalls ==
    ASSUME HistoryInv, NEW s, NEW h, NEW p, NEW up, NEW r, NEW cmp, NEW cs,
           History!Show(s, h, p, up, r, cmp, cs), \A c \in cs : CallSound(c)
    PROVE  /\ mfSessionId' = s /\ onHistory' = h
           /\ \A c \in mfCalls' :
                /\ c \in HistoryCalls
                /\ \/ c.op = "list"
                   \/ \E x \in cs : /\ c.op = x.op /\ c.of = x.of /\ c.active = x.active
                                    /\ IF History!Here' = History!Here THEN c = x
                                       ELSE c.by = "gone"
           /\ \A x \in cs : x.op # "list" =>
                \E c \in mfCalls' : c.op = x.op /\ c.of = x.of /\ c.done = x.done
           /\ \/ /\ History!Here' = History!Here /\ cs \subseteq mfCalls'
                 /\ upload' = up /\ rows' = r /\ baseline' = cmp
              \/ /\ History!Here' # History!Here
                 /\ upload' = History!FreshUpload /\ rows' = {}
                 /\ baseline' = History!FreshCompare
<1> DEFINE m == History!Mounted(s, h)
           gone == {[c EXCEPT !.by = "gone"] : c \in {x \in cs : x.op # "list"}}
           new == [History!Call("list", NoPaper) EXCEPT !.active = NoPaper,
                     !.with = NoPaper, !.password = FALSE]
           kept == IF m = History!Here THEN cs ELSE gone
<1>1. new \in HistoryCalls /\ new.op = "list"
  <2> DEFINE y == History!Call("list", NoPaper)
  <2>1. y \in HistoryCalls /\ y.op = "list" /\ y.by = "mounted"
    BY NewHistoryCall DEF History!Maybe
  <2> HIDE DEF y
  <2>2. LET z == [y EXCEPT !.active = NoPaper, !.with = NoPaper, !.password = FALSE]
        IN z \in HistoryCalls /\ z.op = "list"
    BY <2>1, NewHistoryList
  <2> QED BY <2>2 DEF y
<1>2. /\ mfSessionId' = s /\ onHistory' = h
      /\ mfCalls' \in {kept, kept \union {new}}
      /\ upload' = (IF m = History!Here THEN up ELSE History!FreshUpload)
      /\ rows' = (IF m = History!Here THEN r ELSE {})
      /\ baseline' = (IF m = History!Here THEN cmp ELSE History!FreshCompare)
  BY DEF History!Show
<1>3. History!Here' = m
  BY <1>2 DEF History!Here
<1>4. /\ \A c \in gone : \E x \in cs : c = [x EXCEPT !.by = "gone"]
      /\ \A x \in cs : x.op # "list" => [x EXCEPT !.by = "gone"] \in gone
  OBVIOUS
<1>5. \A x \in cs : LET y == [x EXCEPT !.by = "gone"]
                    IN  /\ y \in HistoryCalls /\ y.op = x.op /\ y.of = x.of
                        /\ y.by = "gone" /\ y.active = x.active /\ y.done = x.done
  BY GoneHistoryCall DEF CallSound
<1>6. \A c \in cs : c \in HistoryCalls
  BY DEF CallSound
<1> HIDE DEF gone, new, m
<1>7. \A c \in kept :
        /\ c \in HistoryCalls
        /\ \E x \in cs : /\ c.op = x.op /\ c.of = x.of /\ c.active = x.active
                         /\ IF m = History!Here THEN c = x ELSE c.by = "gone"
  <2>1. CASE m = History!Here
    BY <1>6, <2>1
  <2>2. CASE m # History!Here
    <3>1. SUFFICES ASSUME NEW c \in gone
                   PROVE  /\ c \in HistoryCalls
                          /\ \E x \in cs : /\ c.op = x.op /\ c.of = x.of
                                           /\ c.active = x.active /\ c.by = "gone"
      BY <2>2
    <3>2. PICK x \in cs : c = [x EXCEPT !.by = "gone"]
      BY <1>4
    <3> QED BY <1>5, <3>2
  <2> QED BY <2>1, <2>2
<1>8. \A x \in cs : x.op # "list" =>
        \E c \in kept : c.op = x.op /\ c.of = x.of /\ c.done = x.done
  BY <1>4, <1>5
<1>9. m = History!Here => cs \subseteq kept
  OBVIOUS
<1> HIDE DEF kept
<1>10. kept \subseteq mfCalls' /\ \A c \in mfCalls' : c \in kept \/ c = new
  BY <1>2
<1>11. \A c \in mfCalls' :
         /\ c \in HistoryCalls
         /\ \/ c.op = "list"
            \/ \E x \in cs : /\ c.op = x.op /\ c.of = x.of /\ c.active = x.active
                             /\ IF History!Here' = History!Here THEN c = x
                                ELSE c.by = "gone"
  BY <1>1, <1>3, <1>7, <1>10
<1>12. \A x \in cs : x.op # "list" =>
         \E c \in mfCalls' : c.op = x.op /\ c.of = x.of /\ c.done = x.done
  BY <1>8, <1>10
<1>13. \/ /\ History!Here' = History!Here /\ cs \subseteq mfCalls'
          /\ upload' = up /\ rows' = r /\ baseline' = cmp
       \/ /\ History!Here' # History!Here
          /\ upload' = History!FreshUpload /\ rows' = {}
          /\ baseline' = History!FreshCompare
  BY <1>2, <1>3, <1>9, <1>10
<1> QED BY <1>2, <1>11, <1>12, <1>13

\* A move that shows s keeps the invariant, if s stays and, should the page be the same,
\* what it compares with stays.
LEMMA HistoryShowKeeps ==
    ASSUME HistoryInv, NEW s \in History!Maybe, NEW h \in BOOLEAN, NEW p,
           NEW up \in UploadForms, NEW r \in SUBSET Papers, NEW cmp, IsBaseline(cmp),
           NEW cs, History!Show(s, h, p, up, r, cmp, cs), \A c \in cs : CallSound(c),
           papers' \subseteq Papers, doomed' \in BOOLEAN,
           History!Here' = History!Here => WaitsIn(up, cs),
           ~doomed' => OpenIn(s, papers', cs),
           (~doomed' /\ History!Here' = History!Here) => BaselineIn(cmp.with, papers', cs)
    PROVE  HistoryInv'
<1>1. /\ mfSessionId' = s /\ onHistory' = h
      /\ \A c \in mfCalls' :
           /\ c \in HistoryCalls
           /\ \/ c.op = "list"
              \/ \E x \in cs : /\ c.op = x.op /\ c.of = x.of /\ c.active = x.active
                               /\ IF History!Here' = History!Here THEN c = x
                                ELSE c.by = "gone"
      /\ \A x \in cs : x.op # "list" =>
           \E c \in mfCalls' : c.op = x.op /\ c.of = x.of /\ c.done = x.done
      /\ \/ /\ History!Here' = History!Here /\ cs \subseteq mfCalls'
            /\ upload' = up /\ rows' = r /\ baseline' = cmp
         \/ /\ History!Here' # History!Here
            /\ upload' = History!FreshUpload /\ rows' = {}
            /\ baseline' = History!FreshCompare
  BY ShownHistoryCalls
<1>2. /\ History!FreshUpload \in UploadForms /\ History!FreshUpload.busy = FALSE
      /\ IsBaseline(History!FreshCompare) /\ History!FreshCompare.with = NoPaper
  BY DEF History!FreshUpload, UploadForms, History!FreshCompare, IsBaseline, History!Maybe
<1>3. HistoryTypes'
  <2>1. upload' \in UploadForms /\ rows' \subseteq Papers /\ IsBaseline(baseline')
    BY <1>1, <1>2
  <2> QED BY <1>1, <2>1 DEF HistoryTypes, IsBaseline, History!Maybe
<1>4. \A c \in mfCalls' : CallSound(c)'
  <2> SUFFICES ASSUME NEW c \in mfCalls' PROVE CallSound(c)'
    OBVIOUS
  <2>1. CASE c.op = "list"
    BY <1>1, <2>1 DEF CallSound, HistoryCalls
  <2>2. CASE c.op # "list"
    <3>1. PICK x \in cs : /\ c.op = x.op /\ c.of = x.of
                          /\ IF History!Here' = History!Here THEN c = x ELSE c.by = "gone"
      BY <1>1, <2>2
    <3>2. CallSound(x) /\ c \in HistoryCalls
      BY <1>1
    <3>3. (c.op = "analyze" /\ c.by = "mounted") => History!Here' = "panel"
      BY <3>1, <3>2 DEF CallSound
    <3>4. c.op = "delete" => c.of \in Papers
      BY <3>1, <3>2 DEF CallSound
    <3> QED BY <3>2, <3>3, <3>4 DEF CallSound
  <2> QED BY <2>1, <2>2
<1>5. WaitsIn(upload, mfCalls)'
  <2>1. CASE /\ History!Here' = History!Here /\ cs \subseteq mfCalls' /\ upload' = up
    BY <2>1 DEF WaitsIn
  <2>2. CASE upload' = History!FreshUpload
    BY <1>2, <2>2 DEF WaitsIn
  <2> QED BY <1>1, <2>1, <2>2
<1>6. \A b : \A x \in cs : Deletes(x, b) /\ x.done => \E c \in mfCalls' : Deletes(c, b) /\ c.done
  BY <1>1 DEF Deletes
<1>7. \A b : \A c \in mfCalls' : Deletes(c, b) =>
        \E x \in cs : /\ Deletes(x, b) /\ c.active = x.active
                      /\ History!Here' = History!Here => c = x
  BY <1>1 DEF Deletes
<1>8. \A b : StaysFor(b, papers', cs) => StaysFor(b, papers', mfCalls')
  BY <1>6 DEF StaysFor
<1>9. ~doomed' => OpenIn(mfSessionId, papers, mfCalls)'
  <2>1. OpenIn(s, papers', cs) => OpenIn(s, papers', mfCalls')
    BY <1>7, <1>8 DEF OpenIn
  <2> QED BY <1>1, <2>1 DEF OpenIn, StaysFor
<1>10. ~doomed' => BaselineIn(baseline.with, papers, mfCalls)'
  <2>1. CASE History!Here' = History!Here /\ baseline' = cmp
    <3>1. BaselineIn(cmp.with, papers', cs) => BaselineIn(cmp.with, papers', mfCalls')
      BY <1>7, <1>8, <2>1 DEF BaselineIn
    <3> QED BY <2>1, <3>1 DEF BaselineIn, StaysFor
  <2>2. CASE baseline'.with = NoPaper
    <3>1. \A c \in mfCalls' : ~Deletes(c, NoPaper)
      BY <1>4, PagesAssumption DEF CallSound, Deletes
    <3> QED BY <2>2, <3>1 DEF BaselineIn, StaysFor
  <2> QED BY <1>1, <1>2, <2>1, <2>2
<1> QED BY <1>3, <1>4, <1>5, <1>9, <1>10 DEF HistoryInv

\* What is told of deletions depends on nothing but the deletions.
LEMMA SameDeletions ==
    ASSUME NEW cs, NEW ds, \A c : c.op = "delete" => (c \in cs <=> c \in ds)
    PROVE  /\ \A s, on : OpenIn(s, on, cs) => OpenIn(s, on, ds)
           /\ \A s, on : BaselineIn(s, on, cs) => BaselineIn(s, on, ds)
BY DEF OpenIn, BaselineIn, StaysFor, Deletes

\* Nor does it end while more statements are there.
LEMMA MoreStatements ==
    ASSUME NEW on, NEW more, on \subseteq more, NEW cs, NEW s
    PROVE  /\ OpenIn(s, on, cs) => OpenIn(s, more, cs)
           /\ BaselineIn(s, on, cs) => BaselineIn(s, more, cs)
BY DEF OpenIn, BaselineIn, StaysFor

LEMMA HistoryFacts ==
    ASSUME HistoryInv
    PROVE  /\ papers \subseteq Papers /\ mfSessionId \in History!Maybe
           /\ rows \in SUBSET Papers /\ onHistory \in BOOLEAN /\ doomed \in BOOLEAN
           /\ upload \in UploadForms /\ IsBaseline(baseline)
           /\ \A c \in mfCalls : CallSound(c)
           /\ WaitsIn(upload, mfCalls)
           /\ ~doomed => /\ OpenIn(mfSessionId, papers, mfCalls)
                         /\ BaselineIn(baseline.with, papers, mfCalls)
BY DEF HistoryInv, HistoryTypes

\* The page stays: what is open does, and what its requests are is told.
LEMMA HistoryStayKeeps ==
    ASSUME HistoryInv, NEW up \in UploadForms, NEW r \in SUBSET Papers, NEW cmp,
           IsBaseline(cmp), NEW cs, History!Stay(up, r, cmp, cs), \A c \in cs : CallSound(c),
           papers' \subseteq Papers, doomed' \in BOOLEAN, WaitsIn(up, cs),
           ~doomed' => /\ OpenIn(mfSessionId, papers', cs)
                       /\ BaselineIn(cmp.with, papers', cs)
    PROVE  HistoryInv'
BY HistoryFacts, HistoryShowKeeps DEF History!Stay

LEMMA HistoryClicksKeep ==
    ASSUME HistoryInv,
           \/ History!HandleTabChange \/ History!ToggleUpload \/ History!OnDrop
           \/ History!SetPassword \/ History!HideClosed \/ UNCHANGED historyVars
    PROVE  HistoryInv'
<1>1. CASE UNCHANGED historyVars
  BY <1>1 DEF historyVars, HistoryInv, HistoryTypes, CallSound, OpenIn, BaselineIn, StaysFor,
              WaitsIn, History!Here
<1>2. CASE History!HandleTabChange
  <2>1. /\ History!Show(mfSessionId, ~onHistory, pan, upload, rows, baseline, mfCalls)
        /\ UNCHANGED <<papers, doomed>>
    BY <1>2 DEF History!HandleTabChange
  <2> QED BY <2>1, HistoryFacts, HistoryShowKeeps
<1>3. CASE History!ToggleUpload \/ History!OnDrop \/ History!SetPassword
  <2>1. PICK up \in UploadForms : /\ History!Stay(up, rows, baseline, mfCalls)
                                  /\ up.busy = upload.busy
    <3> DEFINE toggled == [upload EXCEPT !.open = ~@, !.file = FALSE, !.error = FALSE]
               filled == [upload EXCEPT !.file = TRUE, !.error = FALSE]
               given == [upload EXCEPT !.password = ~@]
    <3>1. /\ toggled \in UploadForms /\ toggled.busy = upload.busy
          /\ filled \in UploadForms /\ filled.busy = upload.busy
          /\ given \in UploadForms /\ given.busy = upload.busy
      BY HistoryFacts DEF UploadForms
    <3>2. \/ History!Stay(toggled, rows, baseline, mfCalls)
          \/ History!Stay(filled, rows, baseline, mfCalls)
          \/ History!Stay(given, rows, baseline, mfCalls)
      BY <1>3 DEF History!ToggleUpload, History!OnDrop, History!SetPassword
    <3> HIDE DEF toggled, filled, given
    <3> QED BY <3>1, <3>2
  <2>2. UNCHANGED <<papers, doomed>>
    BY <1>3 DEF History!ToggleUpload, History!OnDrop, History!SetPassword
  <2>3. WaitsIn(up, mfCalls)
    BY <2>1, HistoryFacts DEF WaitsIn
  <2> QED BY <2>1, <2>2, <2>3, HistoryFacts, HistoryStayKeeps
<1>4. CASE History!HideClosed
  <2> DEFINE cmp == [baseline EXCEPT !.hideClosed = ~@]
  <2>1. History!Stay(upload, rows, cmp, mfCalls) /\ UNCHANGED <<papers, doomed>>
    BY <1>4 DEF History!HideClosed
  <2>2. IsBaseline(cmp) /\ cmp.with = baseline.with
    BY HistoryFacts DEF IsBaseline
  <2> HIDE DEF cmp
  <2> QED BY <2>1, <2>2, HistoryFacts, HistoryStayKeeps
<1> QED BY <1>1, <1>2, <1>3, <1>4

\* A request that deletes nothing is sent.
LEMMA HistoryUploadKeeps ==
    ASSUME HistoryInv, History!HandleUpload
    PROVE  HistoryInv'
<1> DEFINE up == [upload EXCEPT !.busy = TRUE, !.error = FALSE]
           y == History!Call(IF History!Here = "panel" THEN "analyze" ELSE "upload", NoPaper)
           cs == mfCalls \union {y}
<1>1. History!Stay(up, rows, baseline, cs) /\ UNCHANGED <<papers, doomed>>
  BY DEF History!HandleUpload
<1>2. up \in UploadForms
  BY HistoryFacts DEF UploadForms
<1>3. /\ y \in HistoryCalls /\ y.op \in {"analyze", "upload"} /\ y.by = "mounted"
      /\ y.op = "analyze" => History!Here = "panel"
  BY NewHistoryCall DEF History!Maybe, Imports
<1> HIDE DEF y, up
<1>4. \A c \in cs : CallSound(c)
  BY <1>3, HistoryFacts DEF CallSound
<1>5. WaitsIn(up, cs)
  BY <1>3 DEF WaitsIn, Imports
<1>6. \A c : c.op = "delete" => (c \in mfCalls <=> c \in cs)
  BY <1>3
<1> HIDE DEF cs
<1>7. ~doomed => OpenIn(mfSessionId, papers, cs) /\ BaselineIn(baseline.with, papers, cs)
  BY <1>6, HistoryFacts, SameDeletions
<1> QED BY <1>1, <1>2, <1>4, <1>5, <1>7, HistoryFacts, HistoryStayKeeps

LEMMA HistoryPickKeeps ==
    ASSUME HistoryInv, NEW s \in Papers,
           \/ History!RestoreSession(s) \/ History!HandleCompare(s)
           \/ History!HandleDeleteSession(s)
    PROVE  HistoryInv'
<1>1. s \in History!Maybe
  BY DEF History!Maybe
<1>2. ASSUME doomed' = (doomed \/ History!BeingDeleted(s) \/ s \notin papers)
      PROVE  /\ doomed' \in BOOLEAN
             /\ ~doomed' => /\ ~doomed /\ OpenIn(s, papers, mfCalls)
                            /\ BaselineIn(s, papers, mfCalls)
  BY <1>2, HistoryFacts
     DEF History!BeingDeleted, OpenIn, BaselineIn, StaysFor, Deletes
<1>3. CASE History!RestoreSession(s)
  <2>1. /\ doomed' = (doomed \/ History!BeingDeleted(s) \/ s \notin papers)
        /\ History!Show(s, onHistory, pan, upload, rows, baseline, mfCalls)
        /\ papers' = papers
    BY <1>3 DEF History!RestoreSession
  <2> QED BY <1>1, <1>2, <2>1, HistoryFacts, HistoryShowKeeps
<1>4. CASE History!HandleCompare(s)
  <2> DEFINE cmp == [baseline EXCEPT !.with = s, !.busy = TRUE]
             y == History!Call("compare", s)
             cs == mfCalls \union {y}
  <2>1. /\ doomed' = (doomed \/ History!BeingDeleted(s) \/ s \notin papers)
        /\ History!Stay(upload, rows, cmp, cs) /\ papers' = papers
    BY <1>4 DEF History!HandleCompare
  <2>2. IsBaseline(cmp) /\ cmp.with = s
    BY <1>1, HistoryFacts DEF IsBaseline
  <2>3. y \in HistoryCalls /\ y.op = "compare"
    BY <1>1, NewHistoryCall
  <2> HIDE DEF y, cmp
  <2>4. \A c \in cs : CallSound(c)
    BY <2>3, HistoryFacts DEF CallSound
  <2>5. WaitsIn(upload, cs)
    BY HistoryFacts DEF WaitsIn
  <2>6. \A c : c.op = "delete" => (c \in mfCalls <=> c \in cs)
    BY <2>3
  <2> HIDE DEF cs
  <2>7. ~doomed' => OpenIn(mfSessionId, papers, cs) /\ BaselineIn(s, papers, cs)
    BY <1>2, <2>1, <2>6, HistoryFacts, SameDeletions
  <2> QED BY <1>2, <2>1, <2>2, <2>4, <2>5, <2>7, HistoryFacts, HistoryStayKeeps
<1>5. CASE History!HandleDeleteSession(s)
  <2> DEFINE y == History!Call("delete", s)
             cs == mfCalls \union {y}
  <2>1. History!Stay(upload, rows, baseline, cs) /\ UNCHANGED <<papers, doomed>>
    BY <1>5 DEF History!HandleDeleteSession
  <2>2. /\ y \in HistoryCalls /\ y.op = "delete" /\ y.by = "mounted" /\ y.of = s
        /\ y.active = mfSessionId /\ y.with = baseline.with
    BY <1>1, NewHistoryCall
  <2> HIDE DEF y
  <2>3. \A c \in cs : CallSound(c)
    BY <2>2, HistoryFacts DEF CallSound
  <2>4. WaitsIn(upload, cs)
    BY HistoryFacts DEF WaitsIn
  <2>5. ~doomed => OpenIn(mfSessionId, papers, cs) /\ BaselineIn(baseline.with, papers, cs)
    BY <2>2, HistoryFacts DEF OpenIn, BaselineIn, StaysFor, Deletes
  <2> HIDE DEF cs
  <2> QED BY <2>1, <2>3, <2>4, <2>5, HistoryFacts, HistoryStayKeeps
<1> QED BY <1>3, <1>4, <1>5

\* A statement that was parsed is opened.
LEMMA HistoryParseKeeps ==
    ASSUME HistoryInv, NEW c \in mfCalls, History!ReceiveParse(c)
    PROVE  HistoryInv'
<1> DEFINE again == {[c EXCEPT !.op = "relist"] : x \in {y \in {c} : y.op = "upload"}}
           cs == (mfCalls \ {c}) \union again
<1>1. PICK s \in Papers, p \in {"password", pan} :
        /\ papers' = papers \union {s} /\ doomed' = (doomed \/ History!BeingDeleted(s))
        /\ History!Show(s, onHistory, p, upload, rows, baseline, cs)
  BY DEF History!ReceiveParse
<1>2. c.op \in {"analyze", "upload"} /\ CallSound(c)
  BY HistoryFacts DEF History!ReceiveParse
<1>3. /\ \A y \in again : y \in HistoryCalls /\ y.op = "relist" /\ y.by = c.by
      /\ c.op = "upload" => again # {}
  BY <1>2 DEF CallSound, HistoryCalls, Imports
<1> HIDE DEF again
<1>4. \A y \in cs : CallSound(y)
  BY <1>3, HistoryFacts DEF CallSound
<1>5. s \in History!Maybe /\ papers' \subseteq Papers /\ doomed' \in BOOLEAN
  BY <1>1, HistoryFacts DEF History!Maybe
<1>6. History!Here' = "panel" => s = NoPaper
  BY <1>1 DEF History!Here, History!Mounted, History!Show
<1>7. History!Here' = History!Here => WaitsIn(upload, cs)
  <2> SUFFICES ASSUME History!Here' = History!Here, upload.busy
               PROVE  \E y \in cs : y.by = "mounted" /\ y.op \in Imports
    BY DEF WaitsIn
  <2>1. PICK y \in mfCalls : y.by = "mounted" /\ y.op \in Imports
    BY HistoryFacts DEF WaitsIn
  <2>2. CASE y = c
    <3>1. c.op = "upload"
      BY <1>1, <1>2, <1>6, <2>1, <2>2, PagesAssumption DEF CallSound
    <3> QED BY <1>3, <2>1, <2>2, <3>1 DEF Imports
  <2> QED BY <2>1, <2>2
<1>8. \A y : y.op = "delete" => (y \in mfCalls <=> y \in cs)
  BY <1>2, <1>3
<1> HIDE DEF cs
<1>9. ~doomed' => OpenIn(s, papers', mfCalls) /\ BaselineIn(baseline.with, papers', mfCalls)
  <2> SUFFICES ASSUME ~doomed'
               PROVE  OpenIn(s, papers', mfCalls) /\ BaselineIn(baseline.with, papers', mfCalls)
    OBVIOUS
  <2>1. OpenIn(s, papers', mfCalls)
    BY <1>1 DEF History!BeingDeleted, OpenIn, StaysFor, Deletes
  <2>2. BaselineIn(baseline.with, papers, mfCalls) /\ papers \subseteq papers'
    BY <1>1, HistoryFacts
  <2> QED BY <2>1, <2>2, MoreStatements
<1>10. ~doomed' => OpenIn(s, papers', cs) /\ BaselineIn(baseline.with, papers', cs)
  BY <1>8, <1>9, SameDeletions
<1> QED BY <1>1, <1>4, <1>5, <1>7, <1>10, HistoryFacts, HistoryShowKeeps

\* A request other than a deletion ends.
LEMMA HistoryAnswerKeeps ==
    ASSUME HistoryInv, NEW c \in mfCalls,
           \/ History!ReceiveFailed(c) \/ History!ReceiveList(c) \/ History!ListFails(c)
           \/ History!ReceiveCompare(c)
    PROVE  HistoryInv'
<1> DEFINE cs == mfCalls \ {c}
<1>1. c.op # "delete" /\ CallSound(c) /\ UNCHANGED <<papers, doomed>>
  BY HistoryFacts DEF History!ReceiveFailed, History!ReceiveList, History!ListFails,
                      History!ReceiveCompare
<1>2. \A y \in cs : CallSound(y)
  BY HistoryFacts
<1>3. ~doomed => OpenIn(mfSessionId, papers, cs) /\ BaselineIn(baseline.with, papers, cs)
  <2>1. \A y : y.op = "delete" => (y \in mfCalls <=> y \in cs)
    BY <1>1
  <2> HIDE DEF cs
  <2> QED BY <2>1, HistoryFacts, SameDeletions
<1>4. \/ ~upload.busy \/ (c.by = "mounted" /\ c.op \in Imports)
      \/ WaitsIn(upload, cs)
  BY HistoryFacts DEF WaitsIn
<1>5. ASSUME NEW up, up \in UploadForms, up.busy = upload.busy,
             c.by = "mounted" /\ c.op \in Imports => FALSE
      PROVE  WaitsIn(up, cs)
  BY <1>4, <1>5 DEF WaitsIn
<1> HIDE DEF cs
<1>6. CASE History!ReceiveFailed(c) \/ History!ReceiveList(c)
  <2>1. PICK up \in UploadForms, r \in SUBSET Papers :
          History!Stay(up, r, baseline, cs) /\ WaitsIn(up, cs)
    <3> DEFINE failing == [upload EXCEPT !.error = TRUE]
               relisted == [upload EXCEPT !.open = FALSE, !.file = FALSE]
    <3>1. /\ failing \in UploadForms /\ failing.busy = upload.busy
          /\ relisted \in UploadForms /\ relisted.busy = upload.busy
      BY HistoryFacts DEF UploadForms
    <3>2. \A f \in UploadForms : LET g == [f EXCEPT !.busy = FALSE]
                                 IN g \in UploadForms /\ ~g.busy
      BY DEF UploadForms
    <3> HIDE DEF failing, relisted
    <3>3. \A f \in UploadForms : f.busy = upload.busy =>
            /\ History!Settled(c, f) \in UploadForms
            /\ c.op \in Imports => WaitsIn(History!Settled(c, f), cs)
      <4> SUFFICES ASSUME NEW f \in UploadForms, f.busy = upload.busy
                   PROVE  /\ History!Settled(c, f) \in UploadForms
                          /\ c.op \in Imports => WaitsIn(History!Settled(c, f), cs)
        OBVIOUS
      <4>1. CASE c.by = "mounted"
        BY <3>2, <4>1 DEF History!Settled, WaitsIn
      <4>2. CASE c.by # "mounted"
        BY <1>5, <4>2, HistoryFacts DEF History!Settled
      <4> QED BY <4>1, <4>2
    <3>4. CASE History!ReceiveFailed(c)
      <4>1. History!Stay(History!Settled(c, failing), rows, baseline, cs) /\ c.op \in Imports
        BY <3>4 DEF History!ReceiveFailed, failing, cs, Imports
      <4> QED BY <3>1, <3>3, <4>1, HistoryFacts
    <3>5. CASE History!ReceiveList(c)
      <4> DEFINE r == IF c.by = "mounted" THEN papers ELSE rows
      <4>1. /\ History!Stay(IF c.op = "relist" THEN History!Settled(c, relisted) ELSE upload,
                            r, baseline, cs)
            /\ c.op \in {"list", "relist"}
        BY <3>5 DEF History!ReceiveList, relisted, cs
      <4>2. r \in SUBSET Papers
        BY HistoryFacts
      <4> HIDE DEF r
      <4>3. CASE c.op = "relist"
        BY <3>1, <3>3, <4>1, <4>2, <4>3 DEF Imports
      <4>4. CASE c.op = "list"
        BY <1>5, <4>1, <4>2, <4>4, HistoryFacts DEF Imports
      <4> QED BY <4>1, <4>3, <4>4
    <3> QED BY <1>6, <3>4, <3>5
  <2> QED BY <1>1, <1>2, <1>3, <2>1, HistoryFacts, HistoryStayKeeps
<1>7. CASE History!ListFails(c) \/ History!ReceiveCompare(c)
  <2>1. c.op \notin Imports
    BY <1>7 DEF History!ListFails, History!ReceiveCompare, Imports
  <2>2. WaitsIn(upload, cs)
    BY <1>5, <2>1, HistoryFacts
  <2>3. PICK cmp : /\ IsBaseline(cmp) /\ cmp.with = baseline.with
                   /\ History!Stay(upload, rows, cmp, cs)
    BY <1>7, HistoryFacts DEF History!ListFails, History!ReceiveCompare, IsBaseline, cs
  <2> QED BY <1>1, <1>2, <1>3, <2>2, <2>3, HistoryFacts, HistoryStayKeeps
<1> QED BY <1>6, <1>7

\* Deletions.
LEMMA HistoryServeKeeps ==
    ASSUME HistoryInv, NEW c \in mfCalls, History!ServeDelete(c)
    PROVE  HistoryInv'
<1> DEFINE d == [c EXCEPT !.done = TRUE]
<1>1. /\ c.op = "delete" /\ ~c.done /\ CallSound(c)
      /\ papers' = papers \ {c.of} /\ mfCalls' = (mfCalls \ {c}) \union {d}
      /\ UNCHANGED <<mfSessionId, onHistory, pan, upload, rows, baseline, doomed>>
  BY HistoryFacts DEF History!ServeDelete
<1>2. /\ d \in HistoryCalls /\ d.op = "delete" /\ d.of = c.of /\ d.done
      /\ d.active = c.active /\ d.with = c.with /\ d.by = c.by
  BY <1>1 DEF CallSound, HistoryCalls
<1> HIDE DEF d
<1>3. CallSound(d)
  BY <1>1, <1>2 DEF CallSound
<1>4. \A y \in mfCalls' : CallSound(y)'
  BY <1>1, <1>3, HistoryFacts DEF CallSound, History!Here
<1>5. WaitsIn(upload, mfCalls)'
  BY <1>1, HistoryFacts DEF WaitsIn, Imports
<1>6. \A s : StaysFor(s, papers, mfCalls) => StaysFor(s, papers', mfCalls')
  BY <1>1, <1>2 DEF StaysFor, Deletes
<1>7. \A s : \A y \in mfCalls' : Deletes(y, s) =>
        \E x \in mfCalls : /\ Deletes(x, s) /\ x.active = y.active /\ x.with = y.with
                           /\ x.by = y.by
  BY <1>1, <1>2 DEF Deletes
<1>8. ~doomed => /\ OpenIn(mfSessionId, papers', mfCalls')
                 /\ BaselineIn(baseline.with, papers', mfCalls')
  BY <1>6, <1>7, HistoryFacts DEF OpenIn, BaselineIn
<1> QED BY <1>1, <1>4, <1>5, <1>8, HistoryFacts
        DEF HistoryInv, HistoryTypes, OpenIn, BaselineIn, StaysFor

LEMMA HistoryDeletedKeeps ==
    ASSUME HistoryInv, NEW c \in mfCalls, History!DeleteFails(c) \/ History!ReceiveDelete(c)
    PROVE  HistoryInv'
<1> DEFINE cs == mfCalls \ {c}
<1>1. c.op = "delete" /\ c.of \in Papers /\ c.done \in BOOLEAN /\ papers' = papers
  BY HistoryFacts DEF History!DeleteFails, History!ReceiveDelete, CallSound, HistoryCalls
<1>2. \A y \in cs : CallSound(y)
  BY HistoryFacts
<1>3. WaitsIn(upload, cs)
  BY <1>1, HistoryFacts DEF WaitsIn, Imports
<1>4. \A s : (s # c.of \/ ~c.done) => (StaysFor(s, papers, mfCalls) => StaysFor(s, papers, cs))
  BY DEF StaysFor, Deletes
<1>5. \A s : (s # c.of \/ ~c.done) =>
        /\ OpenIn(s, papers, mfCalls) => OpenIn(s, papers, cs)
        /\ BaselineIn(s, papers, mfCalls) => BaselineIn(s, papers, cs)
  BY <1>4 DEF OpenIn, BaselineIn
<1>6. CASE History!DeleteFails(c)
  <2>1. History!Stay(upload, rows, baseline, cs) /\ doomed' = (doomed \/ c.done)
    BY <1>6 DEF History!DeleteFails
  <2> HIDE DEF cs
  <2>2. ~doomed' => OpenIn(mfSessionId, papers, cs) /\ BaselineIn(baseline.with, papers, cs)
    BY <1>5, <2>1, HistoryFacts
  <2> QED BY <1>1, <1>2, <1>3, <2>1, <2>2, HistoryFacts, HistoryStayKeeps
<1>7. CASE History!ReceiveDelete(c)
  <2> DEFINE s == History!OpenAfter(c)
             r == rows \ {c.of}
             cmp == IF c.by = "mounted" THEN History!CompareAfter(c) ELSE baseline
  <2>1. History!Show(s, onHistory, pan, upload, r, cmp, cs) /\ UNCHANGED <<papers, doomed>>
    BY <1>7 DEF History!ReceiveDelete
  <2>2. s \in History!Maybe /\ r \in SUBSET Papers
    BY HistoryFacts DEF History!OpenAfter, History!Maybe
  <2>3. \A y \in cs : ~Deletes(y, NoPaper)
    BY <1>2, PagesAssumption DEF CallSound, Deletes
  <2>4. OpenIn(NoPaper, papers, cs) /\ BaselineIn(NoPaper, papers, cs)
    BY <2>3 DEF OpenIn, BaselineIn, StaysFor
  <2>5. ~doomed => OpenIn(s, papers, cs)
    <3>1. CASE c.active = c.of
      BY <2>4, <3>1 DEF History!OpenAfter
    <3>2. CASE c.active # c.of
      <4>1. s = mfSessionId
        BY <3>2 DEF History!OpenAfter
      <4>2. ~doomed => mfSessionId # c.of
        BY <1>1, <3>2, HistoryFacts DEF OpenIn, Deletes
      <4> HIDE DEF s, cs
      <4> QED BY <1>5, <4>1, <4>2, HistoryFacts
    <3> QED BY <3>1, <3>2
  <2>6. IsBaseline(cmp) /\ (cmp.with = NoPaper \/ cmp = baseline)
    BY HistoryFacts DEF History!CompareAfter, IsBaseline, History!Maybe
  <2>7. ~doomed => BaselineIn(cmp.with, papers, cs)
    <3>1. CASE cmp.with = NoPaper
      BY <2>4, <3>1
    <3>2. CASE cmp = baseline /\ cmp.with # NoPaper
      <4>1. ~doomed => baseline.with # c.of
        <5> SUFFICES ASSUME ~doomed, baseline.with = c.of PROVE FALSE
          OBVIOUS
        <5>1. c.by = "mounted" /\ c.with = c.of
          BY <1>1, HistoryFacts DEF BaselineIn, Deletes
        <5>2. cmp.with = NoPaper
          BY <5>1, HistoryFacts DEF History!CompareAfter, IsBaseline
        <5> QED BY <3>2, <5>2
      <4> HIDE DEF cmp, cs
      <4> QED BY <1>5, <3>2, <4>1, HistoryFacts
    <3> QED BY <2>6, <3>1, <3>2
  <2> HIDE DEF s, r, cmp, cs
  <2> QED BY <1>1, <1>2, <1>3, <2>1, <2>2, <2>5, <2>6, <2>7, HistoryFacts, HistoryShowKeeps
<1> QED BY <1>6, <1>7

LEMMA HistoryStarts == Init => HistoryInv
<1> SUFFICES ASSUME Init PROVE HistoryInv
  OBVIOUS
<1> DEFINE y == History!Call("list", NoPaper)
<1>1. /\ papers \in SUBSET Papers /\ mfSessionId \in papers \union {NoPaper}
      /\ onHistory = FALSE /\ upload = History!FreshUpload /\ rows = {}
      /\ baseline = History!FreshCompare /\ mfCalls \in {{}, {y}} /\ doomed = FALSE
  BY DEF Init, History!Init
<1>2. /\ upload \in UploadForms /\ ~upload.busy /\ IsBaseline(baseline)
      /\ baseline.with = NoPaper /\ mfSessionId \in History!Maybe
  BY <1>1 DEF History!FreshUpload, UploadForms, History!FreshCompare, IsBaseline, History!Maybe
<1>3. HistoryTypes
  BY <1>1, <1>2 DEF HistoryTypes
<1>4. y \in HistoryCalls /\ y.op = "list"
  BY <1>2 DEF History!Call, HistoryCalls, Imports, IsBaseline, UploadForms, History!Maybe
<1> HIDE DEF y
<1>5. \A c \in mfCalls : CallSound(c) /\ c.op = "list"
  BY <1>1, <1>4 DEF CallSound
<1> QED BY <1>1, <1>2, <1>3, <1>5
        DEF HistoryInv, WaitsIn, OpenIn, BaselineIn, StaysFor, Deletes

LEMMA HistoryKeeps == HistoryInv /\ [Next]_vars => HistoryInv'
<1> SUFFICES ASSUME HistoryInv, [History!Next]_historyVars PROVE HistoryInv'
  BY HistorySteps
<1>1. CASE \/ History!HandleTabChange \/ History!ToggleUpload \/ History!OnDrop
           \/ History!SetPassword \/ History!HideClosed \/ UNCHANGED historyVars
  BY <1>1, HistoryClicksKeep
<1>2. CASE History!HandleUpload
  BY <1>2, HistoryUploadKeeps
<1>3. ASSUME NEW s \in Papers, \/ History!RestoreSession(s) \/ History!HandleCompare(s)
                               \/ History!HandleDeleteSession(s)
      PROVE  HistoryInv'
  BY <1>3, HistoryPickKeeps
<1>4. ASSUME NEW c \in mfCalls,
             \/ History!ReceiveFailed(c) \/ History!ReceiveList(c) \/ History!ListFails(c)
             \/ History!ReceiveCompare(c)
      PROVE  HistoryInv'
  BY <1>4, HistoryAnswerKeeps
<1>5. ASSUME NEW c \in mfCalls, History!ReceiveParse(c) \/ History!ServeDelete(c)
      PROVE  HistoryInv'
  BY <1>5, HistoryParseKeeps, HistoryServeKeeps
<1>6. ASSUME NEW c \in mfCalls, History!DeleteFails(c) \/ History!ReceiveDelete(c)
      PROVE  HistoryInv'
  BY <1>6, HistoryDeletedKeeps
<1> QED BY <1>1, <1>2, <1>3, <1>4, <1>5, <1>6 DEF History!Next

\* No statement deleted here stays open or compared against, unless it was opened over
\* its deletion or nobody learnt of that, and a busy upload form has a request to come,
\* however the user moves between panel and tab and whatever answers when.
THEOREM DeletedStatementsLeave == Spec => []StatementsAgree
<1>1. HistoryInv => StatementsAgree
  <2> SUFFICES ASSUME HistoryInv
               PROVE  /\ History!DeletedIsLeft /\ History!BaselineExists
                      /\ History!FormNotStuck
    BY DEF StatementsAgree
  <2>1. History!FormNotStuck
    BY HistoryFacts DEF WaitsIn, Imports, History!FormNotStuck, History!Waiting
  <2> QED BY <2>1, HistoryFacts DEF OpenIn, BaselineIn, StaysFor, Deletes,
                                    History!DeletedIsLeft, History!BaselineExists
<1> QED BY <1>1, HistoryStarts, HistoryKeeps, PTL DEF Spec

----------------------------------------------------------------------------
\* The comparison of funds, and the category card.

LEMMA CompareSteps == [Next]_vars => [Compare!Next]_compareVars
BY DEF Next, vars, compareVars

\* The list of histories is that of its signature, and the signature that of the assets
\* picked; a slider that moved has a timer on its value.
HistoriesOfPicked ==
    /\ histories.signature = Compare!HistorySignature
    /\ histories.data = Compare!HistorySignature
SlidersSettle ==
    /\ sandbox \in [open : BOOLEAN, live : Compare!Amounts, settled : Compare!Amounts,
                    timer : Compare!Amounts \union {Compare!NoTimer}]
    /\ sandbox.timer \in {Compare!NoTimer, sandbox.live}
    /\ sandbox.timer = Compare!NoTimer => sandbox.settled = sandbox.live
CompareInv == HistoriesOfPicked /\ SlidersSettle

\* A list that is rebuilt is that of its signature.
LEMMA RebuiltIs ==
    /\ Compare!Rebuilt.signature = Compare!HistorySignature
    /\ Compare!Rebuilt.data = Compare!HistorySignature
BY DEF Compare!Rebuilt, Compare!HistorySignature, Compare!DataOf

\* Whatever else a move does: it renders, or leaves all a list depends on.
LEMMA RendersOrStays ==
    ASSUME [Compare!Next]_compareVars
    PROVE  \/ Compare!Render
           \/ UNCHANGED <<compareStatement, compareFunds, compareBench, history, histories>>
BY DEF Compare!Next, compareVars, Compare!SetSelectedFunds, Compare!SetExtPeers,
       Compare!OpenStatement, Compare!ReceiveHistory, Compare!HistoryFails, Compare!Slide,
       Compare!ClearFunds, Compare!ClearPeers, Compare!Reread, Compare!ReceivePerformance,
       Compare!RetryAnalytics, Compare!Tick, Compare!LaunchSandbox, Compare!Settle,
       Compare!Show, Compare!Answered, Compare!SetSandbox

\* And it slides, settles, opens or closes the sandbox, or leaves it.
LEMMA SandboxMoves ==
    ASSUME [Compare!Next]_compareVars
    PROVE  \/ UNCHANGED sandbox
           \/ sandbox' = [sandbox EXCEPT !.open = ~@]
           \/ \E v \in Compare!Amounts : sandbox' = [sandbox EXCEPT !.live = v, !.timer = v]
           \/ /\ sandbox.timer # Compare!NoTimer
              /\ sandbox' = [sandbox EXCEPT !.settled = sandbox.timer,
                                            !.timer = Compare!NoTimer]
BY DEF Compare!Next, compareVars, Compare!SetSelectedFunds, Compare!SetExtPeers,
       Compare!OpenStatement, Compare!ReceiveHistory, Compare!HistoryFails, Compare!Slide,
       Compare!ClearFunds, Compare!ClearPeers, Compare!Reread, Compare!ReceivePerformance,
       Compare!RetryAnalytics, Compare!Tick, Compare!LaunchSandbox, Compare!Settle,
       Compare!Show, Compare!Answered, Compare!SetSandbox, Compare!TimerFor

LEMMA CompareKeeps == CompareInv /\ [Next]_vars => CompareInv'
<1> SUFFICES ASSUME CompareInv, [Compare!Next]_compareVars PROVE CompareInv'
  BY CompareSteps
<1>1. HistoriesOfPicked'
  <2>1. CASE UNCHANGED <<compareStatement, compareFunds, compareBench, history, histories>>
    BY <2>1 DEF CompareInv, HistoriesOfPicked, Compare!HistorySignature,
                Compare!SelectedAssets
  <2>2. CASE Compare!Render
    <3>1. CASE Compare!HistorySignature' = histories.signature
      BY <2>2, <3>1 DEF Compare!Render, CompareInv, HistoriesOfPicked
    <3>2. CASE histories' = Compare!Rebuilt'
      <4>1. (/\ Compare!Rebuilt.signature = Compare!HistorySignature
             /\ Compare!Rebuilt.data = Compare!HistorySignature)'
        BY RebuiltIs, PTL
      <4> QED BY <3>2, <4>1 DEF HistoriesOfPicked
    <3> QED BY <2>2, <3>1, <3>2 DEF Compare!Render
  <2> QED BY <2>1, <2>2, RendersOrStays
<1>2. SlidersSettle'
  <2>1. CASE UNCHANGED sandbox
    BY <2>1 DEF CompareInv, SlidersSettle
  <2>2. CASE sandbox' = [sandbox EXCEPT !.open = ~@]
    <3>1. /\ sandbox'.open \in BOOLEAN /\ sandbox'.live = sandbox.live
          /\ sandbox'.settled = sandbox.settled /\ sandbox'.timer = sandbox.timer
      BY <2>2 DEF CompareInv, SlidersSettle
    <3>2. sandbox' \in [open : BOOLEAN, live : Compare!Amounts, settled : Compare!Amounts,
                        timer : Compare!Amounts \union {Compare!NoTimer}]
      BY <2>2 DEF CompareInv, SlidersSettle
    <3> QED BY <3>1, <3>2 DEF CompareInv, SlidersSettle
  <2>3. ASSUME NEW v \in Compare!Amounts,
               sandbox' = [sandbox EXCEPT !.live = v, !.timer = v]
        PROVE  SlidersSettle'
    <3>1. sandbox'.live = v /\ sandbox'.timer = v
      BY <2>3 DEF CompareInv, SlidersSettle
    <3>2. sandbox' \in [open : BOOLEAN, live : Compare!Amounts, settled : Compare!Amounts,
                        timer : Compare!Amounts \union {Compare!NoTimer}]
      BY <2>3 DEF CompareInv, SlidersSettle
    <3>3. v # Compare!NoTimer
      BY DEF Compare!Amounts, Compare!NoTimer
    <3> QED BY <3>1, <3>2, <3>3 DEF SlidersSettle
  <2>4. CASE /\ sandbox.timer # Compare!NoTimer
             /\ sandbox' = [sandbox EXCEPT !.settled = sandbox.timer,
                                           !.timer = Compare!NoTimer]
    BY <2>4 DEF CompareInv, SlidersSettle
  <2> QED BY <2>1, <2>2, <2>3, <2>4, SandboxMoves
<1> QED BY <1>1, <1>2 DEF CompareInv

LEMMA CompareStarts == Init => CompareInv
<1> SUFFICES ASSUME Init PROVE CompareInv
  OBVIOUS
<1>1. histories = Compare!Rebuilt /\ sandbox = Compare!FreshSandbox
  BY DEF Init, Compare!Init
<1> QED BY <1>1, RebuiltIs
        DEF CompareInv, HistoriesOfPicked, SlidersSettle, Compare!FreshSandbox,
            Compare!Amounts, Compare!NoTimer

\* With nothing on its way the category card's figures are of what its heading names; a
\* row of the comparison shows the history of its own asset, as it was read last, in
\* whatever order the histories came; and a projection that is not the sliders' has a
\* timer that makes it so.
THEOREM FiguresFollow == Spec => []FiguresFollowChoice
<1>1. Overview!HeadingOfFigures
  BY DEF Overview!HeadingOfFigures, Overview!Loading, Overview!CategoryFilters
<1>2. CompareInv => Compare!HistoryOfRow /\ Compare!ProjectionCatchesUp
  <2> SUFFICES ASSUME CompareInv
               PROVE  Compare!HistoryOfRow /\ Compare!ProjectionCatchesUp
    OBVIOUS
  <2>1. Compare!HistoryOfRow
    BY DEF CompareInv, HistoriesOfPicked, Compare!HistoryOfRow, Compare!HistorySignature,
           Compare!DataOf
  <2>2. Compare!ProjectionCatchesUp
    BY DEF CompareInv, SlidersSettle, Compare!ProjectionCatchesUp
  <2> QED BY <2>1, <2>2
<1>3. CompareInv => FiguresFollowChoice
  BY <1>1, <1>2 DEF FiguresFollowChoice
<1> QED BY <1>3, CompareStarts, CompareKeeps, PTL DEF Spec
=============================================================================
