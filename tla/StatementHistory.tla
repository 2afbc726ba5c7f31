-------------------------- MODULE StatementHistory --------------------------
(***************************************************************************)
(* The mutual-fund statements of an account: the panel that opens one when    *)
(* none is open, and the history tab that imports, restores, compares and      *)
(* deletes them.  Either is unmounted when the open statement or the tab        *)
(* changes; what it had asked goes on, and still opens and closes statements.   *)
(*                                                                         *)
(* A comparison carries the transactions since its baseline, which the tab      *)
(* adds up twice: over all of them in its header, and fund by fund below.        *)
(***************************************************************************)
EXTENDS Integers, FiniteSets, FiniteSetsExt

CONSTANTS
    Papers, NoPaper,       \* the statements
    Ledgers,               \* sets of transactions a comparison may report
    ActiveFunds,           \* the funds still held
    MaxClicks              \* bound on uploads, deletions, comparisons, restorations

VARIABLES
    papers,                \* the server
    mfSessionId,           \* the open statement
    onHistory,             \* the URL is the history tab's
    pan,                   \* the identity's: "none", "own", or a PDF password
    upload,                \* the upload form of whichever is mounted
    rows,                  \* its list
    compare,               \* comparingWith, compareResult, compareLoading, hideClosed
    mfCalls,
    doomed,                \* a statement was opened or compared that was being deleted,
                           \* or nobody learnt that it was (history)
    mfClicks

vars == <<papers, mfSessionId, onHistory, pan, upload, rows, compare, mfCalls, doomed,
          mfClicks>>

Maybe == Papers \union {NoPaper}
FreshUpload == [open |-> FALSE, file |-> FALSE, password |-> FALSE, busy |-> FALSE,
                error |-> FALSE]
NoResult == [baseline |-> NoPaper, current |-> NoPaper, ledger |-> {}]
FreshCompare == [with |-> NoPaper, result |-> NoResult, busy |-> FALSE,
                 hideClosed |-> TRUE]

\* A request of the mounted component ("gone" once that is not): about a statement,
\* with the values its handler closed over.
Call(op, of) == [op |-> op, by |-> "mounted", of |-> of, active |-> mfSessionId,
                 with |-> compare.with, password |-> upload.password, done |-> FALSE]
Waiting == {c \in mfCalls : c.by = "mounted"}
BeingDeleted(s) == \E c \in mfCalls : c.op = "delete" /\ c.of = s

\* MutualFundsDashboard: the panel without a statement, the tab with one.
Mounted(s, h) == IF s = NoPaper THEN "panel" ELSE IF h THEN "history" ELSE "none"
Here == Mounted(mfSessionId, onHistory)

\* The panel lists only for an identity with a PAN.
Lists(m, p) == m = "history" \/ (m = "panel" /\ p # "none")

\* Statement s open, the tab h, identity p, and up, r, cmp and cs as they are if the
\* same component stays mounted.  A new PAN has the panel list again.
Show(s, h, p, up, r, cmp, cs) ==
    /\ mfSessionId' = s /\ onHistory' = h /\ pan' = p
    /\ LET m == Mounted(s, h)
           same == m = Here
           asks == Lists(m, p) /\ (~same \/ (m = "panel" /\ p # pan))
           kept == IF same THEN cs
                   ELSE {[c EXCEPT !.by = "gone"] : c \in {x \in cs : x.op # "list"}}
       IN /\ upload' = IF same THEN up ELSE FreshUpload
          /\ rows' = IF same THEN r ELSE {}
          /\ compare' = IF same THEN cmp ELSE FreshCompare
          /\ mfCalls' = IF asks THEN kept \union {[Call("list", NoPaper) EXCEPT
                                     !.active = NoPaper, !.with = NoPaper,
                                     !.password = FALSE]}
                                ELSE kept

Stay(up, r, cmp, cs) == Show(mfSessionId, onHistory, pan, up, r, cmp, cs)
Click == mfClicks < MaxClicks /\ mfClicks' = mfClicks + 1

Init ==
    /\ papers \in SUBSET Papers
    /\ mfSessionId \in papers \union {NoPaper}
    /\ onHistory = FALSE /\ pan \in {"none", "own"}
    /\ upload = FreshUpload /\ rows = {} /\ compare = FreshCompare
    /\ mfCalls = IF Lists(Here, pan) THEN {Call("list", NoPaper)} ELSE {}
    /\ doomed = FALSE /\ mfClicks = 0

----------------------------------------------------------------------------
\* What the user does.

HandleTabChange ==
    /\ mfSessionId # NoPaper
    /\ Show(mfSessionId, ~onHistory, pan, upload, rows, compare, mfCalls)
    /\ UNCHANGED <<papers, doomed, mfClicks>>

\* The tab shows a spinner until its list was read, or could not be.
TabReady == Here = "history" /\ ~\E c \in Waiting : c.op = "list"

\* The form is in the panel, and in the tab once it is opened there.
FormShown == Here = "panel" \/ (TabReady /\ upload.open)

ToggleUpload ==
    /\ TabReady
    /\ Stay([upload EXCEPT !.open = ~@, !.file = FALSE, !.error = FALSE], rows, compare,
            mfCalls)
    /\ UNCHANGED <<papers, doomed, mfClicks>>

OnDrop ==
    /\ FormShown
    /\ Stay([upload EXCEPT !.file = TRUE, !.error = FALSE], rows, compare, mfCalls)
    /\ UNCHANGED <<papers, doomed, mfClicks>>

SetPassword ==
    /\ FormShown /\ upload.file
    /\ Stay([upload EXCEPT !.password = ~@], rows, compare, mfCalls)
    /\ UNCHANGED <<papers, doomed, mfClicks>>

\* handleAnalyze of the panel, handleUpload of the tab.
HandleUpload ==
    /\ FormShown /\ upload.file /\ ~upload.busy /\ Click
    /\ Stay([upload EXCEPT !.busy = TRUE, !.error = FALSE], rows, compare,
            mfCalls \union {Call(IF Here = "panel" THEN "analyze" ELSE "upload", NoPaper)})
    /\ UNCHANGED <<papers, doomed>>

\* RESTORE, or a row of the panel.
RestoreSession(s) ==
    /\ s \in rows \ {mfSessionId} /\ Click
    /\ doomed' = (doomed \/ BeingDeleted(s) \/ s \notin papers)
    /\ Show(s, onHistory, pan, upload, rows, compare, mfCalls)
    /\ UNCHANGED papers

HandleCompare(s) ==
    /\ TabReady /\ s \in rows \ {mfSessionId} /\ Click
    /\ doomed' = (doomed \/ BeingDeleted(s) \/ s \notin papers)
    /\ Stay(upload, rows, [compare EXCEPT !.with = s, !.busy = TRUE],
            mfCalls \union {Call("compare", s)})
    /\ UNCHANGED papers

\* Confirmed.
HandleDeleteSession(s) ==
    /\ TabReady /\ s \in rows /\ Click
    /\ Stay(upload, rows, compare, mfCalls \union {Call("delete", s)})
    /\ UNCHANGED <<papers, doomed>>

HideClosed ==
    /\ TabReady /\ compare.result # NoResult /\ ~compare.busy
    /\ Stay(upload, rows, [compare EXCEPT !.hideClosed = ~@], mfCalls)
    /\ UNCHANGED <<papers, doomed, mfClicks>>

----------------------------------------------------------------------------
\* Answers.

\* The form a failed or finished upload leaves.
Settled(c, up) == IF c.by = "mounted" THEN [up EXCEPT !.busy = FALSE] ELSE upload

\* Parsed, the statement is opened; the panel, gone by then, makes the password it
\* was opened with the identity's PAN, and the tab reads its list again.
ReceiveParse(c) ==
    /\ c \in mfCalls /\ c.op \in {"analyze", "upload"}
    /\ \E s \in Papers :
         /\ papers' = papers \union {s}
         /\ doomed' = (doomed \/ BeingDeleted(s))
         /\ Show(s, onHistory,
                 IF c.op = "analyze" /\ c.password THEN "password" ELSE pan,
                 upload, rows, compare,
                 (mfCalls \ {c}) \union
                    {[c EXCEPT !.op = "relist"] : x \in {y \in {c} : y.op = "upload"}})
    /\ UNCHANGED mfClicks

\* Bug: the form stays busy after an upload that failed.
ReceiveFailedSilently(c) ==
    /\ c \in mfCalls /\ c.op \in {"analyze", "upload", "relist"}
    /\ Stay(upload, rows, compare, mfCalls \ {c})
    /\ UNCHANGED <<papers, doomed, mfClicks>>

\* Nothing was parsed, or the list could not be read again.
ReceiveFailed(c) ==
    /\ c \in mfCalls /\ c.op \in {"analyze", "upload", "relist"}
    /\ Stay(Settled(c, [upload EXCEPT !.error = TRUE]), rows, compare, mfCalls \ {c})
    /\ UNCHANGED <<papers, doomed, mfClicks>>

ReceiveList(c) ==
    /\ c \in mfCalls /\ c.op \in {"list", "relist"}
    /\ Stay(IF c.op = "relist" THEN Settled(c, [upload EXCEPT !.open = FALSE,
                                                           !.file = FALSE])
                               ELSE upload,
            IF c.by = "mounted" THEN papers ELSE rows, compare, mfCalls \ {c})
    /\ UNCHANGED <<papers, doomed, mfClicks>>

ListFails(c) ==
    /\ c \in mfCalls /\ c.op = "list"
    /\ Stay(upload, rows, compare, mfCalls \ {c})
    /\ UNCHANGED <<papers, doomed, mfClicks>>

\* The server's answer names both statements.  Whichever was asked for last, the one
\* that arrives last is shown; one that failed leaves what was there.
ReceiveCompare(c) ==
    /\ c \in mfCalls /\ c.op = "compare"
    /\ \/ /\ {c.of, c.active} \subseteq papers
          /\ \E ledger \in Ledgers :
               Stay(upload, rows,
                    IF c.by = "gone" THEN compare
                    ELSE [compare EXCEPT !.busy = FALSE,
                            !.result = [baseline |-> c.of, current |-> c.active,
                                        ledger |-> ledger]],
                    mfCalls \ {c})
       \/ Stay(upload, rows,
               IF c.by = "gone" THEN compare ELSE [compare EXCEPT !.busy = FALSE],
               mfCalls \ {c})
    /\ UNCHANGED <<papers, doomed, mfClicks>>

ServeDelete(c) ==
    /\ c \in mfCalls /\ c.op = "delete" /\ ~c.done
    /\ papers' = papers \ {c.of}
    /\ mfCalls' = (mfCalls \ {c}) \union {[c EXCEPT !.done = TRUE]}
    /\ UNCHANGED <<mfSessionId, onHistory, pan, upload, rows, compare, doomed, mfClicks>>

DeleteFails(c) ==
    /\ c \in mfCalls /\ c.op = "delete"
    /\ Stay(upload, rows, compare, mfCalls \ {c})
    /\ doomed' = (doomed \/ c.done)
    /\ UNCHANGED <<papers, mfClicks>>

\* Bug: the comparison with a deleted statement is kept.
CompareKept(c) == compare

\* A comparison with it is cleared.
CompareAfter(c) ==
    IF c.with = c.of THEN [compare EXCEPT !.with = NoPaper, !.result = NoResult]
                     ELSE compare

\* Bug: the open statement is left open.
OpenAnyway(c) == mfSessionId

\* What was open when it was deleted is closed, or whatever is open instead by now.
OpenAfter(c) == IF c.active = c.of THEN NoPaper ELSE mfSessionId

ReceiveDelete(c) ==
    /\ c \in mfCalls /\ c.op = "delete" /\ c.done
    /\ Show(OpenAfter(c), onHistory, pan, upload, rows \ {c.of},
            IF c.by = "mounted" THEN CompareAfter(c) ELSE compare, mfCalls \ {c})
    /\ UNCHANGED <<papers, doomed, mfClicks>>

Next ==
    \/ HandleTabChange \/ ToggleUpload \/ OnDrop \/ SetPassword \/ HandleUpload
    \/ HideClosed
    \/ \E s \in Papers : RestoreSession(s) \/ HandleCompare(s) \/ HandleDeleteSession(s)
    \/ \E c \in mfCalls : \/ ReceiveParse(c) \/ ReceiveFailed(c) \/ ReceiveList(c)
                          \/ ListFails(c) \/ ReceiveCompare(c) \/ ServeDelete(c)
                          \/ DeleteFails(c) \/ ReceiveDelete(c)

Spec == Init /\ [][Next]_vars

----------------------------------------------------------------------------
\* The comparison column.  A transaction has a fund, the words of its type, the sign
\* of its units and an amount.

Abs(x) == IF x < 0 THEN -x ELSE x
Sum(f(_), S) == MapThenSumSet(f, S)

\* Bug: what the words say is left out.
IsPurchaseBySign(tx) == tx.sign > 0

IsRedemption(tx) == tx.sign < 0 \/ tx.words = "out"
IsPurchase(tx) == tx.sign > 0 \/ tx.words = "in"

\* Hidden are the funds not held any more, unless none is.
Hidden(tx) == compare.hideClosed /\ ActiveFunds # {} /\ tx.fund \notin ActiveFunds

Grouped == {tx \in compare.result.ledger : ~Hidden(tx)}
GroupedTransactions ==
    [fund \in {tx.fund : tx \in Grouped} |->
       LET of == {tx \in Grouped : tx.fund = fund}
           amount(tx) == Abs(tx.amount)
       IN [bought |-> Sum(amount, {tx \in of : IsPurchase(tx)}),
           sold |-> Sum(amount, {tx \in of : IsRedemption(tx) /\ ~IsPurchase(tx)})]]

TotalBought ==
    LET amount(tx) == Abs(tx.amount)
    IN Sum(amount, {tx \in compare.result.ledger : tx.sign > 0 \/ tx.words = "in"})
TotalSold ==
    LET amount(tx) == Abs(tx.amount)
    IN Sum(amount, {tx \in compare.result.ledger : tx.sign < 0 \/ tx.words = "out"})

\* Units and words that contradict each other: an instalment that was reversed.
Reversed(tx) == IsPurchase(tx) /\ IsRedemption(tx)

----------------------------------------------------------------------------
\* The shape of the state.
StatementTypeOK ==
    /\ papers \subseteq Papers /\ mfSessionId \in Maybe /\ rows \subseteq Papers
    /\ {onHistory, doomed} \subseteq BOOLEAN /\ pan \in {"none", "own", "password"}
    /\ upload \in [{"open", "file", "password", "busy", "error"} -> BOOLEAN]
    /\ compare.with \in Maybe /\ {compare.busy, compare.hideClosed} \subseteq BOOLEAN
    /\ compare.result.ledger \in Ledgers \union {{}}

\* A statement deleted here does not stay open behind its deletion, unless it was
\* opened over that, or its answer was lost.
DeletedIsLeft ==
    (~doomed /\ ~\E c \in mfCalls : c.op = "delete")
       => mfSessionId \in papers \union {NoPaper}

\* Nor does it stay the baseline the next comparison is shown against.
BaselineExists ==
    (~doomed /\ ~\E c \in mfCalls : c.op = "delete")
       => compare.with \in papers \union {NoPaper}

\* A busy form waits for something, however the user moved between panel and tab.
FormNotStuck ==
    upload.busy => \E c \in Waiting : c.op \in {"analyze", "upload", "relist"}

\* With nothing hidden, and no instalment reversed, the header's totals are the sums
\* of the funds listed below it.
HeaderAddsUp ==
    (~compare.hideClosed /\ \A tx \in compare.result.ledger : ~Reversed(tx)) =>
       LET groups == DOMAIN GroupedTransactions
           bought(fund) == GroupedTransactions[fund].bought
           sold(fund) == GroupedTransactions[fund].sold
       IN TotalBought = Sum(bought, groups) /\ TotalSold = Sum(sold, groups)
=============================================================================
