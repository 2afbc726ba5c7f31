------------------------------ MODULE TaxPanel ------------------------------
(***************************************************************************)
(* The tax sessions of an account in the browser: the panel that uploads or    *)
(* restores one while none is open, and the dashboard of the open one with its  *)
(* popover.  The dashboard validates the open session by reading its summary:   *)
(* a session the server does not know is closed, and the panel says it was lost. *)
(*                                                                         *)
(* Panel and popover have the same list, upload form and deletion dialog; one    *)
(* of them at most is mounted, so one set of variables stands for both.          *)
(***************************************************************************)
EXTENDS Naturals, FiniteSets

CONSTANTS
    Returns, NoReturn,     \* the sessions, by the return they are about
    MaxClicks              \* bound on uploads, deletions and restorations

VARIABLES
    returns,               \* the server
    taxSessionId,          \* the open session
    sessionExpired,        \* the panel says that it was lost
    summaries,             \* sessions whose summary is in the cache
    exporting,
    popped,                \* the popover is open
    listed,                \* the list
    form,                  \* the upload form
    confirm, deleting,     \* the deletion dialog
    taxCalls,
    expected,              \* sessions that went while they were open, or whose read or
                           \* deletion failed or was under way when opened (history)
    taxClicks

ui == <<popped, listed, form, confirm, deleting>>
vars == <<returns, taxSessionId, sessionExpired, summaries, exporting, ui, taxCalls,
          expected, taxClicks>>

Maybe == Returns \union {NoReturn}
NoForm == [file |-> FALSE, busy |-> FALSE, error |-> FALSE]

\* A request of the mounted component, or of one that is gone; active is the session
\* open when it was asked.
Call(op, by, of) == [op |-> op, by |-> by, of |-> of, active |-> taxSessionId,
                     done |-> FALSE]
Waiting == {c \in taxCalls : c.by = "mounted"}

\* A summary is on its way and there is none to show: a spinner, and neither panel
\* nor dashboard is mounted.
Validating(s, known, cs) ==
    s # NoReturn /\ s \notin known /\ \E c \in cs : c.op = "summary" /\ c.of = s
Shown(s, known, cs) ==
    IF s = NoReturn THEN "panel"
    ELSE IF Validating(s, known, cs) THEN "spinner" ELSE "dashboard"
Here == Shown(taxSessionId, summaries, taxCalls)

\* Session s is open, with summaries known and requests cs; what is not shown any
\* more is unmounted, what is shown is w.
Show(s, known, cs, u) ==
    LET m == Shown(s, known, cs)
        kept == IF m = Here THEN cs
                ELSE {IF c.by = "mounted" THEN [c EXCEPT !.by = "gone"] ELSE c
                        : c \in {x \in cs : x.op # "list"}}
        w == IF m = Here THEN u ELSE <<FALSE, {}, NoForm, NoReturn, FALSE>>
    IN /\ taxSessionId' = s /\ summaries' = known
       /\ taxCalls' = IF m = "panel" /\ Here # "panel"
                      THEN kept \union {Call("list", "mounted", NoReturn)} ELSE kept
       /\ popped' = w[1] /\ listed' = w[2] /\ form' = w[3] /\ confirm' = w[4]
       /\ deleting' = w[5]

\* invalidateTaxQueries, once s is open: its summary is read again.
Reread(s) == IF s = NoReturn THEN {} ELSE {Call("summary", "dashboard", s)}

Click == taxClicks < MaxClicks /\ taxClicks' = taxClicks + 1
BeingDeleted(s) == \E c \in taxCalls : c.op = "delete" /\ c.of = s

Init ==
    /\ returns \in SUBSET Returns
    /\ taxSessionId \in returns \union {NoReturn}
    /\ sessionExpired = FALSE /\ summaries = {} /\ exporting = FALSE
    /\ popped = FALSE /\ listed = {} /\ form = NoForm
    /\ confirm = NoReturn /\ deleting = FALSE
    /\ taxCalls = IF taxSessionId = NoReturn
                  THEN {Call("list", "mounted", NoReturn)}
                  ELSE {Call("summary", "dashboard", taxSessionId)}
    /\ expected = {} /\ taxClicks = 0

----------------------------------------------------------------------------
\* What the user does.  The dialog is above everything else.

ListShown == Here = "panel" \/ (Here = "dashboard" /\ popped)
Usable == ListShown /\ confirm = NoReturn

TogglePopover ==
    /\ Here = "dashboard" /\ confirm = NoReturn
    /\ popped' = ~popped
    /\ taxCalls' = IF popped THEN taxCalls
                   ELSE taxCalls \union {Call("list", "mounted", NoReturn)}
    /\ UNCHANGED <<returns, taxSessionId, sessionExpired, summaries, exporting, listed,
                   form, confirm, deleting, expected, taxClicks>>

OnDrop ==
    /\ Usable
    /\ form' = [form EXCEPT !.file = TRUE, !.error = FALSE]
    /\ UNCHANGED <<returns, taxSessionId, sessionExpired, summaries, exporting, popped,
                   listed, confirm, deleting, taxCalls, expected, taxClicks>>

HandleAnalyze ==
    /\ Usable /\ form.file /\ ~form.busy /\ Click
    /\ form' = [form EXCEPT !.busy = TRUE, !.error = FALSE]
    /\ taxCalls' = taxCalls \union
                     {Call(IF Here = "panel" THEN "analyze" ELSE "upload", "mounted",
                           NoReturn)}
    /\ UNCHANGED <<returns, taxSessionId, sessionExpired, summaries, exporting, popped,
                   listed, confirm, deleting, expected>>

\* A row, other than the open one's.  The popover closes.
HandleSelect(s) ==
    /\ Usable /\ s \in listed \ {taxSessionId} /\ Click
    /\ expected' = IF BeingDeleted(s) THEN expected \union {s} ELSE expected \ {s}
    /\ Show(s, summaries, taxCalls \union Reread(s), <<FALSE, listed, form, confirm, deleting>>)
    /\ UNCHANGED <<returns, sessionExpired, exporting>>

AskDelete(s) ==
    /\ Usable /\ s \in listed
    /\ confirm' = s
    /\ UNCHANGED <<returns, taxSessionId, sessionExpired, summaries, exporting, popped,
                   listed, form, deleting, taxCalls, expected, taxClicks>>

\* Bug: Escape closes it whatever it is doing.
CanCancelAlways == confirm # NoReturn

CanCancel == confirm # NoReturn /\ ~deleting

Cancel ==
    /\ CanCancel
    /\ confirm' = NoReturn
    /\ UNCHANGED <<returns, taxSessionId, sessionExpired, summaries, exporting, popped,
                   listed, form, deleting, taxCalls, expected, taxClicks>>

HandleDelete ==
    /\ confirm # NoReturn /\ ~deleting /\ Click
    /\ deleting' = TRUE
    /\ taxCalls' = taxCalls \union {Call("delete", "mounted", confirm)}
    /\ UNCHANGED <<returns, taxSessionId, sessionExpired, summaries, exporting, popped,
                   listed, form, confirm, expected>>

\* Five reads of the session that is open, each of which may fail by itself.
HandleExportTaxReport ==
    /\ Here = "dashboard" /\ ~popped /\ confirm = NoReturn /\ ~exporting
    /\ exporting' = TRUE
    /\ UNCHANGED <<returns, taxSessionId, sessionExpired, summaries, ui, taxCalls,
                   expected, taxClicks>>

ExportEnds ==
    /\ exporting /\ exporting' = FALSE
    /\ UNCHANGED <<returns, taxSessionId, sessionExpired, summaries, ui, taxCalls,
                   expected, taxClicks>>

----------------------------------------------------------------------------
\* Answers.

ReceiveList(c) ==
    /\ c \in taxCalls /\ c.op = "list"
    /\ taxCalls' = taxCalls \ {c}
    /\ listed' \in {returns, listed}        \* or it failed
    /\ UNCHANGED <<returns, taxSessionId, sessionExpired, summaries, exporting, popped,
                   form, confirm, deleting, expected, taxClicks>>

\* The panel's upload takes back that a session was lost; the popover's closes it.
ReceiveParse(c) ==
    /\ c \in taxCalls /\ c.op \in {"analyze", "upload"}
    /\ \E s \in Returns :
         /\ returns' = returns \union {s}
         /\ expected' = IF BeingDeleted(s) THEN expected \union {s} ELSE expected \ {s}
         /\ Show(s, summaries, (taxCalls \ {c}) \union Reread(s),
                 IF c.by = "mounted"
                 THEN <<FALSE, listed, [form EXCEPT !.busy = FALSE], confirm, deleting>>
                 ELSE ui)
    /\ sessionExpired' = (sessionExpired /\ c.op = "upload")
    /\ UNCHANGED <<exporting, taxClicks>>

\* Bug: the spinner goes off on success only.
ParseFailsBusy(c) ==
    /\ c \in taxCalls /\ c.op \in {"analyze", "upload"}
    /\ taxCalls' = taxCalls \ {c}
    /\ form' = IF c.by = "mounted" THEN [form EXCEPT !.error = TRUE] ELSE form
    /\ UNCHANGED <<returns, taxSessionId, sessionExpired, summaries, exporting, popped,
                   listed, confirm, deleting, expected, taxClicks>>

ParseFails(c) ==
    /\ c \in taxCalls /\ c.op \in {"analyze", "upload"}
    /\ taxCalls' = taxCalls \ {c}
    /\ form' = IF c.by = "mounted" THEN [form EXCEPT !.busy = FALSE, !.error = TRUE]
                                   ELSE form
    /\ UNCHANGED <<returns, taxSessionId, sessionExpired, summaries, exporting, popped,
                   listed, confirm, deleting, expected, taxClicks>>

\* Bug: a session the server does not know is shown all the same.
ReceiveNotFoundIgnored(c) ==
    /\ c \in taxCalls /\ c.op = "summary" /\ c.of \notin returns
    /\ Show(taxSessionId, summaries, taxCalls \ {c}, ui)
    /\ UNCHANGED <<returns, sessionExpired, exporting, expected, taxClicks>>

\* 404 for the session that is open; for another, nothing looks at it.
ReceiveNotFound(c) ==
    /\ c \in taxCalls /\ c.op = "summary" /\ c.of \notin returns
    /\ IF c.of = taxSessionId
       THEN Show(NoReturn, summaries, taxCalls \ {c}, ui) /\ sessionExpired' = TRUE
       ELSE Show(taxSessionId, summaries, taxCalls \ {c}, ui) /\ UNCHANGED sessionExpired
    /\ UNCHANGED <<returns, exporting, expected, taxClicks>>

\* Read, or failed otherwise: the dashboard is shown.
ReceiveSummary(c) ==
    /\ c \in taxCalls /\ c.op = "summary"
    /\ \/ /\ c.of \in returns
          /\ Show(taxSessionId, summaries \union {c.of}, taxCalls \ {c}, ui)
          /\ UNCHANGED expected
       \/ /\ Show(taxSessionId, summaries, taxCalls \ {c}, ui)
          /\ expected' = expected \union ({c.of} \ returns)
    /\ UNCHANGED <<returns, sessionExpired, exporting, taxClicks>>

\* The server restarts without a session it had, or another tab deletes it: nobody
\* learns until its summary is read.
Lose(s) ==
    /\ s \in returns /\ Click
    /\ returns' = returns \ {s}
    /\ expected' = IF s = taxSessionId THEN expected \union {s} ELSE expected
    /\ UNCHANGED <<taxSessionId, sessionExpired, summaries, exporting, ui, taxCalls>>

ServeDelete(c) ==
    /\ c \in taxCalls /\ c.op = "delete" /\ ~c.done
    /\ returns' = returns \ {c.of}
    /\ taxCalls' = (taxCalls \ {c}) \union {[c EXCEPT !.done = TRUE]}
    /\ UNCHANGED <<taxSessionId, sessionExpired, summaries, exporting, ui, expected,
                   taxClicks>>

\* clearSession, if it was open when its deletion was confirmed.
SessionAfter(c) == IF c.active = c.of THEN NoReturn ELSE taxSessionId

ReceiveDelete(c) ==
    /\ c \in taxCalls /\ c.op = "delete" /\ c.done
    /\ Show(SessionAfter(c), summaries, (taxCalls \ {c}) \union Reread(SessionAfter(c)),
            IF c.by = "mounted"
            THEN <<popped, listed \ {c.of}, form, NoReturn, FALSE>> ELSE ui)
    /\ UNCHANGED <<returns, sessionExpired, exporting, expected, taxClicks>>

\* The dialog closes here too.
DeleteFails(c) ==
    /\ c \in taxCalls /\ c.op = "delete"
    /\ Show(taxSessionId, summaries, taxCalls \ {c},
            IF c.by = "mounted" THEN <<popped, listed, form, NoReturn, FALSE>> ELSE ui)
    /\ expected' = IF c.done THEN expected \union {c.of} ELSE expected
    /\ UNCHANGED <<returns, sessionExpired, exporting, taxClicks>>

Next ==
    \/ TogglePopover \/ OnDrop \/ HandleAnalyze \/ Cancel \/ HandleDelete
    \/ HandleExportTaxReport \/ ExportEnds
    \/ \E s \in Returns : HandleSelect(s) \/ AskDelete(s) \/ Lose(s)
    \/ \E c \in taxCalls : \/ ReceiveList(c) \/ ReceiveParse(c) \/ ParseFails(c)
                           \/ ReceiveNotFound(c) \/ ReceiveSummary(c) \/ ServeDelete(c)
                           \/ ReceiveDelete(c) \/ DeleteFails(c)

Spec == Init /\ [][Next]_vars

----------------------------------------------------------------------------
\* The shape of the state.
TaxPanelTypeOK ==
    /\ returns \subseteq Returns /\ taxSessionId \in Maybe
    /\ {sessionExpired, exporting, popped, deleting} \subseteq BOOLEAN
    /\ {summaries, listed, expected} \subseteq SUBSET Returns
    /\ form \in [{"file", "busy", "error"} -> BOOLEAN] /\ confirm \in Maybe
    /\ form.busy => \E c \in Waiting : c.op \in {"analyze", "upload"}

\* While a deletion runs, the dialog names the session that is being deleted.
DialogNamesDeletion ==
    deleting => \E c \in Waiting : c.op = "delete" /\ c.of = confirm

\* A session the server did not have when it was opened, or that was deleted here, does
\* not stay open: its summary is still to be read, or its deletion to be answered,
\* unless it was opened over its deletion, or one of these failed.
UnknownIsClosed ==
    taxSessionId \in returns \union {NoReturn} \union expected
      \/ \E c \in taxCalls : c.of = taxSessionId /\ c.op \in {"summary", "delete"}
=============================================================================
