--------------------------- MODULE EquityPortfolio ---------------------------
(***************************************************************************)
(* Opening an equity portfolio: the panel shown when none is open (broker    *)
(* login, holdings upload, previous portfolios), the popover that switches    *)
(* between them, and the return leg of the Zerodha login.                     *)
(*                                                                         *)
(* A parsed upload is opened 1.2 s after it was parsed, by a timer that is     *)
(* cancelled when the panel goes; an upload answered after that sets its timer *)
(* all the same.  Two handlers delete a portfolio: the panel's looks at the    *)
(* open portfolio when the answer comes, the popover's at the one that was open *)
(* when it was clicked.                                                      *)
(***************************************************************************)
EXTENDS Naturals, FiniteSets

CONSTANTS
    Portfolios, NoPortfolio,
    Files,             \* "holdings", and the tradebook that may come with it
    MaxClicks          \* bound on uploads, logins, deletions and openings

VARIABLES
    portfolios,        \* the server
    equitySessionId,   \* the open portfolio
    place,             \* "portfolio", "analyzer", "away", or at "zerodha"
    panel,             \* EquityUploadPanel, while nothing is open
    parsed,            \* uploads waiting to be opened
    popover,           \* SwitchSessionButton
    kite,              \* useKiteOAuthCallback
    address,           \* the request token in the URL, and in the next history entry
    stash, issued,     \* the login's state: in session storage, and on the server
    jump,              \* a login finished after the module was left goes back to it
    equityCalls,
    opener,            \* who opened or closed a portfolio last (history)
    crossed,           \* it was doomed when it was opened, or nobody learnt that it
                       \* was deleted (history)
    clicks

vars == <<portfolios, equitySessionId, place, panel, parsed, popover, kite, address,
          stash, issued, jump, equityCalls, opener, crossed, clicks>>
login == <<kite, address, stash, issued, jump>>

Maybe == Portfolios \union {NoPortfolio}
Tokens == {"echoed", "bare", "cancelled"}     \* with its state, without, or refused
NoToken == "none"
Syncs == {"idle", "syncing", "success"}

FreshPanel == [csv |-> FALSE, files |-> {}, sync |-> "idle", error |-> FALSE, rows |-> {}]
Closed == [open |-> FALSE, rows |-> {}]
FreshKite == [tried |-> FALSE, sync |-> "idle", error |-> FALSE, posts |-> 0]

\* A request: by whom it is awaited ("gone" once that was unmounted), about which
\* portfolio, the one open when it was asked, and whether a deletion was done.
Call(op, by, of) == [op |-> op, by |-> by, of |-> of, active |-> equitySessionId,
                     done |-> FALSE]
Deletes == {"delete", "deleteHistory"}

\* EquityUploadPanel is mounted on the portfolio tabs while no portfolio is open.
PanelOn(p, s) == p = "portfolio" /\ s = NoPortfolio

\* Bug: what the panel was waiting to open is kept.
KeptTimers(p, s) == parsed

KeptOn(p, s) == {t \in parsed : t.late \/ PanelOn(p, s)}

\* What an unmounted panel still waits for; its list would be shown nowhere.
Abandoned(cs) ==
    {IF c.by = "panel" THEN [c EXCEPT !.by = "gone"] ELSE c
       : c \in {x \in cs : ~(x.by = "panel" /\ x.op = "history")}}

\* Where the user is and which portfolio is open, with the panel mounted or unmounted
\* to match: pa and cs are what it and the requests would be if it stayed.
Show(p, s, pa, cs) ==
    /\ place' = p /\ equitySessionId' = s
    /\ IF PanelOn(p, s) = PanelOn(place, equitySessionId)
       THEN panel' = pa /\ equityCalls' = cs
       ELSE /\ panel' = FreshPanel
            /\ equityCalls' = IF PanelOn(p, s)
                              THEN cs \union {Call("history", "panel", NoPortfolio)}
                              ELSE Abandoned(cs)

BeingDeleted(s, ops) == \E c \in equityCalls : c.op \in ops /\ c.of = s

\* The popover's deletion of s is on its way, or s is gone but for the panel's.
Doomed(s) ==
    \/ BeingDeleted(s, {"deleteHistory"})
    \/ s \notin portfolios \union {NoPortfolio} /\ ~BeingDeleted(s, {"delete"})

\* setSession, setSessionById: s is opened, or with NoPortfolio what is open closed.
Open(s, by) ==
    /\ opener' = by
    /\ crossed' = (crossed \/ Doomed(s))

Click == clicks < MaxClicks /\ clicks' = clicks + 1

\* The overlay of the login covers the module.
Covered == kite.sync # "idle" \/ kite.error
Uncovered == place \in {"portfolio", "analyzer"} /\ ~Covered
PanelUsable == Uncovered /\ PanelOn(place, equitySessionId) /\ ~popover.open
               /\ panel.sync = "idle"

Init ==
    /\ portfolios \in SUBSET Portfolios
    /\ equitySessionId \in portfolios \union {NoPortfolio}
    /\ place = "away"
    /\ panel = FreshPanel /\ parsed = {} /\ popover = Closed
    /\ kite = FreshKite /\ address = [token |-> NoToken, ahead |-> NoToken]
    /\ stash = FALSE /\ issued = FALSE /\ jump = FALSE
    /\ equityCalls = {} /\ opener = "user" /\ crossed = FALSE /\ clicks = 0

----------------------------------------------------------------------------
\* The return leg of the login.

\* Bug: a token that was tried is tried again.
PostsAgain(k, t) == t = "echoed" \/ (t = "bare" /\ stash)

\* The effect runs when the module is mounted and whenever the path changes.
Posts(k, t) == ~k.tried /\ (t = "echoed" \/ (t = "bare" /\ stash))
Unverified(k, t) == ~k.tried /\ t = "bare" /\ ~stash
Refused(k, t) == t = "cancelled" \/ Unverified(k, t)

CallbackCalls(k, t) ==
    IF Posts(k, t) THEN {Call("connect", "kite", NoPortfolio)} ELSE {}

Callback(k, t, ahead) ==
    /\ kite' = [k EXCEPT !.tried = @ \/ Posts(k, t) \/ Unverified(k, t),
                         !.sync = IF Posts(k, t) THEN "syncing" ELSE @,
                         !.error = (@ /\ ~Posts(k, t)) \/ Refused(k, t),
                         !.posts = IF Posts(k, t) THEN @ + 1 ELSE @]
    /\ address' = [token |-> IF Refused(k, t) THEN NoToken ELSE t, ahead |-> ahead]
    /\ stash' = (stash /\ t # "cancelled")

\* The user goes to p, the URL holding token t then.  Outside the module nothing of it
\* is kept; a login on its way there is.
Go(p, t, ahead) ==
    /\ p # place
    /\ LET k == IF place \in {"away", "zerodha"} THEN FreshKite ELSE kite
           left == {IF c.by = "kite" THEN [c EXCEPT !.by = "gone"] ELSE c
                      : c \in {x \in equityCalls : x.by # "popover"}}
           cs == IF p = "away" THEN left ELSE equityCalls
       IN /\ IF p = "away"
             THEN /\ kite' = FreshKite /\ UNCHANGED stash
                  /\ address' = [token |-> t, ahead |-> ahead]
                  /\ popover' = Closed
             ELSE Callback(k, t, ahead) /\ UNCHANGED popover
          /\ Show(p, equitySessionId, panel,
                  IF p = "away" THEN cs ELSE cs \union CallbackCalls(k, t))
    /\ parsed' = KeptOn(p, equitySessionId)
    /\ UNCHANGED <<portfolios, issued, opener, crossed, clicks>>

\* handleTabChange, or the sidebar: a path without a query.
Navigate(p) ==
    /\ place = "away" \/ (Uncovered /\ ~popover.open)
    /\ Go(p, NoToken, NoToken)
    /\ UNCHANGED jump

Back(p) ==
    /\ place \in {"portfolio", "analyzer"} /\ address.token # NoToken
    /\ Go(p, NoToken, address.token)
    /\ UNCHANGED jump

Forward ==
    /\ address.ahead # NoToken /\ place # "zerodha"
    /\ Go("portfolio", address.ahead, NoToken)
    /\ UNCHANGED jump

\* The timer of a login that finished after the module was left.
JumpBack ==
    /\ jump /\ jump' = FALSE
    /\ \/ Go("portfolio", NoToken, NoToken)
       \/ /\ place = "portfolio"
          /\ address' = [address EXCEPT !.token = NoToken]
          /\ UNCHANGED <<portfolios, equitySessionId, place, panel, parsed, popover,
                         kite, stash, issued, equityCalls, opener, crossed, clicks>>

\* The server takes a state once, and makes a portfolio of the holdings.
ReceiveConnect(c) ==
    /\ c \in equityCalls /\ c.op = "connect"
    /\ stash' = FALSE /\ issued' = FALSE
    /\ \/ /\ issued
          /\ \E s \in Portfolios :
               /\ portfolios' = portfolios \union {s}
               /\ Show(place, s, panel, equityCalls \ {c})
               /\ parsed' = KeptOn(place, s)
               /\ crossed' = (crossed \/ BeingDeleted(s, {"deleteHistory"}))
          /\ opener' = "kite"
          /\ kite' = IF c.by = "kite" THEN [kite EXCEPT !.sync = "success"] ELSE kite
          /\ jump' = (jump \/ c.by # "kite")
          /\ UNCHANGED address
       \/ /\ equityCalls' = equityCalls \ {c}
          /\ kite' = IF c.by = "kite" THEN [kite EXCEPT !.sync = "idle", !.error = TRUE]
                                      ELSE kite
          /\ address' = [address EXCEPT !.token = NoToken]
          /\ UNCHANGED <<portfolios, equitySessionId, place, panel, parsed, jump,
                         opener, crossed>>
    /\ UNCHANGED <<popover, clicks>>

\* 900 ms after: the parameters go from the URL the user is at, and the overview is
\* shown.
FinishLogin ==
    /\ kite.sync = "success"
    /\ kite' = [kite EXCEPT !.sync = "idle"]
    /\ address' = [address EXCEPT !.token = NoToken]
    /\ Show("portfolio", equitySessionId, panel, equityCalls)
    /\ parsed' = KeptOn("portfolio", equitySessionId)
    /\ UNCHANGED <<portfolios, popover, stash, issued, jump, opener, crossed, clicks>>

DismissError ==
    /\ kite.error /\ kite' = [kite EXCEPT !.error = FALSE]
    /\ UNCHANGED <<portfolios, equitySessionId, place, panel, parsed, popover, address,
                   stash, issued, jump, equityCalls, opener, crossed, clicks>>

----------------------------------------------------------------------------
\* The panel.

SetPanel(pa) ==
    /\ panel' = pa
    /\ UNCHANGED <<portfolios, equitySessionId, place, parsed, popover, login,
                   opener, crossed>>

\* Which of the two ways in, and the files of the second.
Prepare ==
    /\ PanelUsable
    /\ \/ SetPanel([panel EXCEPT !.csv = ~@])
       \/ /\ panel.csv
          /\ \/ \E f \in Files : SetPanel([panel EXCEPT !.files = @ \union {f},
                                                        !.error = FALSE])
             \/ \E f \in panel.files : SetPanel([panel EXCEPT !.files = @ \ {f}])
             \/ SetPanel([panel EXCEPT !.error = TRUE])
    /\ UNCHANGED <<equityCalls, clicks>>

Send(c, pa) == Click /\ SetPanel(pa) /\ equityCalls' = equityCalls \union {c}

Syncing == [panel EXCEPT !.sync = "syncing", !.error = FALSE]

\* Its button is off without holdings.
HandleAnalyzeCSV ==
    /\ PanelUsable /\ panel.csv /\ "holdings" \in panel.files
    /\ Send(Call("parse", "panel", NoPortfolio), Syncing)

\* Bug: a refused upload says so under a spinner that is left on.
ReceiveParseErrorOnly(c) ==
    /\ c \in equityCalls /\ c.op = "parse"
    /\ equityCalls' = equityCalls \ {c}
    /\ panel' = IF c.by = "panel" THEN [panel EXCEPT !.error = TRUE] ELSE panel
    /\ UNCHANGED <<portfolios, equitySessionId, place, parsed, popover, login, opener,
                   crossed, clicks>>

\* Parsed, the portfolio is saved; it is opened by the timer.
ReceiveParse(c) ==
    /\ c \in equityCalls /\ c.op = "parse"
    /\ equityCalls' = equityCalls \ {c}
    /\ \/ /\ \E s \in Portfolios :
               /\ portfolios' = portfolios \union {s}
               /\ parsed' = parsed \union {[of |-> s, late |-> c.by # "panel"]}
          /\ panel' = IF c.by = "panel" THEN [panel EXCEPT !.sync = "success"] ELSE panel
       \/ /\ panel' = IF c.by = "panel"
                      THEN [panel EXCEPT !.sync = "idle", !.error = TRUE] ELSE panel
          /\ UNCHANGED <<portfolios, parsed>>
    /\ UNCHANGED <<equitySessionId, place, popover, login, opener, crossed, clicks>>

\* The timer: the page need not show the panel any more.
OpenParsed(t) ==
    /\ t \in parsed /\ place # "zerodha"
    /\ Open(t.of, "upload")
    /\ Show(place, t.of, panel, equityCalls)
    /\ parsed' = {x \in parsed \ {t} : x.late}
    /\ UNCHANGED <<portfolios, popover, login, clicks>>

HandleKiteLogin ==
    /\ PanelUsable /\ ~panel.csv
    /\ Send(Call("login", "panel", NoPortfolio), Syncing)

\* The page goes to Zerodha, wherever the user is by then: a deletion on its way may
\* still arrive there.
ReceiveLogin(c) ==
    /\ c \in equityCalls /\ c.op = "login"
    /\ \/ /\ stash' = TRUE /\ issued' = TRUE /\ place' = "zerodha"
          /\ panel' = FreshPanel /\ parsed' = {} /\ popover' = Closed /\ kite' = FreshKite
          /\ address' = [token |-> NoToken, ahead |-> NoToken] /\ jump' = FALSE
          /\ equityCalls' = {}
          /\ \E gone \in SUBSET {d.of : d \in {x \in equityCalls : x.op \in Deletes}} :
               portfolios' = portfolios \ gone
          /\ crossed' = (crossed \/ BeingDeleted(equitySessionId, Deletes))
       \/ /\ equityCalls' = equityCalls \ {c}
          /\ panel' = IF c.by = "panel"
                      THEN [panel EXCEPT !.sync = "idle", !.error = TRUE] ELSE panel
          /\ UNCHANGED <<portfolios, place, parsed, popover, login, crossed>>
    /\ UNCHANGED <<equitySessionId, opener, clicks>>

\* Zerodha sends the user back, or they come back without it.
Return(t) ==
    /\ place = "zerodha"
    /\ Go("portfolio", t, NoToken)
    /\ UNCHANGED jump

SelectPrevious(s) ==
    /\ PanelUsable /\ s \in panel.rows /\ Click
    /\ Open(s, "user")
    /\ Show(place, s, panel, equityCalls)
    /\ parsed' = KeptOn(place, s)
    /\ UNCHANGED <<portfolios, popover, login>>

HandleDeleteSession(s) ==
    /\ PanelUsable /\ s \in panel.rows
    /\ Send(Call("delete", "panel", s), panel)

----------------------------------------------------------------------------
\* The popover.

OpenPopover ==
    /\ Uncovered /\ ~popover.open
    /\ popover' = [popover EXCEPT !.open = TRUE]
    /\ equityCalls' = equityCalls \union {Call("history", "popover", NoPortfolio)}
    /\ UNCHANGED <<portfolios, equitySessionId, place, panel, parsed, login, opener,
                   crossed, clicks>>

\* The popover closes on s, or on what was open: its own read is given up.
CloseOn(s) ==
    /\ popover' = [popover EXCEPT !.open = FALSE]
    /\ Show(place, s, panel, {c \in equityCalls : c.by # "popover"})
    /\ parsed' = KeptOn(place, s)
    /\ UNCHANGED <<portfolios, login>>

PopoverUsable == popover.open /\ Uncovered

ClosePopover ==
    /\ PopoverUsable
    /\ CloseOn(equitySessionId)
    /\ UNCHANGED <<opener, crossed, clicks>>

HandleSelect(s) ==
    /\ PopoverUsable /\ s \in popover.rows \ {equitySessionId} /\ Click
    /\ Open(s, "user")
    /\ CloseOn(s)

ConnectNew ==
    /\ PopoverUsable /\ equitySessionId # NoPortfolio /\ Click
    /\ Open(NoPortfolio, "user")
    /\ CloseOn(NoPortfolio)

\* The row goes at once, whatever becomes of the deletion.
HandleDelete(s) ==
    /\ PopoverUsable /\ s \in popover.rows /\ Click
    /\ popover' = [popover EXCEPT !.rows = @ \ {s}]
    /\ equityCalls' = equityCalls \union {Call("deleteHistory", "gone", s)}
    /\ UNCHANGED <<portfolios, equitySessionId, place, panel, parsed, login, opener,
                   crossed>>

----------------------------------------------------------------------------
\* Answers.

ServeDelete(c) ==
    /\ c \in equityCalls /\ ~c.done /\ c.op \in Deletes
    /\ portfolios' = portfolios \ {c.of}
    /\ equityCalls' = (equityCalls \ {c}) \union {[c EXCEPT !.done = TRUE]}
    /\ UNCHANGED <<equitySessionId, place, panel, parsed, popover, login, opener,
                   crossed, clicks>>

\* Logged, and nothing else.
Fail(c) ==
    /\ c \in equityCalls /\ c.op \in Deletes \union {"history"}
    /\ equityCalls' = equityCalls \ {c}
    /\ crossed' = (crossed \/ (c.op \in Deletes /\ c.of = equitySessionId
                                              /\ c.of \notin portfolios))
    /\ UNCHANGED <<portfolios, equitySessionId, place, panel, parsed, popover, login,
                   opener, clicks>>

ReceiveHistory(c) ==
    /\ c \in equityCalls /\ c.op = "history"
    /\ equityCalls' = equityCalls \ {c}
    /\ panel' = IF c.by = "panel" THEN [panel EXCEPT !.rows = portfolios] ELSE panel
    /\ popover' = IF c.by = "popover" THEN [popover EXCEPT !.rows = portfolios]
                                      ELSE popover
    /\ UNCHANGED <<portfolios, equitySessionId, place, parsed, login, opener, crossed,
                   clicks>>

\* Bug: only a portfolio that was open when its row was clicked is closed.
ClosesAsClicked(c) == c.active = c.of

Closes(c) ==
    IF c.op = "delete" THEN equitySessionId = c.of   \* read now
                       ELSE c.active = c.of          \* as it was clicked

ReceiveDelete(c) ==
    /\ c \in equityCalls /\ c.op \in Deletes /\ c.done
    /\ LET s == IF Closes(c) THEN NoPortfolio ELSE equitySessionId
           pa == IF c.by = "panel" THEN [panel EXCEPT !.rows = @ \ {c.of}] ELSE panel
       IN /\ Show(place, s, pa, equityCalls \ {c})
          /\ parsed' = KeptOn(place, s)
          /\ opener' = IF Closes(c) THEN "delete" ELSE opener
    /\ UNCHANGED <<portfolios, popover, login, crossed, clicks>>

Next ==
    \/ \E p \in {"portfolio", "analyzer", "away"} : Navigate(p) \/ Back(p)
    \/ Forward \/ JumpBack \/ FinishLogin \/ DismissError
    \/ Prepare \/ HandleAnalyzeCSV \/ HandleKiteLogin
    \/ OpenPopover \/ ClosePopover \/ ConnectNew
    \/ \E t \in parsed : OpenParsed(t)
    \/ \E t \in Tokens \union {NoToken} : Return(t)
    \/ \E s \in Portfolios : \/ SelectPrevious(s) \/ HandleDeleteSession(s)
                             \/ HandleSelect(s) \/ HandleDelete(s)
    \/ \E c \in equityCalls : \/ ReceiveConnect(c) \/ ReceiveParse(c) \/ ReceiveLogin(c)
                              \/ ServeDelete(c) \/ Fail(c) \/ ReceiveHistory(c)
                              \/ ReceiveDelete(c)

Spec == Init /\ [][Next]_vars

----------------------------------------------------------------------------
\* The shape of the state.
EquityTypeOK ==
    /\ portfolios \subseteq Portfolios /\ equitySessionId \in Maybe
    /\ place \in {"portfolio", "analyzer", "away", "zerodha"}
    /\ panel \in [csv : BOOLEAN, files : SUBSET Files, sync : Syncs, error : BOOLEAN,
                  rows : SUBSET Portfolios]
    /\ parsed \subseteq [of : Portfolios, late : BOOLEAN]
    /\ popover \in [open : BOOLEAN, rows : SUBSET Portfolios]
    /\ kite \in [tried : BOOLEAN, sync : Syncs, error : BOOLEAN, posts : Nat]
    /\ address \in [{"token", "ahead"} -> Tokens \union {NoToken}]
    /\ {stash, issued, jump, crossed} \subseteq BOOLEAN

\* A request token is worth one connection: however the user moves through the
\* history while it is on its way, the module posts it once.
TokenSentOnce == kite.posts <= 1

\* A portfolio the user opened is not replaced by an upload: the timer goes with the
\* panel that set it.  Only an upload answered after that has one left.
UploadKeepsOpen ==
    [][(equitySessionId # NoPortfolio /\ equitySessionId' # equitySessionId
        /\ opener' = "upload") => \E t \in parsed : t.late]_vars

\* A portfolio deleted here is not left open once its deletion was answered, be it
\* that it was opened over the panel's deletion; opened over the popover's, or from a
\* list that still had it, it is, and where no answer came.
DeletedIsClosed ==
    (~crossed /\ ~\E c \in equityCalls : c.op \in Deletes)
       => equitySessionId \in portfolios \union {NoPortfolio}

\* Every overlay that covers something has an answer or a timer to wait for.
OverlaysEnd ==
    /\ panel.sync = "syncing"
         => \E c \in equityCalls : c.by = "panel" /\ c.op \in {"parse", "login"}
    /\ panel.sync = "success" => \E t \in parsed : ~t.late
    /\ kite.sync = "syncing" => \E c \in equityCalls : c.by = "kite"
=============================================================================
