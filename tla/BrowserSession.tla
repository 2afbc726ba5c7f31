--------------------------- MODULE BrowserSession ---------------------------
(***************************************************************************)
(* Who the browser tab thinks is signed in.  Three parties keep their own    *)
(* answer: the auth provider's session, which all tabs of the browser share; *)
(* the module-level bearer token soft-cached in front of it; and the app     *)
(* store, part of which survives a reload.  They are kept in step by async   *)
(* functions that read one, wait, and write another.                         *)
(*                                                                         *)
(* A flow is one such function call in progress.  Between two of its awaits  *)
(* JavaScript runs it alone, so each such stretch is one action.  What a     *)
(* provider call does synchronously in this tab (its SIGNED_IN and           *)
(* SIGNED_OUT callbacks) belongs to the action that makes the call; events   *)
(* of other tabs and the restored session wait in mail.                      *)
(*                                                                         *)
(* Data is named by the account it is of: a PAN, a token, a tax session.     *)
(***************************************************************************)
EXTENDS Integers, Sequences, FiniteSets

CONSTANTS
    Users,
    NoUser,
    MaxCalls,    \* bound on async calls in progress, the health check aside
    OtherTabs,   \* whether the browser has other tabs of the app
    MaxMail,     \* bound on undelivered auth events
    MaxEvents    \* bound on what the user, other tabs and admins do

ASSUME BoundsAssumption ==
    /\ NoUser \notin Users
    /\ MaxCalls \in Nat \ {0}
    /\ OtherTabs \in BOOLEAN
    /\ MaxMail \in Nat \ {0}
    /\ MaxEvents \in Nat

VARIABLES
    session,    \* the provider's stored session
    token,      \* _accessTokenCache while fresh
    store,      \* the app store: userId, pan, status, taxSessionId
    flag,       \* the fb_must_set_password entry of sessionStorage
    needs,      \* App: needsPasswordSetup
    resolving,  \* App: resolvingSession
    flows,      \* async calls in progress
    latch,      \* _handling401
    mail,       \* auth events this tab has not handled
    stray,      \* a provider sign-out that lost the race against its 2 s timer
    acct,       \* the server: status and PAN of each account
    calm,       \* no two flows overlapped, no health check ran ahead of an auth
                \* event, no account was swapped (history)
    events      \* what is left of MaxEvents

vars == <<session, token, store, flag, needs, resolving, flows, latch, mail,
          stray, acct, calm, events>>

Maybe == Users \union {NoUser}
Statuses == {"pending", "active", "suspended"}
Kinds == {"auth", "poll", "query", "upload", "link", "both", "password",
          "profile", "repassword", "logout", "health"}
Health == 0        \* the health check guards itself: one place is enough
Slots == 1..MaxCalls
Places == 0..MaxCalls

Empty == [userId |-> NoUser, pan |-> NoUser, status |-> "none", tax |-> NoUser]

Idle == [kind |-> "none", step |-> "idle", user |-> NoUser, token |-> NoUser,
         reply |-> "none", status |-> "none", pan |-> NoUser]

IsIdle(s) == flows[s].step = "idle"

\* The first idle slot: which one a call takes tells nothing.
Free(s) == s \in Slots /\ IsIdle(s) /\ \A x \in 1..(s - 1) : ~IsIdle(x)
AllIdle == \A s \in Places : IsIdle(s)

----------------------------------------------------------------------------
\* What App renders.

IsAuthenticated == store.userId # NoUser \/ store.pan # NoUser
RequirePassword == IsAuthenticated /\ needs
RequirePan == IsAuthenticated /\ store.status = "active" /\ store.pan = NoUser

Screen ==
    CASE resolving \/ (IsAuthenticated /\ store.status = "none") -> "loading"
      [] ~resolving /\ ~IsAuthenticated -> "landing"
      [] ~resolving /\ store.status = "suspended" /\ IsAuthenticated -> "suspended"
      [] ~resolving /\ store.status \in {"pending", "active"}
           /\ (RequirePassword \/ RequirePan) -> "setup"
      [] ~resolving /\ IsAuthenticated /\ store.status = "pending"
           /\ ~RequirePassword -> "pending"
      [] OTHER -> "app"

\* The fields of the one setup panel.
Asked(field) == IF field = "pan" THEN RequirePan ELSE RequirePassword

Panel ==
    IF Screen # "setup" THEN {} ELSE {x \in {"password", "pan"} : Asked(x)}

Init ==
    /\ session = NoUser /\ token = NoUser /\ store = Empty
    /\ flag = FALSE /\ needs = FALSE /\ resolving = TRUE
    /\ flows = [s \in Places |-> Idle]
    /\ latch = FALSE /\ mail = <<NoUser>> /\ stray = FALSE
    /\ acct = [u \in Users |-> [status |-> "active", pan |-> NoUser]]
    /\ calm = TRUE /\ events = MaxEvents

Spend == events > 0 /\ events' = events - 1

----------------------------------------------------------------------------
\* The bearer token and the requests that carry it.

\* The request interceptor takes the cached token, or asks the provider first.
Ask(f) ==
    [f EXCEPT !.step = IF token # NoUser THEN "sent" ELSE "session",
              !.token = token]

Put(s, f) == flows' = [flows EXCEPT ![s] = f]

\* authClient.signOut, up to its await of the provider.
SignOut(s, step) ==
    /\ token' = NoUser
    /\ flag' = FALSE
    /\ flows' = [flows EXCEPT ![s].step = step]

\* Bug: the persisted tax session survives the sign-out.
ClearIdentityKeepingTax == store' = [Empty EXCEPT !.tax = store.tax]

\* clearIdentity, and the same fields as logout resets them.
ClearIdentity == store' = Empty

\* Bug: a health check that finds no session leaves it at that.
FoundDeadIgnored(s, got) == FALSE

\* The health check that finds no session signs out.
FoundDead(s, got) == flows[s].kind = "health" /\ got = NoUser

\* getAccessToken after its await: the session, none, or the 6 s timeout.
GetAccessToken(s) ==
    /\ flows[s].step = "session"
    /\ \E got \in {session, NoUser} :
         IF FoundDead(s, got)
         THEN /\ SignOut(s, "out")
              /\ UNCHANGED <<session, store, needs, resolving, latch, mail,
                             stray, acct, calm, events>>
         ELSE /\ token' = got
              /\ IF flows[s].kind = "health"
                 THEN Put(s, Idle)
                 ELSE Put(s, [flows[s] EXCEPT !.step = "sent", !.token = got])
              /\ UNCHANGED <<session, store, flag, needs, resolving, latch,
                             mail, stray, acct, calm, events>>

\* The soft cache runs out a minute before the token's expiry.
TokenExpires ==
    /\ token # NoUser
    /\ token' = NoUser
    /\ UNCHANGED <<session, store, flag, needs, resolving, flows, latch, mail,
                   stray, acct, calm, events>>

\* The server: no token or a dead one is a 401, an account it does not know a
\* 403 on /auth/me, anything else may fail on the way.
Serve(s) ==
    LET f == flows[s]
        u == f.token
        saves == f.kind \in {"link", "both", "profile"}
        answer(r) == [f EXCEPT !.step = "reply", !.reply = r]
    IN  /\ f.step = "sent"
        /\ \/ /\ \E r \in {"401", "failed"} :
                    /\ (u = NoUser => r = "401")
                    /\ Put(s, answer(r))
              /\ UNCHANGED acct
           \/ /\ u # NoUser /\ acct[u].status = "none"
              /\ Put(s, answer("403"))
              /\ UNCHANGED acct
           \/ /\ u # NoUser /\ acct[u].status # "none"
              /\ acct' = [acct EXCEPT ![u].pan = IF saves THEN u ELSE @]
              /\ Put(s, [answer("ok") EXCEPT !.status = acct[u].status,
                                             !.pan = acct'[u].pan])
        /\ UNCHANGED <<session, token, store, flag, needs, resolving, latch,
                       mail, stray, calm, events>>

----------------------------------------------------------------------------
\* What comes back.

SetIdentity(u, pan, status) ==
    store' = [store EXCEPT !.userId = u, !.pan = pan, !.status = status]

\* Bug: what /auth/me says of the PAN is taken as it is.
KeepPanNever(u) == NoUser

\* The PAN to keep when /auth/me names none: the one there, unless it is of
\* another account.
KeepPan(u) == IF store.userId \in {u, NoUser} THEN store.pan ELSE NoUser

ReceiveMe(s) ==
    LET f == flows[s]
    IN  /\ f.kind = "auth" /\ f.step = "reply" /\ f.reply = "ok"
        /\ SetIdentity(f.user, IF f.pan # NoUser THEN f.pan ELSE KeepPan(f.user), f.status)
        /\ resolving' = FALSE
        /\ Put(s, Idle)
        /\ UNCHANGED <<session, token, flag, needs, latch, mail, stray, acct,
                       calm, events>>

\* A poll of a screen that was left is cancelled.  One whose screen was left and
\* came back for the same account is the tick the new mount fires at once.
PollListens(f) == Screen = "pending" /\ store.userId = f.user

ReceivePoll(s) ==
    LET f == flows[s]
    IN  /\ f.kind = "poll" /\ f.step = "reply" /\ f.reply = "ok"
        /\ IF PollListens(f) /\ f.status = "active"
           THEN SetIdentity(f.user, f.pan, f.status)
           ELSE UNCHANGED store
        /\ Put(s, Idle)
        /\ UNCHANGED <<session, token, flag, needs, resolving, latch, mail,
                       stray, acct, calm, events>>

\* AccountSetupPrompt after setProfilePan.
ReceiveLink(s) ==
    LET f == flows[s]
    IN  /\ f.kind \in {"link", "both"} /\ f.step = "reply" /\ f.reply = "ok"
        /\ SetIdentity(f.user, f.pan, store.status)
        /\ needs' = (needs /\ f.kind # "both")
        /\ Put(s, Idle)
        /\ UNCHANGED <<session, token, flag, resolving, latch, mail, stray,
                       acct, calm, events>>

\* ProfilePage's mutations take the account of the last render of the page.
ReceiveProfile(s) ==
    LET f == flows[s]
    IN  /\ f.kind = "profile" /\ f.step = "reply" /\ f.reply = "ok"
        /\ \E u \in {f.user} \union {x \in {store.userId} : Screen = "app"} :
             SetIdentity(u, f.pan, store.status)
        /\ Put(s, Idle)
        /\ UNCHANGED <<session, token, flag, needs, resolving, latch, mail,
                       stray, acct, calm, events>>

\* Bug: the upload hands over its status.
TaxSessionOfStatus(f) == f.status

\* The session id the answer carries: one of the account that asked.
TaxSessionOf(f) == f.token

\* A finished upload registers its tax session whoever is signed in by then.
ReceiveUpload(s) ==
    LET f == flows[s]
    IN  /\ f.kind \in {"query", "upload"} /\ f.step = "reply" /\ f.reply = "ok"
        /\ store' = IF f.kind = "upload" THEN [store EXCEPT !.tax = TaxSessionOf(f)]
                                         ELSE store
        /\ Put(s, Idle)
        /\ UNCHANGED <<session, token, flag, needs, resolving, latch, mail,
                       stray, acct, calm, events>>

\* logout goes on to the provider whether /auth/logout worked or not; the auth
\* handler signs out on any failure of /auth/me; the rest only report it.
SignsOutNext(f) == f.kind \in {"auth", "logout"}

ReceiveLogout(s) ==
    /\ flows[s].kind = "logout" /\ flows[s].step = "reply" /\ flows[s].reply = "ok"
    /\ SignOut(s, "out")
    /\ UNCHANGED <<session, store, needs, resolving, latch, mail, stray, acct,
                   calm, events>>

\* The response interceptor signs out on a 401, one call at a time.
Intercept(s) ==
    /\ flows[s].step = "reply" /\ flows[s].reply = "401"
    /\ IsAuthenticated /\ ~latch
    /\ latch' = TRUE
    /\ SignOut(s, "cut")
    /\ UNCHANGED <<session, store, needs, resolving, mail, stray, acct, calm,
                   events>>

Fail(s) ==
    LET f == flows[s]
    IN  /\ f.step = "reply" /\ f.reply \in {"401", "403", "failed"}
        /\ f.reply = "401" => ~(IsAuthenticated /\ ~latch)
        /\ IF SignsOutNext(f)
           THEN SignOut(s, "out")
           ELSE Put(s, Idle) /\ UNCHANGED <<token, flag>>
        /\ UNCHANGED <<session, store, needs, resolving, latch, mail, stray,
                       acct, calm, events>>

\* The provider dropped the session, with SIGNED_OUT handled on the way, or its
\* call is left behind after two seconds.  Either way the caller goes on to
\* clearIdentity, or logout to its own reset of the same fields.
SignedOut(s) ==
    LET f == flows[s]
    IN  /\ f.step \in {"out", "cut"}
        /\ \E late \in BOOLEAN :
             /\ session' = IF late THEN session ELSE NoUser
             /\ stray' = (stray \/ late)
             /\ calm' = (calm /\ ~late)
             /\ needs' = IF late THEN needs ELSE flag
             /\ resolving' = (resolving /\ late /\ f.kind # "auth")
        /\ ClearIdentity
        /\ latch' = (latch /\ f.step # "cut")
        /\ IF f.step = "cut" /\ SignsOutNext(f)
           THEN SignOut(s, "out")
           ELSE Put(s, Idle) /\ UNCHANGED <<token, flag>>
        /\ UNCHANGED <<mail, acct, events>>

----------------------------------------------------------------------------
\* Auth events, in App's onAuthStateChange handler.

\* Bug: a SIGNED_OUT forgets the account but not that it was being resolved.
HearOutResolving == needs' = flag /\ ClearIdentity /\ UNCHANGED resolving

HearOut == needs' = flag /\ ClearIdentity /\ resolving' = FALSE

HearIn(u, s) ==
    /\ Free(s)
    /\ needs' = flag
    /\ store' = [store EXCEPT !.userId = u]
    /\ Put(s, Ask([Idle EXCEPT !.kind = "auth", !.user = u]))
    /\ calm' = (calm /\ AllIdle /\ store.userId \in {u, NoUser})

Deliver ==
    /\ mail # <<>>
    /\ mail' = Tail(mail)
    /\ \/ /\ Head(mail) = NoUser
          /\ HearOut
          /\ UNCHANGED <<flows, flag>>
          /\ calm' = (calm /\ AllIdle)
       \/ \E s \in Slots :
            /\ Head(mail) # NoUser
            /\ HearIn(Head(mail), s)
            /\ UNCHANGED <<flag, resolving>>
    /\ UNCHANGED <<session, token, latch, stray, acct, events>>

StrayLands ==
    /\ stray
    /\ stray' = FALSE
    /\ session' = NoUser
    /\ HearOut
    /\ UNCHANGED <<token, flag, flows, latch, mail, acct, calm, events>>

EmailSignIn(u, s) ==
    /\ Screen = "landing" /\ Spend
    /\ session' = u
    /\ UNCHANGED flag
    /\ HearIn(u, s)
    /\ UNCHANGED <<token, resolving, latch, mail, stray, acct>>

\* A page load keeps what is persisted: userId, pan, taxSessionId.
Load ==
    /\ token' = NoUser /\ latch' = FALSE /\ stray' = FALSE
    /\ flows' = [s \in Places |-> Idle]
    /\ store' = [store EXCEPT !.status = "none"]
    /\ needs' = flag' /\ resolving' = TRUE
    /\ mail' = <<session'>>
    /\ UNCHANGED acct

Reload == Spend /\ UNCHANGED <<session, flag, calm>> /\ Load

\* Google's redirect, or an invite or recovery link, which may be opened over
\* another account's persisted identity.
Redirected(u) ==
    /\ Spend
    /\ session' = u
    /\ flag' \in {flag, TRUE}
    /\ (flag' # TRUE => Screen = "landing")
    /\ calm' = (calm /\ store.userId \in {u, NoUser} /\ ~stray)
    /\ Load

----------------------------------------------------------------------------
\* The screens start calls.

SetupKinds == {"link", "both", "password"}

ProfileOffers == {"profile", "repassword"}

\* One submit for whatever fields the panel has; the panel is off meanwhile.
SetupOffers ==
    IF \E s \in Slots : flows[s].kind \in SetupKinds THEN {}
    ELSE {"logout", IF Panel = {"pan"} THEN "link"
                    ELSE IF Panel = {"password"} THEN "password"
                    ELSE "both"}

PendingOffers == {"poll", "logout"}
SuspendedOffers == {"logout"}

Offered ==
    CASE Screen = "app" -> {"query", "upload", "logout"} \union ProfileOffers
      [] Screen = "setup" -> SetupOffers
      [] Screen = "pending" -> PendingOffers
      [] Screen = "suspended" -> SuspendedOffers
      [] OTHER -> {}

Begin(k, s) ==
    LET f == [Idle EXCEPT !.kind = k, !.user = store.userId]
    IN  /\ Free(s) /\ k \in Offered /\ Spend
        /\ Put(s, IF k \in {"both", "password", "repassword"}
                  THEN [f EXCEPT !.step = "password"]
                  ELSE Ask(f))
        /\ calm' = (calm /\ AllIdle)
        /\ UNCHANGED <<session, token, store, flag, needs, resolving, latch,
                       mail, stray, acct>>

\* updatePassword drops the flag and the cached token once the provider agreed,
\* then reads the session again.
UpdatePassword(s) ==
    /\ flows[s].step = "password"
    /\ \/ /\ session # NoUser
          /\ flag' = FALSE /\ token' = NoUser
          /\ flows' = [flows EXCEPT ![s].step = "refill"]
       \/ Put(s, Idle) /\ UNCHANGED <<flag, token>>
    /\ UNCHANGED <<session, store, needs, resolving, latch, mail, stray, acct,
                   calm, events>>

\* Bug: the password alone completes the panel, PAN or not.
CompletesPasswordEarly(f) == f.kind \in {"password", "both"}

\* onPasswordComplete follows at once only where no PAN is asked for too.
CompletesPassword(f) == f.kind = "password"

RefillToken(s) ==
    LET f == flows[s]
    IN  /\ f.step = "refill"
        /\ token' = IF session # NoUser THEN session ELSE token
        /\ Put(s, IF f.kind = "both"
                  THEN [f EXCEPT !.step = IF token' # NoUser THEN "sent"
                                                             ELSE "session",
                                 !.token = token']
                  ELSE Idle)
        /\ needs' = (needs /\ ~CompletesPassword(f))
        /\ UNCHANGED <<session, store, flag, resolving, latch, mail, stray,
                       acct, calm, events>>

\* Every two minutes, on focus and on waking: nothing to do while the cached
\* token is fresh.
BeginHealth ==
    /\ IsAuthenticated /\ IsIdle(Health) /\ token = NoUser
    /\ Put(Health, [Idle EXCEPT !.kind = "health", !.step = "session"])
    /\ calm' = (calm /\ AllIdle /\ mail = <<>>)
    /\ UNCHANGED <<session, token, store, flag, needs, resolving, latch, mail,
                   stray, acct, events>>

----------------------------------------------------------------------------
\* The world around the tab.

\* Another tab signs in or out; the provider repeats SIGNED_IN on focus; the
\* stored session is gone without an event.
OtherTab(u) ==
    /\ OtherTabs /\ Spend /\ Len(mail) < MaxMail
    /\ session' = u
    /\ mail' = Append(mail, u)
    /\ calm' = FALSE
    /\ UNCHANGED <<token, store, flag, needs, resolving, flows, latch, stray, acct>>

TabFocus ==
    /\ Spend /\ session # NoUser /\ Len(mail) < MaxMail
    /\ mail' = Append(mail, session)
    /\ UNCHANGED <<session, token, store, flag, needs, resolving, flows, latch,
                   stray, acct, calm>>

SessionLost ==
    /\ Spend /\ session # NoUser
    /\ session' = NoUser
    /\ calm' = (calm /\ AllIdle)
    /\ UNCHANGED <<token, store, flag, needs, resolving, flows, latch, mail,
                   stray, acct>>

\* Admins suspend, activate and delete accounts, or have them wait.
AdminSets(u) ==
    /\ Spend
    /\ \E st \in Statuses \union {"none"} :
         acct' = [acct EXCEPT ![u] =
                    [status |-> st, pan |-> IF st = "none" THEN NoUser ELSE @.pan]]
    /\ UNCHANGED <<session, token, store, flag, needs, resolving, flows, latch,
                   mail, stray, calm>>

Step(s) ==
    \/ GetAccessToken(s) \/ Serve(s) \/ SignedOut(s)
    \/ ReceiveMe(s) \/ ReceivePoll(s) \/ ReceiveLink(s) \/ ReceiveProfile(s)
    \/ ReceiveUpload(s) \/ ReceiveLogout(s) \/ Intercept(s) \/ Fail(s)
    \/ UpdatePassword(s) \/ RefillToken(s)

Next ==
    \/ \E s \in Places : Step(s)
    \/ Deliver \/ StrayLands \/ TokenExpires \/ BeginHealth
    \/ \E u \in Users, s \in Slots : EmailSignIn(u, s)
    \/ \E u \in Users : Redirected(u) \/ AdminSets(u)
    \/ \E k \in Kinds, s \in Slots : Begin(k, s)
    \/ \E u \in Maybe : OtherTab(u)
    \/ Reload \/ TabFocus \/ SessionLost

\* Timeouts end every await, timers fire, tokens expire.  What people do is not
\* fair.
Fairness ==
    /\ \A s \in Places : WF_vars(Step(s))
    /\ WF_vars(Deliver) /\ WF_vars(StrayLands)
    /\ WF_vars(TokenExpires) /\ WF_vars(BeginHealth)

Spec == Init /\ [][Next]_vars /\ Fairness

----------------------------------------------------------------------------
Flow == [kind : Kinds \union {"none"},
         step : {"idle", "session", "sent", "reply", "out", "cut", "password",
                 "refill"},
         user : Maybe, token : Maybe,
         reply : {"none", "ok", "401", "403", "failed"},
         status : Statuses \union {"none"}, pan : Maybe]

\* The shape of the state.
TypeOK ==
    /\ session \in Maybe /\ token \in Maybe
    /\ store \in [userId : Maybe, pan : Maybe, status : Statuses \union {"none"},
                  tax : Maybe]
    /\ {flag, needs, resolving, latch, stray, calm} \subseteq BOOLEAN
    /\ flows \in [Places -> Flow]
    /\ mail \in Seq(Maybe) /\ Len(mail) <= MaxMail
    /\ acct \in [Users -> [status : Statuses \union {"none"}, pan : Maybe]]
    /\ events \in 0..MaxEvents

\* With one thing at a time, what the store keeps (the PAN, the persisted tax
\* session) and the cached token belong to the account it says is signed in, over
\* reloads, lost sessions, expired tokens and failed requests.
StoreOfOneAccount ==
    calm => /\ store.pan \in {NoUser, store.userId}
            /\ store.tax \in {NoUser, store.userId}
            /\ (store.userId # NoUser /\ session # NoUser) =>
                 /\ session = store.userId
                 /\ token \in {NoUser, session}

\* An answer to another account's token is in.
AnswerOfAnother ==
    \E s \in Places : flows[s].reply = "ok" /\ flows[s].token # store.userId

\* However the calls overlap, a PAN in the store stays while the account stays signed
\* in: no stale /auth/me takes it back (App.tsx's keepPan), and only an answer to
\* another account's token replaces the account's own.  The poll of the pending screen
\* takes the answer as it is.
PanKept ==
    [][(store.userId # NoUser /\ store'.userId = store.userId /\ Screen # "pending")
         => /\ store.pan # NoUser => store'.pan # NoUser
            /\ (store.pan = store.userId /\ ~AnswerOfAnother) => store'.pan = store.pan]_vars

\* A submit of both fields of the setup panel never leaves the PAN alone to ask for;
\* only an auth event read in between does, or a password sent off before the PAN
\* was asked for.
OnePanel ==
    [][(Panel = {"password", "pan"} /\ Panel' = {"pan"})
         => mail' # mail \/ \E s \in Places : flows[s].kind = "password"]_vars

\* Once the session is gone for good, the tab forgets the account for good,
\* whatever late replies wrote back after the sign-out.
SignedOutHeals ==
    <>[](session = NoUser) => <>[](~IsAuthenticated)

\* The tab does not stay on the loading screen.
LoadingEnds == (Screen = "loading") ~> (Screen # "loading")
=============================================================================
