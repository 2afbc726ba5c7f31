--------------------------- MODULE AdminAccounts ---------------------------
(***************************************************************************)
(* The admin console's access requests and user accounts.  Every operation   *)
(* changes the server and then reads the lists again that it may have        *)
(* changed; each list read replaces what is on screen, drafts of unsaved     *)
(* edits included.  Operations of different kinds, and saves of different    *)
(* rows, may run side by side, and their answers may cross.                  *)
(*                                                                         *)
(* A person is an email address: it may have a request, an account, or both. *)
(* The search boxes and the status filter above the tables are left out.     *)
(***************************************************************************)
EXTENDS Naturals, FiniteSets

CONSTANTS
    People,
    Me,          \* the admin
    NoOne,
    MaxAsks,     \* bound on what the admin does
    MaxInFlight  \* bound on the requests in flight when something is started

VARIABLES
    account, request,                    \* the server
    accounts, requests,                  \* the lists on screen
    drafts,                              \* accountDrafts
    saving,                              \* savingUserId
    acting, inviting, suspending, deleting,  \* the other buttons' loading flags
    target, typed,                       \* the delete dialog
    tab,
    calls,                               \* requests in flight
    smooth,                              \* no call failed, no list answer overtook another (history)
    asks

vars == <<account, request, accounts, requests, drafts, saving, acting, inviting,
          suspending, deleting, target, typed, tab, calls, smooth, asks>>

Gone == [status |-> "gone", role |-> "none"]
Levels == [status : {"pending", "active", "suspended"}, role : {"user", "admin"}]
Lists == {"accounts", "requests"}

\* An operation, on someone, with what it writes; a list read has the operation
\* it follows and, once the server answered, what it read.
Call(op, p, to, parent) ==
    [op |-> op, who |-> p, to |-> to, parent |-> parent, nth |-> 0,
     accounts |-> <<>>, requests |-> <<>>]

\* Bug: a deletion takes the request away too, but only accounts are read again.
ListsAfterAccounts(op, p) ==
    LET list(l) == Call(l, p, Gone, op)
    IN  CASE op \in {"approve", "invite"} -> {list(l) : l \in Lists}
          [] op = "reject" -> {list("requests")}
          [] OTHER -> {list("accounts")}

ListsAfter(op, p) ==
    LET list(l) == Call(l, p, Gone, op)
    IN  CASE op \in {"approve", "invite", "delete"} -> {list(l) : l \in Lists}
          [] op = "reject" -> {list("requests")}
          [] OTHER -> {list("accounts")}

Init ==
    /\ account = [p \in People |-> IF p = Me THEN [status |-> "active", role |-> "admin"]
                                   ELSE [status |-> "pending", role |-> "user"]]
    /\ request \in [People \ {Me} -> {"pending", "approved"}]
    /\ accounts = [p \in People |-> Gone] /\ drafts = accounts
    /\ requests = [p \in People \ {Me} |-> "gone"]
    /\ saving = NoOne /\ target = NoOne /\ typed = FALSE /\ tab = "access"
    /\ acting = FALSE /\ inviting = FALSE /\ suspending = FALSE /\ deleting = FALSE
    /\ calls = {Call(l, NoOne, Gone, "mount") : l \in Lists}
    /\ smooth = TRUE /\ asks = 0

----------------------------------------------------------------------------
\* What the tabs offer.

\* A row's draft, or the account itself where the row has none.
Draft(p) == IF drafts[p] # Gone THEN drafts[p] ELSE accounts[p]
HasChanges(p) == Draft(p) # accounts[p]
Listed(p) == accounts[p] # Gone

\* A row of the users table, none of its buttons off and no dialog over it.
RowOpen(p) == tab = "users" /\ Listed(p) /\ saving # p /\ target = NoOne

CanActivate(p) == RowOpen(p) /\ accounts[p].status = "pending"
CanDelete(p) == RowOpen(p) /\ ~deleting /\ p # Me

\* The two forms above the requests table.
CanInvite(p) == tab = "access" /\ ~inviting /\ p # Me
CanSuspend == tab = "access" /\ ~suspending

\* A row of the requests table.
Requested(p) == requests[p] # "gone"

\* Bug: the buttons stay on while a decision is on its way.
CanDecideAgain(p, op) ==
    /\ tab = "access" /\ p # Me
    /\ IF op = "approve" THEN Requested(p) ELSE requests[p] = "pending"

\* Invite and Reject for a request that waits, Resend for an approved one.
CanDecide(p, op) ==
    /\ tab = "access" /\ ~acting /\ p # Me
    /\ IF op = "approve" THEN Requested(p) ELSE requests[p] = "pending"

----------------------------------------------------------------------------
\* The handlers, up to the await of the operation.

Start(op, p, to) ==
    /\ asks < MaxAsks /\ asks' = asks + 1 /\ Cardinality(calls) < MaxInFlight
    /\ calls' = calls \union {Call(op, p, to, op)}
    /\ UNCHANGED <<account, request, accounts, requests, drafts, typed, tab,
                   smooth>>

HandleApprove(p) ==
    /\ CanDecide(p, "approve") /\ acting' = TRUE
    /\ Start("approve", p, Gone)
    /\ UNCHANGED <<saving, inviting, suspending, deleting, target>>

HandleReject(p) ==
    /\ CanDecide(p, "reject") /\ acting' = TRUE
    /\ Start("reject", p, Gone)
    /\ UNCHANGED <<saving, inviting, suspending, deleting, target>>

HandleInviteUser(p) ==
    /\ CanInvite(p) /\ inviting' = TRUE
    /\ Start("invite", p, Gone)
    /\ UNCHANGED <<saving, acting, suspending, deleting, target>>

HandleSuspendUser(p) ==
    /\ CanSuspend /\ suspending' = TRUE
    /\ Start("suspend", p, Gone)
    /\ UNCHANGED <<saving, acting, inviting, deleting, target>>

\* Save sends status and role of the draft, Activate the status alone.
HandleSaveAccount(p) ==
    /\ RowOpen(p) /\ HasChanges(p) /\ saving' = p
    /\ Start("save", p, Draft(p))
    /\ UNCHANGED <<acting, inviting, suspending, deleting, target>>

HandleQuickActivate(p) ==
    /\ CanActivate(p) /\ saving' = p
    /\ Start("activate", p, Gone)
    /\ UNCHANGED <<acting, inviting, suspending, deleting, target>>

HandleConfirmDeleteUser ==
    /\ target # NoOne /\ typed /\ ~deleting /\ deleting' = TRUE
    /\ Start("delete", target, Gone)
    /\ UNCHANGED <<saving, acting, inviting, suspending, target>>

Refresh(l) ==
    /\ tab = (IF l = "requests" THEN "access" ELSE "users") /\ target = NoOne
    /\ asks < MaxAsks /\ asks' = asks + 1 /\ Cardinality(calls) < MaxInFlight
    /\ calls' = calls \union {Call(l, NoOne, Gone, "refresh")}
    /\ UNCHANGED <<account, request, accounts, requests, drafts, saving, acting,
                   inviting, suspending, deleting, target, typed, tab, smooth>>

\* Local state.  A choice of what is chosen already is no change.
UpdateAccountDraft(p, level) ==
    /\ RowOpen(p) /\ level # Draft(p) /\ asks < MaxAsks /\ asks' = asks + 1
    /\ \/ level.status = Draft(p).status
       \/ level.role = Draft(p).role
    /\ drafts' = [drafts EXCEPT ![p] = level]
    /\ UNCHANGED <<account, request, accounts, requests, saving, acting, inviting,
                   suspending, deleting, target, typed, tab, calls, smooth>>

Dialog(who, match, open) ==
    /\ target' = who /\ typed' = match
    /\ open
    /\ UNCHANGED <<account, request, accounts, requests, drafts, saving, acting,
                   inviting, suspending, deleting, tab, calls, smooth, asks>>

OpenDeleteUser(p) == Dialog(p, FALSE, CanDelete(p))
TypeEmail == Dialog(target, ~typed, target # NoOne /\ ~deleting)
\* Bug: the dialog can be left while the account is being deleted.
CloseDialogAnyTime == Dialog(NoOne, typed, target # NoOne)

CloseDialog == Dialog(NoOne, typed, target # NoOne /\ ~deleting)

SetTab(t) ==
    /\ t # tab /\ target = NoOne /\ tab' = t
    /\ UNCHANGED <<account, request, accounts, requests, drafts, saving, acting,
                   inviting, suspending, deleting, target, typed, calls, smooth, asks>>

----------------------------------------------------------------------------
\* The server.

Activated(p) == IF account[p] = Gone THEN Gone ELSE [account[p] EXCEPT !.status = "active"]

Apply(c) ==
    LET p == c.who
    IN  /\ account' =
             CASE c.op \in {"approve", "invite", "activate"} ->
                    [account EXCEPT ![p] = Activated(p)]
               [] c.op = "suspend" /\ account[p] # Gone ->
                    [account EXCEPT ![p].status = "suspended"]
               [] c.op = "save" /\ account[p] # Gone -> [account EXCEPT ![p] = c.to]
               [] c.op = "delete" -> [account EXCEPT ![p] = Gone]
               [] OTHER -> account
        /\ request' =
             CASE c.op = "invite" \/ (c.op = "approve" /\ request[p] # "gone") ->
                    [request EXCEPT ![p] = "approved"]
               [] c.op \in {"reject", "delete"} -> [request EXCEPT ![p] = "gone"]
               [] OTHER -> request

\* The `finally` of the handler an operation belongs to.
Finished(op) ==
    /\ saving' = IF op \in {"save", "activate"} THEN NoOne ELSE saving
    /\ acting' = (acting /\ op \notin {"approve", "reject"})
    /\ inviting' = (inviting /\ op # "invite")
    /\ suspending' = (suspending /\ op # "suspend")
    /\ deleting' = (deleting /\ op # "delete")

\* The operation succeeds and its handler goes on to the lists.
Succeed(c) ==
    /\ c.op \notin Lists
    /\ Apply(c)
    /\ calls' = (calls \ {c}) \union ListsAfter(c.op, c.who)
    /\ target' = IF c.op = "delete" THEN NoOne ELSE target
    /\ typed' = (typed /\ c.op # "delete")
    /\ UNCHANGED <<accounts, requests, drafts, saving, acting, inviting,
                   suspending, deleting, tab, smooth, asks>>

\* It fails, perhaps only on the way back, and nothing is read again.
Fail(c) ==
    /\ c.op \notin Lists
    /\ \/ Apply(c) /\ smooth' = FALSE
       \/ UNCHANGED <<account, request, smooth>>
    /\ calls' = calls \ {c}
    /\ Finished(c.op)
    /\ UNCHANGED <<accounts, requests, drafts, target, typed, tab, asks>>

\* The order in which the answers on their way were read.
Answers(l) == {d.nth : d \in {e \in calls : e.op = l /\ e.nth # 0}}
Newest(l) == IF Answers(l) = {} THEN 0 ELSE CHOOSE n \in Answers(l) : \A x \in Answers(l) : x <= n
Oldest(l) == CHOOSE n \in Answers(l) : \A x \in Answers(l) : n <= x

ReadList(c) ==
    /\ c.op \in Lists /\ c.nth = 0
    /\ calls' = (calls \ {c}) \union
                  {[c EXCEPT !.nth = 1 + Newest(c.op), !.accounts = account,
                             !.requests = request]}
    /\ UNCHANGED <<account, request, accounts, requests, drafts, saving, acting,
                   inviting, suspending, deleting, target, typed, tab,
                   smooth, asks>>

\* The handler ends with the last of its lists.
Last(c) == ~\E d \in calls \ {c} : d.parent = c.parent /\ d.who = c.who

ShowAccounts(c) == accounts' = c.accounts /\ drafts' = c.accounts
ShowRequests(c) == requests' = c.requests

ShowList(c) ==
    /\ c.op \in Lists /\ c.nth # 0
    /\ \/ c.op = "accounts" /\ ShowAccounts(c) /\ UNCHANGED requests
       \/ c.op = "requests" /\ ShowRequests(c) /\ UNCHANGED <<accounts, drafts>>
    /\ smooth' = (smooth /\ c.nth = Oldest(c.op))
    /\ calls' = calls \ {c}
    /\ Finished(IF Last(c) THEN c.parent ELSE "none")
    /\ UNCHANGED <<account, request, target, typed, tab, asks>>

\* fetchRequests and fetchAccounts catch their own failures.
FailList(c) ==
    /\ c.op \in Lists
    /\ calls' = calls \ {c}
    /\ smooth' = FALSE
    /\ Finished(IF Last(c) THEN c.parent ELSE "none")
    /\ UNCHANGED <<account, request, accounts, requests, drafts, target, typed,
                   tab, asks>>

Next ==
    \/ \E p \in People :
         \/ HandleApprove(p) \/ HandleReject(p) \/ HandleInviteUser(p)
         \/ HandleSuspendUser(p) \/ HandleSaveAccount(p)
         \/ HandleQuickActivate(p) \/ OpenDeleteUser(p)
         \/ \E level \in Levels : UpdateAccountDraft(p, level)
    \/ HandleConfirmDeleteUser \/ TypeEmail \/ CloseDialog
    \/ \E l \in Lists : Refresh(l)
    \/ \E t \in {"access", "users"} : SetTab(t)
    \/ \E c \in calls : Succeed(c) \/ Fail(c) \/ ReadList(c) \/ ShowList(c)
                          \/ FailList(c)

Spec == Init /\ [][Next]_vars

----------------------------------------------------------------------------
\* The shape of the state.
TypeOK ==
    /\ account \in [People -> Levels \union {Gone}]
    /\ request \in [People \ {Me} -> {"pending", "approved", "gone"}]
    /\ accounts \in [People -> Levels \union {Gone}]
    /\ drafts \in [People -> Levels \union {Gone}]
    /\ requests \in [People \ {Me} -> {"pending", "approved", "gone"}]
    /\ saving \in People \union {NoOne} /\ target \in People \union {NoOne}
    /\ {acting, inviting, suspending, deleting, typed, smooth} \subseteq BOOLEAN

\* With everything answered, nothing failed and no answer overtaken by an older
\* one, the lists on screen are what the server has: every operation reads again
\* all that it changed, whatever else was going on.
ListsCurrent ==
    (calls = {} /\ smooth) => accounts = account /\ requests = request

\* Requests are decided one at a time, until the lists are read again: a request
\* cannot be invited and rejected at once.
DecisionsExclusive ==
    \A c, d \in calls :
      (c.parent \in {"approve", "reject"} /\ d.parent \in {"approve", "reject"})
        => c.parent = d.parent /\ c.who = d.who

\* While an account is being deleted, the dialog stays on it, so that the answer
\* closes no other account's dialog and clears no other confirmation.
DeleteDialogStays ==
    \A c \in calls : c.op = "delete" => target = c.who /\ deleting
=============================================================================
