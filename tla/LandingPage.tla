---------------------------- MODULE LandingPage ----------------------------
(***************************************************************************)
(* The landing page of someone who is not signed in: email and Google        *)
(* sign-in, the state of an access request, and the dialog that submits one. *)
(* The three sign-in handlers share one loading flag and one banner; a       *)
(* failed sign-in goes on to ask for the state of that email's request.  The *)
(* dialog may be closed and opened again while its submission is on its way, *)
(* and empties itself 300 ms after it was closed.                            *)
(***************************************************************************)
EXTENDS Naturals, FiniteSets

CONSTANTS
    Emails, NoEmail,
    MaxTries,      \* bound on what the visitor submits
    MaxTimers      \* bound on dialog timers running at once

VARIABLES
    state,         \* the server: each email's access request
    mounted,       \* the page is on screen
    email, password, loading, banner,
    open, form, sending, answer,    \* the dialog: requestModalOpen, req...
    timers,        \* closings whose 300 ms are not over
    pending,       \* requests in flight of this mount
    late,          \* a submission was answered with the dialog closed (history)
    tries

landingVars == <<state, mounted, email, password, loading, banner, open, form,
                 sending, answer, timers, pending, late, tries>>
signIn == <<email, password, loading, banner>>
dialog == <<open, form, sending, answer, timers, late>>

States == {"none", "pending", "approved"}
Maybe == Emails \union {NoEmail}
Banners == States \union {"absent", "error"}
Blank == [name |-> FALSE, email |-> NoEmail]
Ask(op, e) == [op |-> op, email |-> e]
SignsIn(r) == r.op \in {"email", "google", "status"}

\* Landing's mount effect: everything empty, and the notice of a refused sign-in
\* or a failed redirect, if there was one.
Mounted(notice) ==
    /\ mounted' = TRUE
    /\ email' = NoEmail /\ password' = FALSE /\ loading' = FALSE
    /\ banner' = notice
    /\ open' = FALSE /\ form' = Blank /\ sending' = FALSE /\ answer' = "none"
    /\ timers' = 0 /\ pending' = {} /\ late' = FALSE

Init ==
    /\ state \in [Emails -> States]
    /\ mounted = TRUE
    /\ email = NoEmail /\ password = FALSE /\ loading = FALSE
    /\ banner \in States \union {"absent"}
    /\ open = FALSE /\ form = Blank /\ sending = FALSE /\ answer = "none"
    /\ timers = 0 /\ pending = {} /\ late = FALSE /\ tries = 0

Try == tries < MaxTries /\ tries' = tries + 1

----------------------------------------------------------------------------
\* The sign-in card.

\* Bug: the card stays on while it loads.
CanSignInAlways == mounted /\ ~open

\* Its fields and buttons, the request buttons aside, are off while it loads.
CanSignIn == mounted /\ ~open /\ ~loading

TypeEmail(e) ==
    /\ CanSignIn /\ e # email /\ email' = e
    /\ UNCHANGED <<state, mounted, password, loading, banner, dialog, pending, tries>>

TypePassword ==
    /\ CanSignIn /\ password' = ~password
    /\ UNCHANGED <<state, mounted, email, loading, banner, dialog, pending, tries>>

\* A handler up to its await.
Start(op, b) ==
    /\ Try
    /\ loading' = TRUE /\ banner' = b
    /\ pending' = pending \union {Ask(op, email)}
    /\ UNCHANGED <<state, mounted, email, password, dialog>>

Refused(b) ==
    /\ banner' = b
    /\ UNCHANGED <<state, mounted, email, password, loading, dialog, pending, tries>>

HandleEmailSignIn ==
    /\ CanSignIn
    /\ IF email # NoEmail /\ password THEN Start("email", "absent") ELSE Refused("error")

HandleGoogleSignIn == CanSignIn /\ Start("google", "absent")

\* Offered with a banner that says there is no request.
HandleCheckStatus ==
    /\ CanSignIn /\ banner = "none"
    /\ IF email # NoEmail THEN Start("status", banner) ELSE Refused("none")

\* The sign-in worked: App takes over, or Google's page does.  A submission the
\* page leaves behind may still arrive.
SignedIn(r) ==
    /\ r \in pending /\ r.op \in {"email", "google"}
    /\ mounted' = FALSE
    /\ \E arrives \in BOOLEAN :
         state' = [e \in Emails |->
                     IF arrives /\ Ask("submit", e) \in pending /\ state[e] = "none"
                     THEN "pending" ELSE state[e]]
    /\ pending' = {} /\ timers' = 0 /\ open' = FALSE /\ sending' = FALSE
    /\ UNCHANGED <<signIn, form, answer, late, tries>>

\* Bug: the banner is shown and the spinner left on.
SettleBannerOnly(r, b) ==
    /\ banner' = b
    /\ pending' = pending \ {r}
    /\ UNCHANGED <<state, mounted, email, password, loading, dialog, tries>>

Settle(r, b) ==
    /\ loading' = FALSE /\ banner' = b
    /\ pending' = pending \ {r}
    /\ UNCHANGED <<state, mounted, email, password, dialog, tries>>

\* It did not: the state of the request explains it, where an email is known.
SignInFails(r) ==
    /\ r \in pending /\ r.op \in {"email", "google"}
    /\ IF r.email # NoEmail
       THEN /\ pending' = (pending \ {r}) \union {Ask("status", r.email)}
            /\ UNCHANGED <<state, mounted, signIn, dialog, tries>>
       ELSE Settle(r, "none")

\* The state of the request, or that it could not be read (which after a Google
\* sign-in reads as no account).
ReceiveStatus(r) ==
    /\ r \in pending /\ r.op = "status"
    /\ \E b \in {state[r.email], "error", "none"} : Settle(r, b)

\* Back on the page: after a sign-out, with the notice of a refusal, or from a
\* redirect that failed.
Return ==
    /\ ~mounted
    /\ \E notice \in States \union {"absent"} : Mounted(notice)
    /\ UNCHANGED <<state, tries>>

----------------------------------------------------------------------------
\* The request dialog.

\* From the banner, or from the foot of the card unless a request is pending; the
\* sign-in may be loading.
OpenRequestAccess ==
    /\ mounted /\ ~open /\ banner # "pending"
    /\ open' = TRUE
    /\ form' = IF email # NoEmail THEN [form EXCEPT !.email = email] ELSE form
    /\ UNCHANGED <<state, mounted, signIn, sending, answer, timers, late, pending, tries>>

EditRequest ==
    /\ open /\ answer # "ok" /\ ~sending
    /\ \E e \in Maybe, n \in BOOLEAN :
         /\ form # [name |-> n, email |-> e]
         /\ form' = [name |-> n, email |-> e]
    /\ UNCHANGED <<state, mounted, signIn, open, sending, answer, timers, late, pending,
                   tries>>

HandleRequestSubmit ==
    /\ open /\ answer # "ok" /\ ~sending /\ Try
    /\ IF form.name /\ form.email # NoEmail
       THEN /\ sending' = TRUE /\ answer' = "none"
            /\ pending' = pending \union {Ask("submit", form.email)}
       ELSE answer' = "error" /\ UNCHANGED <<sending, pending>>
    /\ UNCHANGED <<state, mounted, signIn, open, form, timers, late>>

\* A request that exists already counts as success.
ReceiveSubmit(r) ==
    /\ r \in pending /\ r.op = "submit"
    /\ \/ /\ state' = [state EXCEPT ![r.email] = IF @ = "none" THEN "pending" ELSE @]
          /\ answer' \in {"ok", "error"}
       \/ UNCHANGED state /\ answer' = "error"
    /\ sending' = FALSE
    /\ late' = (late \/ ~open)
    /\ pending' = pending \ {r}
    /\ UNCHANGED <<mounted, signIn, open, form, timers, tries>>

\* Bug: closing the dialog turns its spinner off.
HandleCloseRequestModalQuietly ==
    /\ open /\ timers < MaxTimers
    /\ open' = FALSE /\ sending' = FALSE
    /\ timers' = timers + 1
    /\ UNCHANGED <<state, mounted, signIn, form, answer, late, pending, tries>>

HandleCloseRequestModal ==
    /\ open /\ timers < MaxTimers
    /\ open' = FALSE
    /\ timers' = timers + 1
    /\ UNCHANGED <<state, mounted, signIn, form, sending, answer, late, pending, tries>>

\* Bug: the form is emptied and the answer kept.
ClearRequestFormOnly ==
    /\ timers > 0
    /\ timers' = timers - 1
    /\ form' = Blank
    /\ UNCHANGED <<state, mounted, signIn, open, sending, answer, late, pending, tries>>

\* 300 ms later, even if the dialog is open again by then.
ClearRequestForm ==
    /\ timers > 0
    /\ timers' = timers - 1
    /\ form' = Blank /\ answer' = "none"
    /\ UNCHANGED <<state, mounted, signIn, open, sending, late, pending, tries>>

\* An admin approves or rejects.
Decide(e) ==
    /\ state[e] = "pending"
    /\ \E to \in {"approved", "none"} : state' = [state EXCEPT ![e] = to]
    /\ UNCHANGED <<mounted, signIn, dialog, pending, tries>>

Next ==
    \/ \E e \in Maybe : TypeEmail(e)
    \/ TypePassword \/ HandleEmailSignIn \/ HandleGoogleSignIn \/ HandleCheckStatus
    \/ \E r \in pending : SignedIn(r) \/ SignInFails(r) \/ ReceiveStatus(r)
                            \/ ReceiveSubmit(r)
    \/ Return \/ OpenRequestAccess \/ EditRequest \/ HandleRequestSubmit
    \/ HandleCloseRequestModal \/ ClearRequestForm
    \/ \E e \in Emails : Decide(e)

Spec == Init /\ [][Next]_landingVars

----------------------------------------------------------------------------
\* The shape of the state.
LandingTypeOK ==
    /\ state \in [Emails -> States]
    /\ {mounted, password, loading, open, sending, late} \subseteq BOOLEAN
    /\ email \in Maybe /\ banner \in Banners
    /\ form \in [name : BOOLEAN, email : Maybe]
    /\ answer \in {"none", "ok", "error"} /\ timers \in 0..MaxTimers
    /\ pending \subseteq [op : {"email", "google", "status", "submit"}, email : Maybe]

\* Whatever the visitor does meanwhile, the sign-in on its way is the only one and
\* is about the email in the box, so that the banner it ends in is too.
BannerOfBox ==
    /\ \A r \in pending : SignsIn(r) => r.email = email
    /\ Cardinality({r \in pending : SignsIn(r)}) <= 1

\* The card is never left loading with nothing to wait for.
CardNotFrozen ==
    (mounted /\ loading) => \E r \in pending : SignsIn(r)

\* However often the dialog is closed and opened over a submission, there is one
\* on its way at most.
OneSubmission ==
    Cardinality({r \in pending : r.op = "submit"}) <= 1

\* Closed, and its timers over, the dialog is empty for the next visitor, unless an
\* answer came in when it was closed already.
BlankWhenClosed ==
    (mounted /\ ~open /\ timers = 0 /\ ~sending /\ ~late) => form = Blank /\ answer = "none"
=============================================================================
