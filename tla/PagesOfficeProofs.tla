-------------------------- MODULE PagesOfficeProofs --------------------------
(***************************************************************************)
(* Theorems about the pages outside the portfolios, as Pages composes them:  *)
(* the landing page, the accounts tab and the dashboard of the budget, and    *)
(* the admin console.                                                        *)
(* Whatever page is on screen, a step is one of that page or leaves its       *)
(* variables alone, so that an invariant of the page's own steps is one of    *)
(* the application.                                                          *)
(***************************************************************************)
EXTENDS Pages, FiniteSetTheorems, WellFoundedInduction, TLAPS

\* A set all of whose members are equal has one at most.
LEMMA AtMostOne ==
    ASSUME NEW S, \A x, y \in S : x = y
    PROVE  Cardinality(S) <= 1
<1>1. CASE S = {}
  BY <1>1, FS_EmptySet
<1>2. CASE S # {}
  <2>1. PICK x \in S : TRUE
    BY <1>2
  <2>2. S = {x}
    BY <2>1
  <2> QED BY <2>2, FS_Singleton
<1> QED BY <1>1, <1>2

\* The landing page counts as this module does.
LEMMA LandingCardinality ==
    ASSUME NEW S
    PROVE  Landing!Cardinality(S) = Cardinality(S)
BY Zenon DEF Landing!Cardinality, Cardinality

LEMMA Bounds == MaxTimers \in Nat /\ 0 \in 0..MaxTimers
BY PagesAssumption

----------------------------------------------------------------------------
\* The landing page.

LEMMA LandingSteps == [Next]_vars => [Landing!Next]_landingVars
BY DEF Next, vars, landingVars

\* The sign-in under way is the only one and about the address in the box, which is
\* off meanwhile; the card is off for it only.
SignInOK ==
    /\ \A r \in pending : Landing!SignsIn(r) => r.email = email /\ mounted /\ landingLoading
    /\ \A r \in pending : r.op = "status" => r.email # NoEmail
    /\ \A r, s \in pending : Landing!SignsIn(r) /\ Landing!SignsIn(s) => r = s
    /\ mounted /\ landingLoading => \E r \in pending : Landing!SignsIn(r)

\* The dialog's spinner turns for as long as a submission is out.
SubmitOK ==
    /\ \A r \in pending : r.op = "submit" => sending /\ r.email # NoEmail
    /\ \A r, s \in pending : r.op = "submit" /\ s.op = "submit" => r = s

\* A closed dialog without timer or late answer is blank, whether it waits or not.
DialogOK ==
    /\ open => mounted
    /\ (mounted /\ ~open /\ timers = 0 /\ ~late)
         => landingForm = Landing!Blank /\ landingAnswer = "none"

LandingInv == Landing!LandingTypeOK /\ SignInOK /\ SubmitOK /\ DialogOK

Asks == [op : {"email", "google", "status", "submit"}, email : Landing!Maybe]

LEMMA LandingTypes ==
    Landing!LandingTypeOK <=>
      /\ state \in [Emails -> Landing!States]
      /\ mounted \in BOOLEAN /\ password \in BOOLEAN /\ landingLoading \in BOOLEAN
      /\ open \in BOOLEAN /\ sending \in BOOLEAN /\ late \in BOOLEAN
      /\ email \in Landing!Maybe /\ banner \in Landing!Banners
      /\ landingForm \in [name : BOOLEAN, email : Landing!Maybe]
      /\ landingAnswer \in {"none", "ok", "error"} /\ timers \in 0..MaxTimers
      /\ pending \subseteq Asks
BY DEF Landing!LandingTypeOK, Asks

LEMMA AskMade ==
    ASSUME NEW op \in {"email", "google", "status", "submit"}, NEW e \in Landing!Maybe
    PROVE  /\ Landing!Ask(op, e) \in Asks
           /\ Landing!Ask(op, e).op = op /\ Landing!Ask(op, e).email = e
           /\ Landing!SignsIn(Landing!Ask(op, e)) <=> op # "submit"
BY DEF Landing!Ask, Asks, Landing!SignsIn

\* A sign-in handler goes to its await.
LEMMA SignInStarts ==
    ASSUME LandingInv, Landing!CanSignIn, NEW op \in {"email", "google", "status"},
           op = "status" => email # NoEmail, NEW b \in Landing!Banners,
           Landing!Start(op, b)
    PROVE  LandingInv'
<1> DEFINE r == Landing!Ask(op, email)
<1>1. /\ mounted /\ ~landingLoading /\ landingLoading' = TRUE /\ banner' = b
      /\ pending' = pending \union {r}
      /\ UNCHANGED <<state, mounted, email, password>>
      /\ UNCHANGED <<open, landingForm, sending, landingAnswer, timers, late>>
  BY DEF Landing!CanSignIn, Landing!Start, Landing!dialog
<1>2. Landing!LandingTypeOK
  BY DEF LandingInv
<1>3. /\ r \in Asks /\ r.op = op /\ r.email = email /\ Landing!SignsIn(r)
      /\ op # "submit"
  BY <1>2, LandingTypes, AskMade
<1> HIDE DEF r
<1>4. Landing!LandingTypeOK'
  BY <1>1, <1>2, <1>3, LandingTypes DEF Landing!LandingTypeOK, Asks
<1>5. SignInOK'
  BY <1>1, <1>3 DEF LandingInv, SignInOK
<1>6. SubmitOK' /\ DialogOK'
  BY <1>1, <1>3 DEF LandingInv, SubmitOK, DialogOK
<1> QED BY <1>4, <1>5, <1>6 DEF LandingInv

\* One ends with a banner.
LEMMA SignInSettles ==
    ASSUME LandingInv, NEW r \in pending, Landing!SignsIn(r), NEW b \in Landing!Banners,
           Landing!Settle(r, b)
    PROVE  LandingInv'
<1>1. /\ landingLoading' = FALSE /\ banner' = b /\ pending' = pending \ {r}
      /\ UNCHANGED <<state, mounted, email, password>>
      /\ UNCHANGED <<open, landingForm, sending, landingAnswer, timers, late>>
  BY DEF Landing!Settle, Landing!dialog
<1>2. Landing!LandingTypeOK'
  BY <1>1, LandingTypes DEF LandingInv, Landing!LandingTypeOK
<1>3. SignInOK' /\ SubmitOK' /\ DialogOK'
  BY <1>1 DEF LandingInv, SignInOK, SubmitOK, DialogOK
<1> QED BY <1>2, <1>3 DEF LandingInv

LEMMA SignInCardStep ==
    ASSUME LandingInv,
           \/ \E e \in Landing!Maybe : Landing!TypeEmail(e)
           \/ Landing!TypePassword \/ Landing!HandleEmailSignIn
           \/ Landing!HandleGoogleSignIn \/ Landing!HandleCheckStatus
    PROVE  LandingInv'
<1>1. ASSUME NEW e \in Landing!Maybe, Landing!TypeEmail(e) PROVE LandingInv'
  <2>1. /\ mounted /\ ~landingLoading /\ email' = e
        /\ UNCHANGED <<state, mounted, password, landingLoading, banner, pending>>
        /\ UNCHANGED <<open, landingForm, sending, landingAnswer, timers, late>>
    BY <1>1 DEF Landing!TypeEmail, Landing!CanSignIn, Landing!dialog
  <2>2. Landing!LandingTypeOK'
    BY <2>1, LandingTypes DEF LandingInv, Landing!LandingTypeOK
  <2> QED BY <2>1, <2>2 DEF LandingInv, SignInOK, SubmitOK, DialogOK
<1>2. CASE Landing!TypePassword
  <2>1. /\ password' = ~password
        /\ UNCHANGED <<state, mounted, email, landingLoading, banner, pending>>
        /\ UNCHANGED <<open, landingForm, sending, landingAnswer, timers, late>>
    BY <1>2 DEF Landing!TypePassword, Landing!dialog
  <2>2. Landing!LandingTypeOK'
    BY <2>1, LandingTypes DEF LandingInv, Landing!LandingTypeOK
  <2> QED BY <2>1, <2>2 DEF LandingInv, SignInOK, SubmitOK, DialogOK
<1>3. ASSUME NEW b \in Landing!Banners, Landing!Refused(b) PROVE LandingInv'
  <2>1. /\ banner' = b
        /\ UNCHANGED <<state, mounted, email, password, landingLoading, pending>>
        /\ UNCHANGED <<open, landingForm, sending, landingAnswer, timers, late>>
    BY <1>3 DEF Landing!Refused, Landing!dialog
  <2>2. Landing!LandingTypeOK'
    BY <2>1, LandingTypes DEF LandingInv, Landing!LandingTypeOK
  <2> QED BY <2>1, <2>2 DEF LandingInv, SignInOK, SubmitOK, DialogOK
<1>4. {"absent", "error", "none"} \subseteq Landing!Banners
  BY DEF Landing!Banners, Landing!States
<1>5. CASE Landing!HandleEmailSignIn
  BY <1>3, <1>4, <1>5, SignInStarts DEF Landing!HandleEmailSignIn
<1>6. CASE Landing!HandleGoogleSignIn
  BY <1>4, <1>6, SignInStarts DEF Landing!HandleGoogleSignIn
<1>7. CASE Landing!HandleCheckStatus
  BY <1>3, <1>4, <1>7, SignInStarts DEF Landing!HandleCheckStatus
<1> QED BY <1>1, <1>2, <1>5, <1>6, <1>7

LEMMA SignedInStep ==
    ASSUME LandingInv, NEW r \in pending, Landing!SignedIn(r)
    PROVE  LandingInv'
<1>1. PICK arrives \in BOOLEAN :
        state' = [e \in Emails |->
                    IF arrives /\ Landing!Ask("submit", e) \in pending /\ state[e] = "none"
                    THEN "pending" ELSE state[e]]
  BY DEF Landing!SignedIn
<1>2. state' \in [Emails -> Landing!States]
  BY <1>1 DEF LandingInv, Landing!LandingTypeOK, Landing!States
<1>3. /\ mounted' = FALSE /\ pending' = {} /\ timers' = 0 /\ open' = FALSE
      /\ sending' = FALSE
      /\ UNCHANGED <<email, password, landingLoading, banner>>
      /\ UNCHANGED <<landingForm, landingAnswer, late>>
  BY DEF Landing!SignedIn, Landing!signIn
<1>4. Landing!LandingTypeOK'
  BY <1>2, <1>3, Bounds DEF LandingInv, Landing!LandingTypeOK
<1> QED BY <1>3, <1>4 DEF LandingInv, SignInOK, SubmitOK, DialogOK

LEMMA SignInFailsStep ==
    ASSUME LandingInv, NEW r \in pending, Landing!SignInFails(r)
    PROVE  LandingInv'
<1>1. r \in Asks /\ r.op \in {"email", "google"} /\ Landing!SignsIn(r)
  BY LandingTypes DEF LandingInv, Landing!SignInFails, Landing!SignsIn
<1>2. CASE r.email = NoEmail
  <2>1. Landing!Settle(r, "none")
    BY <1>2 DEF Landing!SignInFails
  <2>2. "none" \in Landing!Banners
    BY DEF Landing!Banners, Landing!States
  <2> QED BY <1>1, <2>1, <2>2, SignInSettles
<1>3. CASE r.email # NoEmail
  <2> DEFINE s == Landing!Ask("status", r.email)
  <2>1. /\ pending' = (pending \ {r}) \union {s}
        /\ UNCHANGED <<state, mounted, email, password, landingLoading, banner>>
        /\ UNCHANGED <<open, landingForm, sending, landingAnswer, timers, late>>
    BY <1>3 DEF Landing!SignInFails, Landing!signIn, Landing!dialog
  <2>2. r.email \in Landing!Maybe
    BY <1>1 DEF Asks
  <2>3. /\ s \in Asks /\ s.op = "status" /\ s.email = r.email /\ Landing!SignsIn(s)
    BY <2>2, AskMade
  <2> HIDE DEF s
  <2>4. Landing!LandingTypeOK'
    BY <2>1, <2>3, LandingTypes DEF LandingInv, Landing!LandingTypeOK, Asks
  <2>5. SignInOK'
    BY <1>1, <1>3, <2>1, <2>3 DEF LandingInv, SignInOK
  <2>6. SubmitOK' /\ DialogOK'
    BY <2>1, <2>3 DEF LandingInv, SubmitOK, DialogOK
  <2> QED BY <2>4, <2>5, <2>6 DEF LandingInv
<1> QED BY <1>2, <1>3

LEMMA ReceiveStatusStep ==
    ASSUME LandingInv, NEW r \in pending, Landing!ReceiveStatus(r)
    PROVE  LandingInv'
<1>1. PICK b \in {state[r.email], "error", "none"} : Landing!Settle(r, b)
  BY DEF Landing!ReceiveStatus
<1>2. r \in Asks /\ r.op = "status" /\ r.email # NoEmail /\ Landing!SignsIn(r)
  BY LandingTypes DEF LandingInv, SignInOK, Landing!ReceiveStatus, Landing!SignsIn
<1>3. r.email \in Emails
  BY <1>2 DEF Asks, Landing!Maybe
<1>4. state[r.email] \in Landing!States
  BY <1>3, LandingTypes DEF LandingInv
<1>5. b \in Landing!Banners
  BY <1>4 DEF Landing!Banners, Landing!States
<1> QED BY <1>1, <1>2, <1>5, SignInSettles

LEMMA ReturnStep == ASSUME LandingInv, Landing!Return PROVE LandingInv'
<1>1. PICK notice \in Landing!States \union {"absent"} : Landing!Mounted(notice)
  BY DEF Landing!Return
<1>2. state' = state
  BY DEF Landing!Return
<1>3. Landing!LandingTypeOK'
  <2>1. Landing!Blank \in [name : BOOLEAN, email : Landing!Maybe]
        /\ NoEmail \in Landing!Maybe
    BY DEF Landing!Blank, Landing!Maybe
  <2> QED BY <1>1, <1>2, <2>1, Bounds, LandingTypes
          DEF LandingInv, Landing!LandingTypeOK, Landing!Mounted, Landing!Banners
<1>4. /\ mounted' = TRUE /\ landingLoading' = FALSE /\ landingForm' = Landing!Blank
      /\ landingAnswer' = "none" /\ pending' = {} /\ open' = FALSE
  BY <1>1 DEF Landing!Mounted
<1> QED BY <1>3, <1>4 DEF LandingInv, SignInOK, SubmitOK, DialogOK

\* Opening and closing the dialog, typing in it, and its timer.
LEMMA DialogStep ==
    ASSUME LandingInv,
           \/ Landing!OpenRequestAccess \/ Landing!EditRequest
           \/ Landing!HandleCloseRequestModal \/ Landing!ClearRequestForm
    PROVE  LandingInv'
<1>1. /\ UNCHANGED <<state, mounted, email, password, landingLoading, banner>>
      /\ UNCHANGED <<sending, late, pending>>
  BY DEF Landing!OpenRequestAccess, Landing!EditRequest,
         Landing!HandleCloseRequestModal, Landing!ClearRequestForm, Landing!signIn
<1>2. Landing!LandingTypeOK
  BY DEF LandingInv
<1>3. landingForm' \in [name : BOOLEAN, email : Landing!Maybe]
  <2>1. CASE Landing!OpenRequestAccess
    BY <1>2, <2>1 DEF Landing!OpenRequestAccess, Landing!LandingTypeOK
  <2>2. CASE Landing!EditRequest
    BY <2>2 DEF Landing!EditRequest
  <2>3. CASE Landing!HandleCloseRequestModal
    BY <1>2, <2>3 DEF Landing!HandleCloseRequestModal, Landing!LandingTypeOK
  <2>4. CASE Landing!ClearRequestForm
    BY <2>4 DEF Landing!ClearRequestForm, Landing!Blank, Landing!Maybe
  <2> QED BY <2>1, <2>2, <2>3, <2>4
<1>4. /\ landingAnswer' \in {"none", "ok", "error"} /\ timers' \in 0..MaxTimers
      /\ open' \in BOOLEAN
  <2>1. /\ landingAnswer \in {"none", "ok", "error"} /\ timers \in 0..MaxTimers
        /\ open \in BOOLEAN
    BY <1>2, LandingTypes
  <2>2. CASE Landing!OpenRequestAccess \/ Landing!EditRequest
    BY <2>1, <2>2 DEF Landing!OpenRequestAccess, Landing!EditRequest
  <2>3. CASE Landing!HandleCloseRequestModal
    <3>1. timers < MaxTimers /\ timers' = timers + 1 /\ open' = FALSE
          /\ landingAnswer' = landingAnswer
      BY <2>3 DEF Landing!HandleCloseRequestModal
    <3>2. timers' \in 0..MaxTimers
      BY <2>1, <3>1, Bounds
    <3> QED BY <2>1, <3>1, <3>2
  <2>4. CASE Landing!ClearRequestForm
    BY <2>1, <2>4, Bounds DEF Landing!ClearRequestForm
  <2> QED BY <2>2, <2>3, <2>4
<1>5. Landing!LandingTypeOK'
  BY <1>1, <1>2, <1>3, <1>4, LandingTypes DEF Landing!LandingTypeOK
<1>6. SignInOK' /\ SubmitOK'
  BY <1>1 DEF LandingInv, SignInOK, SubmitOK
<1>7. DialogOK'
  BY <1>1, <1>2, Bounds
     DEF LandingInv, DialogOK, Landing!LandingTypeOK, Landing!OpenRequestAccess,
         Landing!EditRequest, Landing!HandleCloseRequestModal, Landing!ClearRequestForm
<1> QED BY <1>5, <1>6, <1>7 DEF LandingInv

LEMMA RequestSubmitStep ==
    ASSUME LandingInv, Landing!HandleRequestSubmit
    PROVE  LandingInv'
<1> DEFINE r == Landing!Ask("submit", landingForm.email)
<1>1. /\ UNCHANGED <<state, mounted, email, password, landingLoading, banner>>
      /\ UNCHANGED <<open, landingForm, timers, late>>
      /\ open /\ ~sending
  BY DEF Landing!HandleRequestSubmit, Landing!signIn
<1>2. Landing!LandingTypeOK /\ landingForm.email \in Landing!Maybe
  BY LandingTypes DEF LandingInv
<1>3. CASE ~(landingForm.name /\ landingForm.email # NoEmail)
  <2>1. landingAnswer' = "error" /\ UNCHANGED <<sending, pending>>
    BY <1>3 DEF Landing!HandleRequestSubmit
  <2>2. Landing!LandingTypeOK'
    BY <1>1, <1>2, <2>1, LandingTypes DEF Landing!LandingTypeOK
  <2> QED BY <1>1, <2>1, <2>2 DEF LandingInv, SignInOK, SubmitOK, DialogOK
<1>4. CASE landingForm.name /\ landingForm.email # NoEmail
  <2>1. /\ sending' = TRUE /\ landingAnswer' = "none" /\ pending' = pending \union {r}
    BY <1>4 DEF Landing!HandleRequestSubmit
  <2>2. /\ r \in Asks /\ r.op = "submit" /\ r.email = landingForm.email
        /\ ~Landing!SignsIn(r)
    BY <1>2, AskMade
  <2> HIDE DEF r
  <2>3. Landing!LandingTypeOK'
    BY <1>1, <1>2, <2>1, <2>2, LandingTypes DEF Landing!LandingTypeOK, Asks
  <2>4. SignInOK'
    BY <1>1, <2>1, <2>2 DEF LandingInv, SignInOK
  <2>5. SubmitOK' /\ DialogOK'
    BY <1>1, <1>4, <2>1, <2>2 DEF LandingInv, SubmitOK, DialogOK
  <2> QED BY <2>3, <2>4, <2>5 DEF LandingInv
<1> QED BY <1>3, <1>4

LEMMA ReceiveSubmitStep ==
    ASSUME LandingInv, NEW r \in pending, Landing!ReceiveSubmit(r)
    PROVE  LandingInv'
<1>1. Landing!LandingTypeOK
  BY DEF LandingInv
<1>2. /\ UNCHANGED <<mounted, email, password, landingLoading, banner>>
      /\ UNCHANGED <<open, landingForm, timers>>
      /\ sending' = FALSE /\ late' = (late \/ ~open) /\ pending' = pending \ {r}
      /\ landingAnswer' \in {"ok", "error"} /\ r.op = "submit"
  BY DEF Landing!ReceiveSubmit, Landing!signIn
<1>3. state' \in [Emails -> Landing!States]
  BY <1>1 DEF Landing!ReceiveSubmit, Landing!LandingTypeOK, Landing!States
<1>4. Landing!LandingTypeOK'
  BY <1>1, <1>2, <1>3, LandingTypes DEF Landing!LandingTypeOK
<1>5. ~Landing!SignsIn(r)
  BY <1>2 DEF Landing!SignsIn
<1> QED BY <1>2, <1>4, <1>5 DEF LandingInv, SignInOK, SubmitOK, DialogOK

LEMMA DecideStep ==
    ASSUME LandingInv, NEW e \in Emails, Landing!Decide(e)
    PROVE  LandingInv'
<1>1. /\ UNCHANGED <<mounted, email, password, landingLoading, banner, pending>>
      /\ UNCHANGED <<open, landingForm, sending, landingAnswer, timers, late>>
  BY DEF Landing!Decide, Landing!signIn, Landing!dialog
<1>2. state' \in [Emails -> Landing!States]
  BY DEF LandingInv, Landing!LandingTypeOK, Landing!Decide, Landing!States
<1>3. Landing!LandingTypeOK'
  BY <1>1, <1>2 DEF LandingInv, Landing!LandingTypeOK
<1> QED BY <1>1, <1>3 DEF LandingInv, SignInOK, SubmitOK, DialogOK

LEMMA LandingInductive == Spec => []LandingInv
<1>1. Init => LandingInv
  <2> SUFFICES ASSUME Init PROVE LandingInv
    OBVIOUS
  <2>1. Landing!Init
    BY DEF Init
  <2>2. Landing!LandingTypeOK
    <3>1. Landing!Blank \in [name : BOOLEAN, email : Landing!Maybe]
          /\ NoEmail \in Landing!Maybe
      BY DEF Landing!Blank, Landing!Maybe
    <3> QED BY <2>1, <3>1, Bounds, LandingTypes DEF Landing!Init, Landing!Banners
  <2>3. /\ mounted /\ ~landingLoading /\ landingForm = Landing!Blank
        /\ landingAnswer = "none" /\ pending = {} /\ ~open
    BY <2>1 DEF Landing!Init
  <2> QED BY <2>2, <2>3 DEF LandingInv, SignInOK, SubmitOK, DialogOK
<1>2. ASSUME LandingInv, [Next]_vars PROVE LandingInv'
  <2>1. CASE UNCHANGED landingVars
    <3>1. /\ UNCHANGED <<state, mounted, email, password, landingLoading, banner>>
          /\ UNCHANGED <<open, landingForm, sending, landingAnswer, timers, late, pending>>
      BY <2>1 DEF landingVars
    <3>2. Landing!LandingTypeOK'
      BY <1>2, <3>1 DEF LandingInv, Landing!LandingTypeOK
    <3> QED BY <1>2, <3>1, <3>2 DEF LandingInv, SignInOK, SubmitOK, DialogOK
  <2>2. CASE Landing!Next
    BY <1>2, <2>2, SignInCardStep, SignedInStep, SignInFailsStep, ReceiveStatusStep,
       ReturnStep, DialogStep, RequestSubmitStep, ReceiveSubmitStep, DecideStep
       DEF Landing!Next
  <2> QED BY <1>2, <2>1, <2>2, LandingSteps
<1> QED BY <1>1, <1>2, PTL DEF Spec

\* For any addresses, tries and timers: the banner is about the address in the box, no
\* failure leaves the card off, and the request dialog neither sends twice nor keeps
\* what was typed when closed.
THEOREM LandingStaysUsable == Spec => []LandingUsable
<1>1. LandingInv => LandingUsable
  <2> SUFFICES ASSUME LandingInv PROVE LandingUsable
    OBVIOUS
  <2>1. Landing!BannerOfBox
    <3> DEFINE S == {r \in pending : Landing!SignsIn(r)}
    <3>1. \A x, y \in S : x = y
      BY DEF LandingInv, SignInOK
    <3> HIDE DEF S
    <3>2. Cardinality(S) <= 1
      BY <3>1, AtMostOne
    <3> QED BY <3>2, LandingCardinality DEF S, LandingInv, SignInOK, Landing!BannerOfBox
  <2>2. Landing!OneSubmission
    <3> DEFINE S == {r \in pending : r.op = "submit"}
    <3>1. \A x, y \in S : x = y
      BY DEF LandingInv, SubmitOK
    <3> HIDE DEF S
    <3>2. Cardinality(S) <= 1
      BY <3>1, AtMostOne
    <3> QED BY <3>2, LandingCardinality DEF S, Landing!OneSubmission
  <2>3. Landing!CardNotFrozen /\ Landing!BlankWhenClosed
    BY DEF LandingInv, SignInOK, DialogOK, Landing!CardNotFrozen, Landing!BlankWhenClosed
  <2> QED BY <2>1, <2>2, <2>3 DEF LandingUsable
<1> QED BY <1>1, LandingInductive, PTL

----------------------------------------------------------------------------
\* The accounts tab of the budget.

LEMMA BankSteps == [Next]_vars => [BankAccounts!Next]_bankVars
BY DEF Next, vars, bankVars

Field == BankAccounts!Fields
Written == Values \union {EmptyText}
Patches == UNION {[S -> BankAccounts!Texts] : S \in SUBSET Field}
Saves == [account : Accounts, patch : Patches, dialog : Nat, typed : SUBSET Field,
          state : {"sent", "saved", "failed"}]

\* What differs from the account as it was opened was typed in, and a label is text.
FormOK ==
    /\ \A f \in Field : bankForm[f] # seed[f] => f \in bankTyped
    /\ bankForm["label"] \in Written

\* A save writes only what was typed in before it was sent.
SaveOK(c) ==
    /\ DOMAIN c.patch \subseteq c.typed
    /\ \A f \in DOMAIN c.patch : c.patch[f] \in Written
    /\ "label" \in DOMAIN c.patch => c.patch["label"] # EmptyText

SavesOK == bankSaves \subseteq Saves /\ \A c \in bankSaves : SaveOK(c)

BankInv == BankAccounts!AccountsTypeOK /\ FormOK /\ SavesOK

LEMMA BankTypes ==
    /\ Field = {"label", "limit"}
    /\ BankAccounts!AccountsTypeOK =>
         /\ stored \in [Accounts -> [Field -> Written]]
         /\ bankListed \in [Accounts -> [Field -> Written]]
         /\ editing \in Accounts \union {NoAccount}
         /\ seed \in [Field -> Written] /\ bankForm \in [Field -> BankAccounts!Texts]
         /\ errors \subseteq Field /\ bankTyped \subseteq Field
         /\ bankSaving \in BOOLEAN /\ bankDialog \in Nat /\ edits \in 0..MaxEdits
         /\ theirs \in [Accounts -> SUBSET Field]
         /\ \A a \in Accounts : stored[a]["label"] # EmptyText
BY DEF BankAccounts!AccountsTypeOK, BankAccounts!Details, Field, Written, BankAccounts!Fields

LEMMA BankTypesSuffice ==
    ASSUME stored' \in [Accounts -> [Field -> Written]],
           bankListed' \in [Accounts -> [Field -> Written]],
           editing' \in Accounts \union {NoAccount},
           seed' \in [Field -> Written], bankForm' \in [Field -> BankAccounts!Texts],
           errors' \subseteq Field, bankTyped' \subseteq Field,
           bankSaving' \in BOOLEAN, bankDialog' \in Nat, edits' \in 0..MaxEdits,
           theirs' \in [Accounts -> SUBSET Field],
           \A a \in Accounts : stored'[a]["label"] # EmptyText,
           SavesOK'
    PROVE  BankAccounts!AccountsTypeOK'
BY DEF BankAccounts!AccountsTypeOK, BankAccounts!Details, Field, Written,
       BankAccounts!Fields, SavesOK, SaveOK

LEMMA SpendCounts ==
    ASSUME edits \in 0..MaxEdits, BankAccounts!Spend
    PROVE  edits' \in 0..MaxEdits
BY PagesAssumption DEF BankAccounts!Spend

LEMMA OnEditStep ==
    ASSUME BankInv, NEW a \in Accounts, BankAccounts!OnEdit(a)
    PROVE  BankInv'
<1>1. /\ editing' = a /\ seed' = bankListed[a] /\ bankForm' = bankListed[a]
      /\ errors' = {} /\ bankSaving' = FALSE /\ bankDialog' = bankDialog + 1
      /\ bankTyped' = {} /\ UNCHANGED <<stored, bankListed, bankSaves, theirs>>
      /\ BankAccounts!Spend
  BY DEF BankAccounts!OnEdit
<1>2. SavesOK'
  BY <1>1 DEF BankInv, SavesOK
<1>3. bankListed[a] \in [Field -> Written]
  BY BankTypes DEF BankInv
<1>4. bankListed[a] \in [Field -> BankAccounts!Texts]
  BY <1>3 DEF BankAccounts!Texts, Written
<1>5. BankAccounts!AccountsTypeOK'
  <2>1. /\ errors' \subseteq Field /\ bankTyped' \subseteq Field /\ bankSaving' \in BOOLEAN
    BY <1>1
  <2>2. bankDialog' \in Nat /\ edits' \in 0..MaxEdits
    BY <1>1, BankTypes, SpendCounts DEF BankInv
  <2>3. /\ stored \in [Accounts -> [Field -> Written]]
        /\ bankListed \in [Accounts -> [Field -> Written]]
        /\ theirs \in [Accounts -> SUBSET Field]
        /\ \A x \in Accounts : stored[x]["label"] # EmptyText
    BY BankTypes DEF BankInv
  <2> QED BY <1>1, <1>2, <1>3, <1>4, <2>1, <2>2, <2>3, BankTypesSuffice
<1>6. FormOK'
  BY <1>1, <1>3, BankTypes DEF FormOK
<1> QED BY <1>2, <1>5, <1>6 DEF BankInv

LEMMA SetFieldStep ==
    ASSUME BankInv, NEW f \in Field, NEW text \in BankAccounts!Texts,
           BankAccounts!SetField(f, text)
    PROVE  BankInv'
<1>1. /\ bankForm' = [bankForm EXCEPT ![f] = text] /\ errors' = errors \ {f}
      /\ bankTyped' = bankTyped \union {f}
      /\ UNCHANGED <<stored, bankListed, editing, seed, bankSaving, bankDialog, bankSaves,
                     theirs>>
      /\ BankAccounts!Spend /\ (f = "label" => text # BankAccounts!Unreadable)
  BY DEF BankAccounts!SetField
<1>2. SavesOK'
  BY <1>1 DEF BankInv, SavesOK
<1>3. BankAccounts!AccountsTypeOK'
  BY <1>1, <1>2, BankTypes, BankTypesSuffice, SpendCounts DEF BankInv
<1>4. FormOK'
  BY <1>1, BankTypes DEF BankInv, FormOK, BankAccounts!Texts, Written
<1> QED BY <1>2, <1>3, <1>4 DEF BankInv

\* The patch of a form that was validated.
LEMMA PatchMade ==
    ASSUME BankInv, BankAccounts!Validate = {}
    PROVE  LET p == BankAccounts!BuildPatch
           IN /\ p \in Patches /\ DOMAIN p \subseteq bankTyped
              /\ \A f \in DOMAIN p : p[f] \in Written
              /\ "label" \in DOMAIN p => p["label"] # EmptyText
<1> DEFINE S == {x \in Field : bankForm[x] # seed[x]}
           p == [f \in S |-> bankForm[f]]
<1>1. p = BankAccounts!BuildPatch
  BY DEF BankAccounts!BuildPatch, Field
<1>2. bankForm \in [Field -> BankAccounts!Texts] /\ Field = {"label", "limit"}
  BY BankTypes DEF BankInv
<1>3. S \in SUBSET Field /\ p \in [S -> BankAccounts!Texts]
  BY <1>2
<1>4. p \in Patches
  BY <1>3 DEF Patches
<1>5. S \subseteq bankTyped
  BY DEF BankInv, FormOK
<1>6. bankForm["label"] # EmptyText /\ bankForm["limit"] # BankAccounts!Unreadable
  BY <1>2 DEF BankAccounts!Validate, Field
<1>7. \A f \in Field : bankForm[f] \in Written
  BY <1>2, <1>6 DEF BankInv, FormOK, BankAccounts!Texts, Written
<1> QED BY <1>1, <1>3, <1>4, <1>5, <1>6, <1>7

LEMMA HandleSaveStep ==
    ASSUME BankInv, BankAccounts!HandleSave
    PROVE  BankInv'
<1>1. /\ UNCHANGED <<stored, bankListed, seed, bankForm, bankDialog, bankTyped, theirs>>
      /\ BankAccounts!Spend /\ editing # NoAccount
  BY DEF BankAccounts!HandleSave
<1>2. /\ errors' \subseteq Field /\ bankSaving' \in BOOLEAN
      /\ editing' \in Accounts \union {NoAccount}
  BY BankTypes
     DEF BankInv, BankAccounts!HandleSave, BankAccounts!Closed, BankAccounts!Validate, Field
<1>3. SavesOK'
  <2>1. CASE bankSaves' = bankSaves
    BY <2>1 DEF BankInv, SavesOK
  <2>2. CASE bankSaves' # bankSaves
    <3> DEFINE c == [account |-> editing, patch |-> BankAccounts!BuildPatch,
                     dialog |-> bankDialog, typed |-> bankTyped, state |-> "sent"]
    <3>1. BankAccounts!Validate = {} /\ bankSaves' = bankSaves \union {c}
      BY <2>2 DEF BankAccounts!HandleSave
    <3>2. c \in Saves
      BY <1>1, <3>1, BankTypes, PatchMade DEF BankInv, Saves
    <3>3. SaveOK(c)
      BY <3>1, PatchMade DEF SaveOK
    <3> HIDE DEF c
    <3> QED BY <3>1, <3>2, <3>3 DEF BankInv, SavesOK
  <2> QED BY <2>1, <2>2
<1>4. BankAccounts!AccountsTypeOK'
  BY <1>1, <1>2, <1>3, BankTypes, BankTypesSuffice, SpendCounts DEF BankInv
<1>5. FormOK'
  BY <1>1 DEF BankInv, FormOK
<1> QED BY <1>3, <1>4, <1>5 DEF BankInv

LEMMA OnCloseStep ==
    ASSUME BankInv, BankAccounts!OnClose
    PROVE  BankInv'
<1>1. /\ editing' = NoAccount /\ errors' = {} /\ bankSaving' = FALSE
      /\ UNCHANGED <<stored, bankListed, seed, bankForm, bankDialog, bankSaves, bankTyped,
                     theirs, edits>>
  BY DEF BankAccounts!OnClose, BankAccounts!Closed
<1>2. SavesOK' /\ FormOK'
  BY <1>1 DEF BankInv, SavesOK, FormOK
<1>3. BankAccounts!AccountsTypeOK'
  BY <1>1, <1>2, BankTypes, BankTypesSuffice DEF BankInv
<1> QED BY <1>2, <1>3 DEF BankInv

LEMMA ServeStep ==
    ASSUME BankInv, NEW c \in bankSaves, BankAccounts!Serve(c)
    PROVE  BankInv'
<1>1. /\ UNCHANGED <<bankListed, editing, seed, bankForm, errors, bankSaving, bankDialog,
                     bankTyped, edits>>
  BY DEF BankAccounts!Serve
<1>2. c \in Saves /\ SaveOK(c)
  BY DEF BankInv, SavesOK
<1>3. ASSUME NEW answer \in {"saved", "failed"},
             bankSaves' = (bankSaves \ {c}) \union {[c EXCEPT !.state = answer]}
      PROVE  SavesOK'
  <2> DEFINE d == [c EXCEPT !.state = answer]
  <2>1. /\ d \in Saves /\ d.patch = c.patch /\ d.typed = c.typed
        /\ bankSaves' = (bankSaves \ {c}) \union {d}
    BY <1>2, <1>3 DEF Saves
  <2>2. SaveOK(d)
    BY <1>2, <2>1 DEF SaveOK
  <2> HIDE DEF d
  <2> QED BY <2>1, <2>2 DEF BankInv, SavesOK
<1>4. SavesOK'
  BY <1>3 DEF BankAccounts!Serve
<1>5. /\ stored' \in [Accounts -> [Field -> Written]]
      /\ theirs' \in [Accounts -> SUBSET Field]
      /\ \A a \in Accounts : stored'[a]["label"] # EmptyText
  <2>1. CASE UNCHANGED <<stored, theirs>>
    BY <2>1, BankTypes DEF BankInv
  <2>2. CASE /\ stored' = [stored EXCEPT ![c.account] = BankAccounts!Patched(@, c.patch)]
             /\ theirs' = [theirs EXCEPT ![c.account] = @ \ c.typed]
    <3>1. c.account \in Accounts
      BY <1>2 DEF Saves
    <3>2. /\ stored \in [Accounts -> [Field -> Written]]
          /\ theirs \in [Accounts -> SUBSET Field]
          /\ \A a \in Accounts : stored[a]["label"] # EmptyText
      BY BankTypes DEF BankInv
    <3> DEFINE p == BankAccounts!Patched(stored[c.account], c.patch)
    <3>3. p \in [Field -> Written] /\ p["label"] # EmptyText
      BY <1>2, <3>1, <3>2, BankTypes DEF BankAccounts!Patched, Field, SaveOK
    <3>4. stored' = [stored EXCEPT ![c.account] = p]
      BY <2>2
    <3> HIDE DEF p
    <3> QED BY <2>2, <3>1, <3>2, <3>3, <3>4
  <2> QED BY <2>1, <2>2 DEF BankAccounts!Serve
<1>6. BankAccounts!AccountsTypeOK'
  BY <1>1, <1>4, <1>5, BankTypes, BankTypesSuffice DEF BankInv
<1>7. FormOK'
  BY <1>1 DEF BankInv, FormOK
<1> QED BY <1>4, <1>6, <1>7 DEF BankInv

LEMMA ReceiveStep ==
    ASSUME BankInv, NEW c \in bankSaves, BankAccounts!Receive(c)
    PROVE  BankInv'
<1>1. /\ UNCHANGED <<stored, bankListed, seed, bankForm, bankDialog, bankTyped, theirs,
                     edits>>
      /\ bankSaves' = bankSaves \ {c}
  BY DEF BankAccounts!Receive
<1>2. /\ errors' \subseteq Field /\ bankSaving' \in BOOLEAN
      /\ editing' \in Accounts \union {NoAccount}
  BY BankTypes DEF BankInv, BankAccounts!Receive, BankAccounts!Closed
<1>3. SavesOK' /\ FormOK'
  BY <1>1 DEF BankInv, SavesOK, FormOK
<1>4. BankAccounts!AccountsTypeOK'
  BY <1>1, <1>2, <1>3, BankTypes, BankTypesSuffice DEF BankInv
<1> QED BY <1>3, <1>4 DEF BankInv

LEMMA RefreshStep ==
    ASSUME BankInv, BankAccounts!Refresh
    PROVE  BankInv'
<1>1. /\ bankListed' = stored
      /\ UNCHANGED <<stored, editing, seed, bankForm, errors, bankSaving, bankDialog,
                     bankSaves, bankTyped, theirs, edits>>
  BY DEF BankAccounts!Refresh
<1>2. SavesOK' /\ FormOK'
  BY <1>1 DEF BankInv, SavesOK, FormOK
<1>3. BankAccounts!AccountsTypeOK'
  BY <1>1, <1>2, BankTypes, BankTypesSuffice DEF BankInv
<1> QED BY <1>2, <1>3 DEF BankInv

LEMMA OtherTabStep ==
    ASSUME BankInv, NEW a \in Accounts, NEW f \in Field, NEW v \in Written,
           BankAccounts!OtherTab(a, f, v)
    PROVE  BankInv'
<1>1. /\ stored' = [stored EXCEPT ![a][f] = v]
      /\ theirs' = [theirs EXCEPT ![a] = @ \union {f}]
      /\ UNCHANGED <<bankListed, editing, seed, bankForm, errors, bankSaving, bankDialog,
                     bankSaves, bankTyped>>
      /\ BankAccounts!Spend /\ (f = "label" => v # EmptyText)
  BY DEF BankAccounts!OtherTab
<1>2. SavesOK' /\ FormOK'
  BY <1>1 DEF BankInv, SavesOK, FormOK
<1>3. BankAccounts!AccountsTypeOK'
  BY <1>1, <1>2, BankTypes, BankTypesSuffice, SpendCounts DEF BankInv
<1> QED BY <1>2, <1>3 DEF BankInv

LEMMA BankInductive == Spec => []BankInv
<1>1. Init => BankInv
  <2> SUFFICES ASSUME Init PROVE BankInv
    OBVIOUS
  <2>1. BankAccounts!Init
    BY DEF Init
  <2>2. /\ stored \in [Accounts -> {d \in [Field -> Written] : d["label"] # EmptyText}]
        /\ bankListed = stored /\ editing = NoAccount /\ errors = {}
        /\ bankSaving = FALSE /\ bankDialog = 0 /\ bankSaves = {} /\ bankTyped = {}
        /\ theirs = [a \in Accounts |-> {}] /\ edits = 0
    BY <2>1 DEF BankAccounts!Init, BankAccounts!Details, Field, Written
  <2>3. seed = bankForm /\ seed \in [Field -> {EmptyText}]
    BY <2>1 DEF BankAccounts!Init, BankAccounts!Blanks, Field
  <2>4. SavesOK /\ FormOK
    BY <2>2, <2>3, BankTypes DEF SavesOK, FormOK, Written
  <2>5. BankAccounts!AccountsTypeOK
    <3>1. seed \in BankAccounts!Details /\ bankForm \in [Field -> BankAccounts!Texts]
      BY <2>3 DEF BankAccounts!Details, Field, BankAccounts!Texts
    <3>2. {stored, bankListed} \subseteq [Accounts -> BankAccounts!Details]
      BY <2>2 DEF BankAccounts!Details, Field, Written
    <3>3. \A a \in Accounts : stored[a]["label"] # EmptyText
      BY <2>2
    <3>4. edits \in 0..MaxEdits /\ bankDialog \in Nat
      BY <2>2, PagesAssumption
    <3> QED BY <2>2, <3>1, <3>2, <3>3, <3>4
            DEF BankAccounts!AccountsTypeOK, Field
  <2> QED BY <2>4, <2>5 DEF BankInv
<1>2. ASSUME BankInv, [Next]_vars PROVE BankInv'
  <2>1. CASE UNCHANGED bankVars
    <3>1. UNCHANGED <<stored, bankListed, editing, seed, bankForm, errors, bankSaving,
                      bankDialog, bankSaves, bankTyped, theirs, edits>>
      BY <2>1 DEF bankVars
    <3>2. SavesOK' /\ FormOK'
      BY <1>2, <3>1 DEF BankInv, SavesOK, FormOK
    <3>3. BankAccounts!AccountsTypeOK'
      BY <1>2, <3>1, <3>2, BankTypes, BankTypesSuffice DEF BankInv
    <3> QED BY <3>2, <3>3 DEF BankInv
  <2>2. CASE BankAccounts!Next
    BY <1>2, <2>2, OnEditStep, SetFieldStep, HandleSaveStep, OnCloseStep, RefreshStep,
       ServeStep, ReceiveStep, OtherTabStep DEF BankAccounts!Next, Field, Written
  <2> QED BY <1>2, <2>1, <2>2, BankSteps
<1> QED BY <1>1, <1>2, PTL DEF Spec

\* A step that serves a save, sends one or receives its answer.
LEMMA SaveMoves ==
    ASSUME [Next]_vars, bankSaves' # bankSaves
    PROVE  \/ \E c \in bankSaves : BankAccounts!Serve(c) \/ BankAccounts!Receive(c)
           \/ BankAccounts!HandleSave
<1>1. BankAccounts!Next
  BY BankSteps DEF bankVars
<1> QED BY <1>1 DEF BankAccounts!Next, BankAccounts!OnEdit, BankAccounts!SetField,
        BankAccounts!OnClose, BankAccounts!Refresh, BankAccounts!OtherTab

\* A save of an old form takes nothing back that another tab wrote.
LEMMA OthersKeptStep ==
    ASSUME BankInv, [Next]_vars, bankSaves' # bankSaves, NEW a \in Accounts, NEW f \in Field,
           f \in theirs[a], f \in theirs'[a]
    PROVE  stored'[a][f] = stored[a][f]
<1>1. CASE stored' = stored
  BY <1>1
<1>2. CASE stored' # stored
  <2>1. PICK c \in bankSaves :
          /\ stored' = [stored EXCEPT ![c.account] = BankAccounts!Patched(@, c.patch)]
          /\ theirs' = [theirs EXCEPT ![c.account] = @ \ c.typed]
    BY <1>2, SaveMoves DEF BankAccounts!Serve, BankAccounts!Receive, BankAccounts!HandleSave
  <2>2. /\ stored \in [Accounts -> [Field -> Written]]
        /\ theirs \in [Accounts -> SUBSET Field]
    BY BankTypes DEF BankInv
  <2>3. c.account \in Accounts /\ DOMAIN c.patch \subseteq c.typed
    BY DEF BankInv, SavesOK, SaveOK, Saves
  <2>4. CASE a # c.account
    BY <2>1, <2>2, <2>4
  <2>5. CASE a = c.account
    <3>1. f \notin c.typed
      BY <2>1, <2>2, <2>3, <2>5
    <3>2. stored'[a] = BankAccounts!Patched(stored[a], c.patch)
      BY <2>1, <2>2, <2>5
    <3> QED BY <2>3, <3>1, <3>2 DEF BankAccounts!Patched, Field
  <2> QED BY <2>4, <2>5
<1> QED BY <1>1, <1>2

\* The answer to another dialog's save leaves this one open.
LEMMA DialogStaysStep ==
    ASSUME [Next]_vars, NEW c \in bankSaves, c \notin bankSaves', c.dialog # bankDialog
    PROVE  editing' = editing
<1>1. PICK d \in bankSaves : BankAccounts!Serve(d) \/ BankAccounts!Receive(d)
  BY SaveMoves DEF BankAccounts!HandleSave
<1>2. CASE BankAccounts!Serve(d)
  BY <1>2 DEF BankAccounts!Serve
<1>3. CASE BankAccounts!Receive(d)
  <2>1. c = d
    BY <1>3 DEF BankAccounts!Receive
  <2> QED BY <1>3, <2>1 DEF BankAccounts!Receive, BankAccounts!Mine
<1> QED BY <1>1, <1>2, <1>3

\* For any accounts, values and number of tabs' edits: a save of a dialog overwrites no
\* field another tab wrote and the user left alone, and its answer closes no other dialog.
THEOREM EditsStayApart == Spec => AccountEditsApart
<1>1. ASSUME BankInv, [Next]_vars
      PROVE  \A a \in Accounts, f \in BankAccounts!Fields :
               (f \in theirs[a] /\ f \in theirs'[a] /\ bankSaves' # bankSaves)
                  => stored'[a][f] = stored[a][f]
  BY <1>1, OthersKeptStep DEF Field
<1>2. ASSUME [Next]_vars
      PROVE  \A c \in bankSaves \ bankSaves' :
               (c.dialog # bankDialog /\ editing # NoAccount) => editing' = editing
  BY <1>2, DialogStaysStep
<1> QED BY <1>1, <1>2, BankInductive, PTL
        DEF Spec, AccountEditsApart, BankAccounts!OthersKept,
            BankAccounts!DialogNotClosedByOther

----------------------------------------------------------------------------
\* The budget page.

\* What the server lists, and what it may hold for a key.
Known == [StatementIds -> Budget!Categories \union {"gone", "listed"}]
Fetches == {Budget!Idle, Budget!Asked, Budget!Lost} \union [read : {TRUE}, rows : Known]
Entries == [data : {Budget!NoData} \union Known, stale : BOOLEAN,
            error : {"no", "404", "failed"}, fetch : Fetches]
Writes == [op : {"edit", "bulk", "upload", "delete"}, on : SUBSET StatementIds,
           to : Budget!Categories \union {"gone"}, from : Budget!Sids,
           mine : BOOLEAN, done : BOOLEAN]

BudgetTypes ==
    /\ ledger \in [StatementIds -> Budget!Categories \union {"new", "gone"}]
    /\ sid \in Budget!Sids /\ budgetFilter \in Budget!Filters
    /\ last \in Budget!Keys /\ cache \in [Budget!Keys -> Entries]
    /\ writes \subseteq Writes
    /\ \A w \in writes : w.op \in {"edit", "bulk"} => w.to \in Budget!Categories
    /\ deletingId \in StatementIds \union {NoStatement}
    /\ editingId \in StatementIds \union {NoStatement}
    /\ selectedTxns \subseteq StatementIds
    /\ filterReview \in BOOLEAN /\ budgetSaving \in BOOLEAN /\ clean \in BOOLEAN

\* The keys no served write without an answer has changed; none once an older read
\* passed for fresh or a write got lost.
TrustedOf(out, known) ==
    {k \in Budget!Keys : known /\ \A w \in out : w.done => k \notin Budget!Hidden(w)}
Trusted == TrustedOf(writes, clean)

\* What is asked again, or is not there, has no fresh data.
Held(e) ==
    (e.fetch # Budget!Idle \/ e.error = "404") => e.stale \/ e.data = Budget!NoData

\* Fresh data and an answer on its way are the server's.
Answer(k) == IF Budget!Missing(k) THEN Budget!Lost ELSE Budget!Read(k)
Sound(e, k) ==
    /\ ~e.stale /\ e.data # Budget!NoData => e.data = Budget!Rows(k) /\ ~Budget!Missing(k)
    /\ e.fetch \notin {Budget!Idle, Budget!Asked} => e.fetch = Answer(k)

\* What is on screen is fresh, asked for, or an error.
Watched(e) ==
    (e.fetch = Budget!Idle /\ e.error = "no") => ~e.stale /\ e.data # Budget!NoData

\* A view that stays up as missing is.
Absent(e, k) == (e.fetch = Budget!Idle /\ e.error = "404") => Budget!Missing(k)

\* The cache c under the view v, as far as the keys of Q can be trusted.
CacheOK(c, v, Q) ==
    /\ \A k \in Budget!Keys : Held(c[k])
    /\ \A k \in Q : Sound(c[k], k)
    /\ Watched(c[v]) /\ Watched(c[Budget!List])
    /\ v \in Q => Absent(c[v], v)
    /\ c[v].error = "404" => v[1] = Overall

BudgetInv ==
    BudgetTypes /\ CacheOK(cache, Budget!View, Trusted) /\ Budget!SelectionVisible

LEMMA BudgetFacts ==
    /\ Budget!Idle # Budget!Asked /\ Budget!Lost \notin {Budget!Idle, Budget!Asked}
    /\ \A f \in [read : {TRUE}, rows : Known] :
         f \notin {Budget!Idle, Budget!Asked, Budget!Lost} /\ f.rows \in Known
    /\ Budget!NoData \notin Known
    /\ {Budget!Idle, Budget!Asked, Budget!Lost} \subseteq Fetches
    /\ Budget!List \in Budget!Keys /\ Budget!List \notin Budget!Views
    /\ Budget!Views \subseteq Budget!Keys
<1>1. PICK s \in StatementIds : TRUE
  BY PagesAssumption
<1>2. Budget!Idle.read = TRUE /\ Budget!Asked.read = FALSE /\ Budget!Lost.read = TRUE
  BY DEF Budget!Idle, Budget!Asked, Budget!Lost
<1>3. Budget!Idle.rows[s] = "no data" /\ Budget!Lost.rows[s] = "404"
        /\ Budget!NoData[s] = "no data"
  BY DEF Budget!Idle, Budget!Lost, Budget!NoData
<1>4. \A r \in Known : r[s] \notin {"no data", "404"}
  BY <1>1 DEF Known, Budget!Categories
<1>5. ASSUME NEW f \in [read : {TRUE}, rows : Known]
      PROVE  f.read = TRUE /\ f.rows \in Known
  OBVIOUS
<1>6. \A f \in [read : {TRUE}, rows : Known] :
        f \notin {Budget!Idle, Budget!Asked, Budget!Lost} /\ f.rows \in Known
  <2> SUFFICES ASSUME NEW f \in [read : {TRUE}, rows : Known]
               PROVE  f \notin {Budget!Idle, Budget!Asked, Budget!Lost} /\ f.rows \in Known
    OBVIOUS
  <2>1. f.read = TRUE /\ f.rows \in Known
    BY <1>5
  <2> QED BY <1>2, <1>3, <1>4, <2>1
<1>7. Budget!Idle # Budget!Asked /\ Budget!Lost \notin {Budget!Idle, Budget!Asked}
  BY <1>2, <1>3
<1>8. Budget!NoData \notin Known
  BY <1>3, <1>4
<1>9. Budget!List \in Budget!Keys /\ Budget!List \notin Budget!Views
        /\ Budget!Views \subseteq Budget!Keys
  BY DEF Budget!List, Budget!Keys, Budget!Views, Budget!Filters
<1> QED BY <1>6, <1>7, <1>8, <1>9 DEF Fetches

\* What the server answers is known, and tells a view that is missing.
LEMMA ServerAnswers ==
    ASSUME ledger \in [StatementIds -> Budget!Categories \union {"new", "gone"}],
           NEW k \in Budget!Keys
    PROVE  /\ Budget!Rows(k) \in Known /\ Budget!Read(k).rows = Budget!Rows(k)
           /\ Budget!Read(k) \in [read : {TRUE}, rows : Known]
           /\ Answer(k) \in Fetches /\ Answer(k) \notin {Budget!Idle, Budget!Asked}
           /\ Answer(k) = Budget!Lost <=> Budget!Missing(k)
<1>1. Budget!Rows(k) \in Known
  BY DEF Budget!Rows, Known, Budget!There
<1>2. Budget!Read(k).rows = Budget!Rows(k)
        /\ Budget!Read(k) \in [read : {TRUE}, rows : Known]
  BY <1>1 DEF Budget!Read
<1> QED BY <1>1, <1>2, BudgetFacts DEF Answer, Fetches

\* The entries a query's life goes through.
LEMMA EntryMade ==
    ASSUME NEW e \in Entries, NEW s \in BOOLEAN, NEW f \in Fetches,
           NEW r \in {"no", "404", "failed"}
    PROVE  /\ [e EXCEPT !.stale = s] \in Entries
           /\ [e EXCEPT !.fetch = f] \in Entries
           /\ [e EXCEPT !.fetch = f, !.error = r] \in Entries
           /\ [e EXCEPT !.error = r, !.fetch = f] \in Entries
           /\ [e EXCEPT !.stale = s].stale = s /\ [e EXCEPT !.stale = s].data = e.data
           /\ [e EXCEPT !.stale = s].error = e.error /\ [e EXCEPT !.stale = s].fetch = e.fetch
           /\ [e EXCEPT !.fetch = f].fetch = f /\ [e EXCEPT !.fetch = f].data = e.data
           /\ [e EXCEPT !.fetch = f].error = e.error /\ [e EXCEPT !.fetch = f].stale = e.stale
           /\ [e EXCEPT !.fetch = f, !.error = r] = [e EXCEPT !.error = r, !.fetch = f]
           /\ [e EXCEPT !.error = r, !.fetch = f].fetch = f
           /\ [e EXCEPT !.error = r, !.fetch = f].error = r
           /\ [e EXCEPT !.error = r, !.fetch = f].data = e.data
           /\ [e EXCEPT !.error = r, !.fetch = f].stale = e.stale
BY DEF Entries

LEMMA AskingLemma ==
    ASSUME NEW e \in Entries
    PROVE  /\ Budget!Asking(e) \in Entries
           /\ Budget!Asking(e).data = e.data /\ Budget!Asking(e).stale = e.stale
           /\ Budget!Asking(e).fetch = Budget!Asked
           /\ Budget!Asking(e).error \in {"no", e.error}
<1> DEFINE r == IF e.data = Budget!NoData THEN "no" ELSE e.error
<1>1. Budget!Asking(e) = [e EXCEPT !.fetch = Budget!Asked, !.error = r]
  BY DEF Budget!Asking
<1>2. r \in {"no", e.error} /\ r \in {"no", "404", "failed"}
  BY DEF Entries
<1>3. Budget!Asked \in Fetches
  BY BudgetFacts
<1> HIDE DEF r
<1>4. e.data \in {Budget!NoData} \union Known /\ e.stale \in BOOLEAN
  BY DEF Entries
<1>5. Budget!Asking(e) = [data |-> e.data, stale |-> e.stale, error |-> r,
                          fetch |-> Budget!Asked]
  BY <1>1 DEF Entries
<1> QED BY <1>2, <1>3, <1>4, <1>5 DEF Entries

\* A key that comes on screen is watched, and its old 404 is asked again.
LEMMA ObserveLemma ==
    ASSUME NEW c \in [Budget!Keys -> Entries], NEW k \in Budget!Keys,
           NEW Q \in SUBSET Budget!Keys,
           \A j \in Budget!Keys : Held(c[j]), \A j \in Q : Sound(c[j], j)
    PROVE  /\ Budget!Observe(c, k) \in [Budget!Keys -> Entries]
           /\ \A j \in Budget!Keys : Held(Budget!Observe(c, k)[j])
           /\ \A j \in Q : Sound(Budget!Observe(c, k)[j], j)
           /\ \A j \in Budget!Keys : j # k => Budget!Observe(c, k)[j] = c[j]
           /\ Watched(Budget!Observe(c, k)[k])
           /\ Budget!Observe(c, k)[k].fetch = Budget!Idle
                => Budget!Observe(c, k)[k].error # "404"
           /\ Budget!Observe(c, k)[k].error \in {"no", c[k].error}
<1> DEFINE a == Budget!Asking(c[k])
           d == [c EXCEPT ![k] = a]
<1>1. CASE ~(c[k].fetch = Budget!Idle /\ (c[k].data = Budget!NoData \/ c[k].stale))
  <2>1. Budget!Observe(c, k) = c
    BY <1>1 DEF Budget!Observe
  <2>2. Held(c[k])
    OBVIOUS
  <2>3. Watched(c[k]) /\ (c[k].fetch = Budget!Idle => c[k].error # "404")
    BY <1>1, <2>2 DEF Watched, Held
  <2> QED BY <2>1, <2>3
<1>2. CASE c[k].fetch = Budget!Idle /\ (c[k].data = Budget!NoData \/ c[k].stale)
  <2>1. Budget!Observe(c, k) = d
    BY <1>2 DEF Budget!Observe
  <2>2. /\ a \in Entries /\ a.data = c[k].data /\ a.stale = c[k].stale
        /\ a.fetch = Budget!Asked /\ a.error \in {"no", c[k].error}
    BY AskingLemma
  <2> HIDE DEF a
  <2>3. d \in [Budget!Keys -> Entries] /\ d[k] = a
        /\ \A j \in Budget!Keys : j # k => d[j] = c[j]
    BY <2>2
  <2>4. Held(a) /\ Watched(a) /\ a.fetch # Budget!Idle
    BY <1>2, <2>2, BudgetFacts DEF Held, Watched
  <2>5. k \in Q => Sound(a, k)
    BY <2>2 DEF Sound
  <2> QED BY <2>1, <2>2, <2>3, <2>4, <2>5
<1> QED BY <1>1, <1>2

LEMMA ViewLemma ==
    ASSUME BudgetTypes
    PROVE  Budget!View \in Budget!Views /\ Budget!View \in Budget!Keys
           /\ Budget!View # Budget!List /\ Budget!View[1] = sid /\ Budget!View[2] = budgetFilter
BY BudgetFacts DEF BudgetTypes, Budget!View, Budget!Views

\* Putting a view on screen keeps what holds of the cache.
LEMMA ShowingLemma ==
    ASSUME BudgetTypes, NEW c \in [Budget!Keys -> Entries], NEW Q \in SUBSET Budget!Keys,
           \A j \in Budget!Keys : Held(c[j]), \A j \in Q : Sound(c[j], j),
           Watched(c[Budget!View]), Watched(c[Budget!List]),
           Budget!View \in Q => Absent(c[Budget!View], Budget!View),
           NEW k \in Budget!Views, Budget!Showing(c, k)
    PROVE  /\ cache' \in [Budget!Keys -> Entries] /\ last' \in Budget!Keys
           /\ sid' \in Budget!Sids /\ budgetFilter' \in Budget!Filters
           /\ CacheOK(cache', Budget!View', Q)
<1> DEFINE v == Budget!View
           l == Budget!List
           seen == IF k = v THEN c ELSE Budget!Observe(c, k)
           end == Budget!OnMissing(seen, k)
<1>1. /\ sid' = end[1] /\ budgetFilter' = end[2]
      /\ cache' = IF end = v THEN seen ELSE Budget!Observe(seen, end)
      /\ last' \in {end, k, last}
  BY DEF Budget!Showing
<1>2. v \in Budget!Views /\ v \in Budget!Keys /\ v # l /\ l \in Budget!Keys
      /\ l \notin Budget!Views /\ k \in Budget!Keys
  BY ViewLemma, BudgetFacts
<1>3. /\ k[2] \in Budget!Filters /\ k[1] \in Budget!Sids /\ k = <<k[1], k[2]>>
      /\ <<Overall, k[2]>> \in Budget!Views
  BY DEF Budget!Views, Budget!Sids
<1>4. end = IF seen[k].error = "404" THEN <<Overall, k[2]>> ELSE k
  BY DEF Budget!OnMissing
<1>5. end \in Budget!Views /\ end \in Budget!Keys /\ end # l
  BY <1>2, <1>3, <1>4, BudgetFacts
<1>6. end[1] \in Budget!Sids /\ end[2] \in Budget!Filters /\ end = <<end[1], end[2]>>
  BY <1>5 DEF Budget!Views
<1>7. Budget!View' = end
  BY <1>1, <1>6 DEF Budget!View
<1>8. /\ seen \in [Budget!Keys -> Entries]
      /\ \A j \in Budget!Keys : Held(seen[j])
      /\ \A j \in Q : Sound(seen[j], j)
      /\ \A j \in Budget!Keys : j # k => seen[j] = c[j]
      /\ k = v => seen = c
  <2>1. CASE k = v
    BY <2>1
  <2>2. CASE k # v
    <3>1. seen = Budget!Observe(c, k)
      BY <2>2
    <3>2. /\ Budget!Observe(c, k) \in [Budget!Keys -> Entries]
          /\ \A j \in Budget!Keys : Held(Budget!Observe(c, k)[j])
          /\ \A j \in Q : Sound(Budget!Observe(c, k)[j], j)
          /\ \A j \in Budget!Keys : j # k => Budget!Observe(c, k)[j] = c[j]
      <4>1. k \in Budget!Keys /\ c \in [Budget!Keys -> Entries]
            /\ Q \in SUBSET Budget!Keys
        BY <1>2
      <4>2. (\A j \in Budget!Keys : Held(c[j])) /\ (\A j \in Q : Sound(c[j], j))
        OBVIOUS
      <4> HIDE DEF seen, end, v, l
      <4> QED BY ONLY <4>1, <4>2, ObserveLemma
    <3> QED BY <2>2, <3>1, <3>2
  <2> QED BY <2>1, <2>2
<1>9. seen[l] = c[l]
  BY <1>2, <1>8
<1>10. seen[v] = c[v]
  BY <1>2, <1>8
<1>11. end = k \/ end[1] = Overall
  BY <1>3, <1>4
<1>12. end = k => seen[k].error # "404" \/ end[1] = Overall
  BY <1>4
<1> HIDE DEF seen, end, v, l
<1>13. CASE end = v
  <2>1. cache' = seen
    BY <1>1, <1>13
  <2>2. seen[end].error = "404" => end[1] = Overall
    BY <1>11, <1>12, <1>13
  <2>3. CacheOK(seen, end, Q)
    BY <1>8, <1>9, <1>10, <1>13, <2>2 DEF CacheOK, v, l
  <2> QED BY <1>1, <1>2, <1>5, <1>6, <1>7, <1>8, <2>1, <2>3 DEF BudgetTypes
<1>14. CASE end # v
  <2> DEFINE d == Budget!Observe(seen, end)
  <2>1. cache' = d
    BY <1>1, <1>14
  <2>2. /\ d \in [Budget!Keys -> Entries]
        /\ \A j \in Budget!Keys : Held(d[j])
        /\ \A j \in Q : Sound(d[j], j)
        /\ \A j \in Budget!Keys : j # end => d[j] = seen[j]
        /\ Watched(d[end])
        /\ d[end].fetch = Budget!Idle => d[end].error # "404"
        /\ d[end].error \in {"no", seen[end].error}
    BY <1>5, <1>8, ObserveLemma
  <2> HIDE DEF d
  <2>3. d[l] = c[l]
    BY <1>2, <1>5, <1>9, <2>2
  <2>4. d[end].error = "404" => end[1] = Overall
    BY <1>11, <1>12, <2>2
  <2>5. Absent(d[end], end)
    BY <2>2 DEF Absent
  <2>6. CacheOK(d, end, Q)
    BY <2>2, <2>3, <2>4, <2>5 DEF CacheOK, l
  <2> QED BY <1>1, <1>2, <1>5, <1>6, <1>7, <2>1, <2>2, <2>6 DEF BudgetTypes
<1> QED BY <1>13, <1>14

\* An entry that a write has made stale: what is on screen is asked again, unless its
\* first load is on its way.
LEMMA InvalidatedEntry ==
    ASSUME BudgetTypes, NEW ks \in SUBSET Budget!Keys, NEW k \in ks, Held(cache[k]),
           NEW e, e = Budget!Invalidated(ks)[k]
    PROVE  /\ e \in Entries /\ Held(e)
           /\ Sound(cache[k], k) => Sound(e, k)
           /\ cache[k].fetch \in {Budget!Idle, Budget!Asked}
                \/ Budget!Restarts(cache[k], Budget!Active(k)) => Sound(e, k)
           /\ Budget!Active(k) => e.fetch # Budget!Idle
<1> DEFINE b == cache[k]
           s == [b EXCEPT !.stale = TRUE]
           active == Budget!Active(k)
<1>1. e = IF Budget!Restarts(s, active) THEN Budget!Asking(s) ELSE s
  BY DEF Budget!Invalidated
<1>2. b \in Entries
  BY DEF BudgetTypes
<1>3. /\ s \in Entries /\ s.stale = TRUE /\ s.data = b.data /\ s.error = b.error
      /\ s.fetch = b.fetch
  BY <1>2 DEF Entries
<1> HIDE DEF s, b
<1>4. /\ Budget!Asking(s) \in Entries /\ Budget!Asking(s).stale = TRUE
      /\ Budget!Asking(s).fetch = Budget!Asked
  BY <1>3, AskingLemma
<1>5. Budget!Restarts(s, active) = Budget!Restarts(b, active)
  BY <1>3 DEF Budget!Restarts
<1>6. /\ e \in Entries /\ e.stale = TRUE
      /\ e.fetch = IF Budget!Restarts(b, active) THEN Budget!Asked ELSE b.fetch
  BY <1>1, <1>3, <1>4, <1>5
<1>7. active => e.fetch # Budget!Idle
  BY <1>6, BudgetFacts DEF Budget!Restarts
<1> HIDE DEF active
<1>8. Sound(b, k) => Sound(e, k)
  BY <1>6 DEF Sound
<1>9. b.fetch \in {Budget!Idle, Budget!Asked} \/ Budget!Restarts(b, active) => Sound(e, k)
  BY <1>6 DEF Sound
<1> QED BY <1>6, <1>7, <1>8, <1>9 DEF Held, b, active

\* Marking keys stale makes them trusted, if no older read of theirs passes for fresh.
LEMMA InvalidatedLemma ==
    ASSUME BudgetTypes, CacheOK(cache, Budget!View, Trusted),
           NEW ks \in SUBSET Budget!Keys, NEW Q \in SUBSET (Trusted \union ks),
           Q # {} => ~Budget!TakenForFresh(ks)
    PROVE  /\ Budget!Invalidated(ks) \in [Budget!Keys -> Entries]
           /\ \A j \in Budget!Keys : Held(Budget!Invalidated(ks)[j])
           /\ \A j \in Q : Sound(Budget!Invalidated(ks)[j], j)
           /\ Watched(Budget!Invalidated(ks)[Budget!View])
           /\ Watched(Budget!Invalidated(ks)[Budget!List])
           /\ Budget!View \in Q => Absent(Budget!Invalidated(ks)[Budget!View], Budget!View)
<1> DEFINE c == Budget!Invalidated(ks)
<1>1. \A k \in Budget!Keys : k \notin ks => c[k] = cache[k]
  BY DEF Budget!Invalidated
<1>2. \A k \in Budget!Keys : Held(cache[k]) /\ cache[k] \in Entries
  BY DEF CacheOK, BudgetTypes
<1>3. ASSUME NEW k \in ks
      PROVE  /\ c[k] \in Entries /\ Held(c[k])
             /\ Sound(cache[k], k) => Sound(c[k], k)
             /\ cache[k].fetch \in {Budget!Idle, Budget!Asked}
                  \/ Budget!Restarts(cache[k], Budget!Active(k)) => Sound(c[k], k)
             /\ Budget!Active(k) => c[k].fetch # Budget!Idle
  BY <1>2, InvalidatedEntry
<1>4. c \in [Budget!Keys -> Entries]
  <2>1. \A k \in Budget!Keys : c[k] \in Entries
    BY <1>1, <1>2, <1>3
  <2>2. c = [k \in Budget!Keys |-> c[k]]
    BY DEF Budget!Invalidated
  <2> QED BY <2>1, <2>2
<1>5. Budget!View \in Budget!Keys /\ Budget!List \in Budget!Keys
      /\ Budget!Active(Budget!View) /\ Budget!Active(Budget!List)
  BY ViewLemma, BudgetFacts DEF Budget!Active
<1> HIDE DEF c
<1>6. \A j \in Budget!Keys : Held(c[j])
  BY <1>1, <1>2, <1>3
<1>7. ASSUME NEW j \in Q PROVE Sound(c[j], j)
  <2>1. CASE j \in ks
    <3>1. cache[j].fetch \in {Budget!Idle, Budget!Asked}
            \/ Budget!Restarts(cache[j], Budget!Active(j))
      BY <2>1 DEF Budget!TakenForFresh
    <3> QED BY <1>3, <2>1, <3>1
  <2>2. CASE j \notin ks
    <3>1. j \in Trusted /\ j \in Budget!Keys
      BY <2>2 DEF Trusted, TrustedOf
    <3> QED BY <1>1, <2>2, <3>1 DEF CacheOK
  <2> QED BY <2>1, <2>2
<1>8. Watched(c[Budget!View]) /\ Watched(c[Budget!List])
  <2>1. \A k \in {Budget!View, Budget!List} : k \in ks => c[k].fetch # Budget!Idle
    BY <1>3, <1>5
  <2> QED BY <1>1, <1>5, <2>1 DEF Watched, CacheOK
<1>9. Budget!View \in Q => Absent(c[Budget!View], Budget!View)
  <2>1. CASE Budget!View \in ks
    BY <1>3, <1>5, <2>1 DEF Absent
  <2>2. CASE Budget!View \notin ks
    BY <1>1, <1>5, <2>2 DEF CacheOK
  <2> QED BY <2>1, <2>2
<1> QED BY <1>4, <1>6, <1>7, <1>8, <1>9 DEF c

\* An answer makes what it is about fresh, or tells that it is missing.
LEMMA AnsweredLemma ==
    ASSUME BudgetTypes, CacheOK(cache, Budget!View, Trusted), NEW k \in Budget!Keys,
           cache[k].fetch \notin {Budget!Idle, Budget!Asked},
           NEW c, c = [cache EXCEPT ![k] = Budget!Answered(@)]
    PROVE  /\ c \in [Budget!Keys -> Entries]
           /\ \A j \in Budget!Keys : Held(c[j])
           /\ \A j \in Trusted : Sound(c[j], j)
           /\ Watched(c[Budget!View]) /\ Watched(c[Budget!List])
           /\ Budget!View \in Trusted => Absent(c[Budget!View], Budget!View)
<1> DEFINE e == cache[k]
           a == Budget!Answered(e)
<1>1. e \in Entries /\ Held(e) /\ (k \in Trusted => Sound(e, k))
  BY DEF BudgetTypes, CacheOK
<1>2. ledger \in [StatementIds -> Budget!Categories \union {"new", "gone"}]
  BY DEF BudgetTypes
<1>3. k \in Trusted => e.fetch = Answer(k)
  BY <1>1 DEF Sound
<1>4. a \in Entries /\ Held(a) /\ Watched(a) /\ a.fetch = Budget!Idle
      /\ (k \in Trusted => Sound(a, k) /\ Absent(a, k))
  <2>1. CASE e.fetch = Budget!Lost
    <3>1. a = [data |-> e.data, stale |-> e.stale, error |-> "404", fetch |-> Budget!Idle]
      BY <1>1, <2>1 DEF Budget!Answered, Entries
    <3>2. e.data \in {Budget!NoData} \union Known /\ e.stale \in BOOLEAN
      BY <1>1 DEF Entries
    <3>3. e.stale \/ e.data = Budget!NoData
      BY <1>1 DEF Held
    <3>4. k \in Trusted => Budget!Missing(k)
      BY <1>2, <1>3, <2>1, ServerAnswers
    <3>5. a \in Entries
      BY <3>1, <3>2, BudgetFacts DEF Entries
    <3> HIDE DEF a, e
    <3> QED BY <3>1, <3>3, <3>4, <3>5 DEF Held, Watched, Sound, Absent
  <2>2. CASE e.fetch # Budget!Lost
    <3>1. a = [data |-> e.fetch.rows, stale |-> FALSE, error |-> "no",
               fetch |-> Budget!Idle]
      BY <2>2 DEF Budget!Answered
    <3>2. e.fetch.rows \in Known
      BY <1>1, <2>2, BudgetFacts DEF Entries, Fetches
    <3>3. a \in Entries
      BY <3>1, <3>2, BudgetFacts DEF Entries
    <3>4. k \in Trusted => e.fetch.rows = Budget!Rows(k) /\ ~Budget!Missing(k)
      BY <1>2, <1>3, <2>2, ServerAnswers DEF Answer
    <3> HIDE DEF a, e
    <3> QED BY <3>1, <3>2, <3>3, <3>4, BudgetFacts DEF Held, Watched, Sound, Absent
  <2> QED BY <2>1, <2>2
<1> HIDE DEF a
<1>5. c \in [Budget!Keys -> Entries] /\ c[k] = a
      /\ \A j \in Budget!Keys : j # k => c[j] = cache[j]
  BY <1>4 DEF a, BudgetTypes
<1>6. Trusted \subseteq Budget!Keys
  BY DEF Trusted, TrustedOf
<1>7. Budget!View \in Budget!Keys /\ Budget!List \in Budget!Keys
  BY ViewLemma, BudgetFacts
<1> QED BY <1>4, <1>5, <1>6, <1>7 DEF CacheOK

----------------------------------------------------------------------------
\* What a repaint does to the tab.

\* The rows of a table that stays are the rows there were.
LEMMA TableRows ==
    ASSUME Budget!Table' = Budget!Table
    PROVE  Budget!FilteredTransactions' = Budget!FilteredTransactions
<1> DEFINE f == [s \in Budget!FilteredTransactions |-> Budget!Shown[s]]
           g == [s \in Budget!FilteredTransactions' |-> Budget!Shown'[s]]
<1>1. Budget!Table = <<Budget!Source, f>> /\ Budget!Table' = <<Budget!Source', g>>
  BY DEF Budget!Table
<1>2. DOMAIN f = Budget!FilteredTransactions /\ DOMAIN g = Budget!FilteredTransactions'
  OBVIOUS
<1>3. f = g
  <2> HIDE DEF f, g
  <2> QED BY <1>1
<1> HIDE DEF f, g
<1> QED BY <1>2, <1>3

\* A repaint puts the new tab's state up or drops it, and keeps the writes but for who
\* waits for them.
LEMMA RepaintLemma ==
    ASSUME NEW w \in SUBSET Writes,
           \A x \in w : x.op \in {"edit", "bulk"} => x.to \in Budget!Categories,
           NEW review \in BOOLEAN, NEW edited \in StatementIds \union {NoStatement},
           NEW busy \in BOOLEAN, NEW chosen \in SUBSET Budget!FilteredTransactions,
           Budget!Repaint(w, review, edited, busy, chosen)
    PROVE  /\ writes' \subseteq Writes
           /\ \A x \in writes' : x.op \in {"edit", "bulk"} => x.to \in Budget!Categories
           /\ filterReview' \in BOOLEAN /\ budgetSaving' \in BOOLEAN
           /\ editingId' \in StatementIds \union {NoStatement}
           /\ selectedTxns' \subseteq StatementIds
           /\ Budget!SelectionVisible'
           /\ \A known : TrustedOf(writes', known) \subseteq TrustedOf(w, known)
<1> DEFINE left == {[x EXCEPT !.mine = FALSE] : x \in w}
           kept == Budget!TabMounted /\ Budget!TabMounted'
<1>1. /\ kept => /\ writes' = w /\ filterReview' = review /\ editingId' = edited
                 /\ budgetSaving' = busy
                 /\ selectedTxns' = IF Budget!Table' = Budget!Table THEN chosen ELSE {}
      /\ ~kept => /\ writes' = left /\ filterReview' = FALSE /\ editingId' = NoStatement
                  /\ budgetSaving' = FALSE /\ selectedTxns' = {}
  BY Zenon DEF Budget!Repaint
<1>2. \A x \in w : /\ [x EXCEPT !.mine = FALSE] \in Writes
                   /\ [x EXCEPT !.mine = FALSE].op = x.op
                   /\ [x EXCEPT !.mine = FALSE].to = x.to
                   /\ [x EXCEPT !.mine = FALSE].done = x.done
  BY DEF Writes
<1>3. \A known : TrustedOf(left, known) \subseteq TrustedOf(w, known)
  <2> SUFFICES ASSUME NEW known, NEW k \in TrustedOf(left, known), NEW x \in w, x.done
               PROVE  k \notin Budget!Hidden(x)
    BY DEF TrustedOf
  <2>1. [x EXCEPT !.mine = FALSE] \in left /\ [x EXCEPT !.mine = FALSE].done
          /\ [x EXCEPT !.mine = FALSE].op = x.op
    BY <1>2
  <2> HIDE DEF left
  <2>2. k \notin Budget!Hidden([x EXCEPT !.mine = FALSE])
    BY <2>1 DEF TrustedOf
  <2> QED BY <2>1, <2>2 DEF Budget!Hidden
<1>4. left \subseteq Writes
      /\ \A x \in left : x.op \in {"edit", "bulk"} => x.to \in Budget!Categories
  BY <1>2
<1>5. Budget!FilteredTransactions \subseteq StatementIds
  BY DEF Budget!FilteredTransactions
<1> HIDE DEF left, kept
<1>6. Budget!SelectionVisible'
  <2>1. selectedTxns' = {} \/ (selectedTxns' = chosen /\ Budget!Table' = Budget!Table)
    BY <1>1
  <2>2. CASE selectedTxns' = {}
    BY <2>2 DEF Budget!SelectionVisible
  <2>3. CASE selectedTxns' = chosen /\ Budget!Table' = Budget!Table
    <3>1. Budget!FilteredTransactions' = Budget!FilteredTransactions
      BY <2>3, TableRows
    <3>2. selectedTxns' \subseteq Budget!FilteredTransactions'
      BY <2>3, <3>1
    <3> QED BY <3>2 DEF Budget!SelectionVisible
  <2> QED BY <2>1, <2>2, <2>3
<1> QED BY <1>1, <1>3, <1>4, <1>5, <1>6

----------------------------------------------------------------------------
\* The steps.

\* The server's rows are the ledger's: a step that leaves the ledger alone keeps sound
\* what is.
LEMMA SameLedger ==
    ASSUME UNCHANGED ledger, CacheOK(cache', Budget!View', Trusted')
    PROVE  CacheOK(cache, Budget!View, Trusted)'
<1>1. \A k : Budget!Rows(k)' = Budget!Rows(k) /\ Budget!Missing(k)' = Budget!Missing(k)
  BY DEF Budget!Rows, Budget!Missing, Budget!There
<1> QED BY <1>1 DEF CacheOK, Sound, Absent, Answer, Budget!Read

LEMMA FewerTrusted ==
    ASSUME NEW c, NEW v, NEW Q, NEW R, CacheOK(c, v, Q), R \subseteq Q
    PROVE  CacheOK(c, v, R)
BY DEF CacheOK

LEMMA TrustedMonotone ==
    ASSUME NEW out, NEW more, NEW known \in BOOLEAN, NEW still \in BOOLEAN,
           still => known /\ \A w \in out : w.done => w \in more
    PROVE  TrustedOf(more, still) \subseteq TrustedOf(out, known)
BY DEF TrustedOf

\* A step that leaves the server alone and ends with a repaint.
LEMMA PaintedStep ==
    ASSUME BudgetInv, UNCHANGED ledger, deletingId' \in StatementIds \union {NoStatement},
           clean' \in BOOLEAN, sid' \in Budget!Sids, budgetFilter' \in Budget!Filters,
           cache' \in [Budget!Keys -> Entries], last' \in Budget!Keys,
           NEW w \in SUBSET Writes,
           \A x \in w : x.op \in {"edit", "bulk"} => x.to \in Budget!Categories,
           NEW Q, TrustedOf(w, clean') \subseteq Q, CacheOK(cache', Budget!View', Q),
           NEW review \in BOOLEAN, NEW edited \in StatementIds \union {NoStatement},
           NEW busy \in BOOLEAN, NEW chosen \in SUBSET Budget!FilteredTransactions,
           Budget!Repaint(w, review, edited, busy, chosen)
    PROVE  BudgetInv'
<1>1. /\ writes' \subseteq Writes
      /\ \A x \in writes' : x.op \in {"edit", "bulk"} => x.to \in Budget!Categories
      /\ filterReview' \in BOOLEAN /\ budgetSaving' \in BOOLEAN
      /\ editingId' \in StatementIds \union {NoStatement}
      /\ selectedTxns' \subseteq StatementIds
      /\ Budget!SelectionVisible'
      /\ \A known : TrustedOf(writes', known) \subseteq TrustedOf(w, known)
  BY RepaintLemma
<1>2. BudgetTypes'
  BY <1>1 DEF BudgetInv, BudgetTypes
<1>3. Trusted' \subseteq Q
  <2>1. Trusted' = TrustedOf(writes', clean')
    BY DEF Trusted, TrustedOf
  <2> QED BY <1>1, <2>1
<1>4. CacheOK(cache', Budget!View', Trusted')
  BY <1>3, FewerTrusted
<1> QED BY <1>1, <1>2, <1>4, SameLedger DEF BudgetInv

\* A repaint after a move that touches neither the server nor the cache.
LEMMA StillStep ==
    ASSUME BudgetInv, UNCHANGED <<ledger, sid, budgetFilter, cache, last>>,
           deletingId' \in StatementIds \union {NoStatement}, clean' \in BOOLEAN,
           NEW w \in SUBSET Writes,
           \A x \in w : x.op \in {"edit", "bulk"} => x.to \in Budget!Categories,
           clean' => clean /\ \A x \in writes : x.done => x \in w,
           NEW review \in BOOLEAN, NEW edited \in StatementIds \union {NoStatement},
           NEW busy \in BOOLEAN, NEW chosen \in SUBSET Budget!FilteredTransactions,
           Budget!Repaint(w, review, edited, busy, chosen)
    PROVE  BudgetInv'
<1>1. BudgetTypes /\ clean \in BOOLEAN /\ CacheOK(cache, Budget!View, Trusted)
  BY DEF BudgetInv, BudgetTypes
<1>2. TrustedOf(w, clean') \subseteq Trusted
  BY <1>1, TrustedMonotone DEF Trusted
<1>3. CacheOK(cache', Budget!View', Trusted)
  <2>1. cache' = cache /\ Budget!View' = Budget!View
    BY DEF Budget!View
  <2> QED BY <1>1, <2>1
<1>4. /\ sid' \in Budget!Sids /\ budgetFilter' \in Budget!Filters
      /\ cache' \in [Budget!Keys -> Entries] /\ last' \in Budget!Keys
  BY <1>1 DEF BudgetTypes
<1> QED BY <1>2, <1>3, <1>4, PaintedStep

\* A repaint after a view is put on screen over the cache c.
LEMMA ShownStep ==
    ASSUME BudgetInv, UNCHANGED ledger, deletingId' \in StatementIds \union {NoStatement},
           clean' \in BOOLEAN,
           NEW w \in SUBSET writes, NEW Q \in SUBSET Budget!Keys,
           TrustedOf(w, clean') \subseteq Q,
           NEW c \in [Budget!Keys -> Entries],
           \A j \in Budget!Keys : Held(c[j]), \A j \in Q : Sound(c[j], j),
           Watched(c[Budget!View]), Watched(c[Budget!List]),
           Budget!View \in Q => Absent(c[Budget!View], Budget!View),
           NEW k \in Budget!Views, Budget!Showing(c, k),
           NEW review \in BOOLEAN, NEW edited \in StatementIds \union {NoStatement},
           NEW busy \in BOOLEAN, NEW chosen \in SUBSET Budget!FilteredTransactions,
           Budget!Repaint(w, review, edited, busy, chosen)
    PROVE  BudgetInv'
<1>1. BudgetTypes /\ w \in SUBSET Writes
      /\ \A x \in w : x.op \in {"edit", "bulk"} => x.to \in Budget!Categories
  BY DEF BudgetInv, BudgetTypes
<1>2. /\ cache' \in [Budget!Keys -> Entries] /\ last' \in Budget!Keys
      /\ sid' \in Budget!Sids /\ budgetFilter' \in Budget!Filters
      /\ CacheOK(cache', Budget!View', Q)
  BY <1>1, ShowingLemma
<1> QED BY <1>1, <1>2, PaintedStep

\* The tab's selection is visible where it was.
LEMMA TabTypes ==
    ASSUME BudgetInv
    PROVE  /\ writes \in SUBSET Writes /\ filterReview \in BOOLEAN
           /\ editingId \in StatementIds \union {NoStatement}
           /\ deletingId \in StatementIds \union {NoStatement}
           /\ budgetSaving \in BOOLEAN /\ clean \in BOOLEAN /\ sid \in Budget!Sids
           /\ selectedTxns \in SUBSET Budget!FilteredTransactions
           /\ Budget!FilteredTransactions \subseteq StatementIds
           /\ \A x \in writes : x.op \in {"edit", "bulk"} => x.to \in Budget!Categories
BY DEF BudgetInv, BudgetTypes, Budget!SelectionVisible, Budget!FilteredTransactions

\* The moves of the page that only open, close or tick something.
LEMMA QuietMoves ==
    ASSUME BudgetInv,
           \/ \E t \in {"overview", "transactions"} : Budget!SelectTab(t)
           \/ \E d \in {"sessions", "upload"} : Budget!OpenDialog(d)
           \/ Budget!CloseDialog
           \/ \E s \in StatementIds : Budget!HandleSelectRow(s) \/ Budget!StartEdit(s)
           \/ Budget!HandleSelectAll \/ Budget!ToggleReview \/ Budget!CancelEdit
    PROVE  BudgetInv'
<1>1. ASSUME NEW review \in BOOLEAN, NEW edited \in StatementIds \union {NoStatement},
             NEW chosen \in SUBSET Budget!FilteredTransactions,
             UNCHANGED <<ledger, sid, budgetFilter, cache, last, clean, deletingId>>,
             Budget!Repaint(writes, review, edited, budgetSaving, chosen)
      PROVE  BudgetInv'
  BY <1>1, TabTypes, StillStep
<1>2. CASE \/ \E t \in {"overview", "transactions"} : Budget!SelectTab(t)
           \/ \E d \in {"sessions", "upload"} : Budget!OpenDialog(d)
           \/ Budget!CloseDialog
  <2>1. /\ UNCHANGED <<ledger, sid, budgetFilter, cache, last, clean, deletingId>>
        /\ Budget!Repaint(writes, filterReview, editingId, budgetSaving, selectedTxns)
    BY <1>2 DEF Budget!SelectTab, Budget!OpenDialog, Budget!CloseDialog, Budget!SameTab
  <2> QED BY <1>1, <2>1, TabTypes
<1>3. ASSUME NEW s \in StatementIds, Budget!HandleSelectRow(s) PROVE BudgetInv'
  <2> DEFINE chosen == IF s \in selectedTxns THEN selectedTxns \ {s}
                       ELSE selectedTxns \union {s}
  <2>1. /\ UNCHANGED <<ledger, sid, budgetFilter, cache, last, clean, deletingId>>
        /\ Budget!Repaint(writes, filterReview, editingId, budgetSaving, chosen)
        /\ s \in Budget!FilteredTransactions
    BY <1>3 DEF Budget!HandleSelectRow, Budget!PageSame
  <2>2. chosen \in SUBSET Budget!FilteredTransactions
    BY <2>1, TabTypes
  <2> HIDE DEF chosen
  <2> QED BY <1>1, <2>1, <2>2, TabTypes
<1>4. ASSUME NEW s \in StatementIds, Budget!StartEdit(s) PROVE BudgetInv'
  <2>1. /\ UNCHANGED <<ledger, sid, budgetFilter, cache, last, clean, deletingId>>
        /\ Budget!Repaint(writes, filterReview, s, budgetSaving, selectedTxns)
    BY <1>4 DEF Budget!StartEdit, Budget!PageSame
  <2> QED BY <1>1, <2>1, TabTypes
<1>5. CASE Budget!HandleSelectAll
  <2> DEFINE chosen == IF selectedTxns = Budget!FilteredTransactions THEN {}
                       ELSE Budget!FilteredTransactions
  <2>1. /\ UNCHANGED <<ledger, sid, budgetFilter, cache, last, clean, deletingId>>
        /\ Budget!Repaint(writes, filterReview, editingId, budgetSaving, chosen)
    BY <1>5 DEF Budget!HandleSelectAll, Budget!PageSame
  <2>2. chosen \in SUBSET Budget!FilteredTransactions
    OBVIOUS
  <2> HIDE DEF chosen
  <2> QED BY <1>1, <2>1, <2>2, TabTypes
<1>6. CASE Budget!ToggleReview
  <2>1. /\ UNCHANGED <<ledger, sid, budgetFilter, cache, last, clean, deletingId>>
        /\ Budget!Repaint(writes, ~filterReview, editingId, budgetSaving, selectedTxns)
    BY <1>6 DEF Budget!ToggleReview, Budget!PageSame
  <2>2. (~filterReview) \in BOOLEAN
    OBVIOUS
  <2> QED BY <1>1, <2>1, <2>2, TabTypes
<1>7. CASE Budget!CancelEdit
  <2>1. /\ UNCHANGED <<ledger, sid, budgetFilter, cache, last, clean, deletingId>>
        /\ Budget!Repaint(writes, filterReview, NoStatement, budgetSaving, selectedTxns)
    BY <1>7 DEF Budget!CancelEdit, Budget!PageSame
  <2> QED BY <1>1, <2>1, TabTypes
<1> QED BY <1>2, <1>3, <1>4, <1>5, <1>6, <1>7

\* The moves that send a write.
LEMMA SendMoves ==
    ASSUME BudgetInv,
           \/ \E s \in StatementIds : Budget!HandleDelete(s) \/ Budget!HandleUpload(s)
           \/ \E c \in Budget!Categories : Budget!SaveEdit(c) \/ Budget!HandleBulkUpdate(c)
    PROVE  BudgetInv'
<1>1. ASSUME NEW o \in {"edit", "bulk", "upload", "delete"},
             NEW on \in SUBSET StatementIds, NEW to \in Budget!Categories \union {"gone"},
             o \in {"edit", "bulk"} => to \in Budget!Categories,
             NEW busy \in BOOLEAN,
             UNCHANGED <<ledger, sid, budgetFilter, cache, last, clean>>,
             deletingId' \in StatementIds \union {NoStatement},
             Budget!Repaint(writes \union {Budget!Write(o, on, to)}, filterReview,
                            editingId, busy, selectedTxns)
      PROVE  BudgetInv'
  <2> DEFINE x == Budget!Write(o, on, to)
             w == writes \union {x}
  <2>1. x \in Writes /\ x.op = o /\ x.to = to
    BY TabTypes DEF Budget!Write, Writes
  <2> HIDE DEF x
  <2>2. /\ w \in SUBSET Writes
        /\ \A y \in w : y.op \in {"edit", "bulk"} => y.to \in Budget!Categories
        /\ \A y \in writes : y.done => y \in w
    BY <1>1, <2>1, TabTypes
  <2>3. Budget!Repaint(w, filterReview, editingId, busy, selectedTxns)
    BY <1>1 DEF x
  <2> HIDE DEF w
  <2> QED BY <1>1, <2>2, <2>3, TabTypes, StillStep
<1>2. ASSUME NEW s \in StatementIds, Budget!HandleDelete(s) PROVE BudgetInv'
  <2>1. /\ UNCHANGED <<ledger, sid, budgetFilter, cache, last, clean>>
        /\ deletingId' = s
        /\ Budget!Repaint(writes \union {Budget!Write("delete", {s}, "gone")},
                          filterReview, editingId, budgetSaving, selectedTxns)
    BY <1>2 DEF Budget!HandleDelete
  <2> QED BY <1>1, <2>1, TabTypes
<1>3. ASSUME NEW s \in StatementIds, Budget!HandleUpload(s) PROVE BudgetInv'
  <2>1. /\ UNCHANGED <<ledger, sid, budgetFilter, cache, last, clean, deletingId>>
        /\ Budget!Repaint(writes \union {Budget!Write("upload", {s}, "uncategorized")},
                          filterReview, editingId, budgetSaving, selectedTxns)
    BY <1>3 DEF Budget!HandleUpload
  <2> QED BY <1>1, <2>1, TabTypes DEF Budget!Categories
<1>4. ASSUME NEW c \in Budget!Categories, Budget!SaveEdit(c) PROVE BudgetInv'
  <2>1. /\ UNCHANGED <<ledger, sid, budgetFilter, cache, last, clean, deletingId>>
        /\ editingId \in Budget!FilteredTransactions
        /\ Budget!Repaint(writes \union {Budget!Write("edit", {editingId}, c)},
                          filterReview, editingId, TRUE, selectedTxns)
    BY <1>4 DEF Budget!SaveEdit
  <2>2. {editingId} \in SUBSET StatementIds
    BY <2>1, TabTypes
  <2> QED BY <1>1, <2>1, <2>2, TabTypes
<1>5. ASSUME NEW c \in Budget!Categories, Budget!HandleBulkUpdate(c) PROVE BudgetInv'
  <2> DEFINE on == selectedTxns \intersect Budget!FilteredTransactions
  <2>1. /\ UNCHANGED <<ledger, sid, budgetFilter, cache, last, clean, deletingId>>
        /\ Budget!Repaint(writes \union {Budget!Write("bulk", on, c)},
                          filterReview, editingId, TRUE, selectedTxns)
    BY <1>5 DEF Budget!HandleBulkUpdate
  <2>2. on \in SUBSET StatementIds
    BY TabTypes
  <2> HIDE DEF on
  <2> QED BY <1>1, <2>1, <2>2, TabTypes
<1> QED BY <1>2, <1>3, <1>4, <1>5

LEMMA CacheFacts ==
    ASSUME BudgetInv
    PROVE  /\ BudgetTypes /\ CacheOK(cache, Budget!View, Trusted)
           /\ cache \in [Budget!Keys -> Entries]
           /\ Trusted \in SUBSET Budget!Keys
           /\ \A j \in Budget!Keys : Held(cache[j])
           /\ \A j \in Trusted : Sound(cache[j], j)
           /\ Watched(cache[Budget!View]) /\ Watched(cache[Budget!List])
           /\ Budget!View \in Trusted => Absent(cache[Budget!View], Budget!View)
           /\ Budget!View \in Budget!Views
BY ViewLemma DEF BudgetInv, BudgetTypes, CacheOK, Trusted, TrustedOf

\* Picking a filter or a statement.
LEMMA PickMoves ==
    ASSUME BudgetInv,
           \/ \E f \in Budget!Filters : Budget!SelectFilter(f)
           \/ \E s \in Budget!Sids : Budget!SelectSession(s)
    PROVE  BudgetInv'
<1>1. PICK k \in Budget!Views : Budget!Showing(cache, k)
  BY TabTypes, CacheFacts DEF Budget!SelectFilter, Budget!SelectSession, Budget!Views,
     BudgetTypes
<1>2. /\ UNCHANGED <<ledger, deletingId, clean>>
      /\ Budget!Repaint(writes, filterReview, editingId, budgetSaving, selectedTxns)
  BY DEF Budget!SelectFilter, Budget!SelectSession, Budget!SameTab
<1>3. TrustedOf(writes, clean') \subseteq Trusted /\ clean' \in BOOLEAN
      /\ deletingId' \in StatementIds \union {NoStatement} /\ writes \in SUBSET writes
      /\ UNCHANGED ledger
  BY <1>2, TabTypes DEF Trusted
<1> QED BY <1>1, <1>2, <1>3, CacheFacts, TabTypes, ShownStep

\* Marking keys stale and putting a view on screen, when no trust is gained elsewhere.
LEMMA RefreshedStep ==
    ASSUME BudgetInv, UNCHANGED ledger, deletingId' \in StatementIds \union {NoStatement},
           NEW w \in SUBSET writes, NEW ks \in SUBSET Budget!Keys,
           clean' = (clean /\ ~Budget!TakenForFresh(ks)),
           \A x \in writes : x.done => x \in w \/ Budget!Hidden(x) \subseteq ks,
           NEW k \in Budget!Views, Budget!Showing(Budget!Invalidated(ks), k),
           NEW review \in BOOLEAN, NEW edited \in StatementIds \union {NoStatement},
           NEW busy \in BOOLEAN, NEW chosen \in SUBSET Budget!FilteredTransactions,
           Budget!Repaint(w, review, edited, busy, chosen)
    PROVE  BudgetInv'
<1> DEFINE Q == TrustedOf(w, clean')
           c == Budget!Invalidated(ks)
<1>1. clean' \in BOOLEAN /\ (clean' => clean)
  BY TabTypes
<1>2. Q \in SUBSET Budget!Keys /\ Q \in SUBSET (Trusted \union ks)
  BY <1>1 DEF Trusted, TrustedOf
<1>3. Q # {} => ~Budget!TakenForFresh(ks)
  BY DEF TrustedOf
<1> HIDE DEF Q
<1>4. /\ c \in [Budget!Keys -> Entries]
      /\ \A j \in Budget!Keys : Held(c[j])
      /\ \A j \in Q : Sound(c[j], j)
      /\ Watched(c[Budget!View]) /\ Watched(c[Budget!List])
      /\ Budget!View \in Q => Absent(c[Budget!View], Budget!View)
  BY <1>2, <1>3, CacheFacts, InvalidatedLemma
<1> HIDE DEF c
<1>5. Budget!Showing(c, k) /\ TrustedOf(w, clean') \subseteq Q
  BY DEF c, Q
<1> QED BY <1>1, <1>2, <1>4, <1>5, ShownStep

LEMMA RetryStep == ASSUME BudgetInv, Budget!Retry PROVE BudgetInv'
<1>1. /\ Budget!Showing(Budget!Invalidated(Budget!Views), Budget!View)
      /\ clean' = (clean /\ ~Budget!TakenForFresh(Budget!Views))
      /\ UNCHANGED <<ledger, deletingId>>
      /\ Budget!Repaint(writes, filterReview, editingId, budgetSaving, selectedTxns)
  BY DEF Budget!Retry, Budget!SameTab, Budget!Analytics
<1>2. Budget!Views \in SUBSET Budget!Keys /\ writes \in SUBSET writes
      /\ Budget!View \in Budget!Views /\ UNCHANGED ledger
      /\ deletingId' \in StatementIds \union {NoStatement}
      /\ \A x \in writes : x.done => x \in writes \/ Budget!Hidden(x) \subseteq Budget!Views
  BY <1>1, BudgetFacts, CacheFacts, TabTypes
<1> QED BY <1>1, <1>2, TabTypes, RefreshedStep

LEMMA SucceedStep ==
    ASSUME BudgetInv, NEW w \in writes, Budget!Succeed(w)
    PROVE  BudgetInv'
<1> DEFINE edited == IF w.op = "edit" /\ w.mine THEN NoStatement ELSE editingId
           busy == budgetSaving /\ ~(w.op \in {"edit", "bulk"} /\ w.mine)
           chosen == IF w.op = "bulk" /\ w.mine THEN {} ELSE selectedTxns
<1>1. /\ Budget!Showing(Budget!Invalidated(Budget!Hidden(w)), Budget!Landing(w))
      /\ clean' = (clean /\ ~Budget!TakenForFresh(Budget!Hidden(w)))
      /\ deletingId' \in {deletingId, NoStatement} /\ UNCHANGED ledger
      /\ Budget!Repaint(writes \ {w}, filterReview, edited, busy, chosen)
  BY DEF Budget!Succeed
<1>2. /\ edited \in StatementIds \union {NoStatement}
      /\ chosen \in SUBSET Budget!FilteredTransactions
      /\ deletingId' \in StatementIds \union {NoStatement}
  BY <1>1, TabTypes
<1>3. busy \in BOOLEAN
  OBVIOUS
<1> HIDE DEF edited, busy, chosen
<1>4. Budget!Hidden(w) \in SUBSET Budget!Keys
  BY BudgetFacts DEF Budget!Hidden, Budget!Analytics
<1>5. Budget!Landing(w) \in Budget!Views
  BY CacheFacts DEF Budget!Landing, Budget!Views, Budget!Sids, Budget!Filters, BudgetTypes
<1>6. writes \ {w} \in SUBSET writes
      /\ \A x \in writes : x.done => x \in writes \ {w} \/ Budget!Hidden(x) \subseteq Budget!Hidden(w)
  OBVIOUS
<1> QED BY <1>1, <1>2, <1>3, <1>4, <1>5, <1>6, TabTypes, RefreshedStep

LEMMA FailStep ==
    ASSUME BudgetInv, NEW w \in writes, Budget!Fail(w)
    PROVE  BudgetInv'
<1> DEFINE busy == budgetSaving /\ ~(w.op \in {"edit", "bulk"} /\ w.mine)
           out == writes \ {w}
<1>1. /\ clean' = (clean /\ ~w.done)
      /\ deletingId' \in {deletingId, NoStatement}
      /\ UNCHANGED <<ledger, sid, budgetFilter, cache, last>>
      /\ Budget!Repaint(out, filterReview, editingId, busy, selectedTxns)
  BY DEF Budget!Fail
<1>2. busy \in BOOLEAN
  OBVIOUS
<1>3. /\ out \in SUBSET Writes
      /\ \A x \in out : x.op \in {"edit", "bulk"} => x.to \in Budget!Categories
      /\ deletingId' \in StatementIds \union {NoStatement}
  BY <1>1, TabTypes
<1>4. clean' \in BOOLEAN /\ (clean' => clean /\ \A x \in writes : x.done => x \in out)
  BY <1>1, TabTypes
<1> HIDE DEF busy, out
<1> QED BY <1>1, <1>2, <1>3, <1>4, TabTypes, StillStep

\* What the server does for a write is not yet known to the page.
LEMMA ServeWriteStep ==
    ASSUME BudgetInv, NEW w \in writes, Budget!Serve(w)
    PROVE  BudgetInv'
<1> DEFINE done == [w EXCEPT !.done = TRUE]
<1>1. /\ ~w.done
      /\ ledger' = [s \in StatementIds |->
                      IF s \in w.on /\ (Budget!There(s) \/ w.op = "upload")
                      THEN w.to ELSE ledger[s]]
      /\ writes' = (writes \ {w}) \union {done}
      /\ UNCHANGED <<sid, budgetFilter, cache, last, deletingId, selectedTxns,
                     filterReview, editingId, budgetSaving, clean>>
  BY DEF Budget!Serve
<1>2. w \in Writes /\ (w.op \in {"edit", "bulk"} => w.to \in Budget!Categories)
  BY TabTypes
<1>3. done \in Writes /\ done.op = w.op /\ done.to = w.to /\ done.done = TRUE
  BY <1>2 DEF Writes
<1> HIDE DEF done
<1>4. BudgetTypes'
  <2>1. ledger' \in [StatementIds -> Budget!Categories \union {"new", "gone"}]
    BY <1>1, <1>2, CacheFacts DEF BudgetTypes, Writes
  <2>2. /\ writes' \subseteq Writes
        /\ \A x \in writes' : x.op \in {"edit", "bulk"} => x.to \in Budget!Categories
    BY <1>1, <1>2, <1>3, TabTypes
  <2> QED BY <1>1, <2>1, <2>2, CacheFacts DEF BudgetTypes
<1>5. \A k \in Trusted' : /\ k \in Trusted /\ k = Budget!List
                          /\ w.op \in {"edit", "bulk"}
  <2> SUFFICES ASSUME NEW k \in Trusted'
               PROVE  k \in Trusted /\ k = Budget!List /\ w.op \in {"edit", "bulk"}
    OBVIOUS
  <2>1. k \in Budget!Keys /\ clean /\ \A x \in writes' : x.done => k \notin Budget!Hidden(x)
    BY <1>1 DEF Trusted, TrustedOf
  <2>2. k \in Trusted
    BY <1>1, <2>1 DEF Trusted, TrustedOf
  <2>3. k \notin Budget!Hidden(done)
    BY <1>1, <1>3, <2>1
  <2>4. k \notin Budget!Hidden(w)
    BY <1>3, <2>3 DEF Budget!Hidden
  <2> QED BY <2>1, <2>2, <2>4 DEF Budget!Hidden, Budget!Analytics, Budget!Keys
<1>6. CacheOK(cache, Budget!View, Trusted)'
  <2>1. cache' = cache /\ Budget!View' = Budget!View
    BY <1>1 DEF Budget!View
  <2>2. Budget!View \notin Trusted'
    BY <1>5, CacheFacts, BudgetFacts
  <2>3. ASSUME NEW k \in Trusted'
        PROVE  Sound(cache[k], k)'
    <3>1. k \in Trusted /\ k = Budget!List /\ w.op \in {"edit", "bulk"}
      BY <1>5
    <3>2. \A s \in StatementIds : Budget!There(s)' <=> Budget!There(s)
      BY <1>1, <1>2, <3>1 DEF Budget!There, Budget!Categories
    <3>3. Budget!Rows(k)' = Budget!Rows(k)
      BY <3>1, <3>2 DEF Budget!Rows
    <3>4. ~Budget!Missing(k) /\ ~Budget!Missing(k)'
      BY <3>1 DEF Budget!Missing
    <3>5. Sound(cache[k], k)
      BY <3>1, CacheFacts
    <3> QED BY <2>1, <3>3, <3>4, <3>5 DEF Sound, Answer, Budget!Read
  <2> QED BY <2>1, <2>2, <2>3, CacheFacts DEF CacheOK
<1>7. Budget!SelectionVisible'
  BY <1>1 DEF BudgetInv, Budget!SelectionVisible, Budget!FilteredTransactions,
     Budget!Shown, Budget!Source, Budget!View
<1> QED BY <1>4, <1>6, <1>7 DEF BudgetInv

LEMMA ServeFetchStep ==
    ASSUME BudgetInv, NEW k \in Budget!Keys, Budget!ServeFetch(k)
    PROVE  BudgetInv'
<1> DEFINE b == cache[k]
           e == [b EXCEPT !.fetch = Answer(k)]
<1>1. /\ b.fetch = Budget!Asked /\ cache' = [cache EXCEPT ![k] = e]
      /\ UNCHANGED <<ledger, sid, budgetFilter, last, deletingId, selectedTxns,
                     filterReview, editingId, budgetSaving, writes, clean>>
  BY DEF Budget!ServeFetch, Answer
<1>2. b \in Entries /\ cache \in [Budget!Keys -> Entries]
      /\ ledger \in [StatementIds -> Budget!Categories \union {"new", "gone"}]
  BY CacheFacts DEF BudgetTypes
<1>3. Answer(k) \in Fetches /\ Answer(k) \notin {Budget!Idle, Budget!Asked}
  BY <1>2, ServerAnswers
<1>4. /\ e \in Entries /\ e.fetch = Answer(k) /\ e.data = b.data /\ e.stale = b.stale
      /\ e.error = b.error
  BY <1>2, <1>3 DEF Entries
<1>5. Held(b) /\ (k \in Trusted => Sound(b, k))
  BY CacheFacts
<1> HIDE DEF e, b
<1>6. Held(e) /\ Watched(e) /\ Absent(e, k) /\ (k \in Trusted => Sound(e, k))
  BY <1>1, <1>3, <1>4, <1>5, BudgetFacts DEF Held, Watched, Absent, Sound
<1>7. cache' \in [Budget!Keys -> Entries] /\ cache'[k] = e
      /\ \A j \in Budget!Keys : j # k => cache'[j] = cache[j]
  BY <1>1, <1>2, <1>4
<1>8. Budget!View' = Budget!View /\ Trusted' = Trusted
  BY <1>1 DEF Budget!View, Trusted, TrustedOf
<1>9. BudgetTypes'
  BY <1>1, <1>7, CacheFacts DEF BudgetTypes
<1>10. Budget!View \in Budget!Keys /\ Budget!List \in Budget!Keys
       /\ \A j \in Budget!Keys : cache'[j].data = cache[j].data /\ cache'[j].error = cache[j].error
  BY <1>4, <1>7, CacheFacts, BudgetFacts DEF b
<1>11. CacheOK(cache', Budget!View', Trusted')
  BY <1>6, <1>7, <1>8, <1>10, CacheFacts DEF CacheOK
<1>12. Budget!SelectionVisible'
  <2>1. last \in Budget!Keys
    BY CacheFacts DEF BudgetTypes
  <2>2. Budget!Source' = Budget!Source /\ Budget!Source \in Budget!Keys
    BY <1>1, <1>8, <1>10, <2>1 DEF Budget!Source
  <2>3. Budget!Shown' = Budget!Shown
    BY <1>10, <2>2 DEF Budget!Shown
  <2>4. Budget!FilteredTransactions' = Budget!FilteredTransactions
    BY <1>1, <2>3 DEF Budget!FilteredTransactions
  <2> QED BY <1>1, <2>4 DEF BudgetInv, Budget!SelectionVisible
<1> QED BY <1>1, <1>9, <1>11, <1>12, SameLedger DEF BudgetInv

LEMMA ReceiveFetchStep ==
    ASSUME BudgetInv, NEW k \in Budget!Keys, Budget!ReceiveFetch(k)
    PROVE  BudgetInv'
<1> DEFINE c == [cache EXCEPT ![k] = Budget!Answered(@)]
<1>1. /\ cache[k].fetch \notin {Budget!Idle, Budget!Asked}
      /\ Budget!Showing(c, Budget!View)
      /\ UNCHANGED <<ledger, deletingId, clean>>
      /\ Budget!Repaint(writes, filterReview, editingId, budgetSaving, selectedTxns)
  BY DEF Budget!ReceiveFetch, Budget!SameTab
<1> HIDE DEF c
<1>2. /\ c \in [Budget!Keys -> Entries]
      /\ \A j \in Budget!Keys : Held(c[j])
      /\ \A j \in Trusted : Sound(c[j], j)
      /\ Watched(c[Budget!View]) /\ Watched(c[Budget!List])
      /\ Budget!View \in Trusted => Absent(c[Budget!View], Budget!View)
  BY <1>1, CacheFacts, AnsweredLemma DEF c
<1>3. TrustedOf(writes, clean') \subseteq Trusted /\ clean' \in BOOLEAN
      /\ deletingId' \in StatementIds \union {NoStatement} /\ writes \in SUBSET writes
      /\ UNCHANGED ledger /\ Trusted \in SUBSET Budget!Keys
      /\ Budget!View \in Budget!Views
  BY <1>1, TabTypes, CacheFacts DEF Trusted
<1> QED BY <1>1, <1>2, <1>3, TabTypes, ShownStep

LEMMA FailFetchStep ==
    ASSUME BudgetInv, NEW k \in Budget!Keys, Budget!FailFetch(k)
    PROVE  BudgetInv'
<1> DEFINE b == cache[k]
           e == [b EXCEPT !.fetch = Budget!Idle, !.error = "failed"]
<1>1. /\ b.fetch # Budget!Idle /\ cache' = [cache EXCEPT ![k] = e]
      /\ UNCHANGED <<ledger, sid, budgetFilter, last, deletingId, clean>>
      /\ Budget!Repaint(writes, filterReview, editingId, budgetSaving, selectedTxns)
  BY DEF Budget!FailFetch, Budget!SameTab
<1>2. b \in Entries /\ cache \in [Budget!Keys -> Entries]
  BY CacheFacts DEF BudgetTypes
<1>3. Budget!Idle \in Fetches
  BY BudgetFacts
<1>4. /\ e \in Entries /\ e.fetch = Budget!Idle /\ e.data = b.data /\ e.stale = b.stale
      /\ e.error = "failed"
  BY <1>2, <1>3 DEF Entries
<1>5. Held(b) /\ (k \in Trusted => Sound(b, k))
  BY CacheFacts
<1> HIDE DEF e, b
<1>6. Held(e) /\ Watched(e) /\ Absent(e, k) /\ (k \in Trusted => Sound(e, k))
  BY <1>4, <1>5 DEF Held, Watched, Absent, Sound
<1>7. cache' \in [Budget!Keys -> Entries] /\ cache'[k] = e
      /\ \A j \in Budget!Keys : j # k => cache'[j] = cache[j]
  BY <1>1, <1>2, <1>4
<1>8. Budget!View' = Budget!View
  BY <1>1 DEF Budget!View
<1>9. Budget!View \in Budget!Keys /\ Budget!List \in Budget!Keys
  BY CacheFacts, BudgetFacts
<1>10. CacheOK(cache', Budget!View', Trusted)
  BY <1>4, <1>6, <1>7, <1>8, <1>9, CacheFacts DEF CacheOK
<1>11. TrustedOf(writes, clean') \subseteq Trusted /\ clean' \in BOOLEAN
       /\ deletingId' \in StatementIds \union {NoStatement} /\ UNCHANGED ledger
       /\ sid' \in Budget!Sids /\ budgetFilter' \in Budget!Filters /\ last' \in Budget!Keys
  BY <1>1, TabTypes, CacheFacts DEF Trusted, BudgetTypes
<1>12. Budget!Repaint(writes, filterReview, editingId, budgetSaving, selectedTxns)
       /\ cache' \in [Budget!Keys -> Entries]
  BY <1>1, <1>7
<1> QED BY <1>10, <1>11, <1>12, TabTypes, PaintedStep

LEMMA BudgetSteps == [Next]_vars => [Budget!Next]_budgetVars
BY DEF Next, vars, budgetVars

LEMMA BudgetInductive == Spec => []BudgetInv
<1>1. Init => BudgetInv
  <2> SUFFICES ASSUME Init PROVE BudgetInv
    OBVIOUS
  <2> DEFINE all == <<Overall, "all">>
             first == Budget!Asking(Budget!Entry)
  <2>1. /\ ledger \in [StatementIds -> {"new", "uncategorized"}]
        /\ sid = Overall /\ budgetFilter = "all"
        /\ cache = [k \in Budget!Keys |-> IF k \in {all, Budget!List} THEN first
                                          ELSE Budget!Entry]
        /\ last = Budget!List /\ deletingId = NoStatement
        /\ selectedTxns = {} /\ filterReview = FALSE /\ editingId = NoStatement
        /\ budgetSaving = FALSE /\ writes = {} /\ clean = TRUE
    BY DEF Init, Budget!Init
  <2>2. /\ Budget!Entry \in Entries /\ Budget!Entry.data = Budget!NoData
        /\ Budget!Entry.fetch = Budget!Idle /\ Budget!Entry.error = "no"
    BY BudgetFacts DEF Budget!Entry, Entries
  <2>3. /\ first \in Entries /\ first.data = Budget!NoData /\ first.error = "no"
        /\ first.fetch = Budget!Asked
    BY <2>2, AskingLemma
  <2> HIDE DEF first
  <2>4. cache \in [Budget!Keys -> Entries]
        /\ \A k \in Budget!Keys : /\ cache[k].data = Budget!NoData /\ cache[k].error = "no"
                                  /\ cache[k].fetch \in {Budget!Idle, Budget!Asked}
    BY <2>1, <2>2, <2>3
  <2>5. BudgetTypes
    BY <2>1, <2>4, BudgetFacts DEF BudgetTypes, Budget!Categories, Budget!Sids, Budget!Filters
  <2>6. Budget!View = all
    BY <2>1 DEF Budget!View
  <2>7. cache[all].fetch = Budget!Asked /\ cache[Budget!List].fetch = Budget!Asked
        /\ all \in Budget!Keys
    BY <2>1, <2>3, <2>5, <2>6, ViewLemma, BudgetFacts
  <2>8. CacheOK(cache, Budget!View, Trusted)
    <3>1. Trusted \subseteq Budget!Keys
      BY DEF Trusted, TrustedOf
    <3>2. \A k \in Budget!Keys : Held(cache[k]) /\ Sound(cache[k], k)
      BY <2>4 DEF Held, Sound
    <3>3. Watched(cache[all]) /\ Watched(cache[Budget!List]) /\ cache[all].error = "no"
      BY <2>4, <2>7, BudgetFacts DEF Watched
    <3>4. Absent(cache[all], all)
      BY <3>3 DEF Absent
    <3> QED BY <2>6, <3>1, <3>2, <3>3, <3>4 DEF CacheOK
  <2>9. Budget!SelectionVisible
    BY <2>1 DEF Budget!SelectionVisible
  <2> QED BY <2>5, <2>8, <2>9 DEF BudgetInv
<1>2. ASSUME BudgetInv, [Next]_vars PROVE BudgetInv'
  <2>1. CASE UNCHANGED budgetVars
    <3>1. UNCHANGED <<ledger, sid, budgetFilter, cache, last, deletingId, selectedTxns,
                      filterReview, editingId, budgetSaving, writes, clean>>
      BY <2>1 DEF budgetVars
    <3>2. BudgetTypes'
      BY <1>2, <3>1 DEF BudgetInv, BudgetTypes
    <3>3. cache' = cache /\ Budget!View' = Budget!View /\ Trusted' = Trusted
      BY <3>1 DEF Budget!View, Trusted, TrustedOf
    <3>4. CacheOK(cache', Budget!View', Trusted') /\ UNCHANGED ledger
      BY <1>2, <3>1, <3>3 DEF BudgetInv
    <3>5. Budget!SelectionVisible'
      BY <1>2, <3>1 DEF BudgetInv, Budget!SelectionVisible, Budget!FilteredTransactions,
         Budget!Shown, Budget!Source, Budget!View
    <3> QED BY <3>2, <3>4, <3>5, SameLedger DEF BudgetInv
  <2>2. CASE Budget!Next
    BY <1>2, <2>2, QuietMoves, SendMoves, PickMoves, RetryStep, SucceedStep, FailStep,
       ServeWriteStep, ServeFetchStep, ReceiveFetchStep, FailFetchStep
       DEF Budget!Next
  <2> QED BY <1>2, <2>1, <2>2, BudgetSteps
<1> QED BY <1>1, <1>2, PTL DEF Spec

\* At rest every key is trusted, and what is on screen is fresh or an error.
LEMMA AtRest ==
    ASSUME BudgetInv, Budget!Settled, clean, NEW k \in {Budget!View, Budget!List},
           cache[k].error = "no"
    PROVE  /\ cache[k].data = Budget!Rows(k) /\ ~Budget!Missing(k)
           /\ cache[k].data # Budget!NoData
<1>1. k \in Budget!Keys /\ cache[k].fetch = Budget!Idle /\ writes = {}
  BY CacheFacts, BudgetFacts DEF Budget!Settled
<1>2. k \in Trusted
  BY <1>1 DEF Trusted, TrustedOf
<1> QED BY <1>1, <1>2, CacheFacts DEF Watched, Sound

\* For any statements and any number of moves: once nothing is under way the rows on
\* screen are the server's, and the dashboard is not on a statement that is gone.
THEOREM BudgetSettlesOnServer == Spec => []BudgetSettles
<1>1. BudgetInv => BudgetSettles
  <2> SUFFICES ASSUME BudgetInv PROVE Budget!RowsCurrent /\ Budget!NoDeadSession
    BY DEF BudgetSettles
  <2>1. /\ cache[Budget!View].error \in {"no", "404", "failed"}
        /\ cache[Budget!View].error = "404" => sid = Overall
        /\ Budget!View # Budget!List /\ Budget!View[1] = sid /\ sid \in Budget!Sids
        /\ Budget!View \in Budget!Keys
    BY CacheFacts, ViewLemma, TabTypes DEF CacheOK, Entries
  <2>2. ASSUME Budget!Settled, clean, cache[Budget!View].error = "404"
        PROVE  Budget!Missing(Budget!View) /\ \A s \in StatementIds : ~Budget!There(s)
    <3>1. Budget!View \in Trusted /\ cache[Budget!View].fetch = Budget!Idle
      BY <2>1, <2>2 DEF Trusted, TrustedOf, Budget!Settled
    <3>2. Budget!Missing(Budget!View)
      BY <2>2, <3>1, CacheFacts DEF Absent
    <3> QED BY <2>1, <2>2, <3>2 DEF Budget!Missing
  <2>3. ASSUME Budget!Settled, clean, Budget!Body = "tabs", cache[Budget!List].error = "no"
        PROVE  Budget!Shown = Budget!Rows(Budget!View)
    <3>1. cache[Budget!View].error # "failed" /\ ~Budget!HasNoStatements
      BY <2>3 DEF Budget!Body
    <3>2. cache[Budget!View].error # "404"
      <4> SUFFICES ASSUME cache[Budget!View].error = "404" PROVE FALSE
        OBVIOUS
      <4>1. \A s \in StatementIds : ~Budget!There(s)
        BY <2>2, <2>3
      <4>2. Budget!Rows(Budget!List) = Budget!NoRows
        BY <4>1 DEF Budget!Rows, Budget!NoRows
      <4>3. cache[Budget!List].data = Budget!Rows(Budget!List)
        BY <2>3, AtRest
      <4> QED BY <2>3, <3>1, <4>2, <4>3 DEF Budget!HasNoStatements
    <3>3. cache[Budget!View].error = "no"
      BY <2>1, <3>1, <3>2
    <3>4. cache[Budget!View].data = Budget!Rows(Budget!View)
          /\ cache[Budget!View].data # Budget!NoData
      BY <2>3, <3>3, AtRest
    <3> QED BY <2>1, <3>4 DEF Budget!Shown, Budget!Source
  <2>4. ASSUME Budget!Settled, clean, sid # Overall, cache[Budget!View].error # "failed"
        PROVE  Budget!There(sid)
    <3>1. cache[Budget!View].error = "no"
      BY <2>1, <2>4
    <3>2. ~Budget!Missing(Budget!View)
      BY <2>4, <3>1, AtRest
    <3> QED BY <2>1, <2>4, <3>2 DEF Budget!Missing
  <2> QED BY <2>3, <2>4 DEF Budget!RowsCurrent, Budget!NoDeadSession
<1> QED BY <1>1, BudgetInductive, PTL

\* What a bulk update changes is in the table, whichever view, answer, filter or edit
\* replaced the rows since they were ticked.
THEOREM BulkIsVisible == Spec => []SelectionVisible
<1>1. BudgetInv => SelectionVisible
  BY DEF BudgetInv, SelectionVisible
<1> QED BY <1>1, BudgetInductive, PTL

----------------------------------------------------------------------------
\* The admin console.

LEMMA AdminSteps == [Next]_vars => [Admin!Next]_adminVars
BY DEF Next, vars, adminVars

Deciding == {"approve", "reject"}
Removing == {"delete"}

\* A call is a record; what is no list read is the first call of its own handler.
CallOK(c) ==
    /\ DOMAIN c = {"op", "who", "to", "parent", "nth", "accounts", "requests"}
    /\ c.nth \in Nat
    /\ c.op \notin Admin!Lists => c.parent = c.op

\* Of the handlers that start with an operation of K one runs, on one person, and
\* while its operation is out nothing else of it is.
OneHandler(C, K) ==
    \A c, d \in C :
      c.parent \in K /\ d.parent \in K
        => c.parent = d.parent /\ c.who = d.who /\ (c.op \notin Admin!Lists => d = c)

\* Whether a handler of K runs.
Runs(C, K) == \E c \in C : c.parent \in K

\* What the calls of C will still show of a list, of which the screen has s and the
\* server v: a read the server has not answered is on its way, or the newest answer on
\* its way has v, or the screen does.
Seen(c, l) == IF l = "accounts" THEN c.accounts ELSE c.requests
Shows(C, l, s, v) ==
    \/ \E c \in C : c.op = l /\ c.nth = 0
    \/ s = v /\ \A c \in C : c.op # l
    \/ \E c \in C : /\ c.op = l /\ c.nth # 0 /\ Seen(c, l) = v
                    /\ \A d \in C : d.op = l /\ d # c => d.nth < c.nth

AdminInv ==
    /\ \A c \in adminCalls : CallOK(c)
    /\ \E b \in Nat : \A c \in adminCalls : c.nth <= b
    /\ acting \in BOOLEAN /\ adminDeleting \in BOOLEAN /\ adminSmooth \in BOOLEAN
    /\ OneHandler(adminCalls, Deciding) /\ (Runs(adminCalls, Deciding) => acting)
    /\ OneHandler(adminCalls, Removing) /\ (Runs(adminCalls, Removing) => adminDeleting)
    /\ \A c \in adminCalls : c.op = "delete" => target = c.who
    /\ adminSmooth => /\ Shows(adminCalls, "accounts", accounts, account)
                      /\ Shows(adminCalls, "requests", requests, request)

\* A set of naturals with a member has a least one.
LEMMA LeastNatural ==
    ASSUME NEW S \in SUBSET Nat, S # {}
    PROVE  \E x \in S : \A y \in S : x <= y
<1>1. PICK x \in S : \A y \in S : ~(<<y, x>> \in OpToRel(<, Nat))
  BY NatLessThanWellFounded, WFMin, Zenon
<1>2. ASSUME NEW y \in S, ~(x <= y) PROVE FALSE
  <2>1. y < x /\ y \in Nat /\ x \in Nat
    BY <1>2
  <2>2. <<y, x>> \in OpToRel(<, Nat)
    BY <2>1 DEF OpToRel
  <2> QED BY <1>1, <2>2
<1> QED BY <1>2

\* One with a bound has a greatest.
LEMMA GreatestNatural ==
    ASSUME NEW S \in SUBSET Nat, S # {}, NEW b \in Nat, \A y \in S : y <= b
    PROVE  \E x \in S : \A y \in S : y <= x
<1> DEFINE B == {n \in Nat : \A y \in S : y <= n}
<1>1. B # {} /\ B \in SUBSET Nat
  OBVIOUS
<1>2. PICK n \in B : \A x \in B : n <= x
  BY <1>1, LeastNatural
<1>3. n \in Nat /\ \A y \in S : y <= n
  OBVIOUS
<1>4. n \in S
  <2> SUFFICES ASSUME n \notin S PROVE FALSE
    OBVIOUS
  <2>1. \A y \in S : y \in Nat /\ y # n /\ y <= n
    BY <1>3
  <2>2. \E y \in S : y \in Nat /\ y # n /\ y <= n
    BY <2>1
  <2>3. n - 1 \in Nat
    BY <1>3, <2>2
  <2>4. n - 1 \in B
    BY <1>3, <2>1, <2>3
  <2> QED BY <1>2, <1>3, <2>4
<1> QED BY <1>3, <1>4

\* Calls that go, and list reads that take the place of another of their handler.
Follows(C, D) ==
    \A d \in D : \/ d \in C
                 \/ d.op \in Admin!Lists /\ \E c \in C \ D : d.parent = c.parent /\ d.who = c.who

LEMMA HandlersGoOn ==
    ASSUME NEW C, NEW D, NEW K, OneHandler(C, K), Follows(C, D)
    PROVE  OneHandler(D, K) /\ (Runs(D, K) => Runs(C, K))
<1>1. ASSUME NEW d \in D
      PROVE  \E c \in C : /\ d.parent = c.parent /\ d.who = c.who
                          /\ d \in C => c = d
                          /\ d \notin C => c \notin D /\ d.op \in Admin!Lists
  BY DEF Follows
<1>2. ASSUME NEW x \in D, NEW y \in D, x.parent \in K, y.parent \in K
      PROVE  x.parent = y.parent /\ x.who = y.who /\ (x.op \notin Admin!Lists => y = x)
  <2>1. PICK a \in C : /\ x.parent = a.parent /\ x.who = a.who
                       /\ x \in C => a = x
                       /\ x \notin C => a \notin D /\ x.op \in Admin!Lists
    BY <1>1
  <2>2. PICK b \in C : /\ y.parent = b.parent /\ y.who = b.who
                       /\ y \in C => b = y
                       /\ y \notin C => b \notin D /\ y.op \in Admin!Lists
    BY <1>1
  <2>3. a.parent = b.parent /\ a.who = b.who /\ (a.op \notin Admin!Lists => b = a)
    BY <1>2, <2>1, <2>2 DEF OneHandler
  <2> QED BY <2>1, <2>2, <2>3
<1> QED BY <1>1, <1>2 DEF OneHandler, Runs

\* A handler that starts while none of its kind runs is the only one.
LEMMA HandlerStarts ==
    ASSUME NEW C, NEW K, NEW e, ~Runs(C, K) \/ e.parent \notin K, OneHandler(C, K)
    PROVE  OneHandler(C \union {e}, K)
           /\ (Runs(C \union {e}, K) => Runs(C, K) \/ e.parent \in K)
BY DEF OneHandler, Runs

\* When its operation ends, or the last of its reads, no handler of its kind runs.
LEMMA HandlerEnds ==
    ASSUME NEW C, NEW K, NEW c \in C, OneHandler(C, K), c.parent \in K,
           \/ c.op \notin Admin!Lists
           \/ ~\E d \in C \ {c} : d.parent = c.parent /\ d.who = c.who
    PROVE  ~Runs(C \ {c}, K)
BY DEF OneHandler, Runs

\* Calls that are no reads of a list, and reads the server has not answered, do not
\* change what will be shown of it.
LEMMA ShowsAsBefore ==
    ASSUME NEW C, NEW D, NEW l, NEW s, NEW v, Shows(C, l, s, v),
           \A c \in C : c.op = l => c \in D,
           \A d \in D : d.op = l => d \in C \/ d.nth = 0
    PROVE  Shows(D, l, s, v)
<1>1. CASE \E d \in D : d.op = l /\ d.nth = 0
  BY <1>1 DEF Shows
<1>2. CASE ~\E d \in D : d.op = l /\ d.nth = 0
  <2>1. \A d \in D : d.op = l => d \in C
    BY <1>2
  <2>2. ~\E c \in C : c.op = l /\ c.nth = 0
    BY <1>2
  <2> QED BY <2>1, <2>2 DEF Shows
<1> QED BY <1>1, <1>2

\* What an operation's call, or a list read, is when it is made.
LEMMA CallFacts ==
    ASSUME NEW op, NEW p, NEW to, NEW by
    PROVE  LET e == Admin!Call(op, p, to, by)
           IN  /\ e.op = op /\ e.who = p /\ e.parent = by /\ e.nth = 0
               /\ (op \in Admin!Lists \/ by = op) => CallOK(e)
BY DEF Admin!Call, CallOK

\* An operation starts.
LEMMA StartStep ==
    ASSUME AdminInv, NEW op, NEW p, NEW to, op \notin Admin!Lists,
           Admin!Start(op, p, to),
           acting' \in BOOLEAN, adminDeleting' \in BOOLEAN,
           acting => acting', op \in Deciding => ~acting /\ acting',
           adminDeleting => adminDeleting',
           op \in Removing => ~adminDeleting /\ adminDeleting' /\ target = p,
           target' = target
    PROVE  AdminInv'
<1> DEFINE e == Admin!Call(op, p, to, op)
<1>1. /\ adminCalls' = adminCalls \union {e}
      /\ UNCHANGED <<account, request, accounts, requests, adminSmooth>>
  BY DEF Admin!Start
<1>2. e.op = op /\ e.who = p /\ e.parent = op /\ e.nth = 0 /\ CallOK(e)
  BY CallFacts
<1> HIDE DEF e
<1>3. \A c \in adminCalls' : CallOK(c)
  BY <1>1, <1>2 DEF AdminInv
<1>4. \E b \in Nat : \A c \in adminCalls' : c.nth <= b
  <2>1. PICK b \in Nat : \A c \in adminCalls : c.nth <= b
    BY DEF AdminInv
  <2> QED BY <1>1, <1>2, <2>1
<1>5. OneHandler(adminCalls', Deciding) /\ (Runs(adminCalls', Deciding) => acting')
  BY <1>1, <1>2, HandlerStarts DEF AdminInv
<1>6. OneHandler(adminCalls', Removing) /\ (Runs(adminCalls', Removing) => adminDeleting')
  BY <1>1, <1>2, HandlerStarts DEF AdminInv
<1>7. \A c \in adminCalls' : c.op = "delete" => target' = c.who
  BY <1>1, <1>2 DEF AdminInv, Removing
<1>8. ASSUME NEW l \in Admin!Lists, NEW s, NEW v, Shows(adminCalls, l, s, v)
      PROVE  Shows(adminCalls', l, s, v)
  BY <1>1, <1>2, <1>8, ShowsAsBefore
<1>9. adminSmooth' => /\ Shows(adminCalls', "accounts", accounts', account')
                      /\ Shows(adminCalls', "requests", requests', request')
  BY <1>1, <1>8 DEF AdminInv, Admin!Lists
<1> QED BY <1>1, <1>3, <1>4, <1>5, <1>6, <1>7, <1>9 DEF AdminInv

LEMMA AdminStarts ==
    ASSUME AdminInv, NEW p \in People,
           \/ Admin!HandleApprove(p) \/ Admin!HandleReject(p) \/ Admin!HandleInviteUser(p)
           \/ Admin!HandleSuspendUser(p) \/ Admin!HandleSaveAccount(p)
           \/ Admin!HandleQuickActivate(p) \/ Admin!HandleConfirmDeleteUser
    PROVE  AdminInv'
<1>1. acting \in BOOLEAN /\ adminDeleting \in BOOLEAN
  BY DEF AdminInv
<1>2. CASE Admin!HandleApprove(p) \/ Admin!HandleReject(p)
  <2>1. acting' = TRUE /\ ~acting /\ UNCHANGED <<adminDeleting, target>>
    BY <1>2 DEF Admin!HandleApprove, Admin!HandleReject, Admin!CanDecide
  <2>2. PICK op \in Deciding : Admin!Start(op, p, Admin!Gone)
    BY <1>2 DEF Admin!HandleApprove, Admin!HandleReject, Deciding
  <2> QED BY <1>1, <2>1, <2>2, StartStep DEF Deciding, Removing, Admin!Lists
<1>3. CASE \/ Admin!HandleInviteUser(p) \/ Admin!HandleSuspendUser(p)
           \/ Admin!HandleSaveAccount(p) \/ Admin!HandleQuickActivate(p)
  <2>1. UNCHANGED <<acting, adminDeleting, target>>
    BY <1>3 DEF Admin!HandleInviteUser, Admin!HandleSuspendUser, Admin!HandleSaveAccount,
       Admin!HandleQuickActivate
  <2>2. \E op \in {"invite", "suspend", "save", "activate"} : \E to : Admin!Start(op, p, to)
    BY <1>3 DEF Admin!HandleInviteUser, Admin!HandleSuspendUser, Admin!HandleSaveAccount,
       Admin!HandleQuickActivate
  <2>3. PICK op \in {"invite", "suspend", "save", "activate"} : \E to : Admin!Start(op, p, to)
    BY <2>2
  <2>4. PICK to : Admin!Start(op, p, to)
    BY <2>3
  <2>5. op \notin Deciding /\ op \notin Removing /\ op \notin Admin!Lists
    BY DEF Deciding, Removing, Admin!Lists
  <2> QED BY <1>1, <2>1, <2>4, <2>5, StartStep
<1>4. CASE Admin!HandleConfirmDeleteUser
  <2>1. /\ ~adminDeleting /\ adminDeleting' = TRUE /\ UNCHANGED <<acting, target>>
        /\ Admin!Start("delete", target, Admin!Gone)
    BY <1>4 DEF Admin!HandleConfirmDeleteUser
  <2> QED BY <1>1, <2>1, StartStep DEF Deciding, Removing, Admin!Lists
<1> QED BY <1>2, <1>3, <1>4

\* What has nothing to do with the server.
LEMMA AdminQuiet ==
    ASSUME AdminInv,
           \/ \E p \in People : \/ Admin!OpenDeleteUser(p)
                                \/ \E level \in Admin!Levels : Admin!UpdateAccountDraft(p, level)
           \/ Admin!TypeEmail \/ Admin!CloseDialog
           \/ \E t \in {"access", "users"} : Admin!SetTab(t)
    PROVE  AdminInv'
<1>1. /\ UNCHANGED <<adminCalls, acting, adminDeleting, adminSmooth, account, request,
                     accounts, requests>>
      /\ adminDeleting => target' = target
  BY DEF Admin!OpenDeleteUser, Admin!UpdateAccountDraft, Admin!TypeEmail, Admin!CloseDialog,
     Admin!SetTab, Admin!Dialog, Admin!CanDelete
<1>2. \A c \in adminCalls : c.op = "delete" => target' = c.who
  <2> SUFFICES ASSUME NEW c \in adminCalls, c.op = "delete" PROVE adminDeleting
    BY <1>1 DEF AdminInv
  <2> QED BY DEF AdminInv, CallOK, Admin!Lists, Runs, Removing
<1> QED BY <1>1, <1>2 DEF AdminInv

LEMMA AdminRefresh ==
    ASSUME AdminInv, NEW l \in Admin!Lists, Admin!Refresh(l)
    PROVE  AdminInv'
<1> DEFINE e == Admin!Call(l, NoOne, Admin!Gone, "refresh")
<1>1. /\ adminCalls' = adminCalls \union {e}
      /\ UNCHANGED <<account, request, accounts, requests, acting, adminDeleting, target,
                     adminSmooth>>
  BY DEF Admin!Refresh
<1>2. e.op = l /\ e.parent = "refresh" /\ e.nth = 0 /\ CallOK(e)
  BY CallFacts
<1> HIDE DEF e
<1>3. \A c \in adminCalls' : CallOK(c)
  BY <1>1, <1>2 DEF AdminInv
<1>4. \E b \in Nat : \A c \in adminCalls' : c.nth <= b
  <2>1. PICK b \in Nat : \A c \in adminCalls : c.nth <= b
    BY DEF AdminInv
  <2> QED BY <1>1, <1>2, <2>1
<1>5. e.parent \notin Deciding /\ e.parent \notin Removing /\ e.op # "delete"
  BY <1>2 DEF Deciding, Removing, Admin!Lists
<1>6. OneHandler(adminCalls', Deciding) /\ (Runs(adminCalls', Deciding) => acting')
  BY <1>1, <1>5, HandlerStarts DEF AdminInv
<1>7. OneHandler(adminCalls', Removing) /\ (Runs(adminCalls', Removing) => adminDeleting')
  BY <1>1, <1>5, HandlerStarts DEF AdminInv
<1>8. \A c \in adminCalls' : c.op = "delete" => target' = c.who
  BY <1>1, <1>5 DEF AdminInv
<1>9. ASSUME NEW k, NEW s, NEW v, Shows(adminCalls, k, s, v)
      PROVE  Shows(adminCalls', k, s, v)
  BY <1>1, <1>2, <1>9, ShowsAsBefore
<1> QED BY <1>1, <1>3, <1>4, <1>6, <1>7, <1>8, <1>9 DEF AdminInv

\* What a call that was answered leaves of the handlers.
LEMMA FinishedFacts ==
    ASSUME AdminInv, NEW op, Admin!Finished(op)
    PROVE  /\ acting' \in BOOLEAN /\ (op \notin Deciding => acting' = acting)
           /\ adminDeleting' \in BOOLEAN /\ (op \notin Removing => adminDeleting' = adminDeleting)
BY DEF AdminInv, Admin!Finished, Deciding, Removing

\* An answer ends its handler only when no call of it is left.
LEMMA CallEnds ==
    ASSUME AdminInv, NEW c \in adminCalls, NEW op, Admin!Finished(op),
           adminCalls' = adminCalls \ {c},
           \/ c.op \notin Admin!Lists /\ op = c.op
           \/ op = IF Admin!Last(c) THEN c.parent ELSE "none"
    PROVE  /\ acting' \in BOOLEAN /\ adminDeleting' \in BOOLEAN
           /\ OneHandler(adminCalls', Deciding) /\ (Runs(adminCalls', Deciding) => acting')
           /\ OneHandler(adminCalls', Removing) /\ (Runs(adminCalls', Removing) => adminDeleting')
<1>1. \/ op = "none"
      \/ /\ op = c.parent
         /\ \/ c.op \notin Admin!Lists
            \/ ~\E d \in adminCalls \ {c} : d.parent = c.parent /\ d.who = c.who
  BY DEF AdminInv, CallOK, Admin!Last
<1>2. ASSUME NEW K, OneHandler(adminCalls, K), "none" \notin K
      PROVE  /\ OneHandler(adminCalls', K)
             /\ Runs(adminCalls', K) => Runs(adminCalls, K) /\ op \notin K
  <2>1. Follows(adminCalls, adminCalls')
    BY DEF Follows
  <2>2. op \in K => ~Runs(adminCalls', K)
    BY <1>1, <1>2, HandlerEnds
  <2> QED BY <1>2, <2>1, <2>2, HandlersGoOn
<1>3. "none" \notin Deciding /\ "none" \notin Removing
  BY DEF Deciding, Removing
<1> QED BY <1>2, <1>3, FinishedFacts DEF AdminInv

\* What is left of calls after one is answered.
LEMMA CallGone ==
    ASSUME AdminInv, NEW c \in adminCalls, adminCalls' = adminCalls \ {c}, target' = target
    PROVE  /\ \A d \in adminCalls' : CallOK(d) /\ (d.op = "delete" => target' = d.who)
           /\ \E b \in Nat : \A d \in adminCalls' : d.nth <= b
BY DEF AdminInv

LEMMA AdminFails ==
    ASSUME AdminInv, NEW c \in adminCalls, Admin!Fail(c)
    PROVE  AdminInv'
<1>1. /\ c.op \notin Admin!Lists /\ adminCalls' = adminCalls \ {c} /\ Admin!Finished(c.op)
      /\ UNCHANGED <<accounts, requests, target>>
      /\ adminSmooth' = FALSE \/ UNCHANGED <<account, request, adminSmooth>>
  BY Zenon DEF Admin!Fail
<1>2. ASSUME NEW l \in Admin!Lists, NEW s, NEW v, Shows(adminCalls, l, s, v)
      PROVE  Shows(adminCalls', l, s, v)
  BY <1>1, <1>2, ShowsAsBefore
<1>3. adminSmooth' => /\ Shows(adminCalls', "accounts", accounts', account')
                      /\ Shows(adminCalls', "requests", requests', request')
  BY <1>1, <1>2 DEF AdminInv, Admin!Lists
<1>4. adminSmooth' \in BOOLEAN
  BY <1>1 DEF AdminInv
<1> QED BY <1>1, <1>3, <1>4, CallEnds, CallGone DEF AdminInv

LEMMA FailListStep ==
    ASSUME AdminInv, NEW c \in adminCalls, Admin!FailList(c)
    PROVE  AdminInv'
<1>1. /\ adminCalls' = adminCalls \ {c} /\ adminSmooth' = FALSE /\ target' = target
      /\ Admin!Finished(IF Admin!Last(c) THEN c.parent ELSE "none")
  BY DEF Admin!FailList
<1> QED BY <1>1, CallEnds, CallGone DEF AdminInv

\* The oldest answer on its way, when it is also the newest, is the only one.
LEMMA OnlyAnswer ==
    ASSUME AdminInv, NEW c \in adminCalls, c.nth # 0, c.nth = Admin!Oldest(c.op),
           NEW d \in adminCalls, d.op = c.op, d.nth < c.nth
    PROVE  d.nth = 0
<1> SUFFICES ASSUME d.nth # 0 PROVE FALSE
  OBVIOUS
<1> DEFINE S == Admin!Answers(c.op)
<1>1. S \in SUBSET Nat /\ d.nth \in S
  BY DEF Admin!Answers, AdminInv, CallOK
<1>2. \E x \in S : \A y \in S : x <= y
  BY <1>1, LeastNatural
<1>3. \A y \in S : Admin!Oldest(c.op) <= y
  BY <1>2 DEF Admin!Oldest
<1> QED BY <1>1, <1>3 DEF AdminInv, CallOK

LEMMA ShowListStep ==
    ASSUME AdminInv, NEW c \in adminCalls, Admin!ShowList(c)
    PROVE  AdminInv'
<1>1. /\ c.op \in Admin!Lists /\ c.nth # 0 /\ adminCalls' = adminCalls \ {c}
      /\ Admin!Finished(IF Admin!Last(c) THEN c.parent ELSE "none")
      /\ UNCHANGED <<account, request, target>>
      /\ adminSmooth' = (adminSmooth /\ c.nth = Admin!Oldest(c.op))
      /\ \/ c.op = "accounts" /\ accounts' = c.accounts /\ requests' = requests
         \/ c.op = "requests" /\ requests' = c.requests /\ accounts' = accounts
  BY DEF Admin!ShowList, Admin!ShowAccounts, Admin!ShowRequests
<1>2. adminSmooth' \in BOOLEAN /\ (adminSmooth' => adminSmooth /\ c.nth = Admin!Oldest(c.op))
  BY <1>1 DEF AdminInv
<1>3. ASSUME adminSmooth', NEW s, NEW v, Shows(adminCalls, c.op, s, v)
      PROVE  Shows(adminCalls', c.op, Seen(c, c.op), v)
  <2>1. CASE \E d \in adminCalls : d.op = c.op /\ d.nth = 0
    BY <1>1, <2>1 DEF Shows
  <2>2. CASE \E a \in adminCalls : /\ a.op = c.op /\ a.nth # 0 /\ Seen(a, c.op) = v
                                   /\ \A d \in adminCalls : d.op = c.op /\ d # a => d.nth < a.nth
    <3>1. PICK a \in adminCalls : /\ a.op = c.op /\ a.nth # 0 /\ Seen(a, c.op) = v
                                  /\ \A d \in adminCalls : d.op = c.op /\ d # a => d.nth < a.nth
      BY <2>2
    <3>2. CASE a # c
      BY <1>1, <3>1, <3>2 DEF Shows
    <3>3. CASE a = c
      <4>1. \A d \in adminCalls' : d.op = c.op => d.nth = 0
        BY <1>1, <1>2, <1>3, <3>1, <3>3, OnlyAnswer
      <4> QED BY <3>1, <3>3, <4>1 DEF Shows
    <3> QED BY <3>2, <3>3
  <2> QED BY <1>3, <2>1, <2>2 DEF Shows
<1>4. ASSUME NEW l, l # c.op, NEW s, NEW v, Shows(adminCalls, l, s, v)
      PROVE  Shows(adminCalls', l, s, v)
  BY <1>1, <1>4, ShowsAsBefore
<1>5. adminSmooth' => /\ Shows(adminCalls', "accounts", accounts', account')
                      /\ Shows(adminCalls', "requests", requests', request')
  <2>1. CASE c.op = "accounts"
    BY <1>1, <1>2, <1>3, <1>4, <2>1 DEF AdminInv, Seen
  <2>2. CASE c.op = "requests"
    BY <1>1, <1>2, <1>3, <1>4, <2>2 DEF AdminInv, Seen
  <2> QED BY <1>1, <2>1, <2>2
<1> QED BY <1>1, <1>2, <1>5, CallEnds, CallGone DEF AdminInv

LEMMA ReadListStep ==
    ASSUME AdminInv, NEW c \in adminCalls, Admin!ReadList(c)
    PROVE  AdminInv'
<1> DEFINE e == [c EXCEPT !.nth = 1 + Admin!Newest(c.op), !.accounts = account,
                          !.requests = request]
<1>1. /\ c.op \in Admin!Lists /\ c.nth = 0 /\ adminCalls' = (adminCalls \ {c}) \union {e}
      /\ UNCHANGED <<account, request, accounts, requests, acting, adminDeleting, target,
                     adminSmooth>>
  BY DEF Admin!ReadList
<1>2. /\ Admin!Newest(c.op) \in Nat
      /\ \A d \in adminCalls : d.op = c.op => d.nth <= Admin!Newest(c.op)
  <2> DEFINE S == Admin!Answers(c.op)
  <2>1. /\ S \in SUBSET Nat /\ \A d \in adminCalls : d.nth \in Nat
        /\ \A d \in adminCalls : d.op = c.op => d.nth = 0 \/ d.nth \in S
    BY DEF Admin!Answers, AdminInv, CallOK
  <2>2. PICK b \in Nat : \A d \in adminCalls : d.nth <= b
    BY DEF AdminInv
  <2>3. \A x \in S : x <= b
    BY <2>2 DEF Admin!Answers
  <2>4. CASE S = {}
    BY <2>1, <2>4 DEF Admin!Newest
  <2>5. CASE S # {}
    <3>1. \E x \in S : \A y \in S : y <= x
      BY <2>1, <2>3, <2>5, GreatestNatural
    <3>2. Admin!Newest(c.op) = CHOOSE x \in S : \A y \in S : y <= x
      BY <2>5 DEF Admin!Newest
    <3>3. Admin!Newest(c.op) \in S /\ \A y \in S : y <= Admin!Newest(c.op)
      BY <3>1, <3>2
    <3> QED BY <2>1, <3>3
  <2> QED BY <2>4, <2>5
<1>3. /\ CallOK(e) /\ e.op = c.op /\ e.parent = c.parent /\ e.who = c.who
      /\ e.nth = 1 + Admin!Newest(c.op) /\ e.accounts = account /\ e.requests = request
  <2>1. CallOK(c) /\ 1 + Admin!Newest(c.op) \in Nat
    BY <1>2 DEF AdminInv
  <2> QED BY <2>1 DEF CallOK
<1> HIDE DEF e
<1>4. e # c /\ e.nth # 0 /\ e.op \in Admin!Lists /\ e.op # "delete"
  BY <1>1, <1>2, <1>3 DEF Admin!Lists
<1>5. \A d \in adminCalls' : CallOK(d) /\ (d.op = "delete" => target' = d.who)
  BY <1>1, <1>3, <1>4 DEF AdminInv
<1>6. \E b \in Nat : \A d \in adminCalls' : d.nth <= b
  <2>1. PICK b \in Nat : \A d \in adminCalls : d.nth <= b
    BY DEF AdminInv
  <2>2. b + e.nth \in Nat /\ \A d \in adminCalls' : d.nth <= b + e.nth
    BY <1>1, <1>2, <1>3, <1>5, <2>1 DEF AdminInv, CallOK
  <2> QED BY <2>2
<1>7. Follows(adminCalls, adminCalls')
  BY <1>1, <1>3, <1>4 DEF Follows
<1>8. /\ OneHandler(adminCalls', Deciding) /\ (Runs(adminCalls', Deciding) => acting')
      /\ OneHandler(adminCalls', Removing) /\ (Runs(adminCalls', Removing) => adminDeleting')
  BY <1>1, <1>7, HandlersGoOn DEF AdminInv
<1>9. ASSUME NEW s
      PROVE  Shows(adminCalls', c.op, s, IF c.op = "accounts" THEN account ELSE request)
  <2>1. \A d \in adminCalls' : d.op = e.op /\ d # e => d.nth < e.nth
    BY <1>1, <1>2, <1>3 DEF AdminInv, CallOK
  <2> QED BY <1>1, <1>3, <1>4, <2>1 DEF Shows, Seen
<1>10. ASSUME NEW l, l # c.op, NEW s, NEW v, Shows(adminCalls, l, s, v)
       PROVE  Shows(adminCalls', l, s, v)
  BY <1>1, <1>3, <1>10, ShowsAsBefore
<1>11. adminSmooth' => /\ Shows(adminCalls', "accounts", accounts', account')
                       /\ Shows(adminCalls', "requests", requests', request')
  <2>1. CASE c.op = "accounts"
    BY <1>1, <1>9, <1>10, <2>1 DEF AdminInv
  <2>2. CASE c.op = "requests"
    BY <1>1, <1>9, <1>10, <2>2 DEF AdminInv
  <2> QED BY <1>1, <2>1, <2>2 DEF Admin!Lists
<1> QED BY <1>1, <1>5, <1>6, <1>8, <1>11 DEF AdminInv

LEMMA AdminSucceeds ==
    ASSUME AdminInv, NEW c \in adminCalls, Admin!Succeed(c)
    PROVE  AdminInv'
<1> DEFINE N == Admin!ListsAfter(c.op, c.who)
<1>1. /\ c.op \notin Admin!Lists /\ Admin!Apply(c)
      /\ adminCalls' = (adminCalls \ {c}) \union N
      /\ target' = IF c.op = "delete" THEN NoOne ELSE target
      /\ UNCHANGED <<accounts, requests, acting, adminDeleting, adminSmooth>>
  BY DEF Admin!Succeed
<1>2. c.parent = c.op
  BY <1>1 DEF AdminInv, CallOK
<1>3. /\ \A e \in N : /\ e.op \in Admin!Lists /\ e.nth = 0 /\ CallOK(e)
                      /\ e.parent = c.op /\ e.who = c.who
      /\ c.op = "reject" \/ \E e \in N : e.op = "accounts"
      /\ c.op \in {"approve", "invite", "delete", "reject"} => \E e \in N : e.op = "requests"
  BY CallFacts DEF Admin!ListsAfter, Admin!Lists
<1> HIDE DEF N
<1>4. \A d \in adminCalls' : CallOK(d)
  BY <1>1, <1>3 DEF AdminInv
<1>5. \A d \in adminCalls' : d.op = "delete" => target' = d.who
  <2> SUFFICES ASSUME NEW d \in adminCalls, d # c, d.op = "delete" PROVE target' = d.who
    BY <1>1, <1>3 DEF Admin!Lists
  <2>1. d.parent = "delete" /\ d.op \notin Admin!Lists
    BY DEF AdminInv, CallOK, Admin!Lists
  <2>2. c.op # "delete"
    BY <1>2, <2>1 DEF AdminInv, OneHandler, Removing
  <2> QED BY <1>1, <2>2 DEF AdminInv
<1>6. \E b \in Nat : \A d \in adminCalls' : d.nth <= b
  <2>1. PICK b \in Nat : \A d \in adminCalls : d.nth <= b
    BY DEF AdminInv
  <2> QED BY <1>1, <1>3, <2>1
<1>7. Follows(adminCalls, adminCalls')
  BY <1>1, <1>2, <1>3 DEF Follows
<1>8. /\ OneHandler(adminCalls', Deciding) /\ (Runs(adminCalls', Deciding) => acting')
      /\ OneHandler(adminCalls', Removing) /\ (Runs(adminCalls', Removing) => adminDeleting')
  BY <1>1, <1>7, HandlersGoOn DEF AdminInv
<1>9. ASSUME NEW l \in Admin!Lists, NEW s, NEW v, Shows(adminCalls, l, s, v)
      PROVE  Shows(adminCalls', l, s, v)
  BY <1>1, <1>3, <1>9, ShowsAsBefore
<1>10. ASSUME adminSmooth PROVE Shows(adminCalls', "accounts", accounts', account')
  <2>1. CASE c.op = "reject"
    <3>1. account' = account
      BY <1>1, <2>1 DEF Admin!Apply
    <3> QED BY <1>1, <1>9, <1>10, <3>1 DEF AdminInv, Admin!Lists
  <2>2. CASE \E e \in N : e.op = "accounts"
    BY <1>1, <1>3, <2>2 DEF Shows
  <2> QED BY <1>3, <2>1, <2>2
<1>11. ASSUME adminSmooth PROVE Shows(adminCalls', "requests", requests', request')
  <2>1. CASE c.op \in {"approve", "invite", "delete", "reject"}
    BY <1>1, <1>3, <2>1 DEF Shows
  <2>2. CASE c.op \notin {"approve", "invite", "delete", "reject"}
    <3>1. request' = request
      BY <1>1, <2>2 DEF Admin!Apply
    <3> QED BY <1>1, <1>9, <1>11, <3>1 DEF AdminInv, Admin!Lists
  <2> QED BY <2>1, <2>2
<1> QED BY <1>1, <1>4, <1>5, <1>6, <1>8, <1>10, <1>11 DEF AdminInv

LEMMA AdminInductive == Spec => []AdminInv
<1>1. Init => AdminInv
  <2> SUFFICES ASSUME Init PROVE AdminInv
    OBVIOUS
  <2>1. /\ adminCalls = {Admin!Call(l, NoOne, Admin!Gone, "mount") : l \in Admin!Lists}
        /\ acting = FALSE /\ adminDeleting = FALSE /\ adminSmooth = TRUE
    BY DEF Init, Admin!Init
  <2>2. /\ \A c \in adminCalls : /\ CallOK(c) /\ c.nth = 0 /\ c.parent = "mount"
                                 /\ c.op \in Admin!Lists
        /\ \A l \in Admin!Lists : \E c \in adminCalls : c.op = l /\ c.nth = 0
    BY <2>1, CallFacts
  <2>3. \A c \in adminCalls : /\ c.parent \notin Deciding /\ c.parent \notin Removing
                              /\ c.op # "delete" /\ c.nth <= 0
    BY <2>2 DEF Deciding, Removing, Admin!Lists
  <2>4. \E b \in Nat : \A c \in adminCalls : c.nth <= b
    BY <2>3
  <2>5. Shows(adminCalls, "accounts", accounts, account)
        /\ Shows(adminCalls, "requests", requests, request)
    BY <2>2 DEF Shows, Admin!Lists
  <2> QED BY <2>1, <2>2, <2>3, <2>4, <2>5 DEF AdminInv, OneHandler, Runs
<1>2. ASSUME AdminInv, [Next]_vars PROVE AdminInv'
  <2>1. CASE UNCHANGED adminVars
    BY <1>2, <2>1 DEF AdminInv, adminVars
  <2>2. CASE Admin!Next
    <3>1. People # {}
      BY PagesAssumption
    <3> QED BY <1>2, <2>2, <3>1, AdminStarts, AdminQuiet, AdminRefresh, AdminSucceeds, AdminFails,
       ReadListStep, ShowListStep, FailListStep DEF Admin!Next
  <2> QED BY <1>2, <2>1, <2>2, AdminSteps
<1> QED BY <1>1, <1>2, PTL DEF Spec

\* For any people and any number of operations side by side: when all is answered, nothing
\* failed and no list was overtaken by an older one, the console shows the server's lists;
\* one decision runs at a time, and a deletion keeps its own dialog.
THEOREM ConsoleAgrees == Spec => []AdminAgrees
<1>1. AdminInv => AdminAgrees
  <2> SUFFICES ASSUME AdminInv
               PROVE  Admin!ListsCurrent /\ Admin!DecisionsExclusive /\ Admin!DeleteDialogStays
    BY DEF AdminAgrees
  <2>1. Admin!ListsCurrent
    BY DEF AdminInv, Admin!ListsCurrent, Shows
  <2>2. Admin!DecisionsExclusive
    BY DEF AdminInv, Admin!DecisionsExclusive, OneHandler, Deciding
  <2>3. Admin!DeleteDialogStays
    <3> SUFFICES ASSUME NEW c \in adminCalls, c.op = "delete"
                 PROVE  target = c.who /\ adminDeleting
      BY DEF Admin!DeleteDialogStays
    <3> QED BY DEF AdminInv, CallOK, Admin!Lists, Runs, Removing
  <2> QED BY <2>1, <2>2, <2>3
<1> QED BY <1>1, AdminInductive, PTL

=============================================================================
