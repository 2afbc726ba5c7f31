------------------------ MODULE BrowserSessionProofs ------------------------
(***************************************************************************)
(* What holds of BrowserSession for every number of accounts, calls and      *)
(* events.                                                                   *)
(***************************************************************************)
EXTENDS BrowserSession, SequenceTheorems, TLAPS

-----------------------------------------------------------------------------
(* What holds however the calls overlap.                                    *)

\* The server gives an account no PAN but its own.
AcctOK == \A u \in Users : acct[u].pan \in {NoUser, u}

\* An answer is to the token that was sent; a call that saves a PAN answers with it.
AnswerOK(f) ==
    f.reply = "ok" =>
        /\ f.step \in {"reply", "out", "cut"} /\ f.token # NoUser
        /\ f.pan \in {NoUser, f.token}
        /\ f.kind \in {"link", "both", "profile"} => f.pan # NoUser

AnswersOK == \A s \in Places : AnswerOK(flows[s])

-----------------------------------------------------------------------------
(* What holds with one thing at a time.                                     *)

OneCall == \A s, x \in Places : s # x => IsIdle(s) \/ IsIdle(x)

\* The data and the token in the store are of the account it names.
OwnData == {store.pan, store.tax, token} \subseteq {NoUser, store.userId}

\* The provider's session is the account's; before an auth event told the store of
\* one, every event on the way does.
ProviderOK ==
    session # NoUser =>
        \/ session = store.userId
        \/ store.userId = NoUser /\ \A i \in 1..Len(mail) : mail[i] = session

\* The word that there is no session is the restored one of a page load, and nothing
\* is done ahead of it.
NoSessionOK ==
    \A i \in 1..Len(mail) :
        mail[i] = NoUser =>
            i = 1 /\ resolving /\ AllIdle /\ session = NoUser /\ token = NoUser

\* A call is of the account in the store; a sign-out has no token left to drop.
CallOK(s) ==
    /\ flows[s].step \in {"session", "sent", "reply", "password", "refill"} =>
         /\ store.userId # NoUser
         /\ flows[s].kind # "health" => flows[s].user = store.userId
         /\ flows[s].token \in {NoUser, store.userId}
    /\ flows[s].step \in {"out", "cut"} => token = NoUser

CalmOK ==
    calm => /\ OneCall /\ OwnData /\ ProviderOK /\ NoSessionOK /\ ~stray
            /\ \A s \in Places : CallOK(s)

IInv == TypeOK /\ AcctOK /\ AnswersOK /\ CalmOK

-----------------------------------------------------------------------------
(* The shape of the state.                                                  *)

LEMMA SlotsArePlaces == Slots \subseteq Places /\ Health \in Places
BY BoundsAssumption DEF Slots, Places, Health

LEMMA FlagTypes ==
    ASSUME TypeOK
    PROVE  /\ flag \in BOOLEAN /\ needs \in BOOLEAN /\ resolving \in BOOLEAN
           /\ latch \in BOOLEAN /\ stray \in BOOLEAN /\ calm \in BOOLEAN
BY DEF TypeOK

LEMMA IdleType == Idle \in Flow
BY DEF Idle, Flow, Maybe

LEMMA NewCallType ==
    ASSUME TypeOK, NEW k \in Kinds, NEW u \in Maybe,
           NEW f, f = [Idle EXCEPT !.kind = k, !.user = u]
    PROVE  f \in Flow /\ Ask(f) \in Flow /\ [f EXCEPT !.step = "password"] \in Flow
<1>1. f = [kind |-> k, step |-> "idle", user |-> u, token |-> NoUser,
           reply |-> "none", status |-> "none", pan |-> NoUser]
  BY DEF Idle
<1>2. f \in Flow
  BY <1>1 DEF Flow, Maybe
<1>3. [f EXCEPT !.step = "password"] \in Flow
  BY <1>2 DEF Flow
<1>4. token \in Maybe
  BY DEF TypeOK
<1>5. \A st \in {"sent", "session"} : [f EXCEPT !.step = st, !.token = token] \in Flow
  BY <1>2, <1>4 DEF Flow
<1>6. Ask(f) \in Flow
  BY <1>5 DEF Ask
<1> QED BY <1>2, <1>3, <1>6

LEMMA PutType ==
    ASSUME TypeOK, NEW s \in Places, NEW f \in Flow, Put(s, f)
    PROVE  flows' \in [Places -> Flow]
BY DEF TypeOK, Put

LEMMA FlowTypes ==
    ASSUME TypeOK, NEW s \in Places
    PROVE  /\ flows[s] \in Flow /\ flows[s].user \in Maybe /\ flows[s].token \in Maybe
           /\ flows[s].pan \in Maybe /\ flows[s].status \in Statuses \union {"none"}
           /\ flows[s].step \in {"idle", "session", "sent", "reply", "out", "cut",
                                 "password", "refill"}
           /\ flows[s].reply \in {"none", "ok", "401", "403", "failed"}
BY DEF TypeOK, Flow

LEMMA StoreTypes ==
    ASSUME TypeOK
    PROVE  /\ store.userId \in Maybe /\ store.pan \in Maybe /\ store.tax \in Maybe
           /\ store.status \in Statuses \union {"none"}
           /\ Empty \in [userId : Maybe, pan : Maybe,
                         status : Statuses \union {"none"}, tax : Maybe]
BY DEF TypeOK, Empty, Maybe

LEMMA SetIdentityType ==
    ASSUME TypeOK, NEW u \in Maybe, NEW p \in Maybe,
           NEW st \in Statuses \union {"none"}, SetIdentity(u, p, st)
    PROVE  /\ store' \in [userId : Maybe, pan : Maybe,
                          status : Statuses \union {"none"}, tax : Maybe]
           /\ store'.userId = u /\ store'.pan = p /\ store'.status = st
           /\ store'.tax = store.tax
BY DEF TypeOK, SetIdentity

LEMMA SignOutType ==
    ASSUME TypeOK, NEW s \in Places, NEW st \in {"out", "cut"}, SignOut(s, st)
    PROVE  /\ flows' \in [Places -> Flow] /\ token' = NoUser /\ flag' = FALSE
           /\ \A x \in Places \ {s} : flows'[x] = flows[x]
           /\ flows'[s] = [flows[s] EXCEPT !.step = st]
           /\ [flows[s] EXCEPT !.step = st] \in Flow
BY DEF TypeOK, SignOut, Flow

LEMMA InitType == Init => TypeOK
<1> SUFFICES ASSUME Init PROVE TypeOK
  OBVIOUS
<1>1. flows \in [Places -> Flow]
  BY IdleType DEF Init
<1>2. mail \in Seq(Maybe) /\ Len(mail) <= MaxMail
  BY BoundsAssumption DEF Init, Maybe
<1>3. events \in 0..MaxEvents
  BY BoundsAssumption DEF Init
<1> QED BY <1>1, <1>2, <1>3 DEF Init, TypeOK, Empty, Maybe, Statuses

LEMMA RecordOfFlow ==
    ASSUME NEW f \in Flow, NEW t \in Maybe, NEW p \in Maybe, NEW st \in Statuses \union {"none"},
           NEW r \in {"401", "403", "failed"}
    PROVE  /\ [f EXCEPT !.step = "reply", !.reply = r] \in Flow
           /\ [f EXCEPT !.step = "sent", !.token = t] \in Flow
           /\ [f EXCEPT !.step = "session", !.token = t] \in Flow
           /\ [f EXCEPT !.step = "refill"] \in Flow
           /\ [[f EXCEPT !.step = "reply", !.reply = "ok"]
                 EXCEPT !.status = st, !.pan = p] \in Flow
BY DEF Flow

LEMMA StepType == ASSUME TypeOK, NEW s \in Places, Step(s) PROVE TypeOK'
<1> DEFINE f == flows[s]
<1> USE FlowTypes, FlagTypes, StoreTypes
<1>1. CASE GetAccessToken(s)
  <2>1. PICK got \in {session, NoUser} :
          IF FoundDead(s, got)
          THEN /\ SignOut(s, "out")
               /\ UNCHANGED <<session, store, needs, resolving, latch, mail,
                              stray, acct, calm, events>>
          ELSE /\ token' = got
               /\ IF flows[s].kind = "health"
                  THEN Put(s, Idle)
                  ELSE Put(s, [flows[s] EXCEPT !.step = "sent", !.token = got])
               /\ UNCHANGED <<session, store, flag, needs, resolving, latch,
                              mail, stray, acct, calm, events>>
    BY <1>1 DEF GetAccessToken
  <2>2. got \in Maybe
    BY DEF TypeOK, Maybe
  <2>3. CASE FoundDead(s, got)
    <3>1. SignOut(s, "out")
      BY <2>1, <2>3
    <3>2. flows' \in [Places -> Flow] /\ token' \in Maybe /\ flag' \in BOOLEAN
      BY <3>1, SignOutType DEF Maybe
    <3>3. QED BY <2>1, <2>3, <3>2 DEF TypeOK
  <2>4. CASE ~FoundDead(s, got)
    <3>1. flows' \in [Places -> Flow]
      BY <2>1, <2>2, <2>4, PutType, IdleType, RecordOfFlow DEF Maybe
    <3>2. QED BY <2>1, <2>2, <2>4, <3>1 DEF TypeOK
  <2>5. QED BY <2>3, <2>4
<1>2. CASE Serve(s)
  <2>1. CASE \E r \in {"401", "failed", "403"} :
               Put(s, [f EXCEPT !.step = "reply", !.reply = r]) /\ UNCHANGED acct
    <3>1. flows' \in [Places -> Flow]
      BY <2>1, PutType, RecordOfFlow DEF Maybe, Statuses
    <3>2. QED BY <1>2, <2>1, <3>1 DEF Serve, TypeOK
  <2>2. CASE /\ f.token # NoUser /\ acct[f.token].status # "none"
             /\ acct' = [acct EXCEPT ![f.token].pan =
                           IF f.kind \in {"link", "both", "profile"} THEN f.token ELSE @]
             /\ Put(s, [[f EXCEPT !.step = "reply", !.reply = "ok"]
                          EXCEPT !.status = acct[f.token].status,
                                 !.pan = acct'[f.token].pan])
    <3>1. f.token \in Users
      BY <2>2 DEF Maybe
    <3>2. acct' \in [Users -> [status : Statuses \union {"none"}, pan : Maybe]]
      BY <2>2, <3>1 DEF TypeOK, Maybe
    <3>3. acct[f.token].status \in Statuses \union {"none"} /\ acct'[f.token].pan \in Maybe
      BY <3>1, <3>2 DEF TypeOK
    <3>4. flows' \in [Places -> Flow]
      BY <2>2, <3>3, PutType, RecordOfFlow DEF Maybe
    <3>5. QED BY <1>2, <3>2, <3>4 DEF Serve, TypeOK
  <2>3. QED BY <1>2, <2>1, <2>2 DEF Serve
<1>3. CASE SignedOut(s)
  <2>1. flows' \in [Places -> Flow] /\ token' \in Maybe /\ flag' \in BOOLEAN
    BY <1>3, SignOutType, PutType, IdleType DEF SignedOut, TypeOK, Maybe
  <2>2. store' = Empty
    BY <1>3 DEF SignedOut, ClearIdentity
  <2>3. PICK late \in BOOLEAN :
          /\ session' = IF late THEN session ELSE NoUser
          /\ stray' = (stray \/ late)
          /\ calm' = (calm /\ ~late)
          /\ needs' = IF late THEN needs ELSE flag
          /\ resolving' = (resolving /\ late /\ flows[s].kind # "auth")
    BY <1>3 DEF SignedOut
  <2>4. session' \in Maybe /\ {stray', calm', needs', resolving'} \subseteq BOOLEAN
    BY <2>3 DEF TypeOK, Maybe
  <2>5. QED BY <1>3, <2>1, <2>2, <2>4 DEF SignedOut, TypeOK
<1>4. CASE ReceiveMe(s)
  <2>1. KeepPan(f.user) \in Maybe
    BY DEF KeepPan, Maybe
  <2>2. flows' \in [Places -> Flow]
    BY <1>4, PutType, IdleType DEF ReceiveMe
  <2>3. QED BY <1>4, <2>1, <2>2, SetIdentityType DEF ReceiveMe, TypeOK
<1>5. CASE ReceivePoll(s)
  <2>1. flows' \in [Places -> Flow]
    BY <1>5, PutType, IdleType DEF ReceivePoll
  <2>2. QED BY <1>5, <2>1, SetIdentityType DEF ReceivePoll, TypeOK
<1>6. CASE ReceiveLink(s)
  <2>1. flows' \in [Places -> Flow]
    BY <1>6, PutType, IdleType DEF ReceiveLink
  <2>2. QED BY <1>6, <2>1, SetIdentityType DEF ReceiveLink, TypeOK
<1>7. CASE ReceiveProfile(s)
  <2>1. flows' \in [Places -> Flow]
    BY <1>7, PutType, IdleType DEF ReceiveProfile
  <2>2. QED BY <1>7, <2>1, SetIdentityType DEF ReceiveProfile, TypeOK
<1>8. CASE ReceiveUpload(s)
  <2>1. flows' \in [Places -> Flow]
    BY <1>8, PutType, IdleType DEF ReceiveUpload
  <2>2. QED BY <1>8, <2>1 DEF ReceiveUpload, TaxSessionOf, TypeOK
<1>9. CASE ReceiveLogout(s)
  BY ZenonT(40), <1>9, SignOutType DEF ReceiveLogout, TypeOK, Maybe
<1>10. CASE Intercept(s)
  BY <1>10, SignOutType DEF Intercept, TypeOK, Maybe
<1>11. CASE Fail(s)
  <2>1. flows' \in [Places -> Flow] /\ token' \in Maybe /\ flag' \in BOOLEAN
    BY <1>11, SignOutType, PutType, IdleType DEF Fail, TypeOK, Maybe
  <2>2. QED BY <1>11, <2>1 DEF Fail, TypeOK
<1>12. CASE UpdatePassword(s)
  <2>1. CASE flows' = [flows EXCEPT ![s].step = "refill"] /\ flag' = FALSE /\ token' = NoUser
    <3>1. [flows[s] EXCEPT !.step = "refill"] \in Flow
      BY RecordOfFlow DEF Maybe, Statuses
    <3>2. flows' = [flows EXCEPT ![s] = [flows[s] EXCEPT !.step = "refill"]]
      BY <2>1 DEF TypeOK
    <3>3. flows' \in [Places -> Flow]
      BY <3>1, <3>2 DEF TypeOK
    <3>4. QED BY <1>12, <2>1, <3>3 DEF UpdatePassword, TypeOK, Maybe
  <2>2. CASE Put(s, Idle) /\ UNCHANGED <<flag, token>>
    BY <1>12, <2>2, PutType, IdleType DEF UpdatePassword, TypeOK
  <2>3. QED BY <1>12, <2>1, <2>2 DEF UpdatePassword
<1>13. CASE RefillToken(s)
  <2>1. token' \in Maybe
    BY <1>13 DEF RefillToken, TypeOK
  <2>2. \A st \in {"sent", "session"} : [f EXCEPT !.step = st, !.token = token'] \in Flow
    BY <2>1, RecordOfFlow DEF Statuses
  <2>3. flows' \in [Places -> Flow]
    BY <1>13, <2>2, PutType, IdleType DEF RefillToken
  <2>4. needs' \in BOOLEAN
    BY <1>13 DEF RefillToken
  <2>5. QED BY <1>13, <2>1, <2>3, <2>4 DEF RefillToken, TypeOK
<1> QED BY <1>1, <1>2, <1>3, <1>4, <1>5, <1>6, <1>7, <1>8, <1>9, <1>10, <1>11,
           <1>12, <1>13 DEF Step

LEMMA SpendType == ASSUME TypeOK, Spend PROVE events' \in 0..MaxEvents
BY BoundsAssumption DEF TypeOK, Spend

LEMMA HearInType ==
    ASSUME TypeOK, NEW u \in Users, NEW s \in Slots, HearIn(u, s)
    PROVE  /\ flows' \in [Places -> Flow] /\ needs' \in BOOLEAN /\ calm' \in BOOLEAN
           /\ store' \in [userId : Maybe, pan : Maybe,
                          status : Statuses \union {"none"}, tax : Maybe]
           /\ store'.userId = u /\ store'.pan = store.pan /\ store'.tax = store.tax
           /\ store'.status = store.status
<1>1. Put(s, Ask([Idle EXCEPT !.kind = "auth", !.user = u]))
  BY DEF HearIn
<1>2. Ask([Idle EXCEPT !.kind = "auth", !.user = u]) \in Flow
  BY NewCallType DEF Kinds, Maybe
<1>3. flows' \in [Places -> Flow]
  BY <1>1, <1>2, PutType, SlotsArePlaces
<1>4. store' = [store EXCEPT !.userId = u] /\ u \in Maybe
  BY DEF HearIn, Maybe
<1>5. needs' \in BOOLEAN /\ calm' \in BOOLEAN
  BY FlagTypes DEF HearIn
<1> QED BY <1>3, <1>4, <1>5, StoreTypes DEF TypeOK

LEMMA LoadType ==
    ASSUME TypeOK, Load, session' \in Maybe, flag' \in BOOLEAN, calm' \in BOOLEAN,
           events' \in 0..MaxEvents
    PROVE  TypeOK'
<1>1. flows' \in [Places -> Flow]
  BY IdleType DEF Load
<1>2. mail' \in Seq(Maybe) /\ Len(mail') <= MaxMail
  BY BoundsAssumption DEF Load
<1>3. store' \in [userId : Maybe, pan : Maybe, status : Statuses \union {"none"},
                  tax : Maybe]
  BY DEF Load, TypeOK
<1>4. needs' \in BOOLEAN /\ resolving' \in BOOLEAN /\ latch' \in BOOLEAN
      /\ stray' \in BOOLEAN /\ token' \in Maybe
  BY DEF Load, Maybe
<1> QED BY <1>1, <1>2, <1>3, <1>4 DEF Load, TypeOK

LEMMA MailFacts ==
    ASSUME TypeOK
    PROVE  /\ mail # <<>> => /\ Head(mail) \in Maybe /\ Tail(mail) \in Seq(Maybe)
                             /\ Len(Tail(mail)) = Len(mail) - 1
                             /\ Head(mail) = mail[1] /\ Len(mail) >= 1
                             /\ \A i \in 1..Len(Tail(mail)) : Tail(mail)[i] = mail[i + 1]
           /\ Len(mail) \in Nat
           /\ \A u \in Maybe : /\ Append(mail, u) \in Seq(Maybe)
                               /\ Len(Append(mail, u)) = Len(mail) + 1
                               /\ \A i \in 1..Len(mail) : Append(mail, u)[i] = mail[i]
                               /\ Append(mail, u)[Len(mail) + 1] = u
<1>1. mail \in Seq(Maybe)
  BY DEF TypeOK
<1> QED BY <1>1, HeadTailProperties, AppendProperties

LEMMA AdminType ==
    ASSUME TypeOK, NEW u \in Users, AdminSets(u)
    PROVE  /\ acct' \in [Users -> [status : Statuses \union {"none"}, pan : Maybe]]
           /\ \A x \in Users : acct'[x].pan \in {NoUser, acct[x].pan}
<1>1. PICK st \in Statuses \union {"none"} :
         acct' = [acct EXCEPT ![u] =
                    [status |-> st, pan |-> IF st = "none" THEN NoUser ELSE @.pan]]
  BY DEF AdminSets
<1> DEFINE row == [status |-> st, pan |-> IF st = "none" THEN NoUser ELSE acct[u].pan]
<1>2. acct[u] \in [status : Statuses \union {"none"}, pan : Maybe]
  BY DEF TypeOK
<1>3. row \in [status : Statuses \union {"none"}, pan : Maybe]
  BY <1>2 DEF Maybe
<1>4. acct' = [acct EXCEPT ![u] = row]
  BY <1>1, <1>2 DEF TypeOK
<1> QED BY <1>2, <1>3, <1>4 DEF TypeOK

LEMMA NextType == ASSUME TypeOK, [Next]_vars PROVE TypeOK'
<1> USE FlagTypes, StoreTypes, SlotsArePlaces
<1>1. ASSUME NEW s \in Places, Step(s) PROVE TypeOK'
  BY <1>1, StepType
<1>2. CASE Deliver
  <2>1. mail' \in Seq(Maybe) /\ Len(mail') <= MaxMail
    BY <1>2, MailFacts, BoundsAssumption DEF Deliver, TypeOK
  <2>2. CASE HearOut /\ UNCHANGED <<flows, flag>> /\ calm' = (calm /\ AllIdle)
    BY <1>2, <2>1, <2>2 DEF Deliver, HearOut, ClearIdentity, TypeOK
  <2>3. ASSUME NEW s \in Slots, Head(mail) # NoUser, HearIn(Head(mail), s),
               UNCHANGED <<flag, resolving>>
        PROVE  TypeOK'
    <3>1. Head(mail) \in Users
      BY <1>2, <2>3, MailFacts DEF Deliver, Maybe
    <3>2. QED BY <1>2, <2>1, <2>3, <3>1, HearInType DEF Deliver, TypeOK
  <2>4. QED BY <1>2, <2>2, <2>3 DEF Deliver
<1>3. CASE StrayLands
  BY <1>3 DEF StrayLands, HearOut, ClearIdentity, TypeOK, Maybe
<1>4. CASE TokenExpires
  BY <1>4 DEF TokenExpires, TypeOK, Maybe
<1>5. CASE BeginHealth
  <2>1. [Idle EXCEPT !.kind = "health", !.step = "session"] \in Flow
    BY DEF Idle, Flow, Kinds, Maybe
  <2>2. flows' \in [Places -> Flow]
    BY <1>5, <2>1, PutType DEF BeginHealth
  <2>3. calm' \in BOOLEAN
    BY <1>5 DEF BeginHealth
  <2>4. QED BY <1>5, <2>2, <2>3 DEF BeginHealth, TypeOK
<1>6. ASSUME NEW u \in Users, NEW s \in Slots, EmailSignIn(u, s) PROVE TypeOK'
  <2>1. events' \in 0..MaxEvents
    BY <1>6, SpendType DEF EmailSignIn
  <2>2. QED BY <1>6, <2>1, HearInType DEF EmailSignIn, TypeOK, Maybe
<1>7. ASSUME NEW u \in Users, Redirected(u) PROVE TypeOK'
  <2>1. events' \in 0..MaxEvents
    BY <1>7, SpendType DEF Redirected
  <2>2. session' \in Maybe /\ flag' \in BOOLEAN /\ calm' \in BOOLEAN
    BY <1>7 DEF Redirected, Maybe
  <2>3. QED BY <1>7, <2>1, <2>2, LoadType DEF Redirected
<1>8. ASSUME NEW u \in Users, AdminSets(u) PROVE TypeOK'
  <2>1. events' \in 0..MaxEvents
    BY <1>8, SpendType DEF AdminSets
  <2>2. acct' \in [Users -> [status : Statuses \union {"none"}, pan : Maybe]]
    BY <1>8, AdminType
  <2>3. QED BY <1>8, <2>1, <2>2 DEF AdminSets, TypeOK
<1>9. ASSUME NEW k \in Kinds, NEW s \in Slots, Begin(k, s) PROVE TypeOK'
  <2>1. events' \in 0..MaxEvents
    BY <1>9, SpendType DEF Begin
  <2>2. flows' \in [Places -> Flow]
    BY <1>9, PutType, NewCallType DEF Begin
  <2>3. calm' \in BOOLEAN
    BY <1>9 DEF Begin
  <2>4. QED BY <1>9, <2>1, <2>2, <2>3 DEF Begin, TypeOK
<1>10. ASSUME NEW u \in Maybe, OtherTab(u) PROVE TypeOK'
  <2>1. events' \in 0..MaxEvents
    BY <1>10, SpendType DEF OtherTab
  <2>2. mail' \in Seq(Maybe) /\ Len(mail') <= MaxMail
    BY <1>10, MailFacts, BoundsAssumption DEF OtherTab
  <2>3. QED BY <1>10, <2>1, <2>2 DEF OtherTab, TypeOK
<1>11. CASE Reload
  <2>1. events' \in 0..MaxEvents
    BY <1>11, SpendType DEF Reload
  <2>2. session' \in Maybe /\ flag' \in BOOLEAN /\ calm' \in BOOLEAN
    BY <1>11 DEF Reload, TypeOK
  <2>3. QED BY <1>11, <2>1, <2>2, LoadType DEF Reload
<1>12. CASE TabFocus
  <2>1. events' \in 0..MaxEvents
    BY <1>12, SpendType DEF TabFocus
  <2>2. mail' \in Seq(Maybe) /\ Len(mail') <= MaxMail
    BY <1>12, MailFacts, BoundsAssumption DEF TabFocus, TypeOK
  <2>3. QED BY <1>12, <2>1, <2>2 DEF TabFocus, TypeOK
<1>13. CASE SessionLost
  <2>1. events' \in 0..MaxEvents
    BY <1>13, SpendType DEF SessionLost
  <2>2. calm' \in BOOLEAN
    BY <1>13 DEF SessionLost
  <2>3. QED BY <1>13, <2>1, <2>2 DEF SessionLost, TypeOK, Maybe
<1>14. CASE UNCHANGED vars
  BY <1>14 DEF vars, TypeOK
<1> QED BY <1>1, <1>2, <1>3, <1>4, <1>5, <1>6, <1>7, <1>8, <1>9, <1>10, <1>11,
           <1>12, <1>13, <1>14 DEF Next

\* The tab's record of who is signed in keeps its shape.
THEOREM TypeCorrect == Spec => []TypeOK
<1> QED BY InitType, NextType, PTL DEF Spec

-----------------------------------------------------------------------------
(* Answers belong to their tokens.                                          *)

LEMMA PutAnswer ==
    ASSUME TypeOK, AnswersOK, NEW s \in Places, NEW f, AnswerOK(f), Put(s, f)
    PROVE  AnswersOK'
BY DEF TypeOK, AnswersOK, AnswerOK, Put

LEMMA NoAnswerYet ==
    ASSUME TypeOK, NEW k \in Kinds, NEW u \in Maybe,
           NEW f, f = [Idle EXCEPT !.kind = k, !.user = u]
    PROVE  AnswerOK(Idle) /\ AnswerOK(f) /\ AnswerOK(Ask(f))
           /\ AnswerOK([f EXCEPT !.step = "password"])
<1>1. f = [kind |-> k, step |-> "idle", user |-> u, token |-> NoUser,
           reply |-> "none", status |-> "none", pan |-> NoUser]
  BY DEF Idle
<1>2. f.reply = "none" /\ Idle.reply = "none"
  BY <1>1 DEF Idle
<1>3. f \in Flow /\ token \in Maybe
  BY NewCallType DEF TypeOK
<1>4. [f EXCEPT !.step = "password"].reply = "none" /\ Ask(f).reply = "none"
  BY <1>2, <1>3 DEF Ask, Flow
<1> QED BY <1>2, <1>4 DEF AnswerOK

LEMMA SignOutAnswer ==
    ASSUME TypeOK, AnswersOK, NEW s \in Places, NEW st \in {"out", "cut"}, SignOut(s, st)
    PROVE  AnswersOK'
<1>1. AnswerOK([flows[s] EXCEPT !.step = st])
  <2>1. flows[s] \in Flow /\ AnswerOK(flows[s])
    BY FlowTypes DEF AnswersOK
  <2> QED BY <2>1 DEF AnswerOK, Flow
<1>2. Put(s, [flows[s] EXCEPT !.step = st])
  BY DEF TypeOK, SignOut, Put
<1> QED BY <1>1, <1>2, PutAnswer

LEMMA StepAnswers ==
    ASSUME TypeOK, AcctOK, AnswersOK, NEW s \in Places, Step(s)
    PROVE  AcctOK' /\ AnswersOK'
<1> DEFINE f == flows[s]
<1>1. f \in Flow /\ AnswerOK(f) /\ AnswerOK(Idle)
  BY FlowTypes, NoAnswerYet DEF AnswersOK, Kinds, Maybe
<1>2. ASSUME NEW st \in {"sent", "session"}, NEW x \in Maybe,
             f.step \in {"session", "refill"}
      PROVE  AnswerOK([f EXCEPT !.step = st, !.token = x])
  BY <1>1, <1>2 DEF AnswerOK, Flow
<1>3. CASE GetAccessToken(s)
  <2>1. PICK got \in {session, NoUser} :
          IF FoundDead(s, got) THEN SignOut(s, "out")
          ELSE IF f.kind = "health" THEN Put(s, Idle)
               ELSE Put(s, [f EXCEPT !.step = "sent", !.token = got])
    BY <1>3 DEF GetAccessToken
  <2>2. got \in Maybe
    BY DEF TypeOK, Maybe
  <2>3. AnswerOK([f EXCEPT !.step = "sent", !.token = got])
    BY <1>2, <1>3, <2>2 DEF GetAccessToken
  <2>4. AnswersOK'
    BY <1>1, <2>1, <2>3, PutAnswer, SignOutAnswer
  <2>5. QED BY <1>3, <2>4 DEF GetAccessToken, AcctOK
<1>4. CASE Serve(s)
  <2>1. CASE \E r \in {"401", "failed", "403"} :
               Put(s, [f EXCEPT !.step = "reply", !.reply = r]) /\ UNCHANGED acct
    <3>1. \A r \in {"401", "failed", "403"} :
             AnswerOK([f EXCEPT !.step = "reply", !.reply = r])
      BY <1>1 DEF AnswerOK, Flow
    <3>2. QED BY <2>1, <3>1, PutAnswer DEF AcctOK
  <2>2. CASE /\ f.token # NoUser /\ acct[f.token].status # "none"
             /\ acct' = [acct EXCEPT ![f.token].pan =
                           IF f.kind \in {"link", "both", "profile"} THEN f.token ELSE @]
             /\ Put(s, [[f EXCEPT !.step = "reply", !.reply = "ok"]
                          EXCEPT !.status = acct[f.token].status,
                                 !.pan = acct'[f.token].pan])
    <3>1. f.token \in Users
      BY <1>1, <2>2 DEF Maybe, Flow
    <3>2. /\ acct'[f.token].pan \in {NoUser, f.token}
          /\ f.kind \in {"link", "both", "profile"} => acct'[f.token].pan = f.token
      BY <2>2, <3>1 DEF AcctOK, TypeOK
    <3>3. AcctOK'
      BY <2>2, <3>1, <3>2 DEF AcctOK, TypeOK
    <3>4. AnswerOK([[f EXCEPT !.step = "reply", !.reply = "ok"]
                      EXCEPT !.status = acct[f.token].status, !.pan = acct'[f.token].pan])
      BY <1>1, <2>2, <3>2 DEF AnswerOK, Flow
    <3>5. QED BY <2>2, <3>3, <3>4, PutAnswer
  <2>3. QED BY <1>4, <2>1, <2>2 DEF Serve
<1>5. CASE SignedOut(s)
  BY <1>1, <1>5, PutAnswer, SignOutAnswer DEF SignedOut, AcctOK
<1>6. CASE ReceiveMe(s) \/ ReceivePoll(s) \/ ReceiveLink(s) \/ ReceiveProfile(s)
           \/ ReceiveUpload(s)
  BY <1>1, <1>6, PutAnswer
     DEF ReceiveMe, ReceivePoll, ReceiveLink, ReceiveProfile, ReceiveUpload, AcctOK
<1>7. CASE ReceiveLogout(s) \/ Intercept(s) \/ Fail(s)
  BY <1>1, <1>7, PutAnswer, SignOutAnswer DEF ReceiveLogout, Intercept, Fail, AcctOK
<1>8. CASE UpdatePassword(s)
  <2>1. CASE flows' = [flows EXCEPT ![s].step = "refill"] /\ f.step = "password"
    <3>1. AnswerOK([f EXCEPT !.step = "refill"])
      BY <1>1, <2>1 DEF AnswerOK, Flow
    <3>2. Put(s, [f EXCEPT !.step = "refill"])
      BY <2>1 DEF Put, TypeOK
    <3>3. QED BY <1>8, <3>1, <3>2, PutAnswer DEF UpdatePassword, AcctOK
  <2>2. QED BY <1>1, <1>8, <2>1, PutAnswer DEF UpdatePassword, AcctOK
<1>9. CASE RefillToken(s)
  <2>1. token' \in Maybe
    BY <1>9 DEF RefillToken, TypeOK
  <2>2. \A st \in {"sent", "session"} : AnswerOK([f EXCEPT !.step = st, !.token = token'])
    BY <1>2, <1>9, <2>1 DEF RefillToken
  <2>3. AnswersOK'
    BY <1>1, <1>9, <2>2, PutAnswer DEF RefillToken
  <2>4. QED BY <1>9, <2>3 DEF RefillToken, AcctOK
<1> QED BY <1>3, <1>4, <1>5, <1>6, <1>7, <1>8, <1>9 DEF Step

LEMMA NextAnswers ==
    ASSUME TypeOK, AcctOK, AnswersOK, [Next]_vars PROVE AcctOK' /\ AnswersOK'
<1>1. AnswerOK(Idle)
  BY NoAnswerYet DEF Kinds, Maybe
<1>2. ASSUME NEW s \in Places, Step(s) PROVE AcctOK' /\ AnswersOK'
  BY <1>2, StepAnswers
<1>3. ASSUME NEW u \in Users, NEW s \in Slots, HearIn(u, s) PROVE AnswersOK'
  BY <1>3, NoAnswerYet, PutAnswer, SlotsArePlaces DEF HearIn, Kinds, Maybe
<1>4. CASE Deliver
  <2>1. Head(mail) \in Maybe
    BY <1>4, MailFacts DEF Deliver
  <2>2. QED BY <1>3, <1>4, <2>1 DEF Deliver, AcctOK, AnswersOK, Maybe
<1>5. ASSUME NEW u \in Users, NEW s \in Slots, EmailSignIn(u, s)
      PROVE  AcctOK' /\ AnswersOK'
  BY <1>3, <1>5 DEF EmailSignIn, AcctOK
<1>6. ASSUME Load PROVE AcctOK' /\ AnswersOK'
  BY <1>1, <1>6 DEF Load, AcctOK, AnswersOK
<1>7. ASSUME NEW u \in Users, AdminSets(u) PROVE AcctOK' /\ AnswersOK'
  BY <1>7, AdminType DEF AdminSets, AcctOK, AnswersOK
<1>8. ASSUME NEW k \in Kinds, NEW s \in Slots, Begin(k, s) PROVE AcctOK' /\ AnswersOK'
  BY <1>8, NoAnswerYet, PutAnswer, SlotsArePlaces, StoreTypes DEF Begin, AcctOK
<1>9. CASE BeginHealth
  <2>1. AnswerOK([Idle EXCEPT !.kind = "health", !.step = "session"])
    BY DEF Idle, AnswerOK
  <2>2. QED BY <1>9, <2>1, PutAnswer, SlotsArePlaces DEF BeginHealth, AcctOK
<1>10. CASE \/ StrayLands \/ TokenExpires \/ TabFocus \/ SessionLost \/ UNCHANGED vars
            \/ \E u \in Maybe : OtherTab(u)
  BY <1>10 DEF StrayLands, TokenExpires, TabFocus, SessionLost, OtherTab, vars,
               AcctOK, AnswersOK
<1> QED BY <1>2, <1>4, <1>5, <1>6, <1>7, <1>8, <1>9, <1>10 DEF Next, Redirected, Reload

LEMMA InitAnswers == Init => AcctOK /\ AnswersOK
BY DEF Init, AcctOK, AnswersOK, AnswerOK, Idle

LEMMA Answered == Spec => [](TypeOK /\ AcctOK /\ AnswersOK)
<1> QED BY InitType, InitAnswers, NextType, NextAnswers, PTL DEF Spec

-----------------------------------------------------------------------------
(* The PAN of the account on screen.                                        *)

\* An answer to the account's own token has the account's PAN, if it has one.
LEMMA OwnAnswer ==
    ASSUME TypeOK, AnswersOK, NEW s \in Places, flows[s].reply = "ok", flows[s].pan # NoUser,
           ~AnswerOfAnother
    PROVE  flows[s].pan = store.userId
BY DEF AnswersOK, AnswerOK, AnswerOfAnother

LEMMA PanStep ==
    ASSUME TypeOK, AnswersOK, [Next]_vars,
           store.userId # NoUser, store'.userId = store.userId, Screen # "pending"
    PROVE  /\ store.pan # NoUser => store'.pan # NoUser
           /\ (store.pan = store.userId /\ ~AnswerOfAnother) => store'.pan = store.pan
<1>1. CASE store'.pan = store.pan
  BY <1>1
<1>2. CASE store' = Empty
  BY <1>2 DEF Empty
<1>3. ASSUME NEW s \in Places, flows[s].reply = "ok", store'.pan = flows[s].pan,
             flows[s].pan # NoUser
      PROVE  /\ store.pan # NoUser => store'.pan # NoUser
             /\ (store.pan = store.userId /\ ~AnswerOfAnother) => store'.pan = store.pan
  BY <1>3, OwnAnswer
<1>4. ASSUME NEW s \in Places, Step(s)
      PROVE  \/ store'.pan = store.pan \/ store' = Empty
             \/ flows[s].reply = "ok" /\ store'.pan = flows[s].pan /\ flows[s].pan # NoUser
  <2> USE FlowTypes, StoreTypes
  <2>1. CASE ReceiveMe(s)
    <3>1. KeepPan(flows[s].user) \in Maybe
      BY DEF KeepPan, Maybe
    <3>2. store'.userId = flows[s].user
      BY <2>1, <3>1, SetIdentityType DEF ReceiveMe
    <3>3. KeepPan(flows[s].user) = store.pan
      BY <3>2 DEF KeepPan
    <3>4. QED BY <2>1, <3>1, <3>3, SetIdentityType DEF ReceiveMe
  <2>2. CASE ReceivePoll(s)
    BY <2>2 DEF ReceivePoll, PollListens
  <2>3. CASE ReceiveLink(s)
    BY <2>3, SetIdentityType DEF ReceiveLink, AnswersOK, AnswerOK
  <2>4. CASE ReceiveProfile(s)
    BY <2>4, SetIdentityType DEF ReceiveProfile, AnswersOK, AnswerOK
  <2>5. CASE ReceiveUpload(s)
    BY <2>5 DEF ReceiveUpload, TypeOK
  <2>6. CASE SignedOut(s)
    BY <2>6 DEF SignedOut, ClearIdentity
  <2>7. CASE GetAccessToken(s) \/ Serve(s) \/ ReceiveLogout(s) \/ Intercept(s) \/ Fail(s)
             \/ UpdatePassword(s) \/ RefillToken(s)
    BY <2>7 DEF GetAccessToken, Serve, ReceiveLogout, Intercept, Fail, UpdatePassword,
                RefillToken
  <2>8. QED BY <1>4, <2>1, <2>2, <2>3, <2>4, <2>5, <2>6, <2>7 DEF Step
<1>5. ASSUME NEW u, NEW s \in Slots, HearIn(u, s) PROVE store'.pan = store.pan
  BY <1>5 DEF HearIn, TypeOK
<1>6. CASE Deliver
  BY <1>1, <1>2, <1>5, <1>6 DEF Deliver, HearOut, ClearIdentity
<1>7. ASSUME NEW u \in Users, NEW s \in Slots, EmailSignIn(u, s) PROVE store'.pan = store.pan
  BY <1>5, <1>7 DEF EmailSignIn
<1>8. ASSUME Load PROVE store'.pan = store.pan
  BY <1>8 DEF Load, TypeOK
<1>9. CASE StrayLands
  BY <1>2, <1>9 DEF StrayLands, HearOut, ClearIdentity
<1>10. CASE \/ TokenExpires \/ BeginHealth \/ TabFocus \/ SessionLost \/ UNCHANGED vars
            \/ \E u \in Maybe : OtherTab(u)
            \/ \E u \in Users : AdminSets(u)
            \/ \E k \in Kinds, s \in Slots : Begin(k, s)
  BY <1>1, <1>10 DEF TokenExpires, BeginHealth, TabFocus, SessionLost, OtherTab, AdminSets,
                     Begin, vars
<1> QED BY <1>1, <1>2, <1>3, <1>4, <1>6, <1>7, <1>8, <1>9, <1>10
        DEF Next, Redirected, Reload

\* Whatever the order of the answers, and with any number of calls, tabs and events, a
\* PAN stays in the store while its account stays signed in.
THEOREM PanNeverLost == Spec => PanKept
<1>1. TypeOK /\ AcctOK /\ AnswersOK /\ [Next]_vars =>
        [(store.userId # NoUser /\ store'.userId = store.userId /\ Screen # "pending")
           => /\ store.pan # NoUser => store'.pan # NoUser
              /\ (store.pan = store.userId /\ ~AnswerOfAnother) => store'.pan = store.pan]_vars
  BY PanStep
<1> QED BY <1>1, Answered, PTL DEF Spec, PanKept

-----------------------------------------------------------------------------
(* The setup panel.                                                         *)

LEMMA BothFields ==
    ASSUME Panel = {"password", "pan"}
    PROVE  Screen = "setup" /\ needs /\ store.pan = NoUser /\ store.userId # NoUser
<1>1. Screen = "setup" /\ RequirePan /\ RequirePassword
  BY DEF Panel, Asked
<1> QED BY <1>1 DEF RequirePan, RequirePassword, IsAuthenticated

LEMMA PanAlone ==
    ASSUME Panel' = {"pan"}
    PROVE  ~needs' /\ store'.pan = NoUser /\ store'.status = "active" /\ store'.userId # NoUser
<1>1. "pan" \in Panel' /\ "password" \notin Panel'
  OBVIOUS
<1>2. RequirePan' /\ ~RequirePassword'
  BY <1>1 DEF Panel, Asked
<1> QED BY <1>2 DEF RequirePan, RequirePassword, IsAuthenticated

LEMMA PanelStep ==
    ASSUME TypeOK, AnswersOK, [Next]_vars, Panel = {"password", "pan"}, Panel' = {"pan"}
    PROVE  mail' # mail \/ \E s \in Places : flows[s].kind = "password"
<1> USE BothFields, PanAlone
<1>1. needs' # needs
  <2>1. needs = TRUE
    BY FlagTypes
  <2>2. ~needs'
    OBVIOUS
  <2>3. QED BY <2>1, <2>2
<1>2. store' # Empty
  BY DEF Empty
<1>3. ASSUME NEW s \in Places, Step(s) PROVE flows[s].kind = "password"
  <2>1. CASE SignedOut(s)
    BY <1>2, <2>1 DEF SignedOut, ClearIdentity
  <2>2. CASE ReceiveLink(s)
    BY <2>2, FlowTypes, StoreTypes, SetIdentityType DEF ReceiveLink, AnswersOK, AnswerOK
  <2>3. CASE RefillToken(s)
    BY <1>1, <2>3, FlagTypes DEF RefillToken, CompletesPassword
  <2>4. CASE \/ GetAccessToken(s) \/ Serve(s) \/ ReceiveMe(s) \/ ReceivePoll(s)
             \/ ReceiveProfile(s) \/ ReceiveUpload(s) \/ ReceiveLogout(s)
             \/ Intercept(s) \/ Fail(s) \/ UpdatePassword(s)
    BY <1>1, <2>4
       DEF GetAccessToken, Serve, ReceiveMe, ReceivePoll, ReceiveProfile, ReceiveUpload,
           ReceiveLogout, Intercept, Fail, UpdatePassword
  <2>5. QED BY <1>3, <2>1, <2>2, <2>3, <2>4 DEF Step
<1>4. CASE Deliver
  <2>1. mail # <<>> /\ mail' = Tail(mail)
    BY <1>4 DEF Deliver
  <2>2. Len(Tail(mail)) = Len(mail) - 1 /\ Len(mail) \in Nat
    BY <2>1, MailFacts
  <2>3. Tail(mail) # mail
    <3>1. SUFFICES ASSUME Tail(mail) = mail PROVE FALSE
      OBVIOUS
    <3>2. Len(mail) = Len(mail) - 1
      BY <2>2, <3>1
    <3>3. QED BY <2>2, <3>2
  <2>4. QED BY <2>1, <2>3
<1>5. CASE StrayLands
  BY <1>2, <1>5 DEF StrayLands, HearOut, ClearIdentity
<1>6. ASSUME NEW u \in Users, NEW s \in Slots, EmailSignIn(u, s) PROVE FALSE
  BY <1>6 DEF EmailSignIn
<1>7. ASSUME Load PROVE FALSE
  BY <1>7 DEF Load, TypeOK
<1>8. CASE \/ TokenExpires \/ BeginHealth \/ TabFocus \/ SessionLost \/ UNCHANGED vars
           \/ \E u \in Maybe : OtherTab(u)
           \/ \E u \in Users : AdminSets(u)
           \/ \E k \in Kinds, s \in Slots : Begin(k, s)
  BY <1>1, <1>8 DEF TokenExpires, BeginHealth, TabFocus, SessionLost, OtherTab, AdminSets,
                    Begin, vars
<1> QED BY <1>3, <1>4, <1>5, <1>6, <1>7, <1>8 DEF Next, Redirected, Reload

\* The submit of both fields never flips the setup panel to a second one.
THEOREM PanelNeverFlips == Spec => OnePanel
<1>1. TypeOK /\ AcctOK /\ AnswersOK /\ [Next]_vars =>
        [(Panel = {"password", "pan"} /\ Panel' = {"pan"})
           => mail' # mail \/ \E s \in Places : flows[s].kind = "password"]_vars
  BY PanelStep
<1> QED BY <1>1, Answered, PTL DEF Spec, OnePanel

-----------------------------------------------------------------------------
(* One thing at a time.                                                     *)

\* What a step of a call leaves to show.
LEMMA CallMoves ==
    ASSUME TypeOK, calm, CalmOK, NEW s \in Places, ~IsIdle(s), NEW f, Put(s, f),
           mail' = mail, ~stray', OwnData', ProviderOK', CallOK(s)'
    PROVE  CalmOK'
<1>1. OneCall /\ NoSessionOK /\ \A x \in Places : CallOK(x)
  BY DEF CalmOK
<1>2. \A x \in Places \ {s} : flows[x].step = "idle" /\ flows'[x] = flows[x]
  BY <1>1 DEF OneCall, IsIdle, Put, TypeOK
<1>3. OneCall'
  BY <1>2 DEF OneCall, IsIdle
<1>4. NoSessionOK'
  BY <1>1 DEF NoSessionOK, AllIdle
<1>5. ASSUME NEW x \in Places PROVE CallOK(x)'
  <2>1. CASE x = s
    BY <2>1
  <2>2. CASE x # s
    BY <1>2, <2>2 DEF CallOK
  <2>3. QED BY <2>1, <2>2
<1> QED BY <1>3, <1>4, <1>5 DEF CalmOK

\* The call ends, and leaves the session and the account alone.
LEMMA CallEnds ==
    ASSUME TypeOK, calm, CalmOK, NEW s \in Places, ~IsIdle(s), Put(s, Idle),
           UNCHANGED <<session, mail, stray>>, store'.userId = store.userId,
           {store'.pan, store'.tax, token'} \subseteq {NoUser, store.userId}
    PROVE  CalmOK'
<1>1. CallOK(s)'
  BY DEF CallOK, Put, TypeOK, Idle
<1>2. OwnData' /\ ProviderOK' /\ ~stray'
  BY DEF OwnData, ProviderOK, CalmOK
<1> QED BY <1>1, <1>2, CallMoves

\* A call that has not come to its sign-out is of the account in the store, as is its
\* answer and the session there is.
LEMMA CallFacts ==
    ASSUME TypeOK, AnswersOK, calm, CalmOK, NEW s \in Places,
           flows[s].step \in {"session", "sent", "reply", "password", "refill"}
    PROVE  /\ ~IsIdle(s) /\ store.userId # NoUser /\ session \in {NoUser, store.userId}
           /\ flows[s].token \in {NoUser, store.userId}
           /\ flows[s].kind # "health" => flows[s].user = store.userId
           /\ flows[s].reply = "ok" =>
                flows[s].token = store.userId /\ flows[s].pan \in {NoUser, store.userId}
           /\ {store.pan, store.tax, token} \subseteq {NoUser, store.userId}
<1>1. CallOK(s) /\ ProviderOK /\ OwnData
  BY DEF CalmOK
<1>2. store.userId # NoUser /\ session \in {NoUser, store.userId}
  BY <1>1 DEF CallOK, ProviderOK
<1> QED BY <1>1, <1>2 DEF CallOK, OwnData, IsIdle, AnswersOK, AnswerOK

\* The call goes on, and leaves the session and the store alone.
LEMMA CallGoesOn ==
    ASSUME TypeOK, calm, CalmOK, NEW s \in Places, ~IsIdle(s), NEW f, Put(s, f),
           UNCHANGED <<session, store, mail, stray>>, token' \in {NoUser, store.userId},
           f.step \in {"session", "sent", "reply", "password", "refill"} =>
              /\ store.userId # NoUser /\ f.token \in {NoUser, store.userId}
              /\ f.kind # "health" => f.user = store.userId,
           f.step \in {"out", "cut"} => token' = NoUser
    PROVE  CalmOK'
<1>1. CallOK(s)'
  BY DEF CallOK, Put, TypeOK
<1>2. OwnData' /\ ProviderOK' /\ ~stray'
  BY DEF OwnData, ProviderOK, CalmOK
<1> QED BY <1>1, <1>2, CallMoves

LEMMA SigningOut ==
    ASSUME TypeOK, calm, CalmOK, NEW s \in Places, ~IsIdle(s), NEW st \in {"out", "cut"},
           SignOut(s, st), UNCHANGED <<session, store, mail, stray>>
    PROVE  CalmOK'
<1> DEFINE f == [flows[s] EXCEPT !.step = st]
<1>1. Put(s, f) /\ token' = NoUser /\ f.step = st
  BY FlowTypes DEF SignOut, Put, TypeOK, Flow
<1> QED BY <1>1, CallGoesOn

LEMMA StepCalm ==
    ASSUME TypeOK, AnswersOK, CalmOK, NEW s \in Places, Step(s)
    PROVE  CalmOK'
<1> SUFFICES ASSUME calm' PROVE CalmOK'
  BY DEF CalmOK
<1> DEFINE f == flows[s]
           u == store.userId
<1> USE FlowTypes, StoreTypes
<1>1. calm /\ (SignedOut(s) => \A late \in BOOLEAN : calm' = (calm /\ ~late) => ~late)
  BY FlagTypes
     DEF Step, GetAccessToken, Serve, SignedOut, ReceiveMe, ReceivePoll, ReceiveLink,
         ReceiveProfile, ReceiveUpload, ReceiveLogout, Intercept, Fail, UpdatePassword,
         RefillToken
<1>2. CASE GetAccessToken(s)
  <2>1. f.step = "session"
    BY <1>2 DEF GetAccessToken
  <2>2. PICK got \in {session, NoUser} :
          /\ IF FoundDead(s, got) THEN SignOut(s, "out")
             ELSE token' = got /\ IF f.kind = "health" THEN Put(s, Idle)
                  ELSE Put(s, [f EXCEPT !.step = "sent", !.token = got])
          /\ UNCHANGED <<session, store, mail, stray>>
    BY <1>2 DEF GetAccessToken
  <2>3. got \in {NoUser, u} /\ got \in Maybe
    BY <1>1, <2>1, CallFacts DEF TypeOK, Maybe
  <2>4. CASE FoundDead(s, got)
    BY <1>1, <2>1, <2>2, <2>4, SigningOut, CallFacts
  <2>5. CASE ~FoundDead(s, got) /\ f.kind = "health"
    BY <1>1, <2>1, <2>2, <2>3, <2>5, CallEnds, CallFacts
  <2>6. CASE ~FoundDead(s, got) /\ f.kind # "health"
    <3> DEFINE g == [f EXCEPT !.step = "sent", !.token = got]
    <3>1. g.step = "sent" /\ g.token = got /\ g.user = f.user /\ g.kind = f.kind
      BY DEF Flow
    <3>2. Put(s, g)
      BY <2>2, <2>6
    <3> HIDE DEF g
    <3>3. QED BY <1>1, <2>1, <2>2, <2>3, <2>6, <3>1, <3>2, CallGoesOn, CallFacts
  <2>7. QED BY <2>4, <2>5, <2>6
<1>3. CASE Serve(s)
  <2>1. f.step = "sent" /\ UNCHANGED <<session, token, store, mail, stray>>
    BY <1>3 DEF Serve
  <2>2. PICK g : Put(s, g) /\ g.step = "reply" /\ g.token = f.token
                 /\ g.kind = f.kind /\ g.user = f.user
    <3>2. ASSUME NEW r PROVE LET g == [f EXCEPT !.step = "reply", !.reply = r]
                             IN  g.step = "reply" /\ g.token = f.token /\ g.kind = f.kind
                                 /\ g.user = f.user
      BY DEF Flow
    <3>3. ASSUME NEW r, NEW st, NEW p
          PROVE  LET h == [f EXCEPT !.step = "reply", !.reply = r]
                     g == [h EXCEPT !.status = st, !.pan = p]
                 IN  g.step = "reply" /\ g.token = f.token /\ g.kind = f.kind
                     /\ g.user = f.user
      <4> DEFINE h == [f EXCEPT !.step = "reply", !.reply = r]
                 g == [h EXCEPT !.status = st, !.pan = p]
      <4>1. /\ DOMAIN h = DOMAIN f /\ h.step = "reply" /\ h.token = f.token
            /\ h.kind = f.kind /\ h.user = f.user
        BY <3>2 DEF Flow
      <4>2. DOMAIN f = {"kind", "step", "user", "token", "reply", "status", "pan"}
        BY DEF Flow
      <4> HIDE DEF h
      <4>3. QED BY <4>1, <4>2
    <3>4. CASE \E r \in {"401", "403", "failed"} : Put(s, [f EXCEPT !.step = "reply", !.reply = r])
      BY <3>2, <3>4
    <3>5. CASE Put(s, [[f EXCEPT !.step = "reply", !.reply = "ok"]
                         EXCEPT !.status = acct[f.token].status,
                                !.pan = acct'[f.token].pan])
      <4> DEFINE g == [[f EXCEPT !.step = "reply", !.reply = "ok"]
                         EXCEPT !.status = acct[f.token].status,
                                !.pan = acct'[f.token].pan]
      <4>1. Put(s, g)
        BY <3>5
      <4>2. g.step = "reply" /\ g.token = f.token /\ g.kind = f.kind /\ g.user = f.user
        BY <3>3
      <4> HIDE DEF g
      <4>3. QED BY <4>1, <4>2
    <3>6. QED BY <1>3, <3>4, <3>5 DEF Serve
  <2>3. QED BY <1>1, <2>1, <2>2, CallGoesOn, CallFacts
<1>4. CASE SignedOut(s)
  <2>1. f.step \in {"out", "cut"} /\ token = NoUser
    BY <1>1, <1>4 DEF SignedOut, CalmOK, CallOK
  <2>2. PICK late \in BOOLEAN :
          /\ session' = IF late THEN session ELSE NoUser
          /\ stray' = (stray \/ late)
          /\ calm' = (calm /\ ~late)
    BY <1>4 DEF SignedOut
  <2>3. ~late
    BY <1>1, <1>4, <2>2
  <2>4. session' = NoUser /\ ~stray' /\ store' = Empty /\ mail' = mail
    BY <1>1, <1>4, <2>2, <2>3 DEF SignedOut, ClearIdentity, CalmOK
  <2>5. token' = NoUser
    BY <1>4, <2>1 DEF SignedOut, SignOut
  <2>6. OwnData' /\ ProviderOK'
    BY <2>4, <2>5 DEF OwnData, ProviderOK, Empty
  <2>7. PICK g : Put(s, g) /\ g.step \in {"idle", "out"}
    <3>1. CASE SignOut(s, "out")
      <4>1. Put(s, [f EXCEPT !.step = "out"]) /\ [f EXCEPT !.step = "out"].step = "out"
        BY <3>1 DEF SignOut, Put, TypeOK, Flow
      <4>2. QED BY <4>1
    <3>2. CASE Put(s, Idle)
      BY <3>2 DEF Idle
    <3>3. QED BY <1>4, <3>1, <3>2 DEF SignedOut
  <2>8. CallOK(s)'
    BY <2>5, <2>7 DEF CallOK, Put, TypeOK
  <2>9. QED BY <1>1, <2>1, <2>4, <2>6, <2>7, <2>8, CallMoves DEF IsIdle
<1>5. CASE ReceiveMe(s)
  <2>1. f.step = "reply" /\ f.reply = "ok" /\ f.kind # "health" /\ Put(s, Idle)
        /\ UNCHANGED <<session, mail, stray, token>>
    BY <1>5 DEF ReceiveMe
  <2>2. KeepPan(u) = store.pan /\ f.user = u
    BY <1>1, <2>1, CallFacts DEF KeepPan
  <2>3. SetIdentity(u, IF f.pan # NoUser THEN f.pan ELSE store.pan, f.status)
    BY <1>5, <2>2 DEF ReceiveMe
  <2>4. QED BY <1>1, <2>1, <2>3, SetIdentityType, CallFacts, CallEnds
<1>6. CASE ReceivePoll(s)
  <2>1. f.step = "reply" /\ f.reply = "ok" /\ f.kind # "health" /\ Put(s, Idle)
        /\ UNCHANGED <<session, mail, stray, token>>
    BY <1>6 DEF ReceivePoll
  <2>2. SetIdentity(u, f.pan, f.status) \/ UNCHANGED store
    BY <1>1, <1>6, <2>1, CallFacts DEF ReceivePoll
  <2>3. QED BY <1>1, <2>1, <2>2, SetIdentityType, CallFacts, CallEnds
<1>7. CASE ReceiveLink(s)
  <2>1. f.step = "reply" /\ f.reply = "ok" /\ f.kind # "health" /\ Put(s, Idle)
        /\ UNCHANGED <<session, mail, stray, token>>
    BY <1>7 DEF ReceiveLink
  <2>2. SetIdentity(u, f.pan, store.status)
    BY <1>1, <1>7, <2>1, CallFacts DEF ReceiveLink
  <2>3. QED BY <1>1, <2>1, <2>2, SetIdentityType, CallFacts, CallEnds
<1>8. CASE ReceiveProfile(s)
  <2>1. f.step = "reply" /\ f.reply = "ok" /\ f.kind # "health" /\ Put(s, Idle)
        /\ UNCHANGED <<session, mail, stray, token>>
    BY <1>8 DEF ReceiveProfile
  <2>2. SetIdentity(u, f.pan, store.status)
    BY <1>1, <1>8, <2>1, CallFacts DEF ReceiveProfile
  <2>3. QED BY <1>1, <2>1, <2>2, SetIdentityType, CallFacts, CallEnds
<1>9. CASE ReceiveUpload(s)
  <2>1. f.step = "reply" /\ f.reply = "ok" /\ Put(s, Idle)
        /\ UNCHANGED <<session, mail, stray, token>>
    BY <1>9 DEF ReceiveUpload
  <2>2. store' = [store EXCEPT !.tax = u] \/ store' = store
    BY <1>1, <1>9, <2>1, CallFacts DEF ReceiveUpload, TaxSessionOf
  <2>3. store'.userId = u /\ {store'.pan, store'.tax} \subseteq {NoUser, u}
    BY <1>1, <2>1, <2>2, CallFacts DEF TypeOK
  <2>4. QED BY <1>1, <2>1, <2>3, CallFacts, CallEnds
<1>10. CASE ReceiveLogout(s)
  BY <1>1, <1>10, CallFacts, SigningOut DEF ReceiveLogout
<1>11. CASE Intercept(s)
  BY <1>1, <1>11, CallFacts, SigningOut DEF Intercept
<1>12. CASE Fail(s)
  BY <1>1, <1>12, CallFacts, SigningOut, CallEnds DEF Fail
<1>13. CASE UpdatePassword(s)
  <2>1. f.step = "password" /\ UNCHANGED <<session, store, mail, stray>>
    BY <1>13 DEF UpdatePassword
  <2>2. CASE flows' = [flows EXCEPT ![s].step = "refill"] /\ token' = NoUser
    <3> DEFINE g == [f EXCEPT !.step = "refill"]
    <3>1. g.step = "refill" /\ g.token = f.token /\ g.user = f.user /\ g.kind = f.kind
      BY DEF Flow
    <3>2. Put(s, g)
      BY <2>2 DEF Put, TypeOK
    <3> HIDE DEF g
    <3>3. QED BY <1>1, <2>1, <2>2, <3>1, <3>2, CallGoesOn, CallFacts
  <2>3. QED BY <1>1, <1>13, <2>1, <2>2, CallEnds, CallFacts DEF UpdatePassword
<1>14. CASE RefillToken(s)
  <2>1. f.step = "refill" /\ UNCHANGED <<session, store, mail, stray>>
        /\ token' \in {session, token}
    BY <1>14 DEF RefillToken
  <2>2. token' \in {NoUser, u}
    BY <1>1, <2>1, CallFacts
  <2>3. ASSUME NEW st \in {"sent", "session"}, Put(s, [f EXCEPT !.step = st, !.token = token'])
        PROVE  CalmOK'
    <3> DEFINE g == [f EXCEPT !.step = st, !.token = token']
    <3>1. g.step = st /\ g.token = token' /\ g.user = f.user /\ g.kind = f.kind
      BY DEF Flow
    <3>2. Put(s, g)
      BY <2>3
    <3> HIDE DEF g
    <3>3. QED BY <1>1, <2>1, <2>2, <3>1, <3>2, CallGoesOn, CallFacts
  <2>4. CASE Put(s, Idle)
    BY <1>1, <2>1, <2>2, <2>4, CallEnds, CallFacts
  <2>5. QED BY <1>14, <2>3, <2>4 DEF RefillToken
<1> QED BY <1>2, <1>3, <1>4, <1>5, <1>6, <1>7, <1>8, <1>9, <1>10, <1>11, <1>12,
           <1>13, <1>14 DEF Step

LEMMA HearInCalm ==
    ASSUME TypeOK, CalmOK, NEW u \in Users, NEW s \in Slots, HearIn(u, s),
           calm', UNCHANGED <<token, stray>>, session' \in {NoUser, u},
           \A i \in 1..Len(mail') : mail'[i] # NoUser
    PROVE  CalmOK'
<1> DEFINE g == Ask([Idle EXCEPT !.kind = "auth", !.user = u])
<1>1. calm /\ AllIdle /\ store.userId \in {u, NoUser} /\ Put(s, g) /\ s \in Places
  BY FlagTypes, SlotsArePlaces DEF HearIn
<1>2. /\ store'.userId = u /\ store'.pan = store.pan /\ store'.tax = store.tax
      /\ u # NoUser
  BY HearInType, BoundsAssumption
<1>3. OwnData /\ ~stray
  BY <1>1 DEF CalmOK
<1>4. OwnData' /\ ProviderOK' /\ NoSessionOK' /\ ~stray'
  BY <1>1, <1>2, <1>3 DEF OwnData, ProviderOK, NoSessionOK
<1>5. g.kind = "auth" /\ g.user = u /\ g.step \in {"sent", "session"} /\ g.token = token
  BY DEF Ask, Idle
<1> HIDE DEF g
<1>6. \A x \in Places : flows[x].step = "idle"
  BY <1>1 DEF AllIdle, IsIdle
<1>7. \A x \in Places : flows'[x] = IF x = s THEN g ELSE flows[x]
  BY <1>1 DEF Put, TypeOK
<1>8. OneCall'
  BY <1>6, <1>7 DEF OneCall, IsIdle
<1>9. ASSUME NEW x \in Places PROVE CallOK(x)'
  <2>1. token \in {NoUser, u}
    BY <1>1, <1>3 DEF OwnData
  <2>2. CASE x = s
    BY <1>2, <1>5, <1>7, <2>1, <2>2 DEF CallOK
  <2>3. CASE x # s
    BY <1>6, <1>7, <2>3 DEF CallOK
  <2>4. QED BY <2>2, <2>3
<1> QED BY <1>4, <1>8, <1>9 DEF CalmOK

\* A call begins while nothing else is on its way.
LEMMA CallBegins ==
    ASSUME TypeOK, CalmOK, calm, AllIdle, NEW s \in Places, NEW f, Put(s, f),
           UNCHANGED <<session, token, store, mail, stray>>,
           \A i \in 1..Len(mail) : mail[i] # NoUser,
           f.step \in {"session", "sent", "password"}, store.userId # NoUser,
           f.token \in {NoUser, store.userId},
           f.kind # "health" => f.user = store.userId
    PROVE  CalmOK'
<1>1. OwnData' /\ ProviderOK' /\ NoSessionOK' /\ ~stray'
  BY DEF OwnData, ProviderOK, NoSessionOK, CalmOK
<1>2. \A x \in Places : flows[x].step = "idle"
  BY DEF AllIdle, IsIdle
<1>3. \A x \in Places : flows'[x] = IF x = s THEN f ELSE flows[x]
  BY DEF Put, TypeOK
<1>4. OneCall'
  BY <1>2, <1>3 DEF OneCall, IsIdle
<1>5. ASSUME NEW x \in Places PROVE CallOK(x)'
  <2>1. CASE x = s
    BY <1>3, <2>1 DEF CallOK
  <2>2. CASE x # s
    BY <1>2, <1>3, <2>2 DEF CallOK
  <2>3. QED BY <2>1, <2>2
<1> QED BY <1>1, <1>4, <1>5 DEF CalmOK

LEMMA LoadCalm ==
    ASSUME TypeOK, CalmOK, calm, Load, session' \in Maybe,
           session' # NoUser => store.userId \in {session', NoUser}
    PROVE  CalmOK'
<1>1. /\ token' = NoUser /\ ~stray' /\ resolving' /\ mail' = <<session'>>
      /\ \A x \in Places : flows'[x].step = "idle"
      /\ store'.userId = store.userId /\ store'.pan = store.pan /\ store'.tax = store.tax
  BY DEF Load, Idle, TypeOK
<1>2. OwnData' /\ ProviderOK'
  BY <1>1 DEF OwnData, ProviderOK, CalmOK
<1>3. AllIdle' /\ OneCall' /\ \A x \in Places : CallOK(x)'
  BY <1>1 DEF AllIdle, OneCall, IsIdle, CallOK
<1>4. NoSessionOK'
  BY <1>1, <1>3 DEF NoSessionOK
<1> QED BY <1>1, <1>2, <1>3, <1>4 DEF CalmOK

\* A screen with something to start shows an account.
LEMMA OfferedFacts ==
    /\ Offered # {} => ~resolving /\ IsAuthenticated
    /\ Screen = "landing" => ~resolving /\ ~IsAuthenticated
<1>1. Offered # {} => Screen \in {"app", "setup", "pending", "suspended"}
  BY DEF Offered
<1>2. Screen \in {"app", "setup", "pending", "suspended"} => ~resolving /\ IsAuthenticated
  BY DEF Screen, RequirePassword, RequirePan
<1>3. Screen = "landing" => ~resolving /\ ~IsAuthenticated
  BY DEF Screen
<1> QED BY <1>1, <1>2, <1>3

LEMMA NextCalm == ASSUME IInv, [Next]_vars PROVE CalmOK'
<1> SUFFICES ASSUME calm' PROVE CalmOK'
  BY DEF CalmOK
<1> USE FlagTypes, StoreTypes, SlotsArePlaces DEF IInv
<1>1. ASSUME NEW s \in Places, Step(s) PROVE CalmOK'
  BY <1>1, StepCalm
<1>2. calm => OwnData /\ ProviderOK /\ NoSessionOK /\ ~stray
  BY DEF CalmOK
<1>3. CASE Deliver
  <2>1. mail # <<>> /\ mail' = Tail(mail) /\ UNCHANGED <<session, token, stray>>
    BY <1>3 DEF Deliver
  <2>2. CASE Head(mail) = NoUser /\ HearOut /\ UNCHANGED flows /\ calm' = (calm /\ AllIdle)
    <3>1. calm /\ AllIdle /\ mail[1] = NoUser /\ Len(mail) >= 1 /\ store' = Empty
      BY <2>1, <2>2, MailFacts DEF HearOut, ClearIdentity
    <3>2. session = NoUser /\ token = NoUser
      BY <1>2, <3>1, MailFacts DEF NoSessionOK
    <3>3. \A i \in 1..Len(mail') : mail'[i] # NoUser
      BY <1>2, <2>1, <3>1, MailFacts DEF NoSessionOK
    <3>4. OwnData' /\ ProviderOK' /\ NoSessionOK' /\ ~stray'
      BY <1>2, <2>1, <3>1, <3>2, <3>3 DEF OwnData, ProviderOK, NoSessionOK, Empty
    <3>5. OneCall' /\ \A x \in Places : CallOK(x)'
      BY <2>2, <3>1 DEF AllIdle, IsIdle, OneCall, CallOK
    <3>6. QED BY <3>4, <3>5 DEF CalmOK
  <2>3. ASSUME NEW s \in Slots, Head(mail) # NoUser, HearIn(Head(mail), s)
        PROVE  CalmOK'
    <3>1. /\ Head(mail) \in Users /\ Head(mail) = mail[1] /\ Len(mail) >= 1
          /\ Len(mail') = Len(mail) - 1
          /\ \A i \in 1..Len(mail') : mail'[i] = mail[i + 1]
      BY <2>1, <2>3, MailFacts DEF Maybe
    <3>2. calm /\ store.userId \in {Head(mail), NoUser}
      BY <2>3 DEF HearIn
    <3>3. session \in {NoUser, Head(mail)}
      BY <1>2, <3>1, <3>2, MailFacts DEF ProviderOK
    <3>4. \A i \in 1..Len(mail') : mail'[i] # NoUser
      BY <1>2, <3>1, <3>2, MailFacts DEF NoSessionOK
    <3>5. QED BY <2>1, <2>3, <3>1, <3>3, <3>4, HearInCalm
  <2>4. QED BY <1>3, <2>2, <2>3 DEF Deliver
<1>4. CASE StrayLands
  BY <1>2, <1>4 DEF StrayLands
<1>5. CASE TokenExpires
  <2>1. calm /\ token' = NoUser /\ UNCHANGED <<session, store, flows, mail, stray, resolving>>
    BY <1>5 DEF TokenExpires
  <2>2. OwnData' /\ ProviderOK' /\ NoSessionOK' /\ ~stray'
    BY <1>2, <2>1 DEF OwnData, ProviderOK, NoSessionOK, AllIdle, IsIdle
  <2>3. OneCall' /\ \A x \in Places : CallOK(x)'
    BY <2>1 DEF CalmOK, IsIdle, OneCall, CallOK
  <2>4. QED BY <2>2, <2>3 DEF CalmOK
<1>6. CASE BeginHealth
  <2>1. calm /\ AllIdle /\ mail = <<>> /\ IsAuthenticated
    BY <1>6 DEF BeginHealth
  <2>2. store.userId # NoUser
    BY <1>2, <2>1 DEF IsAuthenticated, OwnData
  <2> DEFINE g == [Idle EXCEPT !.kind = "health", !.step = "session"]
  <2>3. Put(Health, g) /\ g.step = "session" /\ g.kind = "health" /\ g.token = NoUser
    BY <1>6 DEF BeginHealth, Idle
  <2> HIDE DEF g
  <2>4. QED BY <1>6, <2>1, <2>2, <2>3, CallBegins DEF BeginHealth
<1>7. ASSUME NEW u \in Users, NEW s \in Slots, EmailSignIn(u, s) PROVE CalmOK'
  <2>1. ~resolving /\ HearIn(u, s) /\ session' = u /\ UNCHANGED <<token, mail, stray>>
    BY <1>7, OfferedFacts DEF EmailSignIn
  <2>2. calm
    BY <2>1 DEF HearIn
  <2>3. \A i \in 1..Len(mail') : mail'[i] # NoUser
    BY <1>2, <2>1, <2>2 DEF NoSessionOK
  <2>4. QED BY <2>1, <2>3, HearInCalm
<1>8. ASSUME NEW u \in Users, Redirected(u) PROVE CalmOK'
  BY <1>8, LoadCalm DEF Redirected, Maybe
<1>9. ASSUME NEW u \in Users, AdminSets(u) PROVE CalmOK'
  <2>1. UNCHANGED <<calm, session, token, store, flows, mail, stray, resolving>>
    BY <1>9 DEF AdminSets
  <2>2. QED BY <2>1
        DEF CalmOK, OneCall, OwnData, ProviderOK, NoSessionOK, CallOK, AllIdle, IsIdle
<1>10. ASSUME NEW k \in Kinds, NEW s \in Slots, Begin(k, s) PROVE CalmOK'
  <2>1. calm /\ AllIdle /\ ~resolving /\ IsAuthenticated
        /\ UNCHANGED <<session, token, store, mail, stray>>
    BY <1>10, OfferedFacts DEF Begin
  <2>2. store.userId # NoUser /\ token \in {NoUser, store.userId}
    BY <1>2, <2>1 DEF IsAuthenticated, OwnData
  <2>3. \A i \in 1..Len(mail) : mail[i] # NoUser
    BY <1>2, <2>1 DEF NoSessionOK
  <2> DEFINE f == [Idle EXCEPT !.kind = k, !.user = store.userId]
  <2>4. PICK g : Put(s, g) /\ g \in {[f EXCEPT !.step = "password"], Ask(f)}
    BY <1>10 DEF Begin
  <2>5. /\ g.step \in {"session", "sent", "password"} /\ g.token \in {NoUser, token}
        /\ g.user = store.userId
    BY <2>4 DEF Idle, Ask
  <2>6. QED BY <2>1, <2>2, <2>3, <2>4, <2>5, CallBegins
<1>11. ASSUME NEW u \in Maybe, OtherTab(u) PROVE CalmOK'
  BY <1>11 DEF OtherTab
<1>12. CASE Reload
  <2>1. calm /\ session' = session /\ Load
    BY <1>12 DEF Reload
  <2>2. QED BY <1>2, <2>1, LoadCalm DEF ProviderOK, TypeOK
<1>13. CASE TabFocus
  <2>1. calm /\ session # NoUser /\ mail' = Append(mail, session) /\ session \in Maybe
        /\ UNCHANGED <<session, token, store, flows, stray, resolving>>
    BY <1>13 DEF TabFocus, TypeOK
  <2>2. /\ Len(mail') = Len(mail) + 1 /\ Len(mail) \in Nat
        /\ \A i \in 1..Len(mail') : mail'[i] \in {session} \/ i <= Len(mail)
        /\ \A i \in 1..Len(mail) : mail'[i] = mail[i]
    BY <2>1, MailFacts
  <2>3. ProviderOK' /\ NoSessionOK'
    BY <1>2, <2>1, <2>2 DEF ProviderOK, NoSessionOK
  <2>4. OwnData' /\ OneCall' /\ ~stray' /\ \A x \in Places : CallOK(x)'
    BY <2>1 DEF CalmOK, OwnData, OneCall, IsIdle, CallOK
  <2>5. QED BY <2>3, <2>4 DEF CalmOK
<1>14. CASE SessionLost
  <2>1. calm /\ session # NoUser /\ session' = NoUser
        /\ UNCHANGED <<token, store, flows, mail, stray, resolving>>
    BY <1>14 DEF SessionLost
  <2>2. OwnData' /\ ProviderOK' /\ NoSessionOK' /\ ~stray'
    BY <1>2, <2>1 DEF OwnData, ProviderOK, NoSessionOK
  <2>3. OneCall' /\ \A x \in Places : CallOK(x)'
    BY <2>1 DEF CalmOK, OneCall, IsIdle, CallOK
  <2>4. QED BY <2>2, <2>3 DEF CalmOK
<1>15. CASE UNCHANGED vars
  BY <1>15 DEF vars, CalmOK, OneCall, OwnData, ProviderOK, NoSessionOK, CallOK, AllIdle,
               IsIdle
<1> QED BY <1>1, <1>3, <1>4, <1>5, <1>6, <1>7, <1>8, <1>9, <1>10, <1>11, <1>12,
           <1>13, <1>14, <1>15 DEF Next

LEMMA InitCalm == Init => CalmOK
<1> SUFFICES ASSUME Init PROVE CalmOK
  OBVIOUS
<1>1. \A x \in Places : flows[x].step = "idle"
  BY DEF Init, Idle
<1>2. OneCall /\ AllIdle /\ \A x \in Places : CallOK(x)
  BY <1>1 DEF OneCall, AllIdle, IsIdle, CallOK
<1>3. OwnData /\ ProviderOK /\ NoSessionOK /\ ~stray
  BY <1>2 DEF Init, OwnData, ProviderOK, NoSessionOK, Empty
<1> QED BY <1>2, <1>3 DEF CalmOK

LEMMA Inductive == Spec => []IInv
<1>1. Init => IInv
  BY InitType, InitAnswers, InitCalm DEF IInv
<1>2. IInv /\ [Next]_vars => IInv'
  BY NextType, NextAnswers, NextCalm DEF IInv
<1> QED BY <1>1, <1>2, PTL DEF Spec

\* For every number of accounts, reloads, lost sessions and failed requests: with one
\* thing at a time the store, the token and the session are of one account.
THEOREM OneAccount == Spec => []StoreOfOneAccount
<1>1. IInv => StoreOfOneAccount
  BY DEF IInv, CalmOK, OwnData, ProviderOK, StoreOfOneAccount
<1> QED BY <1>1, Inductive, PTL
=============================================================================
