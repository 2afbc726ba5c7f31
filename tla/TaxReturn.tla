----------------------------- MODULE TaxReturn -----------------------------
(***************************************************************************)
(* The tabs of an open tax session.  Each shows figures the server computed    *)
(* and lets the user correct what they were computed from: deductions, other   *)
(* income, losses brought forward, the cost of a sale.  A form is filled from   *)
(* the overrides that come with the figures and is sent whole at every edit; a   *)
(* save that succeeds invalidates the figures, and those on screen are read     *)
(* again.                                                                  *)
(*                                                                         *)
(* React Query holds the figures.  It reads on mount what is missing or          *)
(* invalidated, never twice at a time.  Invalidating restarts the read of a key   *)
(* on screen that has data already; a first read, or one the user has left,      *)
(* runs on, and its answer counts as fresh.  Data that is five minutes old, read   *)
(* again on mount, is left out.  A document the server does not have (the filed    *)
(* return) is an error to its reader and stays missing.                         *)
(***************************************************************************)
EXTENDS Naturals, FiniteSets, Functions

CONSTANTS
    Boxes, Scalars,        \* of a form; Scalars of them are overrides of their own
    MaxReturnClicks        \* bound on saves and on changes of tab and regime

VARIABLES
    server,                \* what the user entered, as the server has it
    tab, regime,
    form, focus,           \* the form of the tab; the box being typed in
    cached, invalid,       \* the figures by key; the invalidated ones
    reading,               \* for each key being read, the figures the answer may hold
    saves,                 \* saves under way
    clicks,
    mishaps                \* what happened that the tabs do not make good (history);
                           \* and a bound: nothing is followed after it

vars == <<server, tab, regime, form, focus, cached, invalid, reading, saves, clicks,
          mishaps>>

Amounts == {0, 1}
Untouched == [f \in Boxes |-> 0]
Nothing == <<>>
NoBox == "none"
Forms == [income |-> "business", savings |-> "deductions", gains |-> "losses"]
Overrides == {"business", "deductions", "losses"}
Parts == Overrides \union {"trades", "filed"}
Tabs == {"overview", "income", "savings", "gains", "itr"}
Regimes == {"new", "old"}
Keys == Regimes \union {"compare", "gains", "itr"}

\* The key of each useQuery of tab t.
KeysOf(t, r) ==
    CASE t = "overview" -> {"new", "old", "compare"}
      [] t = "savings"  -> {"new", "old"}
      [] t = "income"   -> {r}
      [] t = "gains"    -> {"gains", r}
      [] OTHER          -> {"itr", r}

\* What the answer to key k is computed from.
Depends(k) ==
    CASE k = "gains" -> {"losses", "trades"}
      [] k = "itr"   -> {"filed"}
      [] OTHER       -> Overrides \union {"trades"}
Figures(k, s) == Restrict(s, Depends(k))

\* The key whose answer fills the form of tab t.
Source(t, r) == CASE t = "savings" -> "old" [] t = "gains" -> "gains" [] OTHER -> r

\* A form filled from figures: an override of its own that is 0 fills nothing.
Loose(part, f) == part \in {"business", "deductions"} /\ f \in Scalars
Seeded(t, figures, old) ==
    IF t \notin DOMAIN Forms \/ figures = Nothing THEN old
    ELSE LET entered == figures[Forms[t]]
         IN [f \in Boxes |->
               IF Loose(Forms[t], f) /\ entered[f] = 0 THEN old[f] ELSE entered[f]]

\* The overrides in figures; equal ones keep their identity, so no effect runs again.
Entered(figures) == IF figures = Nothing THEN Nothing
                    ELSE Restrict(figures, Overrides \intersect DOMAIN figures)

Shown == KeysOf(tab, regime)
Loading(k) == cached[k] = Nothing /\ reading[k] # {}
Read(ks) == [k \in Keys |-> IF k \in ks /\ reading[k] = {} /\ (cached[k] = Nothing \/ k \in invalid)
                            THEN {Figures(k, server)} ELSE reading[k]]

Init ==
    /\ server = [p \in Parts |-> [f \in Boxes |-> IF p \in Overrides THEN 1 ELSE 0]]
    /\ tab = "overview" /\ regime = "new"
    /\ form = Untouched /\ focus = NoBox
    /\ cached = [k \in Keys |-> Nothing] /\ invalid = {}
    /\ reading = [k \in Keys |-> IF k \in Shown THEN {Figures(k, server)} ELSE {}]
    /\ saves = {} /\ clicks = 0 /\ mishaps = {}

----------------------------------------------------------------------------
\* What the user does.

Click == clicks < MaxReturnClicks /\ clicks' = clicks + 1

Visit(t) ==
    /\ t # tab /\ focus = NoBox
    /\ Click
    /\ tab' = t
    /\ form' = Seeded(t, cached[Source(t, regime)], Untouched)
    /\ reading' = Read(KeysOf(t, regime))
    /\ UNCHANGED <<server, regime, focus, cached, invalid, saves, mishaps>>

SetRegime(r) ==
    /\ tab = "itr" /\ r # regime
    /\ cached["itr"] # Nothing /\ cached[regime] # Nothing
    /\ Click
    /\ regime' = r
    /\ reading' = Read(KeysOf(tab, r))
    /\ UNCHANGED <<server, tab, form, focus, cached, invalid, saves, mishaps>>

\* mutation.mutate: body is what is sent of part.
Save(part, body) ==
    /\ Click
    /\ saves' = saves \union {[id |-> clicks, part |-> part, body |-> body, at |-> "sent",
                                quiet |-> saves = {} /\ \A k \in Shown : reading[k] = {}]}
    /\ mishaps' = IF saves # {} THEN {"overlap"}
                  ELSE IF \E f \in DOMAIN body : Loose(part, f) /\ body[f] = 0 /\ server[part][f] # 0
                  THEN {"cleared"} ELSE {}

\* An income box is entered and typed in, and saved when it is left: on its own, or with the
\* other boxes of the business.
Type(f, v) ==
    /\ tab = "income" /\ focus \in {NoBox, f} /\ clicks < MaxReturnClicks
    /\ form' = [form EXCEPT ![f] = v] /\ focus' = f
    /\ UNCHANGED <<server, tab, regime, cached, invalid, reading, saves, clicks, mishaps>>

Blur ==
    /\ focus # NoBox /\ focus' = NoBox
    /\ Save("business", Restrict(form, IF focus \in Scalars THEN {focus} ELSE Boxes \ Scalars))
    /\ UNCHANGED <<server, tab, regime, form, cached, invalid, reading>>

GainsLoaded == cached["gains"] # Nothing /\ cached[regime] # Nothing

\* InlineEdit saves what differs from what it was given.
Differs(f, v) == v # form[f]

\* handleUpdateDeduction, handleSaveLosses: the whole form is sent.  The savings can
\* be edited before their figures have come.
Edit(f, v) ==
    /\ tab = "savings" \/ (tab = "gains" /\ GainsLoaded)
    /\ Differs(f, v)
    /\ form' = [form EXCEPT ![f] = v]
    /\ Save(Forms[tab], form')
    /\ UNCHANGED <<server, tab, regime, focus, cached, invalid, reading>>

HandleSaveCost(f, v) ==
    /\ tab = "gains" /\ GainsLoaded /\ v # cached["gains"]["trades"][f]
    /\ Save("trades", [x \in {f} |-> v])
    /\ UNCHANGED <<server, tab, regime, form, focus, cached, invalid, reading>>

\* A broker's statement fixes the costs; it can be dropped while none has been.
ReconcileBrokerFile ==
    /\ tab = "gains" /\ GainsLoaded /\ cached["gains"]["trades"] = Untouched
    /\ Save("trades", [f \in Boxes |-> 1])
    /\ UNCHANGED <<server, tab, regime, form, focus, cached, invalid, reading>>

UploadITR ==
    /\ tab = "itr" /\ \A k \in Shown : ~Loading(k)
    /\ Save("filed", [f \in Boxes |-> 1])
    /\ UNCHANGED <<server, tab, regime, form, focus, cached, invalid, reading>>

----------------------------------------------------------------------------
\* The server and the network.

\* update_overrides and its like: a save replaces the fields it names.
Take(s) ==
    /\ s.at = "sent"
    /\ server' = [server EXCEPT ![s.part] =
                    [f \in Boxes |-> IF f \in DOMAIN s.body THEN s.body[f] ELSE @[f]]]
    /\ saves' = (saves \ {s}) \union {[s EXCEPT !.at = "taken"]}
    /\ reading' = [k \in Keys |-> IF reading[k] = {} THEN {}
                                  ELSE reading[k] \union {Figures(k, server')}]
    /\ UNCHANGED <<tab, regime, form, focus, cached, invalid, clicks, mishaps>>

\* Bug: the comparison of the regimes is forgotten.
InvalidatesNoComparison(part) ==
    IF part = "filed" THEN {"itr"} ELSE Keys \ {"itr", "compare"}

\* invalidateSessionQueries, and what each upload invalidates.
Invalidates(part) == IF part = "filed" THEN {"itr"} ELSE Keys \ {"itr"}

Succeed(s) ==
    LET ks == Invalidates(s.part)
        restarted == {k \in ks \intersect Shown : reading[k] = {} \/ cached[k] # Nothing}
        runsOn == {k \in ks \ restarted : reading[k] # {}}
    IN /\ s.at = "taken" /\ saves' = saves \ {s}
       /\ invalid' = invalid \union {k \in ks : cached[k] # Nothing}
       /\ reading' = [k \in Keys |-> IF k \in restarted THEN {Figures(k, server)}
                                     ELSE reading[k]]
       /\ mishaps' = IF runsOn = {} THEN mishaps ELSE mishaps \union {"crossing"}
       /\ UNCHANGED <<server, tab, regime, form, focus, cached, clicks>>

\* Bug: the form is filled on mount only.
AnswerKeepsForm(k, figures) ==
    /\ figures \in reading[k]
    /\ ~(k = "itr" /\ figures["filed"] = Untouched)
    /\ cached' = [cached EXCEPT ![k] = figures] /\ invalid' = invalid \ {k}
    /\ reading' = [reading EXCEPT ![k] = {}]
    /\ UNCHANGED <<server, tab, regime, form, focus, saves, clicks, mishaps>>

\* A key is read: the form it fills is filled again if its overrides differ.
Answer(k, figures) ==
    /\ figures \in reading[k]
    /\ ~(k = "itr" /\ figures["filed"] = Untouched)
    /\ cached' = [cached EXCEPT ![k] = figures] /\ invalid' = invalid \ {k}
    /\ reading' = [reading EXCEPT ![k] = {}]
    /\ form' = IF k = Source(tab, regime) /\ Entered(figures) # Entered(cached[k])
               THEN Seeded(tab, figures, form) ELSE form
    /\ UNCHANGED <<server, tab, regime, focus, saves, clicks, mishaps>>

NotFiled ==
    /\ \E figures \in reading["itr"] : figures["filed"] = Untouched
    /\ reading' = [reading EXCEPT !["itr"] = {}]
    /\ UNCHANGED <<server, tab, regime, form, focus, cached, invalid, saves, clicks, mishaps>>

Fail == mishaps' = {"failure"}

ReadFails(k) ==
    /\ reading[k] # {} /\ Fail
    /\ reading' = [reading EXCEPT ![k] = {}]
    /\ UNCHANGED <<server, tab, regime, form, focus, cached, invalid, saves, clicks>>

\* A save is lost, or its answer is.
SaveFails(s) ==
    /\ Fail /\ saves' = saves \ {s}
    /\ UNCHANGED <<server, tab, regime, form, focus, cached, invalid, reading, clicks>>

Next ==
    /\ mishaps = {}
    /\ \/ \E t \in Tabs : Visit(t)
       \/ \E r \in Regimes : SetRegime(r)
       \/ \E f \in Boxes, v \in Amounts : Type(f, v) \/ Edit(f, v) \/ HandleSaveCost(f, v)
       \/ Blur
       \/ ReconcileBrokerFile
       \/ UploadITR
       \/ \E s \in saves : Take(s) \/ Succeed(s) \/ SaveFails(s)
       \/ \E k \in Keys : ReadFails(k) \/ \E figures \in reading[k] : Answer(k, figures)
       \/ NotFiled

Spec == Init /\ [][Next]_vars

----------------------------------------------------------------------------
\* The shape of the tabs' state.
ReturnTypeOK ==
    /\ server \in [Parts -> [Boxes -> Amounts]]
    /\ tab \in Tabs /\ regime \in Regimes
    /\ form \in [Boxes -> Amounts] /\ focus \in Boxes \union {NoBox}
    /\ \A k \in Keys : cached[k] = Nothing \/ DOMAIN cached[k] = Depends(k)
    /\ invalid \subseteq Keys /\ DOMAIN reading = Keys
    /\ \A s \in saves : s.part \in Parts /\ s.at \in {"sent", "taken"}

AtRest == saves = {} /\ focus = NoBox /\ \A k \in Keys : reading[k] = {}

\* However saves, answers and visits interleave: once all is answered, form and
\* figures on screen are what the server holds, unless a request failed, two saves were
\* out at once, a save succeeded during a read that was not begun again, or an override
\* of its own was set to 0.
ScreenIsServer ==
    AtRest /\ mishaps = {} =>
        /\ tab \in DOMAIN Forms => form = server[Forms[tab]]
        /\ \A k \in Shown :
             IF cached[k] = Nothing THEN k = "itr" /\ server["filed"] = Untouched
             ELSE cached[k] = Figures(k, server)

\* An edit made while nothing is under way changes what was edited and nothing else,
\* though the whole form is sent.
SaveIsTheEdit ==
    \A s \in saves :
        s.at = "sent" /\ s.quiet /\ mishaps = {} /\ s.part \in Overrides =>
        Cardinality({f \in DOMAIN s.body : s.body[f] # server[s.part][f]}) <= 1
=============================================================================
