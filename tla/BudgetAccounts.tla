--------------------------- MODULE BudgetAccounts ---------------------------
(***************************************************************************)
(* Editing a bank account's details, which no statement carries.  The dialog   *)
(* is filled from the account as the list had it when the dialog was opened    *)
(* and sends only what differs from that, so that two browser tabs editing     *)
(* different fields of one account keep each other's work.                     *)
(*                                                                         *)
(* The label stands for the field that must be filled, the limit for the ones   *)
(* that may be cleared.  A value is its text.                                  *)
(***************************************************************************)
EXTENDS Naturals, FiniteSets

CONSTANTS
    Accounts,
    NoAccount,
    Values,         \* what a field may be set to
    Blank,
    MaxEdits        \* bound on what users do

Fields == {"label", "limit"}
Unreadable == "unreadable"       \* text that parses to nothing
Texts == Values \union {Blank, Unreadable}
Details == [Fields -> Values \union {Blank}]

VARIABLES
    stored,         \* the server
    listed,         \* the accounts list on screen
    editing, seed, form, errors, saving, dialog,   \* the dialog, and its number
    saves,          \* saves in flight
    typed,          \* the fields the user typed in since it opened (history)
    theirs,         \* the fields another tab wrote last (history)
    edits

vars == <<stored, listed, editing, seed, form, errors, saving, dialog, saves,
          typed, theirs, edits>>

Spend == edits < MaxEdits /\ edits' = edits + 1
Blanks == [f \in Fields |-> Blank]

Init ==
    /\ stored \in [Accounts -> {d \in Details : d["label"] # Blank}]
    /\ listed = stored
    /\ editing = NoAccount /\ seed = Blanks /\ form = Blanks /\ errors = {}
    /\ saving = FALSE /\ dialog = 0
    /\ saves = {} /\ typed = {}
    /\ theirs = [a \in Accounts |-> {}] /\ edits = 0

\* The dialog is mounted for the account that was clicked.
OnEdit(a) ==
    /\ editing = NoAccount /\ Spend
    /\ editing' = a /\ seed' = listed[a]
    /\ form' = listed[a] /\ errors' = {} /\ saving' = FALSE
    /\ dialog' = dialog + 1 /\ typed' = {}
    /\ UNCHANGED <<stored, listed, saves, theirs>>

\* Any text is a label; only the limit has to be read as something.
SetField(f, text) ==
    /\ editing # NoAccount /\ Spend
    /\ text = Unreadable => f = "limit"
    /\ form' = [form EXCEPT ![f] = text]
    /\ errors' = errors \ {f}
    /\ typed' = typed \union {f}
    /\ UNCHANGED <<stored, listed, editing, seed, saving, dialog, saves, theirs>>

\* Bug: a blank label is let through.
ValidateLimit == {f \in Fields : f = "limit" /\ form[f] = Unreadable}

Validate == {f \in Fields : IF f = "label" THEN form[f] = Blank
                                           ELSE form[f] = Unreadable}

\* Bug: the whole form is sent.
BuildPatchOfForm ==
    [f \in {x \in Fields : form # seed} |-> form[f]]

\* What the label is read as is the text itself.
BuildPatch == [f \in {x \in Fields : form[x] # seed[x]} |-> form[f]]

Closed == editing' = NoAccount /\ errors' = {} /\ saving' = FALSE

\* Save is off while a save of this dialog is on its way.
HandleSave ==
    /\ editing # NoAccount /\ ~saving /\ Spend
    /\ \/ /\ Validate # {}
          /\ errors' = Validate
          /\ UNCHANGED <<editing, saving, saves>>
       \/ /\ Validate = {} /\ DOMAIN BuildPatch = {}
          /\ Closed
          /\ UNCHANGED saves
       \/ /\ Validate = {} /\ DOMAIN BuildPatch # {}
          /\ saving' = TRUE
          /\ saves' = saves \union {[account |-> editing, patch |-> BuildPatch,
                                     dialog |-> dialog, typed |-> typed,
                                     state |-> "sent"]}
          /\ UNCHANGED <<editing, errors>>
    /\ UNCHANGED <<stored, listed, seed, form, dialog, typed, theirs>>

\* Cancel, Escape and the backdrop work at any time; the save goes on.
OnClose ==
    /\ editing # NoAccount
    /\ Closed
    /\ UNCHANGED <<stored, listed, seed, form, dialog, saves, typed, theirs, edits>>

\* The server writes the fields it is given and keeps the others.
Patched(details, patch) ==
    [f \in Fields |-> IF f \in DOMAIN patch THEN patch[f] ELSE details[f]]

Serve(c) ==
    /\ c \in saves /\ c.state = "sent"
    /\ \/ /\ stored' = [stored EXCEPT ![c.account] = Patched(@, c.patch)]
          /\ theirs' = [theirs EXCEPT ![c.account] = @ \ c.typed]
          /\ \E answer \in {"saved", "failed"} :
               saves' = (saves \ {c}) \union {[c EXCEPT !.state = answer]}
       \/ /\ saves' = (saves \ {c}) \union {[c EXCEPT !.state = "failed"]}
          /\ UNCHANGED <<stored, theirs>>
    /\ UNCHANGED <<listed, editing, seed, form, errors, saving, dialog, typed, edits>>

\* Bug: the answer closes whichever dialog is open.
MineWhicheverIsOpen(c) == editing # NoAccount

\* A save that worked has the list read again, and closes the dialog it came from
\* if that is still there; a dialog opened since is not told.
Mine(c) == editing # NoAccount /\ c.dialog = dialog

Receive(c) ==
    /\ c \in saves /\ c.state # "sent"
    /\ saves' = saves \ {c}
    /\ IF Mine(c) /\ c.state = "saved"
       THEN Closed
       ELSE /\ saving' = (saving /\ ~Mine(c))
            /\ UNCHANGED <<editing, errors>>
    /\ UNCHANGED <<stored, listed, seed, form, dialog, typed, theirs, edits>>

\* The list is read again: after a save, on focus, when its age says so.
Refresh ==
    /\ listed # stored
    /\ listed' = stored
    /\ UNCHANGED <<stored, editing, seed, form, errors, saving, dialog, saves,
                   typed, theirs, edits>>

\* Another tab saves one field of an account.
OtherTab(a, f, v) ==
    /\ Spend
    /\ (f = "label" => v # Blank) /\ v # stored[a][f]
    /\ stored' = [stored EXCEPT ![a][f] = v]
    /\ theirs' = [theirs EXCEPT ![a] = @ \union {f}]
    /\ UNCHANGED <<listed, editing, seed, form, errors, saving, dialog, saves, typed>>

Next ==
    \/ \E a \in Accounts : OnEdit(a)
    \/ \E f \in Fields, t \in Texts : SetField(f, t)
    \/ HandleSave \/ OnClose \/ Refresh
    \/ \E c \in saves : Serve(c) \/ Receive(c)
    \/ \E a \in Accounts, f \in Fields, v \in Values \union {Blank} : OtherTab(a, f, v)

Spec == Init /\ [][Next]_vars

----------------------------------------------------------------------------
\* The shape of the state: nothing unreadable and no blank label is ever stored or
\* on its way to be.
AccountsTypeOK ==
    /\ {stored, listed} \subseteq [Accounts -> Details]
    /\ editing \in Accounts \union {NoAccount}
    /\ seed \in Details /\ form \in [Fields -> Texts]
    /\ errors \subseteq Fields /\ typed \subseteq Fields
    /\ saving \in BOOLEAN /\ dialog \in Nat /\ edits \in 0..MaxEdits
    /\ theirs \in [Accounts -> SUBSET Fields]
    /\ \A a \in Accounts : stored[a]["label"] # Blank
    /\ \A c \in saves :
         /\ \A f \in DOMAIN c.patch : c.patch[f] \in Values \union {Blank}
         /\ "label" \in DOMAIN c.patch => c.patch["label"] # Blank

\* What another tab saved stays until the user edits that very field: a save of an
\* old form takes nothing else back with it.
OthersKept ==
    [][\A a \in Accounts, f \in Fields :
         (f \in theirs[a] /\ f \in theirs'[a] /\ saves' # saves)
            => stored'[a][f] = stored[a][f]]_vars

\* The late answer to a save of a dialog that was closed leaves the one opened since
\* alone: what is being typed there is not thrown away.
DialogNotClosedByOther ==
    [][\A c \in saves \ saves' :
         (c.dialog # dialog /\ editing # NoAccount) => editing' = editing]_vars
=============================================================================
