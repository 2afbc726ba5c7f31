----------------------------- MODULE LatestWins -----------------------------
(***************************************************************************)
(* What a view promises that loads whatever the user picked last: answers    *)
(* may take any time and come in any order, but what appears is always the   *)
(* answer to the latest question.  An older answer may stay up meanwhile;    *)
(* it may be taken down; it never comes back.                                *)
(***************************************************************************)
CONSTANTS Keys, None

VARIABLES wanted, shown

Init == wanted = None /\ shown = None

\* A new question.  Its answer may be at hand already.
Ask(k) == wanted' = k /\ shown' \in {shown, None, k}

Show == wanted # None /\ shown' = wanted /\ UNCHANGED wanted

Hide == shown' = None /\ UNCHANGED wanted

\* The user goes away; the promise ends there.
Leave == wanted' = None /\ shown' = None

Next == (\E k \in Keys : Ask(k)) \/ Show \/ Hide \/ Leave

Spec == Init /\ [][Next]_<<wanted, shown>>
=============================================================================
