------------------------- MODULE MCResidentSessions -------------------------
(* Finite instances of ResidentSessions.                                    *)
EXTENDS ResidentSessions, TLC

\* Ids, accounts and workers are interchangeable; used by safety runs only.
Symmetric ==
    Permutations(Users) \union Permutations(Sids) \union Permutations(Threads)
=============================================================================
