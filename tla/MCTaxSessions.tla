--------------------------- MODULE MCTaxSessions ---------------------------
(* Finite instances of TaxSessions.                                         *)
EXTENDS TaxSessions, TLC

\* Ids, accounts, dicts, edits and workers are interchangeable; safety runs only.
Symmetric ==
    Permutations(Users) \union Permutations(Sids) \union Permutations(Dicts)
      \union Permutations(Threads) \union Permutations(Edits)
=============================================================================
