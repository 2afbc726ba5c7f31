------------------------------- MODULE Recency -------------------------------
(***************************************************************************)
(* The order of an OrderedDict used as a least-recently-used store: a set   *)
(* of pairs <<a, b>>, a used less recently than b.  Both session stores and *)
(* the tax store evict along it.                                            *)
(***************************************************************************)
EXTENDS Naturals, FiniteSets

\* Key k becomes the most recently used of the keys held.
MoveToEnd(order, held, k) ==
    {p \in order : p[1] # k} \union ((held \ {k}) \X {k})

Among(order, held) == order \intersect (held \X held)

=============================================================================
