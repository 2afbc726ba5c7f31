---------------------------- MODULE SankeyCycles ----------------------------
(***************************************************************************)
(* What the money-flow card does to the links of a Sankey before the chart    *)
(* library walks them: malformed links go, then a depth-first search drops     *)
(* every link that closes a cycle, and what is left is renumbered onto the     *)
(* nodes that still have one.  One step is one round of the search's loop.     *)
(*                                                                         *)
(* A node's outgoing links are kept in link order, so a frame's position in    *)
(* them is told by the index of the next link to look at.                      *)
(***************************************************************************)
EXTENDS Naturals, Sequences, FiniteSets, FiniteSetsExt

CONSTANTS
    NodeCount,
    MaxLinks,       \* bound on how many links the server sends
    Samples         \* the links it may send

Nodes == 0..(NodeCount - 1)

VARIABLES
    links,      \* the links as the server sent them
    colour, stack, dropped,
    root,       \* the outer loop's node
    fin         \* fin[n]: how many nodes were finished when n was (history)

vars == <<links, colour, stack, dropped, root, fin>>

\* A link joins two different nodes of the list and carries something.
WellFormed(link) ==
    /\ link.source \in Nodes /\ link.target \in Nodes
    /\ link.source # link.target
    /\ link.value > 0

\* Filtering keeps the order, so a link goes by its place in what was sent.
Edges == {e \in 1..Len(links) : WellFormed(links[e])}
Kept == Edges \ dropped

Done == root = NodeCount
Top == stack[Len(stack)]

\* What is left of a frame's outgoing links.
Rest(frame) == {e \in Edges : e >= frame.next /\ links[e].source = frame.node}
Edge == Min(Rest(Top))
Target == links[Edge].target

Frame(n, e) == [node |-> n, next |-> e]
Advanced == [stack EXCEPT ![Len(stack)] = Frame(Top.node, Edge + 1)]
Looking == stack # <<>> /\ Rest(Top) # {}

Init ==
    /\ links \in UNION {[1..n -> Samples] : n \in 0..MaxLinks}
    /\ colour = [n \in Nodes |-> "white"]
    /\ stack = <<>> /\ dropped = {} /\ root = 0
    /\ fin = [n \in Nodes |-> 0]

\* The outer loop: the next node, or a search from it.
NextRoot ==
    /\ ~Done /\ stack = <<>> /\ colour[root] # "white"
    /\ root' = root + 1
    /\ UNCHANGED <<links, colour, stack, dropped, fin>>

StartRoot ==
    /\ ~Done /\ stack = <<>> /\ colour[root] = "white"
    /\ colour' = [colour EXCEPT ![root] = "grey"]
    /\ stack' = <<Frame(root, 1)>>
    /\ UNCHANGED <<links, dropped, root, fin>>

\* No links left: the node is black.
Blacks == {n \in Nodes : colour[n] = "black"}

Finish ==
    /\ stack # <<>> /\ Rest(Top) = {}
    /\ colour' = [colour EXCEPT ![Top.node] = "black"]
    /\ fin' = [fin EXCEPT ![Top.node] = Cardinality(Blacks)]
    /\ stack' = SubSeq(stack, 1, Len(stack) - 1)
    /\ UNCHANGED <<links, dropped, root>>

\* Bug: the link is passed over, and kept.
PassBackEdge ==
    /\ Looking /\ colour[Target] = "grey"
    /\ stack' = Advanced
    /\ UNCHANGED <<links, colour, dropped, root, fin>>

\* A link into the path being searched closes a cycle.
DropBackEdge ==
    /\ Looking /\ colour[Target] = "grey"
    /\ dropped' = dropped \union {Edge}
    /\ stack' = Advanced
    /\ UNCHANGED <<links, colour, root, fin>>

Descend ==
    /\ Looking /\ colour[Target] = "white"
    /\ colour' = [colour EXCEPT ![Target] = "grey"]
    /\ stack' = Append(Advanced, Frame(Target, 1))
    /\ UNCHANGED <<links, dropped, root, fin>>

\* Bug: any node seen before closes a cycle.
DropBlack ==
    /\ Looking /\ colour[Target] = "black"
    /\ dropped' = dropped \union {Edge}
    /\ stack' = Advanced
    /\ UNCHANGED <<links, colour, root, fin>>

SkipBlack ==
    /\ Looking /\ colour[Target] = "black"
    /\ stack' = Advanced
    /\ UNCHANGED <<links, colour, dropped, root, fin>>

Next ==
    NextRoot \/ StartRoot \/ Finish \/ DropBackEdge \/ Descend \/ SkipBlack

Spec == Init /\ [][Next]_vars

----------------------------------------------------------------------------
\* The rest of sanitise: what the chart gets.

Used == {links[e].source : e \in Kept} \union {links[e].target : e \in Kept}
\* Bug: the nodes keep their old numbers.
RemapNot(n) == n

Remap(n) == Cardinality({u \in Used : u < n})
Plotted == {[source |-> Remap(links[e].source),
             target |-> Remap(links[e].target)] : e \in Kept}
CanPlot == Used # {} /\ Kept # {}
DroppedLinks == Cardinality((1..Len(links)) \ Kept)

----------------------------------------------------------------------------
\* The shape of the state.
SankeyTypeOK ==
    /\ links \in Seq(Samples)
    /\ colour \in [Nodes -> {"white", "grey", "black"}]
    /\ stack \in Seq([node : Nodes, next : Nat])
    /\ dropped \subseteq Edges
    /\ root \in 0..NodeCount
    /\ fin \in [Nodes -> Nat]

\* Every link that is plotted leads from a node finished later to one finished
\* earlier, so the depth walk of the chart library, which has no visited set, ends.
KeptLinksDescend ==
    Done => \A e \in Kept : fin[links[e].target] < fin[links[e].source]

\* The same said of what the chart is given: its indices are those of its nodes,
\* each of which has a link, and no set of them leads only back into itself.
ChartPlottable ==
    Done =>
        LET last == Cardinality(Used)
            drawn == 0..(last - 1)
        IN  /\ \A l \in Plotted : l.source \in drawn /\ l.target \in drawn
            /\ \A n \in drawn : \E l \in Plotted : n \in {l.source, l.target}
            /\ \A S \in (SUBSET drawn) \ {{}} :
                 \E n \in S : \A l \in Plotted : l.source = n => l.target \notin S

\* Where the kept links lead from a node.
Onward(S) == {links[e].target : e \in {x \in Kept : links[x].source \in S}}
Reach(n) ==
    LET within[k \in Nat] ==
          IF k = 0 THEN {n} ELSE within[k - 1] \union Onward(within[k - 1])
    IN  within[NodeCount]

\* Nothing is dropped without need: from the target of a dropped link the kept ones
\* lead back to its source, so an acyclic graph keeps every link.
OnlyBackEdgesDropped ==
    Done => \A e \in dropped : links[e].source \in Reach(links[e].target)
=============================================================================
