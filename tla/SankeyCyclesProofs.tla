------------------------- MODULE SankeyCyclesProofs -------------------------
(***************************************************************************)
(* For every graph: what the depth-first search keeps has no cycle.           *)
(***************************************************************************)
EXTENDS SankeyCycles, FiniteSetTheorems, SequenceTheorems,
        WellFoundedInduction, TLAPS

\* The list has a length and what the server may send are links.
Graph ==
    /\ NodeCount \in Nat
    /\ MaxLinks \in Nat
    /\ \A s \in Samples : s.source \in Int /\ s.target \in Int /\ s.value \in Int

\* Where the search is: the nodes of the stack are the grey ones, each once, and
\* the frames look at links in order.
OnStack(n) == \E i \in 1..Len(stack) : stack[i].node = n

StackInv ==
    /\ \A i \in 1..Len(stack) : colour[stack[i].node] = "grey"
    /\ \A i, j \in 1..Len(stack) : i # j => stack[i].node # stack[j].node
    /\ \A n \in Nodes : colour[n] = "grey" => OnStack(n)

RootInv ==
    /\ \A n \in Nodes : n < root => colour[n] # "white"
    /\ root = NodeCount => stack = <<>>

\* A kept link of a finished node leads to one finished earlier.
BlackInv ==
    /\ \A n \in Nodes : colour[n] = "black" => fin[n] < Cardinality(Blacks)
    /\ \A e \in Kept : colour[links[e].source] = "black" =>
         /\ colour[links[e].target] = "black"
         /\ fin[links[e].target] < fin[links[e].source]

\* A kept link a frame has looked at leads to a finished node or is the one the
\* next frame was entered by.
FrameInv ==
    \A i \in 1..Len(stack) : \A e \in Kept :
      (links[e].source = stack[i].node /\ e < stack[i].next) =>
         \/ colour[links[e].target] = "black"
         \/ i < Len(stack) /\ links[e].target = stack[i + 1].node

IInv == SankeyTypeOK /\ StackInv /\ RootInv /\ BlackInv /\ FrameInv

----------------------------------------------------------------------------
\* A set of naturals with a member has a least one.
LEMMA LeastExists ==
    ASSUME NEW S, S \subseteq Nat, S # {}
    PROVE  Min(S) \in S /\ \A y \in S : Min(S) <= y
<1>1. PICK x \in S : \A y \in S : ~(<<y, x>> \in OpToRel(<, Nat))
  BY NatLessThanWellFounded, WFMin, Zenon
<1>2. \A y \in S : x <= y
  <2>1. SUFFICES ASSUME NEW y \in S, ~(x <= y) PROVE FALSE
    OBVIOUS
  <2>2. y < x /\ y \in Nat /\ x \in Nat
    BY <2>1
  <2>3. <<y, x>> \in OpToRel(<, Nat)
    BY <2>2 DEF OpToRel
  <2> QED
    BY <2>3, <1>1
<1> QED
  BY <1>2 DEF Min

\* The link a frame looks at next is the first of its own.
LEMMA EdgeIsNext ==
    ASSUME Looking, SankeyTypeOK
    PROVE  /\ Edge \in Edges
           /\ Edge >= Top.next
           /\ links[Edge].source = Top.node
           /\ \A e \in Rest(Top) : Edge <= e
<1>1. Rest(Top) \subseteq Nat /\ Rest(Top) # {}
  BY DEF Looking, Rest, Edges
<1>2. Edge \in Rest(Top) /\ \A e \in Rest(Top) : Edge <= e
  BY <1>1, LeastExists DEF Edge
<1> QED
  BY <1>2 DEF Rest

\* The ends of a well-formed link are nodes.
LEMMA EdgeEnds ==
    ASSUME NEW e \in Edges
    PROVE  links[e].source \in Nodes /\ links[e].target \in Nodes /\ e \in Nat
BY DEF Edges, WellFormed

LEMMA NodesFinite == ASSUME Graph PROVE IsFiniteSet(Nodes)
BY FS_Interval DEF Nodes, Graph

\* The top of a stack that is not empty is its last frame.
LEMMA TopIsLast ==
    ASSUME stack # <<>>, SankeyTypeOK
    PROVE  /\ Len(stack) \in Nat \ {0}
           /\ Len(stack) \in 1..Len(stack)
           /\ Top \in [node : Nodes, next : Nat]
           /\ \A i \in 1..Len(stack) : stack[i] \in [node : Nodes, next : Nat]
<1>1. Len(stack) \in Nat \ {0}
  BY EmptySeq DEF SankeyTypeOK
<1>2. \A i \in 1..Len(stack) : stack[i] \in [node : Nodes, next : Nat]
  BY ElementOfSeq DEF SankeyTypeOK
<1> QED
  BY <1>1, <1>2 DEF Top

\* What the three moves of the stack do to its frames.
Frames == Seq([node : Nodes, next : Nat])

LEMMA AdvancedFrames ==
    ASSUME Looking, SankeyTypeOK
    PROVE  /\ Advanced \in Frames
           /\ Len(Advanced) = Len(stack)
           /\ \A i \in 1..Len(stack) :
                Advanced[i] = IF i = Len(stack) THEN Frame(Top.node, Edge + 1)
                                                ELSE stack[i]
<1>1. Edge \in Nat
  BY EdgeIsNext, EdgeEnds
<1>2. /\ stack \in Frames
      /\ Len(stack) \in 1..Len(stack)
      /\ Frame(Top.node, Edge + 1) \in [node : Nodes, next : Nat]
  BY <1>1, TopIsLast DEF Looking, SankeyTypeOK, Frames, Frame
<1> QED
  BY <1>2, ExceptSeq DEF Advanced, Frames

LEMMA PoppedFrames ==
    ASSUME stack # <<>>, SankeyTypeOK
    PROVE  LET popped == SubSeq(stack, 1, Len(stack) - 1)
           IN  /\ popped \in Frames
               /\ Len(popped) = Len(stack) - 1
               /\ \A i \in 1..(Len(stack) - 1) : popped[i] = stack[i]
<1> DEFINE m == Len(stack) - 1
<1>1. m \in Nat /\ \A i \in 1..m : stack[i] \in [node : Nodes, next : Nat]
  BY TopIsLast
<1>2. /\ SubSeq(stack, 1, m) \in Frames
      /\ Len(SubSeq(stack, 1, m)) = IF 1 <= m THEN m - 1 + 1 ELSE 0
      /\ \A i \in 1..(m - 1 + 1) : SubSeq(stack, 1, m)[i] = stack[1 + i - 1]
  BY <1>1, SubSeqProperties DEF Frames
<1> HIDE DEF m
<1>3. m - 1 + 1 = m /\ (\A i \in 1..m : 1 + i - 1 = i) /\ (1 > m => m = 0)
  BY <1>1
<1>4. /\ Len(SubSeq(stack, 1, m)) = m
      /\ \A i \in 1..m : SubSeq(stack, 1, m)[i] = stack[i]
  BY <1>1, <1>2, <1>3
<1> QED
  BY <1>2, <1>4 DEF m

LEMMA PushedFrames ==
    ASSUME Looking, SankeyTypeOK
    PROVE  LET pushed == Append(Advanced, Frame(Target, 1))
           IN  /\ pushed \in Frames
               /\ Len(pushed) = Len(stack) + 1
               /\ \A i \in 1..Len(stack) : pushed[i] = Advanced[i]
               /\ pushed[Len(stack) + 1] = Frame(Target, 1)
<1>1. Target \in Nodes
  BY EdgeIsNext, EdgeEnds DEF Target
<1>2. Frame(Target, 1) \in [node : Nodes, next : Nat]
  BY <1>1 DEF Frame
<1> QED
  BY <1>2, AdvancedFrames, AppendProperties DEF Frames

----------------------------------------------------------------------------
\* The search keeps its invariant, step by step.
LEMMA InitIInv == ASSUME Graph, Init PROVE IInv
<1>1. SankeyTypeOK
  <2>1. links \in Seq(Samples)
    BY DEF Init, Graph
  <2> QED
    BY <2>1 DEF Init, SankeyTypeOK, Graph
<1>2. StackInv
  BY DEF Init, StackInv, OnStack
<1>3. RootInv
  BY DEF Init, RootInv, Nodes, Graph
<1>4. BlackInv
  <2>1. \A e \in Kept : colour[links[e].source] = "white"
    BY EdgeEnds DEF Kept, Init
  <2> QED
    BY <2>1 DEF Init, BlackInv
<1>5. FrameInv
  BY DEF Init, FrameInv
<1> QED
  BY <1>1, <1>2, <1>3, <1>4, <1>5 DEF IInv

LEMMA NextRootIInv == ASSUME Graph, IInv, NextRoot PROVE IInv'
<1> USE DEF IInv, NextRoot
<1>1. Edges' = Edges /\ Kept' = Kept /\ Blacks' = Blacks
  BY DEF Edges, Kept, Blacks
<1>2. SankeyTypeOK'
  BY <1>1 DEF SankeyTypeOK, Done, Graph
<1>3. StackInv'
  BY DEF StackInv, OnStack
<1>4. RootInv'
  BY DEF RootInv, SankeyTypeOK, Nodes
<1>5. BlackInv'
  BY <1>1 DEF BlackInv
<1>6. FrameInv'
  BY <1>1 DEF FrameInv
<1> QED
  BY <1>2, <1>3, <1>4, <1>5, <1>6

LEMMA StartRootIInv == ASSUME Graph, IInv, StartRoot PROVE IInv'
<1> USE DEF IInv, StartRoot
<1>1. Edges' = Edges /\ Kept' = Kept
  BY DEF Edges, Kept
<1>2. root \in Nodes
  BY DEF SankeyTypeOK, Done, Nodes, Graph
<1>3. Blacks' = Blacks
  BY <1>2 DEF Blacks, SankeyTypeOK
<1>4. Len(stack') = 1 /\ stack'[1] = Frame(root, 1)
  OBVIOUS
<1>5. SankeyTypeOK'
  BY <1>1, <1>2 DEF SankeyTypeOK, Frame
<1>6. StackInv'
  BY <1>2, <1>4 DEF StackInv, OnStack, SankeyTypeOK, Frame
<1>7. RootInv'
  BY <1>2 DEF RootInv, SankeyTypeOK, Done
<1>8. BlackInv'
  <2>1. \A n \in Nodes : colour'[n] = "black" <=> colour[n] = "black"
    BY <1>2 DEF SankeyTypeOK
  <2> QED
    BY <2>1, <1>1, <1>3, EdgeEnds DEF BlackInv, Kept
<1>9. FrameInv'
  BY <1>1, <1>4, EdgeEnds DEF FrameInv, Frame, Kept, Edges
<1> QED
  BY <1>5, <1>6, <1>7, <1>8, <1>9

LEMMA FinishIInv == ASSUME Graph, IInv, Finish PROVE IInv'
<1> USE DEF IInv, Finish
<1> DEFINE last == Len(stack)
<1>1. Edges' = Edges /\ Kept' = Kept
  BY DEF Edges, Kept
<1>2. /\ last \in 1..last /\ last \in Nat /\ Top = stack[last]
      /\ Top.node \in Nodes /\ Top.next \in Nat
  BY TopIsLast DEF Top
<1>3. colour[Top.node] = "grey"
  BY <1>2 DEF StackInv
<1>4. /\ Len(stack') = last - 1
      /\ \A i \in 1..(last - 1) : stack'[i] = stack[i]
      /\ stack' \in Frames
  BY PoppedFrames
<1>5. SankeyTypeOK'
  <2>1. IsFiniteSet(Blacks)
    BY NodesFinite, FS_Subset DEF Blacks
  <2>2. Cardinality(Blacks) \in Nat
    BY <2>1, FS_CardinalityType
  <2> QED
    BY <1>1, <1>2, <1>4, <2>2 DEF SankeyTypeOK, Frames
<1>6. StackInv'
  <2>1. \A i \in 1..(last - 1) : stack[i].node # Top.node
    BY <1>2 DEF StackInv
  <2>2. \A i \in 1..(last - 1) : stack[i].node \in Nodes
    BY TopIsLast
  <2>3. ASSUME NEW n \in Nodes, colour'[n] = "grey" PROVE OnStack(n)'
    <3>1. n # Top.node /\ colour[n] = "grey"
      BY <2>3, <1>2 DEF SankeyTypeOK
    <3>2. PICK i \in 1..last : stack[i].node = n
      BY <3>1 DEF StackInv, OnStack
    <3>3. i \in 1..(last - 1)
      BY <3>1, <3>2, <1>2
    <3> QED
      BY <3>2, <3>3, <1>4 DEF OnStack
  <2>4. ASSUME NEW i \in 1..(last - 1) PROVE colour'[stack'[i].node] = "grey"
    <3>1. stack'[i] = stack[i] /\ i \in 1..last
      BY <1>2, <1>4
    <3>2. colour[stack[i].node] = "grey"
      BY <3>1 DEF StackInv
    <3> QED
      BY <3>1, <3>2, <2>1, <2>2, <1>2 DEF SankeyTypeOK
  <2>5. \A i, j \in 1..(last - 1) : i # j => stack'[i].node # stack'[j].node
    BY <1>2, <1>4 DEF StackInv
  <2> QED
    BY <2>3, <2>4, <2>5, <1>4 DEF StackInv
<1>7. RootInv'
  BY <1>2, <1>4 DEF RootInv, SankeyTypeOK
<1>8. BlackInv'
  <2>1. Blacks' = Blacks \union {Top.node} /\ Top.node \notin Blacks
    BY <1>2, <1>3 DEF Blacks, SankeyTypeOK
  <2>2. IsFiniteSet(Blacks)
    BY NodesFinite, FS_Subset DEF Blacks
  <2>3. Cardinality(Blacks') = Cardinality(Blacks) + 1 /\ Cardinality(Blacks) \in Nat
    BY <2>1, <2>2, FS_AddElement, FS_CardinalityType
  <2>4. \A n \in Nodes : colour'[n] = "black" => fin'[n] < Cardinality(Blacks')
    BY <2>3, <1>2 DEF BlackInv, SankeyTypeOK
  <2>5. ASSUME NEW e \in Kept, links[e].source = Top.node
        PROVE  colour[links[e].target] = "black"
    <3>1. e \in Edges /\ e \in Nat /\ e < Top.next
      BY <2>5, EdgeEnds, <1>2 DEF Rest, Kept, SankeyTypeOK
    <3> QED
      BY <3>1, <2>5, <1>2 DEF FrameInv
  <2>6. ASSUME NEW e \in Kept, colour'[links[e].source] = "black"
        PROVE  /\ colour'[links[e].target] = "black"
               /\ fin'[links[e].target] < fin'[links[e].source]
    <3>0. links[e].source \in Nodes /\ links[e].target \in Nodes
      BY EdgeEnds DEF Kept
    <3>1. CASE links[e].source = Top.node
      <4>1. colour[links[e].target] = "black" /\ links[e].target # Top.node
        BY <3>1, <2>5, <1>3
      <4>2. fin[links[e].target] < Cardinality(Blacks)
        BY <4>1, <3>0 DEF BlackInv
      <4> QED
        BY <4>1, <4>2, <3>0, <3>1, <1>2 DEF SankeyTypeOK
    <3>2. CASE links[e].source # Top.node
      <4>1. colour[links[e].source] = "black"
        BY <3>2, <3>0, <2>6 DEF SankeyTypeOK
      <4>2. colour[links[e].target] = "black" /\ links[e].target # Top.node
        BY <4>1, <1>3 DEF BlackInv
      <4> QED
        BY <4>1, <4>2, <3>0, <3>2, <1>2 DEF SankeyTypeOK, BlackInv
    <3> QED
      BY <3>1, <3>2
  <2> QED
    BY <2>4, <2>6, <1>1 DEF BlackInv
<1>9. FrameInv'
  <2>1. SUFFICES ASSUME NEW i \in 1..Len(stack'), NEW e \in Kept',
                        links'[e].source = stack'[i].node, e < stack'[i].next
                 PROVE  \/ colour'[links'[e].target] = "black"
                        \/ i < Len(stack') /\ links'[e].target = stack'[i + 1].node
    BY DEF FrameInv
  <2>2. /\ e \in Kept /\ i \in 1..last /\ i < last
        /\ stack'[i] = stack[i]
        /\ i < last - 1 => stack'[i + 1] = stack[i + 1]
        /\ i = last - 1 \/ i < last - 1
    BY <2>1, <1>1, <1>2, <1>4
  <2>3. colour[links[e].target] = "black" \/ links[e].target = stack[i + 1].node
    BY <2>1, <2>2 DEF FrameInv
  <2>4. links[e].target \in Nodes
    BY <2>2, EdgeEnds DEF Kept
  <2>5. links'[e].target = links[e].target /\ Len(stack') = last - 1
    BY <1>4
  <2>6. CASE colour[links[e].target] = "black"
    <3>1. colour'[links[e].target] = "black"
      BY <2>4, <2>6, <1>2 DEF SankeyTypeOK
    <3> QED
      BY <3>1, <2>5
  <2>7. CASE links[e].target = stack[i + 1].node
    <3>1. CASE i = last - 1
      <4>1. links[e].target = Top.node
        BY <2>7, <3>1, <1>2
      <4>2. colour'[links[e].target] = "black"
        BY <4>1, <1>2 DEF SankeyTypeOK
      <4> QED
        BY <4>2, <2>5
    <3>2. CASE i < last - 1
      BY <2>2, <2>5, <2>7, <3>2
    <3> QED
      BY <2>2, <3>1, <3>2
  <2> QED
    BY <2>3, <2>6, <2>7
<1> QED
  BY <1>5, <1>6, <1>7, <1>8, <1>9

\* What moving on to the next link keeps, whatever becomes of the link.
LEMMA LookedAt ==
    ASSUME Looking, SankeyTypeOK
    PROVE  /\ Target \in Nodes
           /\ Top.node \in Nodes
           /\ Edge \in Edges
           /\ \A e \in Edges :
                (links[e].source = Top.node /\ e < Edge + 1)
                  => e < Top.next \/ e = Edge
<1>1. \A e \in Rest(Top) : Edge <= e
  BY EdgeIsNext
<1>2. Top.next \in Nat /\ Top.node \in Nodes
  BY TopIsLast DEF Looking
<1>3. ASSUME NEW e \in Edges, links[e].source = Top.node, e < Edge + 1
      PROVE  e < Top.next \/ e = Edge
  <2>1. e \in Nat /\ Edge \in Nat
    BY EdgeIsNext, EdgeEnds
  <2>2. CASE e >= Top.next
    <3>1. e \in Rest(Top)
      BY <1>3, <2>2 DEF Rest
    <3> QED
      BY <3>1, <2>1, <1>1, <1>3
  <2> QED
    BY <2>1, <2>2, <1>2
<1> QED
  BY <1>2, <1>3, EdgeIsNext, EdgeEnds DEF Target

LEMMA AdvanceKeepsPlace ==
    ASSUME SankeyTypeOK, StackInv, RootInv, Looking, stack' = Advanced,
           UNCHANGED <<colour, root>>
    PROVE  stack' \in Frames /\ StackInv' /\ RootInv'
<1>1. /\ Len(stack') = Len(stack) /\ Len(stack) \in Nat /\ stack' \in Frames
      /\ stack' # <<>>
  BY AdvancedFrames, TopIsLast, EmptySeq DEF Looking, Frames
<1>2. ASSUME NEW i \in 1..Len(stack) PROVE stack'[i].node = stack[i].node
  <2>1. CASE i = Len(stack)
    BY <2>1, AdvancedFrames DEF Frame, Top
  <2>2. CASE i # Len(stack)
    BY <2>2, AdvancedFrames
  <2> QED
    BY <2>1, <2>2
<1>3. \A i \in 1..Len(stack) : colour'[stack'[i].node] = "grey"
  BY <1>2 DEF StackInv
<1>4. \A i, j \in 1..Len(stack) : i # j => stack'[i].node # stack'[j].node
  BY <1>2 DEF StackInv
<1>5. \A n \in Nodes : colour'[n] = "grey" => OnStack(n)'
  BY <1>1, <1>2 DEF StackInv, OnStack
<1>6. StackInv'
  BY <1>1, <1>3, <1>4, <1>5 DEF StackInv
<1>7. RootInv'
  BY <1>1 DEF RootInv, Looking
<1> QED
  BY <1>1, <1>6, <1>7

\* A kept link looked at, of the frame or of one below, is where FrameInv says, or
\* is the link just looked at.
LEMMA AdvanceKeepsLooked ==
    ASSUME SankeyTypeOK, FrameInv, Looking,
           NEW i \in 1..Len(stack), NEW e \in Kept,
           links[e].source = Advanced[i].node, e < Advanced[i].next
    PROVE  \/ colour[links[e].target] = "black"
           \/ i < Len(stack) /\ links[e].target = Advanced[i + 1].node
           \/ i = Len(stack) /\ e = Edge
<1>1. /\ Len(stack) \in Nat
      /\ Advanced[i] = IF i = Len(stack) THEN Frame(Top.node, Edge + 1) ELSE stack[i]
  BY AdvancedFrames, TopIsLast DEF Looking
<1>2. CASE i = Len(stack)
  <2>1. e < Top.next \/ e = Edge
    BY <1>1, <1>2, LookedAt DEF Frame, Kept
  <2>2. CASE e < Top.next
    <3>1. links[e].source = stack[i].node /\ e < stack[i].next
      BY <1>1, <1>2, <2>2 DEF Frame, Top
    <3> QED
      BY <3>1, <1>1, <1>2 DEF FrameInv
  <2> QED
    BY <2>1, <2>2, <1>2
<1>3. CASE i # Len(stack)
  <2>1. links[e].source = stack[i].node /\ e < stack[i].next
    BY <1>1, <1>3
  <2>2. i < Len(stack) /\ i + 1 \in 1..Len(stack)
    BY <1>1, <1>3
  <2>3. Advanced[i + 1].node = stack[i + 1].node
    <3>1. Advanced[i + 1] = IF i + 1 = Len(stack) THEN Frame(Top.node, Edge + 1)
                                                ELSE stack[i + 1]
      BY <2>2, AdvancedFrames
    <3> QED
      BY <3>1 DEF Frame, Top
  <2> QED
    BY <2>1, <2>2, <2>3 DEF FrameInv
<1> QED
  BY <1>2, <1>3

LEMMA DropBackEdgeIInv == ASSUME Graph, IInv, DropBackEdge PROVE IInv'
<1> USE DEF IInv
<1>1. Edges' = Edges /\ Kept' = Kept \ {Edge} /\ Blacks' = Blacks
  BY DEF DropBackEdge, Edges, Kept, Blacks
<1>2. stack' \in Frames /\ StackInv' /\ RootInv' /\ Len(stack') = Len(stack)
  BY AdvanceKeepsPlace, AdvancedFrames DEF DropBackEdge
<1>3. SankeyTypeOK'
  BY <1>1, <1>2, LookedAt DEF DropBackEdge, SankeyTypeOK, Frames
<1>4. BlackInv'
  BY <1>1 DEF DropBackEdge, BlackInv
<1>5. FrameInv'
  <2>1. SUFFICES ASSUME NEW i \in 1..Len(stack'), NEW e \in Kept',
                        links'[e].source = stack'[i].node, e < stack'[i].next
                 PROVE  \/ colour'[links'[e].target] = "black"
                        \/ i < Len(stack') /\ links'[e].target = stack'[i + 1].node
    BY DEF FrameInv
  <2>2. e \in Kept /\ e # Edge /\ i \in 1..Len(stack)
    BY <1>1, <1>2
  <2> QED
    BY <2>1, <2>2, <1>2, AdvanceKeepsLooked DEF DropBackEdge
<1> QED
  BY <1>2, <1>3, <1>4, <1>5

LEMMA SkipBlackIInv == ASSUME Graph, IInv, SkipBlack PROVE IInv'
<1> USE DEF IInv
<1>1. Edges' = Edges /\ Kept' = Kept /\ Blacks' = Blacks
  BY DEF SkipBlack, Edges, Kept, Blacks
<1>2. stack' \in Frames /\ StackInv' /\ RootInv' /\ Len(stack') = Len(stack)
  BY AdvanceKeepsPlace, AdvancedFrames DEF SkipBlack
<1>3. SankeyTypeOK'
  BY <1>1, <1>2 DEF SkipBlack, SankeyTypeOK, Frames
<1>4. BlackInv'
  BY <1>1 DEF SkipBlack, BlackInv
<1>5. FrameInv'
  <2>1. SUFFICES ASSUME NEW i \in 1..Len(stack'), NEW e \in Kept',
                        links'[e].source = stack'[i].node, e < stack'[i].next
                 PROVE  \/ colour'[links'[e].target] = "black"
                        \/ i < Len(stack') /\ links'[e].target = stack'[i + 1].node
    BY DEF FrameInv
  <2>2. e \in Kept /\ i \in 1..Len(stack)
    BY <1>1, <1>2
  <2> QED
    BY <2>1, <2>2, <1>2, AdvanceKeepsLooked DEF SkipBlack, Target
<1> QED
  BY <1>2, <1>3, <1>4, <1>5

LEMMA DescendIInv == ASSUME Graph, IInv, Descend PROVE IInv'
<1> USE DEF IInv
<1> DEFINE last == Len(stack)
<1>0. Target \in Nodes /\ Edge \in Edges /\ Looking /\ colour[Target] = "white"
  BY LookedAt DEF Descend
<1>1. Edges' = Edges /\ Kept' = Kept
  BY DEF Descend, Edges, Kept
<1>2. /\ Len(stack') = last + 1 /\ stack' \in Frames
      /\ \A i \in 1..last : stack'[i] = Advanced[i]
      /\ stack'[last + 1] = Frame(Target, 1)
      /\ last \in 1..last /\ last \in Nat
  BY <1>0, PushedFrames, TopIsLast DEF Descend, Looking
<1>3. \A n \in Nodes : colour'[n] = IF n = Target THEN "grey" ELSE colour[n]
  BY DEF Descend, SankeyTypeOK
<1>4. Blacks' = Blacks
  BY <1>0, <1>3 DEF Blacks
<1>5. SankeyTypeOK'
  BY <1>0, <1>1, <1>2 DEF Descend, SankeyTypeOK, Frames
<1>6. StackInv'
  <2>1. ASSUME NEW i \in 1..last
        PROVE  /\ stack'[i].node = stack[i].node
               /\ colour[stack[i].node] = "grey" /\ stack[i].node \in Nodes
    <3>1. stack'[i].node = stack[i].node
      <4>1. stack'[i] = IF i = last THEN Frame(Top.node, Edge + 1) ELSE stack[i]
        BY <1>0, <1>2, AdvancedFrames
      <4> QED
        BY <4>1 DEF Frame, Top
    <3> QED
      BY <3>1, <1>0, TopIsLast DEF StackInv, Looking
  <2>2. ASSUME NEW i \in 1..Len(stack') PROVE i \in 1..last \/ i = last + 1
    BY <1>2
  <2>3. ASSUME NEW i \in 1..Len(stack') PROVE colour'[stack'[i].node] = "grey"
    <3>1. CASE i \in 1..last
      BY <3>1, <2>1, <1>3
    <3>2. CASE i = last + 1
      BY <3>2, <1>0, <1>2, <1>3 DEF Frame
    <3> QED
      BY <2>2, <3>1, <3>2
  <2>4. ASSUME NEW i \in 1..Len(stack'), NEW j \in 1..Len(stack'), i # j
        PROVE  stack'[i].node # stack'[j].node
    <3>1. CASE i \in 1..last /\ j \in 1..last
      BY <3>1, <2>1, <2>4 DEF StackInv
    <3>2. CASE i = last + 1 /\ j \in 1..last
      BY <3>2, <2>1, <1>0, <1>2 DEF Frame
    <3>3. CASE i \in 1..last /\ j = last + 1
      BY <3>3, <2>1, <1>0, <1>2 DEF Frame
    <3> QED
      BY <2>2, <2>4, <3>1, <3>2, <3>3
  <2>5. ASSUME NEW n \in Nodes, colour'[n] = "grey"
        PROVE  \E i \in 1..Len(stack') : stack'[i].node = n
    <3>1. CASE n = Target
      <4>1. last + 1 \in 1..Len(stack') /\ stack'[last + 1].node = n
        BY <3>1, <1>2 DEF Frame
      <4> QED
        BY <4>1
    <3>2. CASE n # Target
      <4>1. PICK i \in 1..last : stack[i].node = n
        BY <3>2, <2>5, <1>3 DEF StackInv, OnStack
      <4>2. i \in 1..Len(stack') /\ stack'[i].node = n
        BY <4>1, <2>1, <1>2
      <4> QED
        BY <4>2
    <3> QED
      BY <3>1, <3>2
  <2> QED
    BY <2>3, <2>4, <2>5 DEF StackInv, OnStack
<1>7. RootInv'
  <2>1. root # NodeCount
    BY <1>0 DEF RootInv, Looking
  <2> QED
    BY <2>1, <1>3 DEF Descend, RootInv
<1>8. BlackInv'
  <2>1. \A n \in Nodes : colour'[n] = "black" <=> colour[n] = "black"
    BY <1>0, <1>3
  <2> QED
    BY <2>1, <1>1, <1>4, EdgeEnds DEF Descend, BlackInv, Kept
<1>9. FrameInv'
  <2>1. SUFFICES ASSUME NEW i \in 1..Len(stack'), NEW e \in Kept',
                        links'[e].source = stack'[i].node, e < stack'[i].next
                 PROVE  \/ colour'[links'[e].target] = "black"
                        \/ i < Len(stack') /\ links'[e].target = stack'[i + 1].node
    BY DEF FrameInv
  <2>2. e \in Kept /\ e \in Edges /\ e >= 1 /\ links[e].target \in Nodes
    BY <1>1, EdgeEnds DEF Kept, Edges
  <2>3. i \in 1..last
    <3>1. i # last + 1
      BY <2>1, <2>2, <1>2, EdgeEnds DEF Frame
    <3> QED
      BY <3>1, <1>2
  <2>4. links' = links /\ stack'[i] = Advanced[i]
    BY <2>3, <1>2 DEF Descend
  <2>5. \/ colour[links[e].target] = "black"
        \/ i < last /\ links[e].target = Advanced[i + 1].node
        \/ i = last /\ e = Edge
    BY <2>1, <2>2, <2>3, <2>4, <1>0, AdvanceKeepsLooked
  <2>6. CASE colour[links[e].target] = "black"
    BY <2>6, <2>2, <2>4, <1>0, <1>3
  <2>7. CASE i < last /\ links[e].target = Advanced[i + 1].node
    <3>1. i + 1 \in 1..last /\ i < Len(stack')
      BY <2>7, <2>3, <1>2
    <3> QED
      BY <3>1, <2>7, <2>4, <1>2
  <2>8. CASE i = last /\ e = Edge
    BY <2>8, <2>4, <1>2 DEF Frame, Target
  <2> QED
    BY <2>5, <2>6, <2>7, <2>8
<1> QED
  BY <1>5, <1>6, <1>7, <1>8, <1>9

LEMMA StutterIInv == ASSUME IInv, UNCHANGED vars PROVE IInv'
<1>1. Edges' = Edges /\ Kept' = Kept /\ Blacks' = Blacks
  BY DEF vars, Edges, Kept, Blacks
<1> QED
  BY <1>1 DEF vars, IInv, SankeyTypeOK, StackInv, OnStack, RootInv, BlackInv,
              FrameInv

\* Once every root is done, every node is finished.
LEMMA IInvImplies == ASSUME Graph, IInv PROVE KeptLinksDescend
<1>1. SUFFICES ASSUME Done, NEW e \in Kept
               PROVE  fin[links[e].target] < fin[links[e].source]
  BY DEF KeptLinksDescend
<1>2. links[e].source \in Nodes
  BY EdgeEnds DEF Kept
<1>3. colour[links[e].source] # "white" /\ stack = <<>>
  BY <1>1, <1>2 DEF IInv, RootInv, Done, Nodes, Graph
<1>4. colour[links[e].source] = "black"
  BY <1>2, <1>3 DEF IInv, StackInv, OnStack, SankeyTypeOK
<1> QED
  BY <1>4 DEF IInv, BlackInv

----------------------------------------------------------------------------
\* For every graph the server may send, of any size: the links left by dropCycles
\* lead from later finished to earlier finished nodes, so they close no cycle and
\* the chart's depth walk ends.
THEOREM PlottedLinksAreAcyclic == ASSUME Graph PROVE Spec => []KeptLinksDescend
<1>1. Init => IInv
  BY InitIInv
<1>2. IInv /\ [Next]_vars => IInv'
  BY NextRootIInv, StartRootIInv, FinishIInv, DropBackEdgeIInv, DescendIInv,
     SkipBlackIInv, StutterIInv DEF Next
<1>3. IInv => KeptLinksDescend
  BY IInvImplies
<1> QED
  BY <1>1, <1>2, <1>3, PTL DEF Spec

\* The search keeps its state well-formed: its stack holds nodes of the list and it
\* drops only links it was given.
THEOREM SearchTypeCorrect == ASSUME Graph PROVE Spec => []SankeyTypeOK
<1>1. Init => IInv
  BY InitIInv
<1>2. IInv /\ [Next]_vars => IInv'
  BY NextRootIInv, StartRootIInv, FinishIInv, DropBackEdgeIInv, DescendIInv,
     SkipBlackIInv, StutterIInv DEF Next
<1>3. IInv => SankeyTypeOK
  BY DEF IInv
<1> QED
  BY <1>1, <1>2, <1>3, PTL DEF Spec
=============================================================================
