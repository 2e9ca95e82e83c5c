-------------------------- MODULE CycleCheckProofs --------------------------
(***************************************************************************)
(* ValidateNoCycle is exact, for every graph: the proof that the colour    *)
(* discipline is inductive and that the verdict follows from it.           *)
(***************************************************************************)
EXTENDS CycleCheck, SequenceTheorems, TLAPS

(* A finished node can join the acyclic black part: none of the black      *)
(* nodes has an edge to it, and it has no edge to itself.                  *)
LEMMA AddFinished ==
  ASSUME NEW E, NEW B, NEW n, n \notin B,
         AcyclicOn(E, B),
         \A b \in B : <<b, n>> \notin E,
         <<n, n>> \notin E
  PROVE  AcyclicOn(E, B \cup {n})
<1> SUFFICES ASSUME NEW T \in SUBSET (B \cup {n}), T # {}
             PROVE  \E x \in T : \A m \in T : <<m, x>> \notin E
  BY DEF AcyclicOn
<1>1. CASE n \in T
  BY <1>1
<1>2. CASE n \notin T
  <2>1. T \in SUBSET B
    BY <1>2
  <2> QED BY <2>1 DEF AcyclicOn
<1> QED BY <1>1, <1>2

(* The invariant holds when the search starts.                             *)
LEMMA InitIInv == Init => IInv
<1> SUFFICES ASSUME Init PROVE IInv
  OBVIOUS
<1>1. TypeOK
  BY ExistingAssumption DEF Init, TypeOK, Children
<1>2. Len(stack) = 0
  BY DEF Init
<1>3. GrayIsStack /\ StackIsPath /\ BlackIsClosed /\ LookedAtIsDone
  BY <1>2 DEF Init, GrayIsStack, StackIsPath, BlackIsClosed, LookedAtIsDone
<1>4. WhiteIsFresh /\ TodoAreEdges
  BY DEF Init, WhiteIsFresh, TodoAreEdges, Children
<1>5. Black = {}
  BY DEF Init, Black
<1>6. AcyclicOn(adj, Black)
  BY <1>5 DEF AcyclicOn
<1> QED BY <1>1, <1>3, <1>4, <1>6 DEF IInv, ColourDiscipline

(* One lemma per action of the search.                                     *)
LEMMA PickRootIInv ==
  ASSUME IInv, result = "running", NEW n \in Nodes, PickRoot(n)
  PROVE  IInv'
<1> USE DEF IInv, ColourDiscipline, PickRoot
<1>1. TypeOK'
  BY DEF TypeOK
<1>2. adj' = adj /\ Black' = Black
  BY DEF adj, Black, TypeOK
<1>3. Len(stack) = 0 /\ Len(stack') = 1 /\ stack'[1] = n
  OBVIOUS
<1>4. GrayIsStack'
  BY <1>3 DEF GrayIsStack, TypeOK
<1>5. StackIsPath'
  BY <1>3 DEF StackIsPath
<1>6. BlackIsClosed'
  BY <1>2 DEF BlackIsClosed, TypeOK
<1>7. LookedAtIsDone'
  BY <1>2, <1>3 DEF LookedAtIsDone, WhiteIsFresh
<1>8. WhiteIsFresh' /\ TodoAreEdges'
  BY <1>2 DEF WhiteIsFresh, TodoAreEdges, TypeOK
<1>9. AcyclicOn(adj, Black)'
  BY <1>2 DEF AcyclicOn
<1> QED BY <1>1, <1>4, <1>5, <1>6, <1>7, <1>8, <1>9

LEMMA PopFrameIInv ==
  ASSUME IInv, result = "running", PopFrame
  PROVE  IInv'
<1> USE DEF IInv, ColourDiscipline, PopFrame
<1> DEFINE k == Len(stack)
<1>1. /\ k \in Nat /\ k > 0 /\ Top \in Nodes /\ Top = stack[k]
      /\ Len(stack') = k - 1
      /\ \A i \in 1..k - 1 : stack'[i] = stack[i]
  <2>1. k \in Nat /\ k > 0 /\ Top \in Nodes /\ Top = stack[k]
    BY DEF TypeOK, Top
  <2>2. Len(stack') = k - 1 /\ \A i \in 1..k - 1 : stack'[i] = stack[i]
    <3>1. 1 \in Int /\ k - 1 \in Int /\ \A i \in 1..k - 1 : stack[i] \in Nodes
      BY <2>1 DEF TypeOK
    <3>2. /\ Len(SubSeq(stack, 1, k - 1)) = IF 1 <= k - 1 THEN k - 1 - 1 + 1 ELSE 0
          /\ \A i \in 1..k - 1 - 1 + 1 : SubSeq(stack, 1, k - 1)[i] = stack[1 + i - 1]
      BY <3>1, SubSeqProperties
    <3>3. \A i \in 1..k - 1 : SubSeq(stack, 1, k - 1)[i] = stack[i]
      BY <2>1, <3>2
    <3>4. stack' = SubSeq(stack, 1, k - 1)
      OBVIOUS
    <3> HIDE DEF k
    <3>5. Len(SubSeq(stack, 1, k - 1)) = k - 1
      BY <2>1, <3>2
    <3> QED BY <3>3, <3>4, <3>5
  <2> QED BY <2>1, <2>2
<1>2. TypeOK'
  BY <1>1 DEF TypeOK
<1>3. adj' = adj
  BY DEF adj
<1>4. GrayIsStack'
  <2> SUFFICES ASSUME NEW n \in Nodes
               PROVE  color'[n] = "gray" <=> \E i \in 1..Len(stack') : stack'[i] = n
    BY DEF GrayIsStack
  <2>1. CASE n = Top
    <3>1. color'[n] = "black"
      BY <1>1, <2>1 DEF TypeOK
    <3>2. \A i \in 1..k - 1 : stack[i] # n
      BY <1>1, <2>1 DEF StackIsPath
    <3> QED BY <1>1, <3>1, <3>2
  <2>2. CASE n # Top
    <3>1. color'[n] = color[n]
      BY <1>1, <2>2 DEF TypeOK
    <3>2. (\E i \in 1..k : stack[i] = n) <=> (\E i \in 1..k - 1 : stack[i] = n)
      BY <1>1, <2>2
    <3> QED BY <1>1, <3>1, <3>2 DEF GrayIsStack
  <2> QED BY <2>1, <2>2
<1>5. StackIsPath'
  <2>1. ASSUME NEW i \in 1..Len(stack'), NEW j \in 1..Len(stack'), stack'[i] = stack'[j]
        PROVE  i = j
    <3>1. i \in 1..k /\ j \in 1..k /\ stack[i] = stack[j]
      BY <1>1, <2>1
    <3> QED BY <3>1 DEF StackIsPath
  <2>2. ASSUME NEW i \in 1..Len(stack') - 1
        PROVE  <<stack'[i], stack'[i + 1]>> \in adj'
    <3>1. /\ i \in 1..k - 1
          /\ stack'[i] = stack[i] /\ stack'[i + 1] = stack[i + 1]
      BY <1>1, <2>2
    <3> QED BY <1>3, <3>1 DEF StackIsPath
  <2> QED BY <2>1, <2>2 DEF StackIsPath
<1>6. \A m \in Nodes : <<Top, m>> \in adj => color[m] = "black"
  BY <1>1 DEF LookedAtIsDone
<1>7. BlackIsClosed'
  BY <1>1, <1>3, <1>6 DEF BlackIsClosed, TypeOK
<1>8. LookedAtIsDone'
  BY <1>1, <1>3 DEF LookedAtIsDone, TypeOK
<1>9. WhiteIsFresh' /\ TodoAreEdges'
  BY <1>1, <1>3 DEF WhiteIsFresh, TodoAreEdges, TypeOK
<1>10. color[Top] = "gray"
  BY <1>1 DEF GrayIsStack
<1>11. Black' = Black \cup {Top}
  BY <1>1 DEF Black, TypeOK
<1>12. AcyclicOn(adj, Black \cup {Top})
  <2>1. Top \notin Black
    BY <1>10 DEF Black
  <2>2. \A b \in Black : <<b, Top>> \notin adj
    BY <1>1, <1>10 DEF Black, BlackIsClosed
  <2>3. <<Top, Top>> \notin adj
    BY <1>1, <1>6, <1>10
  <2> QED BY <2>1, <2>2, <2>3, AddFinished
<1>13. AcyclicOn(adj, Black)'
  BY <1>3, <1>11, <1>12 DEF AcyclicOn
<1> QED BY <1>2, <1>4, <1>5, <1>7, <1>8, <1>9, <1>13

LEMMA VisitChildIInv ==
  ASSUME IInv, result = "running", NEW c \in Nodes, VisitChild(c)
  PROVE  IInv'
<1> USE DEF IInv, ColourDiscipline, VisitChild
<1> DEFINE k == Len(stack)
<1>1. /\ k \in Nat /\ k > 0 /\ Top \in Nodes /\ Top = stack[k]
      /\ adj' = adj
  BY DEF TypeOK, Top, adj
<1>2. color[Top] = "gray"
  BY <1>1 DEF GrayIsStack
<1>3. WhiteIsFresh' /\ TodoAreEdges'
  BY <1>1, <1>2 DEF WhiteIsFresh, TodoAreEdges, TypeOK, Descend, BackEdge, SkipDone
<1>4. CASE Descend(c)
  <2>1. /\ Len(stack') = k + 1 /\ stack'[k + 1] = c
        /\ \A i \in 1..k : stack'[i] = stack[i]
    BY <1>1, <1>4 DEF Descend, TypeOK
  <2>2. TypeOK'
    BY <1>1, <1>4 DEF Descend, TypeOK
  <2>3. GrayIsStack'
    BY <1>1, <1>4, <2>1 DEF Descend, GrayIsStack, TypeOK
  <2>4. <<Top, c>> \in adj
    BY <1>1 DEF TodoAreEdges
  <2>5. StackIsPath'
    <3>1. \A i \in 1..k : stack[i] # c
      BY <1>4 DEF Descend, GrayIsStack
    <3>2. ASSUME NEW i \in 1..Len(stack'), NEW j \in 1..Len(stack'), stack'[i] = stack'[j]
          PROVE  i = j
      <4>1. i \in 1..k + 1 /\ j \in 1..k + 1
        BY <2>1
      <4>2. CASE i \in 1..k /\ j \in 1..k
        BY <2>1, <3>2, <4>2 DEF StackIsPath
      <4> QED BY <1>1, <2>1, <3>1, <3>2, <4>1, <4>2
    <3>3. ASSUME NEW i \in 1..Len(stack') - 1
          PROVE  <<stack'[i], stack'[i + 1]>> \in adj'
      <4>1. i \in 1..k
        BY <1>1, <2>1
      <4>2. CASE i = k
        BY <1>1, <2>1, <2>4, <4>2
      <4>3. CASE i \in 1..k - 1
        <5>1. stack'[i] = stack[i] /\ stack'[i + 1] = stack[i + 1]
          BY <1>1, <2>1, <4>3
        <5> QED BY <1>1, <4>3, <5>1 DEF StackIsPath
      <4> QED BY <1>1, <4>1, <4>2, <4>3
    <3> QED BY <3>2, <3>3 DEF StackIsPath
  <2>6. BlackIsClosed'
    BY <1>1, <1>4 DEF Descend, BlackIsClosed, TypeOK
  <2>7. LookedAtIsDone'
    <3> SUFFICES ASSUME NEW i \in 1..Len(stack'), NEW m \in Nodes,
                        <<stack'[i], m>> \in adj', m \notin todo'[stack'[i]]
                 PROVE  color'[m] = "black" \/ (i < Len(stack') /\ m = stack'[i + 1])
      BY DEF LookedAtIsDone
    <3>1. CASE i = k + 1
      <4>1. c # Top
        BY <1>2, <1>4 DEF Descend
      <4>2. todo'[c] = todo[c]
        BY <1>1, <4>1 DEF TypeOK
      <4> QED BY <1>1, <1>4, <2>1, <3>1, <4>2 DEF Descend, WhiteIsFresh
    <3>2. CASE i = k
      <4>1. stack'[i] = Top /\ stack'[i + 1] = c /\ i < Len(stack')
        BY <1>1, <2>1, <3>2
      <4>2. m \in todo[Top] => m = c
        BY <1>1, <4>1 DEF TypeOK
      <4>3. m \notin todo[Top] => color[m] = "black"
        BY <1>1, <4>1 DEF LookedAtIsDone
      <4> QED BY <1>4, <4>1, <4>2, <4>3 DEF Descend, TypeOK
    <3>3. CASE i \in 1..k - 1
      <4>1. stack'[i] = stack[i] /\ stack'[i + 1] = stack[i + 1] /\ stack[i] \in Nodes
        BY <1>1, <2>1, <3>3 DEF TypeOK
      <4>2. stack[i] # Top
        BY <1>1, <3>3 DEF StackIsPath
      <4>3. m \notin todo[stack[i]]
        BY <1>1, <4>1, <4>2 DEF TypeOK
      <4>4. color[m] = "black" \/ m = stack[i + 1]
        BY <1>1, <3>3, <4>1, <4>3 DEF LookedAtIsDone
      <4> QED BY <1>1, <1>4, <2>1, <3>3, <4>1, <4>4 DEF Descend, TypeOK
    <3> QED BY <1>1, <2>1, <3>1, <3>2, <3>3
  <2>8. Black' = Black
    BY <1>4 DEF Descend, Black, TypeOK
  <2>9. AcyclicOn(adj, Black)'
    BY <1>1, <2>8 DEF AcyclicOn
  <2> QED BY <1>3, <2>2, <2>3, <2>5, <2>6, <2>7, <2>9
<1>5. CASE BackEdge(c)
  <2> USE <1>5 DEF BackEdge
  <2>1. TypeOK'
    BY DEF TypeOK
  <2>2. Black' = Black
    BY DEF Black
  <2>3. AcyclicOn(adj, Black)'
    BY <1>1, <2>2 DEF AcyclicOn
  <2> QED BY <1>1, <1>3, <2>1, <2>3
          DEF GrayIsStack, StackIsPath, BlackIsClosed, LookedAtIsDone
<1>6. CASE SkipDone(c)
  <2> USE <1>6 DEF SkipDone
  <2>1. TypeOK'
    BY DEF TypeOK
  <2>2. Black' = Black
    BY DEF Black
  <2>3. AcyclicOn(adj, Black)'
    BY <1>1, <2>2 DEF AcyclicOn
  <2>4. LookedAtIsDone'
    BY <1>1 DEF LookedAtIsDone, TypeOK
  <2> QED BY <1>1, <1>3, <2>1, <2>3, <2>4 DEF GrayIsStack, StackIsPath, BlackIsClosed
<1> QED BY <1>4, <1>5, <1>6

LEMMA AcceptIInv ==
  ASSUME IInv, result = "running", Accept
  PROVE  IInv'
<1> USE DEF IInv, ColourDiscipline, Accept
<1>1. adj' = adj /\ Black' = Black
  BY DEF adj, Black
<1>2. AcyclicOn(adj, Black)'
  BY <1>1 DEF AcyclicOn
<1> QED BY <1>1, <1>2
        DEF TypeOK, GrayIsStack, StackIsPath, BlackIsClosed, LookedAtIsDone, WhiteIsFresh,
            TodoAreEdges

LEMMA StepIInv == IInv /\ [Next]_vars => IInv'
<1> SUFFICES ASSUME IInv, [Next]_vars PROVE IInv'
  OBVIOUS
<1>1. CASE UNCHANGED vars
  <2>1. adj' = adj /\ Black' = Black
    BY <1>1 DEF vars, adj, Black
  <2>2. AcyclicOn(adj, Black)'
    BY <2>1 DEF AcyclicOn, IInv, ColourDiscipline
  <2> QED BY <1>1, <2>1, <2>2
          DEF vars, IInv, ColourDiscipline, TypeOK, GrayIsStack, StackIsPath,
              BlackIsClosed, LookedAtIsDone, WhiteIsFresh, TodoAreEdges
<1>2. CASE Next
  BY <1>2, PickRootIInv, VisitChildIInv, PopFrameIInv, AcceptIInv DEF Next, Step
<1> QED BY <1>1, <1>2

(* The colour discipline of the search in ValidateNoCycle holds at every   *)
(* step, for every graph and every order of iteration.                     *)
THEOREM ColoursAreRight == Spec => []IInv
BY InitIInv, StepIInv, PTL DEF Spec

-----------------------------------------------------------------------------
(* A gray child closes a cycle: the frames from it up to the top.          *)
LEMMA BackEdgeIsCycle ==
  ASSUME IInv, NEW c \in Nodes, stack # <<>>, c \in todo[Top], color[c] = "gray"
  PROVE  ~Acyclic(adj)
<1> DEFINE k == Len(stack)
<1>1. k \in Nat /\ k > 0 /\ Top \in Nodes /\ Top = stack[k]
  BY DEF IInv, TypeOK, Top
<1>2. PICK i \in 1..k : stack[i] = c
  BY <1>1 DEF IInv, ColourDiscipline, GrayIsStack
<1> DEFINE T == {n \in Nodes : \E j \in i..k : stack[j] = n}
<1>3. T \in SUBSET Nodes /\ c \in T /\ T # {}
  BY <1>1, <1>2
<1>4. \A n \in T : \E m \in T : <<m, n>> \in adj
  <2> SUFFICES ASSUME NEW j \in i..k PROVE \E m \in T : <<m, stack[j]>> \in adj
    OBVIOUS
  <2>1. CASE j = i
    <3>1. Top \in T
      BY <1>1, <1>2
    <3>2. <<Top, c>> \in adj
      BY <1>1 DEF IInv, ColourDiscipline, TodoAreEdges
    <3> QED BY <1>2, <2>1, <3>1, <3>2
  <2>2. CASE i < j
    <3>1. j - 1 \in i..k /\ stack[j - 1] \in Nodes /\ j - 1 \in 1..k - 1
      BY <1>1, <1>2, <2>2 DEF IInv, TypeOK
    <3>2. <<stack[j - 1], stack[(j - 1) + 1]>> \in adj
      BY <3>1 DEF IInv, ColourDiscipline, StackIsPath
    <3>3. stack[(j - 1) + 1] = stack[j]
      BY <1>1, <1>2
    <3> QED BY <3>1, <3>2, <3>3
  <2>3. j = i \/ i < j
    BY <1>1, <1>2
  <2> QED BY <2>1, <2>2, <2>3
<1> QED BY <1>3, <1>4 DEF Acyclic, AcyclicOn

(* When every end point is black the whole graph is acyclic.               *)
LEMMA AllBlackIsAcyclic ==
  ASSUME IInv, stack = <<>>, \A n \in Reached : color[n] # "white"
  PROVE  Acyclic(adj)
<1>1. Reached \subseteq Black
  <2>1. Len(stack) = 0
    OBVIOUS
  <2>2. \A n \in Nodes : color[n] # "gray"
    <3>1. ~ \E i \in 1..Len(stack) : TRUE
      BY <2>1
    <3> QED BY <3>1 DEF IInv, ColourDiscipline, GrayIsStack
  <2> QED BY <2>2 DEF Reached, Black, IInv, TypeOK
<1> SUFFICES ASSUME NEW T \in SUBSET Nodes, T # {}
             PROVE  \E n \in T : \A m \in T : <<m, n>> \notin adj
  BY DEF Acyclic, AcyclicOn
<1>2. CASE T \subseteq Black
  BY <1>2 DEF IInv, ColourDiscipline, AcyclicOn
<1>3. CASE ~(T \subseteq Black)
  <2>1. PICK n \in T : n \notin Reached
    BY <1>1, <1>3
  <2>2. \A m \in T : <<m, n>> \notin adj
    <3> SUFFICES ASSUME NEW m \in T, <<m, n>> \in adj PROVE FALSE
      OBVIOUS
    <3>1. <<m, n>>[2] = n
      OBVIOUS
    <3> QED BY <2>1, <3>1 DEF Reached
  <2> QED BY <2>1, <2>2
<1> QED BY <1>2, <1>3

(* ValidateNoCycle accepts an edge exactly when the graph stays acyclic:   *)
(* Graph.AddEdge relies on it for the aggregate to be a DAG.               *)
THEOREM VerdictCorrect == Spec => []VerdictIsExact
<1>1. Init => VerdictIsExact
  <2> SUFFICES ASSUME Init, add[1] = add[2] PROVE ~Acyclic(adj)
    BY DEF Init, VerdictIsExact
  <2>1. add[1] \in Nodes /\ <<add[1], add[1]>> \in adj
    BY DEF Init, adj
  <2>2. {add[1]} \in SUBSET Nodes /\ {add[1]} # {}
    BY <2>1
  <2> QED BY <2>1, <2>2 DEF Acyclic, AcyclicOn
<1>2. IInv /\ VerdictIsExact /\ [Next]_vars => VerdictIsExact'
  <2> SUFFICES ASSUME IInv, VerdictIsExact, [Next]_vars PROVE VerdictIsExact'
    OBVIOUS
  <2>1. adj' = adj
    BY DEF Next, Step, PickRoot, VisitChild, PopFrame, Accept, vars, adj
  <2>2. Acyclic(adj)' = Acyclic(adj)
    BY <2>1 DEF Acyclic, AcyclicOn
  <2>3. CASE UNCHANGED result
    BY <2>2, <2>3 DEF VerdictIsExact
  <2>4. CASE result' # result
    <3>1. Next
      BY <2>4 DEF vars
    <3>2. Accept \/ \E c \in Nodes : VisitChild(c) /\ BackEdge(c)
      BY <2>4, <3>1 DEF Next, Step, PickRoot, VisitChild, PopFrame, Descend, SkipDone
    <3>3. CASE Accept
      BY <2>2, <3>3, AllBlackIsAcyclic DEF Accept, VerdictIsExact
    <3>4. ASSUME NEW c \in Nodes, VisitChild(c), BackEdge(c) PROVE VerdictIsExact'
      BY <2>2, <3>4, BackEdgeIsCycle DEF VisitChild, BackEdge, VerdictIsExact
    <3> QED BY <3>2, <3>3, <3>4
  <2> QED BY <2>3, <2>4
<1> QED BY <1>1, <1>2, ColoursAreRight, PTL DEF Spec
=============================================================================
