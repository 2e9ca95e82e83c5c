------------------------ MODULE OrchestrationProofs ------------------------
(***************************************************************************)
(* Proofs about the orchestration graph, for every set of nodes, every     *)
(* edge and every condition config.  OrchestrationGraph, one operation at  *)
(* a time: the graph stays a well-formed DAG, and because it does, a graph *)
(* that is not done always has a node to move on.  OrchestrationService,   *)
(* any number of callers with stale reads: what the rows keep of it.       *)
(***************************************************************************)
EXTENDS OrchestrationService, FiniteSetTheorems, TLAPS

(* Removing dependencies cannot create a cycle.                            *)
LEMMA SubAcyclic ==
  ASSUME NEW E, NEW F, NEW S, AcyclicOn(E, S), F \subseteq E
  PROVE  AcyclicOn(F, S)
BY DEF AcyclicOn

(* The node mutators (Start, Complete, Reopen, Discard, SetMetadata) give  *)
(* back a node row.                                                        *)
LEMMA RowTypes ==
  ASSUME NEW n \in NodeRow
  PROVE  /\ Started(n) \in NodeRow
         /\ \A out \in Outcomes \cup {"success", "force_success"} : Completed(n, out) \in NodeRow
         /\ Reopened(n) \in NodeRow
         /\ Discarded(n) \in NodeRow
         /\ \A m \in Metas : [n EXCEPT !.meta = m] \in NodeRow
         /\ \A t \in Tasks \cup {NoTask} : [n EXCEPT !.meta.task = t] \in NodeRow
<1>1. n \in [kind : Kinds, status : NodeStatus,
             outcome : Outcomes \cup {"", "success", "force_success"},
             reopens : Nat, meta : Metas]
  BY DEF NodeRow
<1>2. Started(n) \in NodeRow BY <1>1 DEF Started, NodeRow, NodeStatus
<1>3. \A out \in Outcomes \cup {"success", "force_success"} : Completed(n, out) \in NodeRow
  BY <1>1 DEF Completed, NodeRow, NodeStatus
<1>4. Reopened(n) \in NodeRow
  <2>1. n.reopens + 1 \in Nat
    <3>1. n.reopens \in Nat BY <1>1
    <3>2. \A x \in Nat : x + 1 \in Nat OBVIOUS
    <3> QED BY <3>1, <3>2
  <2>2. \A r \in Nat :
          [n EXCEPT !.status = "reopen", !.outcome = "", !.reopens = r] \in NodeRow
    BY <1>1 DEF NodeRow, NodeStatus
  <2> QED BY <2>1, <2>2 DEF Reopened
<1>5. Discarded(n) \in NodeRow BY <1>1 DEF Discarded, NodeRow, NodeStatus
<1>6. \A m \in Metas : [n EXCEPT !.meta = m] \in NodeRow BY <1>1 DEF NodeRow
<1>7. \A t \in Tasks \cup {NoTask} : [n EXCEPT !.meta.task = t] \in NodeRow
  BY <1>1, <1>6, ConstantsAssumption
<1> QED BY <1>2, <1>3, <1>4, <1>5, <1>6, <1>7

(* A new node is a node row.                                               *)
LEMMA NewNodeType ==
  ASSUME NEW kind \in Kinds, NEW meta \in Metas
  PROVE  NewNode(kind, meta) \in NodeRow
BY DEF NewNode, NodeRow, NodeStatus

(* ApplyConditionResult rewrites rows and adds or drops none.              *)
LEMMA ResolutionType ==
  ASSUME NEW D, NEW f \in [D -> NodeRow], NEW E, NEW c \in D, NEW cfg,
         NEW success \in BOOLEAN
  PROVE  ApplyConditionResult(f, E, c, cfg, success) \in [D -> NodeRow]
<1>1. f[c] \in NodeRow OBVIOUS
<1>2. \A id \in D : Reopened(f[id]) \in NodeRow BY RowTypes
<1>3. LoopedBack(f[c]) \in NodeRow BY <1>1, <1>2 DEF LoopedBack
<1>4. Completed(f[c], "success") \in NodeRow /\ Completed(f[c], "force_success") \in NodeRow
      /\ Discarded(f[c]) \in NodeRow
  BY <1>1, RowTypes
<1>5. CASE success BY <1>1, <1>4, <1>5 DEF ApplyConditionResult
<1>6. CASE ~success /\ MaxExceeded(f[c], cfg)
  BY <1>1, <1>4, <1>6 DEF ApplyConditionResult
<1>7. CASE ~success /\ ~MaxExceeded(f[c], cfg)
  <2>1. ApplyConditionResult(f, E, c, cfg, success)
          = [id \in D |->
               IF id = c THEN LoopedBack(f[c])
               ELSE IF id \in ToReopen(E, c, cfg) /\ f[id].status = "completed"
               THEN Reopened(f[id])
               ELSE f[id]]
    BY <1>7 DEF ApplyConditionResult
  <2> QED BY <2>1, <1>2, <1>3
<1> QED BY <1>5, <1>6, <1>7

-----------------------------------------------------------------------------
(* A write to one row keeps the graph well formed.                         *)
LEMMA WriteRowIInv ==
  ASSUME IInv, NEW id \in DOMAIN nodes, NEW row \in NodeRow, WriteRow(id, row)
  PROVE  IInv'
<1>1. nodes \in [DOMAIN nodes -> NodeRow] BY DEF IInv, TypeOK
<1>2. DOMAIN nodes' = DOMAIN nodes /\ nodes' \in [DOMAIN nodes' -> NodeRow]
  BY <1>1 DEF WriteRow
<1> QED BY <1>2 DEF WriteRow, IInv, TypeOK, GraphIsDag, EdgesJoinNodes

LEMMA OneNodeIInv ==
  ASSUME IInv, NEW id \in Operated \cap DOMAIN nodes, OneNode(id)
  PROVE  IInv'
<1>1. nodes[id] \in NodeRow BY DEF IInv, TypeOK
<1>2. id \in NodeIds BY ConstantsAssumption
<1>3. ASSUME NEW m \in MetaInputs[id], UpdateNode(id, m) PROVE IInv'
  <2>1. m \in Metas BY <1>2, ConstantsAssumption
  <2> QED BY <2>1, <1>1, <1>3, RowTypes, WriteRowIInv DEF UpdateNode
<1>4. ASSUME NEW t \in TaskInputs[id], BindTask(id, t) PROVE IInv'
  <2>1. t \in Tasks BY <1>2, ConstantsAssumption
  <2> QED BY <2>1, <1>1, <1>4, RowTypes, WriteRowIInv DEF BindTask
<1>5. CASE UnbindTask(id) BY <1>1, <1>5, RowTypes, WriteRowIInv DEF UnbindTask
<1>6. CASE StartNode(id) BY <1>1, <1>6, RowTypes, WriteRowIInv DEF StartNode
<1>7. ASSUME NEW out \in Outcomes, CompleteNode(id, out) PROVE IInv'
  BY <1>1, <1>7, RowTypes, WriteRowIInv DEF CompleteNode
<1>8. CASE DiscardNode(id) BY <1>1, <1>8, RowTypes, WriteRowIInv DEF DiscardNode
<1>9. CASE ReopenNode(id) BY <1>1, <1>9, RowTypes, WriteRowIInv DEF ReopenNode
<1>10. ASSUME NEW success \in BOOLEAN, ResolveCondition(id, success) PROVE IInv'
  <2>1. nodes' \in [DOMAIN nodes -> NodeRow]
    BY <1>10, ResolutionType DEF ResolveCondition, IInv, TypeOK
  <2> QED BY <2>1, <1>10 DEF ResolveCondition, IInv, TypeOK, GraphIsDag, EdgesJoinNodes
<1> QED BY <1>3, <1>4, <1>5, <1>6, <1>7, <1>8, <1>9, <1>10 DEF OneNode

LEMMA AddNodeIInv ==
  ASSUME IInv, NEW id \in Ids, NEW m \in MetaInputs[id], AddNode(id, m)
  PROVE  IInv'
<1>1. NewNode(KindOf[id], m) \in NodeRow
  BY ConstantsAssumption, NewNodeType DEF NodeIds
<1>2. nodes' \in [DOMAIN nodes \cup {id} -> NodeRow]
  BY <1>1 DEF AddNode, IInv, TypeOK
<1> QED BY <1>2 DEF AddNode, IInv, TypeOK, NodeIds, GraphIsDag, EdgesJoinNodes

LEMMA RemoveNodeIInv ==
  ASSUME IInv, NEW id \in NodeIds, RemoveNode(id)
  PROVE  IInv'
<1>1. nodes' \in [DOMAIN nodes \ {id} -> NodeRow] BY DEF RemoveNode, IInv, TypeOK
<1>2. edges' \subseteq edges /\ \A e \in edges' : e[1] # id /\ e[2] # id
  BY DEF RemoveNode, Touching
<1>3. AcyclicOn(edges', NodeIds) BY <1>2, SubAcyclic DEF IInv, GraphIsDag
<1> QED BY <1>1, <1>2, <1>3 DEF RemoveNode, IInv, TypeOK, GraphIsDag, EdgesJoinNodes

LEMMA EdgeIInv ==
  ASSUME IInv, NEW e \in EdgeInputs, AddEdge(e) \/ RemoveEdge(e)
  PROVE  IInv'
<1>1. e \in NodeIds \X NodeIds BY ConstantsAssumption
<1>2. CASE AddEdge(e)
  BY <1>1, <1>2 DEF AddEdge, IInv, TypeOK, GraphIsDag, EdgesJoinNodes
<1>3. CASE RemoveEdge(e)
  <2>1. AcyclicOn(edges', NodeIds)
    BY <1>3, SubAcyclic DEF RemoveEdge, IInv, GraphIsDag
  <2> QED BY <2>1, <1>3 DEF RemoveEdge, IInv, TypeOK, GraphIsDag, EdgesJoinNodes
<1> QED BY <1>2, <1>3

-----------------------------------------------------------------------------
LEMMA InitIInv == Init => IInv
<1> SUFFICES ASSUME Init PROVE IInv OBVIOUS
<1>1. EmptyMeta \in Metas BY ConstantsAssumption DEF EmptyMeta
<1>2. nodes \in [{StartId, EndId} -> NodeRow]
  BY <1>1, NewNodeType DEF Init, Kinds
<1> QED BY <1>2 DEF Init, IInv, TypeOK, NodeIds, GraphStatus, GraphIsDag, EdgesJoinNodes, AcyclicOn

LEMMA NextIInv == IInv /\ [Next]_vars => IInv'
<1> SUFFICES ASSUME IInv, [Next]_vars PROVE IInv' OBVIOUS
<1>1. CASE StartGraph
  BY <1>1 DEF StartGraph, IInv, TypeOK, GraphStatus, GraphIsDag, EdgesJoinNodes
<1>2. CASE FinishGraph
  BY <1>2 DEF FinishGraph, IInv, TypeOK, GraphStatus, GraphIsDag, EdgesJoinNodes
<1>3. CASE UNCHANGED vars
  BY <1>3 DEF vars, IInv, TypeOK, GraphIsDag, EdgesJoinNodes
<1> QED
  BY <1>1, <1>2, <1>3, AddNodeIInv, RemoveNodeIInv, OneNodeIInv, EdgeIInv DEF Next

(* Every sequence of operations keeps the rows well typed, every edge      *)
(* between two nodes present, and the dependencies acyclic.                *)
THEOREM StaysWellFormed == Spec => []IInv
<1>1. Init => IInv BY InitIInv
<1>2. IInv /\ [Next]_vars => IInv' BY NextIInv
<1> QED BY <1>1, <1>2, PTL DEF Spec

(* In a well-formed graph some node can be moved on until all are done: of *)
(* the nodes still to be resolved, one has no unresolved dependency.       *)
LEMMA DagMovesOn == IInv => NeverStuck
<1> SUFFICES ASSUME IInv, ~IsAutoDone(nodes), Business(nodes) # {}
             PROVE  \E id \in DOMAIN nodes : Actionable(id)
  BY DEF NeverStuck
<1> DEFINE T == {id \in DOMAIN nodes : ~Satisfied(nodes, id)}
<1>1. T # {} BY DEF IsAutoDone, Business, Satisfied, Anchor
<1>2. T \subseteq NodeIds BY DEF IInv, TypeOK
<1>3. PICK id \in T : \A m \in T : <<m, id>> \notin edges
  BY <1>1, <1>2 DEF IInv, GraphIsDag, AcyclicOn
<1>4. \A d \in Upstream(edges, id) : Satisfied(nodes, d)
  <2> SUFFICES ASSUME NEW x \in edges, x[2] = id PROVE Satisfied(nodes, x[1])
    BY DEF Upstream
  <2>1. x = <<x[1], id>> BY DEF IInv, TypeOK
  <2>2. x[1] \in DOMAIN nodes BY DEF IInv, GraphIsDag, EdgesJoinNodes
  <2> QED BY <2>1, <2>2, <1>3
<1>5. nodes[id] \in NodeRow BY DEF IInv, TypeOK
<1>6. nodes[id].kind \in {"business", "condition"} /\ ~Resolved(nodes[id])
  BY <1>5 DEF Satisfied, Anchor, NodeRow, Kinds
<1>7. nodes[id].status \in {"open", "reopen", "running"}
  BY <1>5, <1>6 DEF Resolved, NodeRow, NodeStatus
<1>8. Actionable(id)
  BY <1>4, <1>6, <1>7 DEF Actionable, ReadyNodes, Waiting, Anchor
<1> QED BY <1>8

(* A graph with business nodes left to resolve never deadlocks: some node  *)
(* is running, ready, or a condition that waits only for its result.       *)
THEOREM NeverStuckAlways == Spec => []NeverStuck
<1>1. IInv => NeverStuck BY DagMovesOn
<1> QED BY <1>1, StaysWellFormed, PTL
-----------------------------------------------------------------------------
(* ReopenChain.  What is reached from x holds x, no pair leads out of it,  *)
(* and it is the least such set.                                           *)
LEMMA ReachIsLeast ==
  ASSUME NEW x, NEW R
  PROVE  /\ x \in Reach({x}, R)
         /\ \A r \in R : r[1] \in Reach({x}, R) => r[2] \in Reach({x}, R)
         /\ \A T : x \in T /\ (\A r \in R : r[1] \in T => r[2] \in T) => Reach({x}, R) \subseteq T
<1> DEFINE all == {x} \cup {r[2] : r \in R}
<1>1. x \in Reach({x}, R) BY DEF Reach
<1>2. \A r \in R : r[1] \in Reach({x}, R) => r[2] \in Reach({x}, R) BY DEF Reach
<1>3. ASSUME NEW T, x \in T, \A r \in R : r[1] \in T => r[2] \in T
      PROVE  Reach({x}, R) \subseteq T
  <2>1. T \cap all \in SUBSET all /\ {x} \subseteq T \cap all BY <1>3
  <2>2. \A r \in R : r[1] \in T \cap all => r[2] \in T \cap all BY <1>3
  <2> QED BY <2>1, <2>2 DEF Reach
<1> QED BY <1>1, <1>2, <1>3

(* What is reached from a reached node is reached.                         *)
LEMMA ReachGoesOn ==
  ASSUME NEW x, NEW R, NEW y \in Reach({x}, R)
  PROVE  Reach({y}, R) \subseteq Reach({x}, R)
BY ReachIsLeast

LEMMA ReachFromBefore ==
  ASSUME NEW R, NEW r \in R
  PROVE  Reach({r[2]}, R) \subseteq Reach({r[1]}, R)
<1>1. r[2] \in Reach({r[1]}, R) BY ReachIsLeast
<1> QED BY <1>1, ReachGoesOn

(* A node that is reached, and is not the first, is reached by a last pair.*)
LEMMA ReachHasLastStep ==
  ASSUME NEW x, NEW R, NEW y \in Reach({x}, R), y # x
  PROVE  \E r \in R : r[1] \in Reach({x}, R) /\ r[2] = y
<1> SUFFICES ASSUME \A r \in R : r[1] \in Reach({x}, R) => r[2] # y PROVE FALSE
  OBVIOUS
<1> DEFINE T == Reach({x}, R) \ {y}
<1>1. x \in T BY ReachIsLeast
<1>2. \A r \in R : r[1] \in T => r[2] \in T BY ReachIsLeast
<1>3. Reach({x}, R) \subseteq T
  <2> HIDE DEF T
  <2> QED BY <1>1, <1>2, ReachIsLeast
<1> QED BY <1>3

LEMMA ReachStaysInside ==
  ASSUME NEW N, NEW E, E \subseteq N \X N, NEW x \in N
  PROVE  Reach({x}, E) \subseteq N /\ Reach({x}, Backward(E)) \subseteq N
<1>1. \A e \in E : e[2] \in N /\ e[1] \in N OBVIOUS
<1>2. \A r \in Backward(E) : r[2] \in N BY <1>1 DEF Backward
<1>3. \A r \in E : r[1] \in N => r[2] \in N BY <1>1
<1>4. \A r \in Backward(E) : r[1] \in N => r[2] \in N BY <1>2
<1> QED BY <1>3, <1>4, ReachIsLeast

(* Searching backward finds the nodes one could have come from.            *)
LEMMA BackwardIsConverse ==
  ASSUME NEW N, NEW E, E \subseteq N \X N, NEW x \in N, NEW y \in N
  PROVE  x \in Reach({y}, Backward(E)) <=> y \in Reach({x}, E)
<1>0. /\ \A e \in E : e[1] \in N /\ e[2] \in N /\ <<e[2], e[1]>> \in Backward(E)
      /\ \A r \in Backward(E) : <<r[2], r[1]>> \in E /\ r[1] \in N /\ r[2] \in N
  <2>1. \A e \in E : e[1] \in N /\ e[2] \in N /\ <<e[2], e[1]>> \in Backward(E) BY DEF Backward
  <2>2. ASSUME NEW r \in Backward(E) PROVE <<r[2], r[1]>> \in E /\ r[1] \in N /\ r[2] \in N
    <3>1. PICK e \in E : r = <<e[2], e[1]>> BY DEF Backward
    <3>2. e = <<e[1], e[2]>> OBVIOUS
    <3> QED BY <2>1, <3>1, <3>2
  <2> QED BY <2>1, <2>2
<1>1. ASSUME x \in Reach({y}, Backward(E)) PROVE y \in Reach({x}, E)
  <2> DEFINE T == {m \in N : y \in Reach({m}, E)}
  <2>1. y \in T BY ReachIsLeast
  <2>2. ASSUME NEW r \in Backward(E), r[1] \in T PROVE r[2] \in T
    <3>1. Reach({r[1]}, E) \subseteq Reach({r[2]}, E)
      <4>1. PICK e : e = <<r[2], r[1]>> OBVIOUS
      <4>2. e \in E /\ e[1] = r[2] /\ e[2] = r[1] BY <1>0, <4>1
      <4>3. Reach({e[2]}, E) \subseteq Reach({e[1]}, E) BY <4>2, ReachFromBefore
      <4> QED BY <4>2, <4>3
    <3> QED BY <1>0, <2>2, <3>1
  <2>3. Reach({y}, Backward(E)) \subseteq T
    <3> HIDE DEF T
    <3> QED BY <2>1, <2>2, ReachIsLeast
  <2> QED BY <1>1, <2>3
<1>2. ASSUME y \in Reach({x}, E) PROVE x \in Reach({y}, Backward(E))
  <2> DEFINE T == {m \in N : x \in Reach({m}, Backward(E))}
  <2>1. x \in T BY ReachIsLeast
  <2>2. ASSUME NEW e \in E, e[1] \in T PROVE e[2] \in T
    <3>1. Reach({e[1]}, Backward(E)) \subseteq Reach({e[2]}, Backward(E))
      <4>1. PICK r : r = <<e[2], e[1]>> OBVIOUS
      <4>2. r \in Backward(E) /\ r[1] = e[2] /\ r[2] = e[1] BY <1>0, <4>1
      <4>3. Reach({r[2]}, Backward(E)) \subseteq Reach({r[1]}, Backward(E)) BY <4>2, ReachFromBefore
      <4> QED BY <4>2, <4>3
    <3> QED BY <1>0, <2>2, <3>1
  <2>3. Reach({x}, E) \subseteq T
    <3> HIDE DEF T
    <3> QED BY <2>1, <2>2, ReachIsLeast
  <2> QED BY <1>2, <2>3
<1> QED BY <1>1, <1>2

(* In an acyclic graph nothing that is reached leads back.                 *)
LEMMA NoWayBack ==
  ASSUME NEW N, NEW E, E \subseteq N \X N, AcyclicOn(E, N), NEW x \in N, NEW y \in N,
         y \in Reach({x}, E), x \in Reach({y}, E)
  PROVE  x = y
<1> SUFFICES ASSUME x # y PROVE FALSE OBVIOUS
<1> DEFINE T == {m \in N : m \in Reach({x}, E) /\ x \in Reach({m}, E)}
<1>1. x \in T /\ T \in SUBSET N BY ReachIsLeast
<1>2. ASSUME NEW e \in E, e[1] \in Reach({x}, E), e[2] \in T
      PROVE  e[1] \in T /\ <<e[1], e[2]>> \in E
  <2>1. e = <<e[1], e[2]>> /\ e[1] \in N OBVIOUS
  <2>2. Reach({e[2]}, E) \subseteq Reach({e[1]}, E) BY ReachFromBefore
  <2> QED BY <1>2, <2>1, <2>2
<1>3. ASSUME NEW n \in T PROVE \E m \in T : <<m, n>> \in E
  <2>1. CASE n # x
    <3>1. PICK e \in E : e[1] \in Reach({x}, E) /\ e[2] = n BY <1>3, <2>1, ReachHasLastStep
    <3> QED BY <1>2, <1>3, <3>1
  <2>2. CASE n = x
    <3>1. PICK e \in E : e[1] \in Reach({y}, E) /\ e[2] = x BY ReachHasLastStep
    <3>2. e[1] \in Reach({x}, E) BY <3>1, ReachGoesOn
    <3> QED BY <1>1, <1>2, <2>2, <3>1, <3>2
  <2> QED BY <2>1, <2>2
<1> HIDE DEF T
<1> QED BY <1>1, <1>3 DEF AcyclicOn

(* The three searches of ReopenChain find the nodes on the paths from the  *)
(* target to the condition.                                                *)
LEMMA ChainLemma ==
  ASSUME NEW N, NEW E, E \subseteq N \X N, AcyclicOn(E, N), NEW c \in N, NEW t \in N
  PROVE  \A n : n \in ReopenChain(E, c, t) <=>
           n \in N \ {c} /\ t # c /\ n \in Reach({t}, E) /\ c \in Reach({n}, E)
<1> DEFINE found == Reach({c}, Backward(E))
           after == Reach({t}, E)
           paths == {n \in N \ {c} : t # c /\ n \in after /\ c \in Reach({n}, E)}
           forward == {e \in E : e[1] # c /\ e[2] \in (found \ {c}) \cup {c}}
           onPath == Reach({t}, forward)
           back(S) == {r \in Backward(E) : r[2] \in S}
<1> SUFFICES ReopenChain(E, c, t) = paths
  BY Zenon
<1>1. \A n \in N : n \in found <=> c \in Reach({n}, E) BY BackwardIsConverse
<1>2. c \in found /\ found \subseteq N /\ t \in after /\ after \subseteq N
  BY ReachIsLeast, ReachStaysInside
<1>3. \A e \in E : e[1] \in N /\ e[2] \in N OBVIOUS
<1>4. \A r \in Backward(E) : \E e \in E : r[1] = e[2] /\ r[2] = e[1] BY DEF Backward
<1>5. \A e \in E : e[1] \in after => e[2] \in after BY ReachIsLeast
<1>6. \A r \in Backward(E) : r[1] \in found => r[2] \in found BY ReachIsLeast
<1>7. CASE t \notin found \ {c}
  <2>1. paths = {}
    <3> SUFFICES ASSUME NEW n \in paths PROVE FALSE OBVIOUS
    <3>1. c \in after BY ReachGoesOn
    <3> QED BY <1>1, <1>7, <3>1
  <2>2. ReopenChain(E, c, t) = {} BY <1>7 DEF ReopenChain
  <2> QED BY <2>1, <2>2
<1>8. CASE t \in found \ {c}
  <2>1. onPath \ {c} \subseteq paths
    <3> DEFINE T == {n \in found : n \in after}
    <3>1. t \in T BY <1>2, <1>8
    <3>2. \A e \in forward : e[1] \in T => e[2] \in T BY <1>2, <1>5
    <3>3. onPath \subseteq T
      <4> HIDE DEF T, forward
      <4> QED BY <3>1, <3>2, ReachIsLeast
    <3> QED BY <1>1, <1>2, <1>8, <3>3
  <2>2. paths \subseteq onPath
    <3> DEFINE T == {m \in after : m \in found \ {c} => m \in onPath}
    <3>1. t \in onPath /\ \A e \in forward : e[1] \in onPath => e[2] \in onPath
      <4> HIDE DEF forward
      <4> QED BY ReachIsLeast
    <3>2. ASSUME NEW e \in E, e[1] \in T PROVE e[2] \in T
      <4>1. e[2] \in after BY <1>5, <3>2
      <4>2. ASSUME e[2] \in found \ {c} PROVE e[2] \in onPath
        <5>1. Reach({e[2]}, E) \subseteq Reach({e[1]}, E) BY ReachFromBefore
        <5>2. e[1] \in found BY <1>1, <1>3, <4>2, <5>1
        <5>3. e[1] # c
          <6> SUFFICES ASSUME e[1] = c PROVE FALSE OBVIOUS
          <6>1. e[2] \in Reach({e[1]}, E) BY ReachIsLeast
          <6>2. e[2] \in Reach({c}, E) /\ c \in Reach({e[2]}, E)
            BY <1>1, <1>3, <4>2, <6>1
          <6> QED BY <1>3, <4>2, <6>2, NoWayBack
        <5>4. e \in forward /\ e[1] \in onPath BY <3>2, <4>2, <5>2, <5>3
        <5> QED BY <3>1, <5>4
      <4> QED BY <4>1, <4>2
    <3>3. after \subseteq T
      <4>1. t \in T BY <1>2, <3>1
      <4> HIDE DEF T
      <4> QED BY <3>2, <4>1, ReachIsLeast
    <3> QED BY <1>1, <3>3
  <2>3. onPath \ {c} = paths BY <2>1, <2>2
  <2> DEFINE chain == Reach({c}, back(paths))
  <2>4. chain \ {c} \subseteq paths
    <3>1. \A r \in back(paths) : r[1] \in {c} \cup paths => r[2] \in {c} \cup paths
      OBVIOUS
    <3>2. chain \subseteq {c} \cup paths
      <4> HIDE DEF back, paths
      <4> QED BY <3>1, ReachIsLeast
    <3> QED BY <3>2
  <2>5. paths \subseteq chain
    <3> DEFINE T == {m \in found : m \in paths => m \in chain}
    <3>1. c \in chain /\ \A r \in back(paths) : r[1] \in chain => r[2] \in chain
      <4> HIDE DEF back, paths
      <4> QED BY ReachIsLeast
    <3>2. ASSUME NEW r \in Backward(E), r[1] \in T PROVE r[2] \in T
      <4>1. r[2] \in found BY <1>6, <3>2
      <4>2. ASSUME r[2] \in paths PROVE r[2] \in chain
        <5>1. r[1] \in after BY <1>4, <1>5, <4>2
        <5>2. r[1] \in chain
          <6>1. CASE r[1] = c BY <3>1, <6>1
          <6>2. CASE r[1] # c
            <7>1. r[1] \in paths BY <1>1, <1>2, <1>8, <3>2, <5>1, <6>2
            <7> QED BY <3>2, <7>1
          <6> QED BY <6>1, <6>2
        <5>3. r \in back(paths) BY <4>2
        <5> QED BY <3>1, <5>2, <5>3
      <4> QED BY <4>1, <4>2
    <3>3. found \subseteq T
      <4>1. c \in T BY <1>2, <3>1
      <4> HIDE DEF T
      <4> QED BY <3>2, <4>1, ReachIsLeast
    <3> QED BY <1>1, <3>3
  <2>6. c \notin paths OBVIOUS
  <2>7. ReopenChain(E, c, t) = Reach({c}, back(onPath \ {c})) \ {c}
    BY <1>8 DEF ReopenChain
  <2>8. ReopenChain(E, c, t) = chain \ {c}
    <3> HIDE DEF onPath, paths
    <3> QED BY <2>3, <2>7
  <2> QED BY <2>4, <2>5, <2>6, <2>8
<1> QED BY <1>7, <1>8

(* What Leads says of two nodes is what a search from the first finds.     *)
LEMMA LeadsIsReach ==
  ASSUME IInv, NEW m \in NodeIds, NEW n
  PROVE  Leads(m, n) <=> n \in Reach({m}, edges)
<1>1. Reach({m}, edges) \in SUBSET NodeIds BY ReachStaysInside DEF IInv, TypeOK
<1>2. m \in Reach({m}, edges)
      /\ \A e \in edges : e[1] \in Reach({m}, edges) => e[2] \in Reach({m}, edges)
  BY ReachIsLeast
<1>3. ASSUME n \in Reach({m}, edges) PROVE Leads(m, n) BY <1>3, ReachIsLeast DEF Leads
<1> QED BY <1>1, <1>2, <1>3 DEF Leads

(* Whatever operations led to the graph, a failed condition reopens the    *)
(* nodes on the paths from its target to it, and no others (ReopenChain).  *)
THEOREM ChainsAreWhole == Spec => []ChainIsPaths
<1>1. IInv => ChainIsPaths
  <2> SUFFICES ASSUME IInv, NEW c \in DOMAIN nodes, NEW to \in NodeIds
               PROVE  ReopenChain(edges, c, to) =
                        {n \in NodeIds \ {c} : to # c /\ Leads(to, n) /\ Leads(n, c)}
    BY DEF ChainIsPaths
  <2>1. c \in NodeIds /\ edges \subseteq NodeIds \X NodeIds /\ AcyclicOn(edges, NodeIds)
    BY DEF IInv, TypeOK, GraphIsDag
  <2>2. \A n : n \in ReopenChain(edges, c, to) <=>
          n \in NodeIds \ {c} /\ to # c /\ n \in Reach({to}, edges) /\ c \in Reach({n}, edges)
    BY <2>1, ChainLemma
  <2> QED BY <2>2, LeadsIsReach
<1> QED BY <1>1, StaysWellFormed, PTL

-----------------------------------------------------------------------------
(* The service.  How many calls have returned never falls.                 *)
LEMMA CallingIsFinite ==
  IsFiniteSet(Calling) /\ Cardinality(Calling) \in Nat
<1>1. Calling \subseteq Clients BY DEF Calling
<1> QED BY <1>1, ServiceAssumption, FS_Subset, FS_CardinalityType

LEMMA BeginCounts ==
  ASSUME SInv, NEW c \in Clients, c \notin Calling, Calling' = Calling \cup {c}, begun' = begun + 1
  PROVE  Returned' = Returned
<1>1. Cardinality(Calling') = Cardinality(Calling) + 1
  BY CallingIsFinite, FS_AddElement
<1> QED BY <1>1, CallingIsFinite DEF Returned, SInv, ServiceTypeOK

LEMMA ReturnCounts ==
  ASSUME SInv, NEW c \in Calling, Calling' = Calling \ {c}, begun' = begun
  PROVE  Returned' = Returned + 1
<1>1. Cardinality(Calling') = Cardinality(Calling) - 1
  BY CallingIsFinite, FS_RemoveElement
<1> QED BY <1>1, CallingIsFinite DEF Returned, SInv, ServiceTypeOK

(* The callers' reads are typed sequences of names.                        *)
LEMMA ReadsType ==
  ASSUME NEW op PROVE Reads(op) \in Seq({"header", "nodes", "edges", "node"})
<1> DEFINE N == {"header", "nodes", "edges", "node"}
<1>1. /\ <<"header">> \in Seq(N) /\ <<>> \in Seq(N) /\ <<"node">> \in Seq(N)
      /\ <<"header", "nodes", "edges">> \in Seq(N)
      /\ <<"node", "nodes", "edges">> \in Seq(N)
  OBVIOUS
<1>2. Reads(op) \in {<<"header">>, <<>>, <<"node">>, <<"header", "nodes", "edges">>,
                     <<"node", "nodes", "edges">>}
  BY Zenon DEF Reads
<1> QED BY <1>1, <1>2, Zenon

LEMMA NothingReadOK ==
  ASSUME NEW r \in Requests
  PROVE  LET now == [req |-> r, todo |-> Reads(r.op), snap |-> NothingRead]
         IN  CallOK(now) /\ \A id : HeldBy(now, id) = {}
<1> DEFINE now == [req |-> r, todo |-> Reads(r.op), snap |-> NothingRead]
<1>1. DOMAIN <<>> = {} OBVIOUS
<1>2. IsTable(<<>>) BY <1>1 DEF IsTable
<1>3. <<>> \in Seq(GraphStatus) /\ <<>> \in Seq(NodeRow) OBVIOUS
<1>4. now \in Calls(<<>>) BY <1>3, ReadsType DEF Calls, NothingRead
<1>5. CallOK(now) BY <1>2, <1>4 DEF CallOK, NothingRead
<1>6. \A id : HeldBy(now, id) = {} BY <1>1 DEF HeldBy, NothingRead
<1> QED BY <1>5, <1>6

(* The rows in the table and the rows of a call in flight are held.        *)
LEMMA HeldRows ==
  /\ \A id \in DOMAIN nodes : nodes[id] \in Held(id)
  /\ \A c \in Calling : \A id : HeldBy(call[c][1], id) \subseteq Held(id)
BY DEF Held

(* One call changes: the rows held are those of the other calls, of the    *)
(* changed one and of the table.                                           *)
LEMMA HeldAfter ==
  ASSUME SInv, NEW c \in Clients, NEW now,
         call' = [call EXCEPT ![c] = <<now>>] \/ call' = [call EXCEPT ![c] = <<>>],
         NEW id, NEW n \in Held(id)'
  PROVE  \/ n \in Held(id)
         \/ call' = [call EXCEPT ![c] = <<now>>] /\ n \in HeldBy(now, id)
         \/ id \in DOMAIN nodes' /\ n = nodes'[id]
<1>1. call = [d \in Clients |-> call[d]] BY DEF SInv, ServiceTypeOK
<1>2. CASE n \in {nodes'[i] : i \in {id} \cap DOMAIN nodes'} BY <1>2
<1>3. CASE n \in UNION {HeldBy(call'[d][1], id) : d \in Calling'}
  <2>1. PICK d \in Calling' : n \in HeldBy(call'[d][1], id) BY <1>3
  <2>2. d \in Clients /\ call'[d] # <<>> BY <2>1 DEF Calling
  <2>3. CASE d = c BY <1>1, <2>1, <2>2, <2>3
  <2>4. CASE d # c
    <3>1. call'[d] = call[d] BY <1>1, <2>2, <2>4
    <3>2. d \in Calling BY <2>2, <3>1 DEF Calling
    <3> QED BY <2>1, <3>1, <3>2 DEF Held
  <2> QED BY <2>3, <2>4
<1> QED BY <1>2, <1>3 DEF Held, HeldBy

(* What the call variable looks like after a step of caller c.             *)
LEMMA CallSet ==
  ASSUME SInv, NEW c \in Clients, NEW now, call' = [call EXCEPT ![c] = <<now>>]
  PROVE  /\ call' = [d \in Clients |-> call'[d]]
         /\ Calling' = Calling \cup {c}
         /\ call'[c][1] = now /\ call'[c] = <<now>>
         /\ \A d \in Clients \ {c} : call'[d] = call[d]
<1>1. call = [d \in Clients |-> call[d]] BY DEF SInv, ServiceTypeOK
<1>2. call'[c] = <<now>> /\ <<now>> # <<>> BY <1>1
<1>3. \A d \in Clients \ {c} : call'[d] = call[d] BY <1>1
<1>4. Calling' = Calling \cup {c} BY <1>2, <1>3 DEF Calling
<1> QED BY <1>1, <1>2, <1>3, <1>4

LEMMA CallCleared ==
  ASSUME SInv, NEW c \in Calling, Return(c)
  PROVE  /\ call' = [d \in Clients |-> call'[d]]
         /\ Calling' = Calling \ {c}
         /\ \A d \in Calling' : call'[d] = call[d]
<1>1. call = [d \in Clients |-> call[d]] BY DEF SInv, ServiceTypeOK
<1>2. \A d \in Clients : call'[d] = IF d = c THEN <<>> ELSE call[d] BY <1>1 DEF Return
<1> QED BY <1>1, <1>2 DEF Calling, Return

(* Every row held is a row of a known node.                                *)
LEMMA HeldTypes ==
  ASSUME SInv, NEW id, NEW n \in Held(id)
  PROVE  n \in NodeRow
<1>1. CASE n \in {nodes[i] : i \in {id} \cap DOMAIN nodes}
  BY <1>1 DEF SInv, ServiceTypeOK, TypeOK
<1>2. ASSUME NEW c \in Calling, n \in HeldBy(call[c][1], id) PROVE n \in NodeRow
  <2> DEFINE snap == call[c][1].snap
  <2>1. IsTable(snap.nodes) /\ snap.node \in Seq(NodeRow)
    BY DEF SInv, ServiceTypeOK, CallOK, Calls
  <2>2. CASE n \in {snap.nodes[i] : i \in {id} \cap DOMAIN snap.nodes} BY <2>1, <2>2 DEF IsTable
  <2>3. CASE n \in {snap.node[i] : i \in DOMAIN snap.node} BY <2>1, <2>3
  <2> QED BY <1>2, <2>2, <2>3 DEF HeldBy
<1> QED BY <1>1, <1>2 DEF Held

(* The rows of a caller that does not write are rows that were held.       *)
LEMMA HeldShrinks ==
  ASSUME SInv, NEW c \in Clients, NEW now, UNCHANGED db,
         \/ /\ call' = [call EXCEPT ![c] = <<now>>]
            /\ \A id : HeldBy(now, id) \subseteq Held(id)
         \/ call' = [call EXCEPT ![c] = <<>>]
  PROVE  \A id : Held(id)' \subseteq Held(id)
<1> SUFFICES ASSUME NEW id, NEW n \in Held(id)' PROVE n \in Held(id)
  OBVIOUS
<1>1. nodes' = nodes BY DEF db
<1>2. id \in DOMAIN nodes => nodes[id] \in Held(id) BY HeldRows
<1>3. \/ n \in Held(id)
      \/ call' = [call EXCEPT ![c] = <<now>>] /\ n \in HeldBy(now, id)
      \/ id \in DOMAIN nodes' /\ n = nodes'[id]
  BY HeldAfter, Zenon
<1>4. call' = [call EXCEPT ![c] = <<now>>] /\ n \in HeldBy(now, id) => n \in Held(id)
  <2> SUFFICES ASSUME call' = [call EXCEPT ![c] = <<now>>], n \in HeldBy(now, id)
               PROVE  n \in Held(id)
    OBVIOUS
  <2>1. call'[c] = <<now>> BY CallSet
  <2>2. call' # [call EXCEPT ![c] = <<>>]
    BY <2>1 DEF SInv, ServiceTypeOK
  <2> QED BY <2>2
<1> QED BY <1>1, <1>2, <1>3, <1>4

LEMMA RowsInvKept ==
  ASSUME SInv, \A id : Held(id)' \subseteq Held(id), Returned' \in {Returned, Returned + 1}
  PROVE  RowsInv'
<1> SUFFICES ASSUME NEW id \in NodeIds, NEW n \in Held(id)'
             PROVE  (n.outcome # "" => n.status = "completed") /\ n.reopens <= Returned'
  BY DEF RowsInv
<1>1. n \in Held(id) OBVIOUS
<1>2. n.outcome # "" => n.status = "completed" BY <1>1 DEF SInv, RowsInv
<1>3. n.reopens <= Returned BY <1>1 DEF SInv, RowsInv
<1>4. n \in NodeRow BY <1>1, HeldTypes
<1>5. n.reopens \in Nat BY <1>4 DEF NodeRow
<1>6. Returned \in Nat BY CallingIsFinite DEF Returned, SInv, ServiceTypeOK
<1>7. \A x, y \in Nat : x <= y => x <= y + 1 OBVIOUS
<1>8. n.reopens <= Returned' BY <1>3, <1>5, <1>6, <1>7
<1> QED BY <1>2, <1>8

-----------------------------------------------------------------------------
(* A call begins, reads or fails: the tables stay.                         *)
LEMMA TablesStay ==
  ASSUME SInv, UNCHANGED <<db, used>>
  PROVE  TypeOK' /\ used' \subseteq NodeIds /\ Referential' /\ DOMAIN nodes' \subseteq used'
<1>1. /\ TypeOK /\ used \subseteq NodeIds /\ Referential /\ DOMAIN nodes \subseteq used
  BY DEF SInv, ServiceTypeOK, IdsInv
<1> QED BY <1>1 DEF db, TypeOK, Referential, EdgesJoinNodes

LEMMA BeginSInv ==
  ASSUME SInv, NEW c \in Clients, NEW r \in Requests, Begin(c, r)
  PROVE  SInv'
<1> DEFINE now == [req |-> r, todo |-> Reads(r.op), snap |-> NothingRead]
<1>1. CallOK(now) /\ \A id : HeldBy(now, id) = {} BY NothingReadOK
<1>2. /\ call' = [call EXCEPT ![c] = <<now>>]
      /\ call[c] = <<>> /\ begun < MaxCalls /\ begun' = begun + 1 /\ UNCHANGED <<db, used>>
      /\ r.op = "AddNode" => ~Taken(r.id)
  BY DEF Begin
<1> HIDE DEF now
<1>3. /\ call' = [d \in Clients |-> call'[d]] /\ Calling' = Calling \cup {c}
      /\ call'[c][1] = now /\ call'[c] = <<now>>
      /\ \A d \in Clients \ {c} : call'[d] = call[d]
  BY <1>2, CallSet
<1>4. c \notin Calling BY <1>2 DEF Calling
<1>5. Returned' = Returned BY <1>2, <1>3, <1>4, BeginCounts
<1>6. ServiceTypeOK'
  <2>1. \A d \in Calling' : call'[d] = <<call'[d][1]>> /\ CallOK(call'[d][1])
    BY <1>1, <1>3 DEF SInv, ServiceTypeOK, Calling
  <2>2. begun' \in 0..MaxCalls
    BY <1>2, ServiceAssumption DEF SInv, ServiceTypeOK
  <2>3. Cardinality(Calling') <= begun'
    <3>1. Cardinality(Calling') = Cardinality(Calling) + 1
      BY <1>3, <1>4, CallingIsFinite, FS_AddElement
    <3>2. begun \in Nat /\ Cardinality(Calling) <= begun BY DEF SInv, ServiceTypeOK
    <3> QED BY <3>1, <3>2, <1>2, CallingIsFinite
  <2> QED BY <1>2, <1>3, <2>1, <2>2, <2>3, TablesStay DEF ServiceTypeOK, CallOK
<1>7. IdsInv'
  <2> SUFFICES ASSUME NEW x \in Calling', call'[x][1].req.op = "AddNode"
               PROVE  /\ call'[x][1].req.id \notin used'
                      /\ \A d \in Calling' : call'[d][1].req.op = "AddNode" =>
                           d = x \/ call'[d][1].req.id # call'[x][1].req.id
    BY <1>2, TablesStay DEF IdsInv
  <2>1. now.req = r BY DEF now
  <2>2. used' = used BY <1>2
  <2>3. r.op = "AddNode" =>
          /\ r.id \notin used
          /\ \A d \in Calling : call[d][1].req.op = "AddNode" => call[d][1].req.id # r.id
    BY <1>2 DEF Taken, Calling
  <2>4. \A d \in Calling' : d = c \/ (d \in Calling /\ call'[d] = call[d])
    BY <1>3 DEF Calling
  <2>5. CASE x = c BY <2>1, <2>2, <2>3, <2>4, <2>5, <1>3
  <2>6. CASE x # c
    BY <2>1, <2>2, <2>3, <2>4, <2>6, <1>3 DEF SInv, IdsInv
  <2> QED BY <2>5, <2>6
<1>8. RowsInv'
  <2>1. \A id : HeldBy(now, id) \subseteq Held(id) BY <1>1
  <2>2. \A id : Held(id)' \subseteq Held(id) BY <1>2, <2>1, HeldShrinks
  <2> QED BY <2>2, <1>5, RowsInvKept
<1> QED BY <1>2, <1>6, <1>7, <1>8, TablesStay DEF SInv

(* What a call holds after one more read: what it held, and rows of the    *)
(* table.                                                                  *)
LEMMA ReadOK ==
  ASSUME SInv, NEW c \in Calling, Read(c)
  PROVE  \E now : /\ call' = [call EXCEPT ![c] = <<now>>]
                  /\ CallOK(now) /\ now.req = call[c][1].req
                  /\ \A id : HeldBy(now, id) \subseteq Held(id)
<1> DEFINE was == call[c][1]
           N == {"header", "nodes", "edges", "node"}
<1>1. CallOK(was) BY DEF SInv, ServiceTypeOK
<1>2. was \in Calls(was.snap.nodes) /\ IsTable(was.snap.nodes) BY <1>1 DEF CallOK
<1>3. /\ was.todo \in Seq(N) /\ was.todo # <<>>
      /\ was.snap.header \in Seq(GraphStatus) /\ was.snap.node \in Seq(NodeRow)
      /\ Len(was.snap.header) <= 1 /\ Len(was.snap.node) <= 1
      /\ was.snap.edges \in SUBSET (NodeIds \X NodeIds)
  BY <1>1, <1>2 DEF CallOK, Calls, Read
<1>4. Head(was.todo) \in N /\ Tail(was.todo) \in Seq(N) BY <1>3
<1>5. Row(was.req.id) \in Seq(NodeRow) /\ Len(Row(was.req.id)) <= 1
  BY DEF Row, SInv, ServiceTypeOK, TypeOK
<1>6. <<gstatus>> \in Seq(GraphStatus) /\ IsTable(nodes) /\ edges \in SUBSET (NodeIds \X NodeIds)
  BY DEF SInv, ServiceTypeOK, TypeOK, IsTable
<1>7. ASSUME NEW snap \in [header : Seq(GraphStatus), nodes : {was.snap.nodes, nodes},
                           edges : SUBSET (NodeIds \X NodeIds), node : Seq(NodeRow)],
             Len(snap.header) <= 1, Len(snap.node) <= 1,
             snap.node \in {was.snap.node, Row(was.req.id)},
             was.req.op \in {"StartGraph", "FinishGraph", "AddNode", "AddEdge"} =>
               snap.header # <<>>,
             call' = [call EXCEPT ![c] = <<[was EXCEPT !.todo = Tail(@), !.snap = snap]>>]
      PROVE  \E now : /\ call' = [call EXCEPT ![c] = <<now>>]
                      /\ CallOK(now) /\ now.req = was.req
                      /\ \A id : HeldBy(now, id) \subseteq Held(id)
  <2> DEFINE now == [was EXCEPT !.todo = Tail(@), !.snap = snap]
  <2>1. now.req = was.req /\ now.todo = Tail(was.todo) /\ now.snap = snap
    BY <1>2 DEF Calls
  <2>2. now \in Calls(snap.nodes) BY <1>2, <1>4, <1>7 DEF Calls
  <2>3. IsTable(snap.nodes) BY <1>2, <1>6, <1>7
  <2>4. CallOK(now) BY <2>1, <2>2, <2>3, <1>7 DEF CallOK
  <2>5. ASSUME NEW id, NEW n \in HeldBy(now, id) PROVE n \in Held(id)
    <3>1. CASE n \in {snap.nodes[i] : i \in {id} \cap DOMAIN snap.nodes}
      <4>1. snap.nodes = nodes => n \in Held(id) BY <3>1, HeldRows
      <4>2. snap.nodes = was.snap.nodes => n \in HeldBy(was, id) BY <3>1 DEF HeldBy
      <4> QED BY <4>1, <4>2, <1>7, HeldRows
    <3>2. CASE n \in {snap.node[i] : i \in {j \in DOMAIN snap.node : was.req.id = id}}
      <4>1. CASE snap.node = was.snap.node
        <5>1. n \in HeldBy(was, id) BY <4>1, <3>2 DEF HeldBy
        <5> QED BY <5>1, HeldRows
      <4>2. CASE snap.node = Row(was.req.id)
        <5>1. was.req.id = id /\ id \in DOMAIN nodes /\ n = nodes[id] BY <4>2, <3>2 DEF Row
        <5> QED BY <5>1, HeldRows
      <4> QED BY <4>1, <4>2, <1>7
    <3> QED BY <3>1, <3>2, <2>1, <2>5 DEF HeldBy
  <2> QED BY <1>7, <2>1, <2>4, <2>5
<1>8. ASSUME was.req.op \in {"StartGraph", "FinishGraph", "AddNode", "AddEdge"}
      PROVE  was.snap.header # <<>> \/ Head(was.todo) = "header"
  <2>1. Reads(was.req.op) \in {<<"header">>, <<"header", "nodes", "edges">>}
    BY <1>8, Zenon DEF Reads
  <2>2. was.snap.header # <<>> \/ was.todo = Reads(was.req.op)
    BY <1>1, <1>8 DEF CallOK
  <2> QED BY <2>1, <2>2
<1> HIDE DEF was
<1>9. CASE Head(was.todo) = "header"
  <2> DEFINE snap == [was.snap EXCEPT !.header = <<gstatus>>]
  <2>1. call' = [call EXCEPT ![c] = <<[was EXCEPT !.todo = Tail(@), !.snap = snap]>>]
    BY <1>9 DEF Read, was
  <2>2. /\ snap \in [header : Seq(GraphStatus), nodes : {was.snap.nodes, nodes},
                     edges : SUBSET (NodeIds \X NodeIds), node : Seq(NodeRow)]
        /\ snap.header = <<gstatus>> /\ snap.node = was.snap.node
    BY <1>2, <1>6 DEF Calls
  <2>3. Len(snap.header) <= 1 /\ snap.header # <<>> BY <2>2
  <2> HIDE DEF snap
  <2>4. Len(snap.node) <= 1 BY <2>2, <1>3
  <2> QED BY <2>1, <2>2, <2>3, <2>4, <1>7 DEF was
<1>10. CASE Head(was.todo) = "nodes"
  <2> DEFINE snap == [was.snap EXCEPT !.nodes = nodes]
  <2>1. call' = [call EXCEPT ![c] = <<[was EXCEPT !.todo = Tail(@), !.snap = snap]>>]
    BY <1>10 DEF Read, was
  <2>2. /\ snap \in [header : Seq(GraphStatus), nodes : {was.snap.nodes, nodes},
                     edges : SUBSET (NodeIds \X NodeIds), node : Seq(NodeRow)]
        /\ snap.header = was.snap.header /\ snap.node = was.snap.node
    BY <1>2, <1>6 DEF Calls
  <2> HIDE DEF snap
  <2> QED BY <2>1, <2>2, <1>3, <1>7, <1>8, <1>10 DEF was
<1>11. CASE Head(was.todo) = "edges"
  <2> DEFINE snap == [was.snap EXCEPT !.edges = edges]
  <2>1. call' = [call EXCEPT ![c] = <<[was EXCEPT !.todo = Tail(@), !.snap = snap]>>]
    BY <1>11 DEF Read, was
  <2>2. /\ snap \in [header : Seq(GraphStatus), nodes : {was.snap.nodes, nodes},
                     edges : SUBSET (NodeIds \X NodeIds), node : Seq(NodeRow)]
        /\ snap.header = was.snap.header /\ snap.node = was.snap.node
    BY <1>2, <1>6 DEF Calls
  <2> HIDE DEF snap
  <2> QED BY <2>1, <2>2, <1>3, <1>7, <1>8, <1>11 DEF was
<1>12. CASE Head(was.todo) = "node"
  <2> DEFINE snap == [was.snap EXCEPT !.node = Row(was.req.id)]
  <2>1. call' = [call EXCEPT ![c] = <<[was EXCEPT !.todo = Tail(@), !.snap = snap]>>]
    BY <1>12 DEF Read, was
  <2>2. /\ snap \in [header : Seq(GraphStatus), nodes : {was.snap.nodes, nodes},
                     edges : SUBSET (NodeIds \X NodeIds), node : Seq(NodeRow)]
        /\ snap.header = was.snap.header /\ snap.node = Row(was.req.id)
    BY <1>2, <1>5 DEF Calls
  <2> HIDE DEF snap
  <2> QED BY <2>1, <2>2, <1>3, <1>5, <1>7, <1>8, <1>12 DEF was
<1> QED BY <1>4, <1>9, <1>10, <1>11, <1>12 DEF was

LEMMA ReadSInv ==
  ASSUME SInv, NEW c \in Calling, Read(c)
  PROVE  SInv'
<1>1. PICK now : /\ call' = [call EXCEPT ![c] = <<now>>]
                 /\ CallOK(now) /\ now.req = call[c][1].req
                 /\ \A id : HeldBy(now, id) \subseteq Held(id)
  BY ReadOK
<1>2. UNCHANGED <<db, used, begun>> BY DEF Read
<1>3. c \in Clients BY DEF Calling
<1>10. /\ call' = [d \in Clients |-> call'[d]] /\ Calling' = Calling \cup {c}
      /\ call'[c][1] = now /\ call'[c] = <<now>>
      /\ \A d \in Clients \ {c} : call'[d] = call[d]
  BY <1>1, <1>3, CallSet, Zenon
<1>4. /\ call' = [d \in Clients |-> call'[d]] /\ Calling' = Calling
      /\ call'[c][1] = now /\ call'[c] = <<now>>
      /\ \A d \in Clients \ {c} : call'[d] = call[d]
  <2>1. Calling \cup {c} = Calling OBVIOUS
  <2> QED BY <1>10, <2>1
<1>5. ServiceTypeOK'
  <2>1. \A d \in Calling' : call'[d] = <<call'[d][1]>> /\ CallOK(call'[d][1])
    BY <1>1, <1>4 DEF SInv, ServiceTypeOK, Calling
  <2>2. begun' \in 0..MaxCalls /\ Cardinality(Calling') <= begun'
    BY <1>2, <1>4 DEF SInv, ServiceTypeOK
  <2>3. TypeOK' /\ used' \subseteq NodeIds BY <1>2, TablesStay
  <2> QED BY <1>4, <2>1, <2>2, <2>3 DEF ServiceTypeOK
<1>6. IdsInv'
  <2>1. \A d \in Calling' : d \in Calling /\ call'[d][1].req = call[d][1].req
    BY <1>1, <1>4 DEF Calling
  <2>2. used' = used /\ DOMAIN nodes' \subseteq used' BY <1>2, TablesStay
  <2> QED BY <2>1, <2>2 DEF SInv, IdsInv
<1>7. RowsInv'
  <2>1. \A id : Held(id)' \subseteq Held(id) BY <1>1, <1>2, <1>3, HeldShrinks
  <2>2. Returned' = Returned BY <1>2, <1>4 DEF Returned
  <2> QED BY <2>1, <2>2, RowsInvKept
<1> QED BY <1>2, <1>5, <1>6, <1>7, TablesStay DEF SInv

(* A call that returns leaves the other calls as they were.                *)
LEMMA ReturnCalls ==
  ASSUME SInv, NEW c \in Calling, Return(c), UNCHANGED begun
  PROVE  /\ call' = [d \in Clients |-> call'[d]]
         /\ \A d \in Calling' : call'[d] = <<call'[d][1]>> /\ CallOK(call'[d][1])
         /\ begun' \in 0..MaxCalls /\ Cardinality(Calling') <= begun'
         /\ Returned' = Returned + 1
<1>1. /\ call' = [d \in Clients |-> call'[d]]
      /\ Calling' = Calling \ {c}
      /\ \A d \in Calling' : call'[d] = call[d]
  BY CallCleared
<1>2. \A d \in Calling' : call'[d] = <<call'[d][1]>> /\ CallOK(call'[d][1])
  BY <1>1 DEF SInv, ServiceTypeOK
<1>3. begun' = begun /\ Cardinality(Calling') = Cardinality(Calling) - 1
  BY <1>1, CallingIsFinite, FS_RemoveElement
<1>4. begun \in 0..MaxCalls /\ Cardinality(Calling) <= begun BY DEF SInv, ServiceTypeOK
<1>5. \A x, y \in Nat : x <= y => x - 1 <= y OBVIOUS
<1>6. Cardinality(Calling') <= begun' BY <1>3, <1>4, <1>5, CallingIsFinite
<1>7. Returned' = Returned + 1 BY <1>1, ReturnCounts
<1> QED BY <1>1, <1>2, <1>3, <1>4, <1>6, <1>7

LEMMA FailSInv ==
  ASSUME SInv, NEW c \in Calling, Fail(c)
  PROVE  SInv'
<1>1. Return(c) /\ UNCHANGED <<db, used, begun>> BY DEF Fail
<1>2. c \in Clients BY DEF Calling
<1>3. ServiceTypeOK' BY <1>1, ReturnCalls, TablesStay DEF ServiceTypeOK
<1>4. IdsInv'
  <2>1. \A d \in Calling' : d \in Calling /\ call'[d] = call[d]
    BY <1>1, CallCleared
  <2>2. used' = used /\ DOMAIN nodes' \subseteq used' BY <1>1, TablesStay
  <2> QED BY <2>1, <2>2 DEF SInv, IdsInv
<1>5. RowsInv'
  <2>1. \A id : Held(id)' \subseteq Held(id) BY <1>1, <1>2, HeldShrinks DEF Return
  <2> QED BY <2>1, <1>1, ReturnCalls, RowsInvKept
<1> QED BY <1>1, <1>3, <1>4, <1>5, TablesStay DEF SInv

-----------------------------------------------------------------------------
(* The writes.  A row that request r puts in the table of node id was read *)
(* by some call, or is computed from such a row, or is a new node's.       *)
Written(r, id, n) ==
  \/ r.op = "AddNode" /\ id = r.id /\ n = NewNode(KindOf[id], r.arg)
  \/ \E m \in Held(id) :
       \/ n = m
       \/ /\ r.id = id /\ r.op \in {"UpdateNode", "BindTask", "UnbindTask"} \cup DOMAIN StatusOf
          /\ r.op \in DOMAIN StatusOf => CanTransitionTo(m, StatusOf[r.op])
          /\ n = Changed(r, m)
       \/ /\ r.id = id /\ r.op = "ResolveCondition" /\ ~Resolved(m)
          /\ n \in {Completed(m, "success"), Completed(m, "force_success"), Discarded(m)}
       \/ /\ r.op = "ResolveCondition" /\ n = Reopened(m)
          /\ r.id = id => \E q \in Held(id) : ~MaxExceeded(m, q.meta.cfg)

(* The tables a write leaves: the invariants of the rows and of the edges. *)
TablesWritten(r) ==
  /\ gstatus' \in GraphStatus
  /\ nodes' = [i \in DOMAIN nodes' |-> nodes'[i]]
  /\ {StartId, EndId} \subseteq DOMAIN nodes'
  /\ \/ r.op = "AddNode" /\ DOMAIN nodes' = DOMAIN nodes \cup {r.id} /\ used' = used \cup {r.id}
     \/ DOMAIN nodes' \subseteq DOMAIN nodes /\ used' = used
  /\ edges' \subseteq NodeIds \X NodeIds
  /\ EdgesJoinNodes'
  /\ \A id \in DOMAIN nodes' : Written(r, id, nodes'[id])

(* What each write may assume of its request and of what it has read.      *)
LEMMA CallFacts ==
  ASSUME SInv, NEW c \in Calling
  PROVE  LET r == call[c][1].req  snap == call[c][1].snap
         IN  /\ r \in Requests
             /\ IsTable(snap.nodes) /\ snap.edges \subseteq NodeIds \X NodeIds
             /\ snap.node = <<>> \/ (snap.node = <<snap.node[1]>> /\ snap.node[1] \in NodeRow)
             /\ \A i \in DOMAIN snap.nodes : snap.nodes[i] \in Held(i)
             /\ snap.node # <<>> => snap.node[1] \in Held(r.id)
             /\ call[c][1].todo = <<>> /\ r.op \in {"StartGraph", "FinishGraph", "AddNode", "AddEdge"}
                  => snap.header[1] \in GraphStatus
<1> DEFINE now == call[c][1]  r == now.req  snap == now.snap
<1>1. CallOK(now) BY DEF SInv, ServiceTypeOK
<1>2. now \in Calls(snap.nodes) /\ IsTable(snap.nodes) BY <1>1 DEF CallOK
<1>3. /\ r \in Requests /\ snap.edges \subseteq NodeIds \X NodeIds
      /\ snap.header \in Seq(GraphStatus) /\ Len(snap.header) <= 1
      /\ snap.node \in Seq(NodeRow) /\ Len(snap.node) <= 1
  BY <1>1, <1>2 DEF Calls, CallOK
<1>4. snap.node = <<>> \/ (snap.node = <<snap.node[1]>> /\ snap.node[1] \in NodeRow)
  BY <1>3
<1>5. \A i \in DOMAIN snap.nodes : snap.nodes[i] \in Held(i)
  <2>1. \A i \in DOMAIN snap.nodes : snap.nodes[i] \in HeldBy(now, i) BY DEF HeldBy
  <2> QED BY <2>1, HeldRows
<1>6. snap.node # <<>> => snap.node[1] \in Held(r.id)
  <2>1. snap.node # <<>> => snap.node[1] \in HeldBy(now, r.id)
    <3>1. snap.node # <<>> => 1 \in DOMAIN snap.node BY <1>4
    <3> QED BY <3>1 DEF HeldBy
  <2> QED BY <2>1, HeldRows
<1>7. now.todo = <<>> /\ r.op \in {"StartGraph", "FinishGraph", "AddNode", "AddEdge"}
        => snap.header[1] \in GraphStatus
  <2> SUFFICES ASSUME now.todo = <<>>, r.op \in {"StartGraph", "FinishGraph", "AddNode", "AddEdge"}
               PROVE  snap.header[1] \in GraphStatus
    OBVIOUS
  <2>1. Reads(r.op) \in {<<"header">>, <<"header", "nodes", "edges">>} BY Zenon DEF Reads
  <2>2. Reads(r.op) # <<>> BY <2>1
  <2>3. snap.header # <<>> BY <1>1, <2>2 DEF CallOK
  <2> QED BY <2>3, <1>3
<1> QED BY <1>2, <1>3, <1>4, <1>5, <1>6, <1>7

(* The tables as they are, in the form the writes are stated in.           *)
LEMMA TablesNow ==
  ASSUME SInv
  PROVE  /\ gstatus \in GraphStatus /\ nodes = [i \in DOMAIN nodes |-> nodes[i]]
         /\ {StartId, EndId} \subseteq DOMAIN nodes
         /\ edges \subseteq NodeIds \X NodeIds /\ EdgesJoinNodes
         /\ \A r : \A id \in DOMAIN nodes : Written(r, id, nodes[id])
<1>1. \A r : \A id \in DOMAIN nodes : Written(r, id, nodes[id])
  <2> SUFFICES ASSUME NEW r, NEW id \in DOMAIN nodes PROVE Written(r, id, nodes[id])
    OBVIOUS
  <2>1. nodes[id] \in Held(id) BY HeldRows
  <2> QED BY <2>1, Zenon DEF Written
<1> QED BY <1>1 DEF SInv, ServiceTypeOK, TypeOK, Referential

LEMMA SetStatusTables ==
  ASSUME SInv, NEW r, NEW snap, NEW to \in GraphStatus, SetStatus(to, snap)
  PROVE  TablesWritten(r)
BY TablesNow DEF SetStatus, TablesWritten, EdgesJoinNodes

LEMMA InsertNodeTables ==
  ASSUME SInv, NEW r, NEW snap, r.op = "AddNode", snap.header[1] \in GraphStatus,
         InsertNode(r, snap)
  PROVE  TablesWritten(r)
<1>1. \A id \in DOMAIN nodes' : Written(r, id, nodes'[id])
  <2> SUFFICES ASSUME NEW id \in DOMAIN nodes' PROVE Written(r, id, nodes'[id])
    OBVIOUS
  <2>1. CASE id = r.id
    <3>1. nodes'[id] = NewNode(KindOf[id], r.arg) BY <2>1 DEF InsertNode
    <3> QED BY <3>1, <2>1 DEF Written
  <2>2. CASE id # r.id
    <3>1. id \in DOMAIN nodes /\ nodes'[id] = nodes[id] BY <2>2 DEF InsertNode
    <3> QED BY <3>1, TablesNow
  <2> QED BY <2>1, <2>2
<1> QED BY <1>1, TablesNow DEF InsertNode, TablesWritten, EdgesJoinNodes

LEMMA DeleteNodeTables ==
  ASSUME SInv, NEW r, NEW snap, DeleteNode(r, snap)
  PROVE  TablesWritten(r)
<1>1. /\ nodes' = [i \in DOMAIN nodes \ {r.id} |-> nodes[i]]
      /\ edges' = edges \ Touching(edges, r.id)
      /\ gstatus' = gstatus /\ used' = used
      /\ r.id \notin {StartId, EndId}
  BY DEF DeleteNode
<1>2. \A id \in DOMAIN nodes' : Written(r, id, nodes'[id]) BY <1>1, TablesNow
<1>3. EdgesJoinNodes' BY <1>1, TablesNow DEF EdgesJoinNodes, Touching
<1>4. /\ DOMAIN nodes' = DOMAIN nodes \ {r.id} /\ {StartId, EndId} \subseteq DOMAIN nodes'
      /\ nodes' = [i \in DOMAIN nodes' |-> nodes'[i]]
  BY <1>1, TablesNow
<1>5. edges' \subseteq edges BY <1>1
<1> QED BY <1>1, <1>2, <1>3, <1>4, <1>5, TablesNow DEF TablesWritten

LEMMA SaveRowsTables ==
  ASSUME SInv, NEW r, NEW new, NEW S, SaveRows(new, S),
         \A id \in S : Written(r, id, new[id])
  PROVE  TablesWritten(r)
<1>1. /\ nodes' = [i \in DOMAIN nodes |-> IF i \in S THEN new[i] ELSE nodes[i]]
      /\ UNCHANGED <<gstatus, edges, used>>
  BY DEF SaveRows
<1>2. \A id \in DOMAIN nodes' : Written(r, id, nodes'[id]) BY <1>1, TablesNow
<1>3. DOMAIN nodes' = DOMAIN nodes /\ nodes' = [i \in DOMAIN nodes' |-> nodes'[i]]
  BY <1>1
<1> QED BY <1>1, <1>2, <1>3, TablesNow DEF TablesWritten, EdgesJoinNodes

LEMMA SaveNodeTables ==
  ASSUME SInv, NEW r, NEW snap, SaveNode(r, snap),
         r.op \in {"UpdateNode", "BindTask", "UnbindTask"} \cup DOMAIN StatusOf,
         snap.node[1] \in Held(r.id)
  PROVE  TablesWritten(r)
<1> DEFINE new == [i \in {r.id} |-> Changed(r, snap.node[1])]
<1>1. SaveRows(new, {r.id}) BY DEF SaveNode
<1>2. r.op \in DOMAIN StatusOf => CanTransitionTo(snap.node[1], StatusOf[r.op]) BY DEF SaveNode
<1>3. new[r.id] = Changed(r, snap.node[1]) OBVIOUS
<1> HIDE DEF new
<1>4. Written(r, r.id, new[r.id]) BY <1>2, <1>3, Zenon DEF Written
<1> QED BY <1>1, <1>4, SaveRowsTables

LEMMA SaveResolutionTables ==
  ASSUME SInv, NEW r, NEW snap, SaveResolution(r, snap), r.op = "ResolveCondition",
         snap.node[1] \in Held(r.id), IsTable(snap.nodes),
         \A i \in DOMAIN snap.nodes : snap.nodes[i] \in Held(i)
  PROVE  TablesWritten(r)
<1> DEFINE cfg == snap.node[1].meta.cfg
           new == ApplyConditionResult(snap.nodes, snap.edges, r.id, cfg, r.arg)
           S == {i \in DOMAIN new : new[i] # snap.nodes[i]}
           n == snap.nodes[r.id]
<1>1. r.id \in DOMAIN snap.nodes /\ ConditionApplies(n, cfg, r.arg) /\ SaveRows(new, S)
  BY DEF SaveResolution
<1> SUFFICES ASSUME NEW id \in S PROVE Written(r, id, new[id])
  BY <1>1, SaveRowsTables
<1>2. n \in Held(r.id) BY <1>1
<1>3. CASE r.arg
  <2>1. new = [snap.nodes EXCEPT ![r.id] = IF Resolved(n) THEN n ELSE Completed(n, "success")]
    BY <1>3 DEF ApplyConditionResult
  <2>2. id = r.id /\ ~Resolved(n) /\ new[id] = Completed(n, "success")
    BY <2>1, <1>1
  <2> QED BY <2>2, <1>2, Zenon DEF Written
<1>4. CASE ~r.arg /\ MaxExceeded(n, cfg)
  <2>1. new = [snap.nodes EXCEPT ![r.id] = IF cfg.onMaxExceeded = "force_success"
                                          THEN Completed(n, "force_success")
                                          ELSE Discarded(n)]
    BY <1>4 DEF ApplyConditionResult
  <2>2. id = r.id /\ new[id] \in {Completed(n, "force_success"), Discarded(n)}
    BY <2>1, <1>1
  <2>3. ~Resolved(n) BY <1>1, <1>4 DEF ConditionApplies
  <2> QED BY <2>2, <2>3, <1>2, Zenon DEF Written
<1>5. CASE ~r.arg /\ ~MaxExceeded(n, cfg)
  <2>1. new = [i \in DOMAIN snap.nodes |->
                 IF i = r.id THEN LoopedBack(n)
                 ELSE IF i \in ToReopen(snap.edges, r.id, cfg) /\ snap.nodes[i].status = "completed"
                 THEN Reopened(snap.nodes[i])
                 ELSE snap.nodes[i]]
    BY <1>5 DEF ApplyConditionResult
  <2>2. new[id] = Reopened(snap.nodes[id]) BY <2>1 DEF LoopedBack
  <2>3. snap.nodes[id] \in Held(id) BY <2>1
  <2>4. r.id = id => \E q \in Held(id) : ~MaxExceeded(snap.nodes[id], q.meta.cfg) BY <1>5
  <2> QED BY <2>2, <2>3, <2>4, Zenon DEF Written
<1> QED BY <1>3, <1>4, <1>5

LEMMA InsertEdgeTables ==
  ASSUME SInv, NEW r, NEW snap, InsertEdge(r, snap), r.id \in NodeIds \X NodeIds,
         snap.header[1] \in GraphStatus
  PROVE  TablesWritten(r)
<1>1. /\ edges' = edges \cup {r.id} /\ gstatus' \in GraphStatus /\ UNCHANGED <<nodes, used>>
      /\ r.id[1] \in DOMAIN nodes /\ r.id[2] \in DOMAIN nodes
  BY DEF InsertEdge
<1>2. EdgesJoinNodes' BY <1>1, TablesNow DEF EdgesJoinNodes
<1> QED BY <1>1, <1>2, TablesNow DEF TablesWritten

LEMMA DeleteEdgeTables ==
  ASSUME SInv, NEW r, DeleteEdge(r)
  PROVE  TablesWritten(r)
<1>1. edges' \subseteq edges /\ UNCHANGED <<gstatus, nodes, used>> BY DEF DeleteEdge
<1>2. EdgesJoinNodes' BY <1>1, TablesNow DEF EdgesJoinNodes
<1> QED BY <1>1, <1>2, TablesNow DEF TablesWritten

(* Every operation that commits writes sound tables.                       *)
LEMMA WriteTables ==
  ASSUME SInv, NEW c \in Calling, call[c][1].todo = <<>>,
         Write(call[c][1].req, call[c][1].snap)
  PROVE  TablesWritten(call[c][1].req)
<1> DEFINE r == call[c][1].req  snap == call[c][1].snap
<1>1. /\ r \in Requests /\ IsTable(snap.nodes)
      /\ \A i \in DOMAIN snap.nodes : snap.nodes[i] \in Held(i)
      /\ snap.node # <<>> => snap.node[1] \in Held(r.id)
      /\ r.op \in {"StartGraph", "FinishGraph", "AddNode", "AddEdge"}
           => snap.header[1] \in GraphStatus
  BY CallFacts
<1>2. Write(r, snap) OBVIOUS
<1> SUFFICES TablesWritten(r) OBVIOUS
<1> HIDE DEF r, snap
<1>3. CASE r.op = "StartGraph" /\ SetStatus("running", snap)
  BY <1>3, SetStatusTables DEF GraphStatus
<1>4. CASE r.op = "FinishGraph" /\ SetStatus("done", snap)
  BY <1>4, SetStatusTables DEF GraphStatus
<1>5. CASE r.op = "AddNode" /\ InsertNode(r, snap) BY <1>1, <1>5, InsertNodeTables
<1>6. CASE r.op = "RemoveNode" /\ DeleteNode(r, snap) BY <1>6, DeleteNodeTables
<1>7. CASE r.op = "ResolveCondition" /\ SaveResolution(r, snap)
  BY <1>1, <1>7, SaveResolutionTables DEF SaveResolution
<1>8. CASE r.op = "AddEdge" /\ InsertEdge(r, snap)
  <2>1. r.id \in EdgeInputs BY <1>1, <1>8, RequestsAssumption
  <2> QED BY <1>1, <1>8, <2>1, InsertEdgeTables, ConstantsAssumption
<1>9. CASE r.op = "RemoveEdge" /\ DeleteEdge(r) BY <1>9, DeleteEdgeTables
<1>10. CASE /\ r.op \in {"UpdateNode", "BindTask", "UnbindTask"} \cup DOMAIN StatusOf
            /\ SaveNode(r, snap)
  BY <1>1, <1>10, SaveNodeTables DEF SaveNode
<1> QED
  BY <1>2, <1>3, <1>4, <1>5, <1>6, <1>7, <1>8, <1>9, <1>10, Zenon DEF Write

-----------------------------------------------------------------------------
(* A row that is written is a node row, its outcome fits its status, and   *)
(* its count of reopenings grew by one at most.                            *)
LEMMA WrittenRow ==
  ASSUME SInv, NEW r \in Requests, NEW id \in NodeIds, NEW n, Written(r, id, n)
  PROVE  /\ n \in NodeRow
         /\ n.outcome # "" => n.status = "completed"
         /\ n.reopens <= Returned + 1
<1> DEFINE Sound(x) == /\ x \in NodeRow
                       /\ x.outcome # "" => x.status = "completed"
                       /\ x.reopens <= Returned + 1
<1>1. Returned \in Nat BY CallingIsFinite DEF Returned, SInv, ServiceTypeOK
<1> SUFFICES Sound(n) OBVIOUS
<1>2. CASE r.op = "AddNode" /\ id = r.id /\ n = NewNode(KindOf[id], r.arg)
  <2>1. id \in Ids /\ r.arg \in Metas
    BY <1>2, RequestsAssumption, ConstantsAssumption DEF NodeIds
  <2>2. n \in NodeRow BY <1>2, <2>1, ConstantsAssumption, NewNodeType
  <2>3. n.outcome = "" /\ n.reopens = 0 BY <1>2 DEF NewNode
  <2>4. \A x \in Nat : 0 <= x + 1 OBVIOUS
  <2>5. n.reopens <= Returned + 1 BY <1>1, <2>3, <2>4
  <2> QED BY <2>2, <2>3, <2>5
<1>3. ASSUME NEW m \in Held(id) PROVE Sound(m)
  <2>1. m \in NodeRow BY HeldTypes
  <2>2. (m.outcome # "" => m.status = "completed") /\ m.reopens <= Returned
    BY DEF SInv, RowsInv
  <2>3. m.reopens \in Nat BY <2>1 DEF NodeRow
  <2>4. \A x, y \in Nat : x <= y => x <= y + 1 OBVIOUS
  <2> QED BY <1>1, <2>1, <2>2, <2>3, <2>4
<1>4. ASSUME NEW m \in Held(id) PROVE Sound(Reopened(m))
  <2>1. m \in NodeRow BY HeldTypes
  <2>2. Reopened(m) \in NodeRow BY <2>1, RowTypes
  <2>3. m.reopens \in Nat /\ m.reopens <= Returned BY <2>1 DEF NodeRow, SInv, RowsInv
  <2>4. Reopened(m).outcome = "" /\ Reopened(m).reopens = m.reopens + 1
    BY <2>1 DEF Reopened, NodeRow
  <2>5. \A x, y \in Nat : x <= y => x + 1 <= y + 1 OBVIOUS
  <2>6. Reopened(m).reopens <= Returned + 1 BY <1>1, <2>3, <2>4, <2>5
  <2> QED BY <2>2, <2>4, <2>6
<1>5. ASSUME NEW m \in Held(id), NEW out \in Outcomes \cup {"success", "force_success"}
      PROVE  Sound(Completed(m, out))
  <2>1. m \in NodeRow BY HeldTypes
  <2>2. Completed(m, out) \in NodeRow BY <2>1, RowTypes
  <2>3. Completed(m, out).status = "completed" /\ Completed(m, out).reopens = m.reopens
    BY <2>1 DEF Completed, NodeRow
  <2> QED BY <1>3, <2>2, <2>3
<1>6. ASSUME NEW m \in Held(id), m.status # "completed"
      PROVE  Sound(Discarded(m)) /\ Sound(Started(m))
  <2>1. m \in NodeRow /\ m.outcome = "" BY HeldTypes, <1>3, <1>6
  <2>2. Discarded(m) \in NodeRow /\ Started(m) \in NodeRow BY <2>1, RowTypes
  <2>3. /\ Discarded(m).outcome = "" /\ Discarded(m).reopens = m.reopens
        /\ Started(m).outcome = "" /\ Started(m).reopens = m.reopens
    BY <2>1 DEF Discarded, Started, NodeRow
  <2> QED BY <1>3, <2>2, <2>3
<1>7. ASSUME NEW m \in Held(id), NEW meta, [m EXCEPT !.meta = meta] \in NodeRow
      PROVE  Sound([m EXCEPT !.meta = meta])
  <2>1. m \in NodeRow BY HeldTypes
  <2>2. LET x == [m EXCEPT !.meta = meta]
        IN  x.outcome = m.outcome /\ x.status = m.status /\ x.reopens = m.reopens
    BY <2>1 DEF NodeRow
  <2> QED BY <1>3, <1>7, <2>2
<1>8. ASSUME NEW m \in Held(id), r.id = id,
             r.op \in {"UpdateNode", "BindTask", "UnbindTask"} \cup DOMAIN StatusOf,
             r.op \in DOMAIN StatusOf => CanTransitionTo(m, StatusOf[r.op]),
             n = Changed(r, m)
      PROVE  Sound(n)
  <2>1. m \in NodeRow BY HeldTypes
  <2>2. CASE r.op = "UpdateNode"
    <3>1. r.arg \in Metas BY <2>2, RequestsAssumption, ConstantsAssumption
    <3>2. [m EXCEPT !.meta = r.arg] \in NodeRow BY <2>1, <3>1, RowTypes
    <3> QED BY <3>2, <1>7, <1>8, <2>2 DEF Changed
  <2>3. CASE r.op \in {"BindTask", "UnbindTask"}
    <3> DEFINE t == IF r.op = "BindTask" THEN r.arg ELSE NoTask
    <3>1. t \in Tasks \cup {NoTask} BY <2>3, RequestsAssumption, ConstantsAssumption
    <3>2. n = [m EXCEPT !.meta.task = t] BY <1>8, <2>3 DEF Changed
    <3>3. n = [m EXCEPT !.meta = [m.meta EXCEPT !.task = t]] BY <3>2
    <3>4. n \in NodeRow BY <2>1, <3>1, <3>2, RowTypes
    <3> QED BY <3>3, <3>4, <1>7
  <2>4. CASE r.op = "CompleteNode"
    <3>1. r.arg \in Outcomes BY <2>4, RequestsAssumption
    <3> QED BY <3>1, <1>5, <1>8, <2>4 DEF Changed
  <2>5. CASE r.op = "ReopenNode" BY <1>4, <1>8, <2>5 DEF Changed
  <2>6. CASE r.op \in {"StartNode", "DiscardNode"}
    <3>1. m.status \in NodeStatus BY <2>1 DEF NodeRow
    <3>2. m.status # "completed"
      BY <3>1, <1>8, <2>6 DEF CanTransitionTo, nodeTransitions, StatusOf, NodeStatus
    <3> QED BY <3>2, <1>6, <1>8, <2>6 DEF Changed
  <2> QED BY <1>8, <2>2, <2>3, <2>4, <2>5, <2>6 DEF StatusOf
<1>9. ASSUME NEW m \in Held(id), ~Resolved(m),
             n \in {Completed(m, "success"), Completed(m, "force_success"), Discarded(m)}
      PROVE  Sound(n)
  BY <1>5, <1>6, <1>9 DEF Resolved
<1> HIDE DEF Sound
<1> QED BY <1>2, <1>3, <1>4, <1>8, <1>9 DEF Written

(* After a commit, a row is held that was held or that is in the table.    *)
LEMMA CommitHeld ==
  ASSUME SInv, NEW c \in Clients, Commit(c), NEW id, NEW n \in Held(id)'
  PROVE  n \in Held(id) \/ (id \in DOMAIN nodes' /\ n = nodes'[id])
<1>1. call' = [call EXCEPT ![c] = <<>>] BY DEF Commit, Return
<1>2. call' # [call EXCEPT ![c] = <<c>>]
  <2>1. call = [d \in Clients |-> call[d]] BY DEF SInv, ServiceTypeOK
  <2>2. [call EXCEPT ![c] = <<c>>][c] = <<c>> /\ call'[c] = <<>> BY <1>1, <2>1
  <2>3. <<c>> # <<>> OBVIOUS
  <2> QED BY <2>2, <2>3
<1>3. \/ n \in Held(id)
      \/ call' = [call EXCEPT ![c] = <<c>>] /\ n \in HeldBy(c, id)
      \/ id \in DOMAIN nodes' /\ n = nodes'[id]
  BY <1>1, HeldAfter, Zenon
<1> QED BY <1>2, <1>3, Zenon

(* A commit returns its caller and leaves sound tables.                    *)
LEMMA CommitSInv ==
  ASSUME SInv, NEW c \in Calling, Commit(c)
  PROVE  SInv'
<1> DEFINE r == call[c][1].req
<1>1. Return(c) /\ UNCHANGED begun BY DEF Commit
<1>2. c \in Clients BY DEF Calling
<1>3. TablesWritten(r) BY WriteTables DEF Commit
<1>4. r \in Requests BY CallFacts
<1> HIDE DEF r
<1>5. /\ call' = [d \in Clients |-> call'[d]]
      /\ \A d \in Calling' : call'[d] = <<call'[d][1]>> /\ CallOK(call'[d][1])
      /\ begun' \in 0..MaxCalls /\ Cardinality(Calling') <= begun'
      /\ Returned' = Returned + 1
  BY <1>1, ReturnCalls
<1>6. \A d \in Calling' : d \in Calling \ {c} /\ call'[d] = call[d]
  BY <1>1, CallCleared
<1>7. DOMAIN nodes \subseteq used /\ used \subseteq NodeIds
  BY DEF SInv, IdsInv, ServiceTypeOK
<1>8. r.op = "AddNode" => r.id \in NodeIds BY <1>4, RequestsAssumption DEF NodeIds
<1>9. used' \subseteq NodeIds /\ DOMAIN nodes' \subseteq used'
  BY <1>3, <1>7, <1>8 DEF TablesWritten
<1>10. \A id \in DOMAIN nodes' :
         /\ nodes'[id] \in NodeRow
         /\ nodes'[id].outcome # "" => nodes'[id].status = "completed"
         /\ nodes'[id].reopens <= Returned + 1
  BY <1>3, <1>4, <1>9, WrittenRow DEF TablesWritten
<1>11. TypeOK'
  BY <1>3, <1>9, <1>10 DEF TablesWritten, TypeOK
<1>12. ServiceTypeOK' BY <1>5, <1>9, <1>11 DEF ServiceTypeOK
<1>13. IdsInv'
  <2> SUFFICES ASSUME NEW x \in Calling', call'[x][1].req.op = "AddNode"
               PROVE  /\ call'[x][1].req.id \notin used'
                      /\ \A d \in Calling' : call'[d][1].req.op = "AddNode" =>
                           d = x \/ call'[d][1].req.id # call'[x][1].req.id
    BY <1>9 DEF IdsInv
  <2>1. x \in Calling \ {c} /\ call'[x] = call[x] BY <1>6
  <2>2. /\ call[x][1].req.id \notin used
        /\ \A d \in Calling : call[d][1].req.op = "AddNode" =>
             d = x \/ call[d][1].req.id # call[x][1].req.id
    BY <2>1 DEF SInv, IdsInv
  <2>3. r.op = "AddNode" => r.id # call[x][1].req.id BY <2>1, <2>2 DEF r
  <2>4. call'[x][1].req.id \notin used' BY <1>3, <2>1, <2>2, <2>3 DEF TablesWritten
  <2> QED BY <1>6, <2>1, <2>2, <2>4
<1>14. RowsInv'
  <2> SUFFICES ASSUME NEW id \in NodeIds, NEW n \in Held(id)'
               PROVE  (n.outcome # "" => n.status = "completed") /\ n.reopens <= Returned'
    BY DEF RowsInv
  <2>3. n \in Held(id) \/ (id \in DOMAIN nodes' /\ n = nodes'[id]) BY <1>2, CommitHeld
  <2>4. CASE n \in Held(id)
    <3>1. n \in NodeRow BY <2>4, HeldTypes
    <3>2. n.reopens \in Nat /\ n.reopens <= Returned /\ (n.outcome # "" => n.status = "completed")
      BY <3>1, <2>4 DEF NodeRow, SInv, RowsInv
    <3>3. Returned \in Nat BY CallingIsFinite DEF Returned, SInv, ServiceTypeOK
    <3>4. \A x, y \in Nat : x <= y => x <= y + 1 OBVIOUS
    <3> QED BY <1>5, <3>2, <3>3, <3>4
  <2>5. CASE id \in DOMAIN nodes' /\ n = nodes'[id] BY <1>5, <1>10, <2>5
  <2> QED BY <2>3, <2>4, <2>5
<1>15. Referential' BY <1>3 DEF TablesWritten, Referential
<1> QED BY <1>12, <1>13, <1>14, <1>15 DEF SInv

-----------------------------------------------------------------------------
LEMMA InitSInv == ServiceInit => SInv
<1> SUFFICES ASSUME ServiceInit PROVE SInv OBVIOUS
<1>1. IInv BY InitIInv DEF ServiceInit
<1>2. DOMAIN nodes = {StartId, EndId} BY DEF ServiceInit, Init
<1>3. call = [c \in Clients |-> <<>>] /\ begun = 0 /\ used = {StartId, EndId} BY DEF ServiceInit
<1>4. Calling = {} BY <1>3 DEF Calling
<1>5. Cardinality(Calling) = 0 BY <1>4, FS_EmptySet
<1>6. ServiceTypeOK
  <2>1. begun \in 0..MaxCalls BY <1>3, ServiceAssumption
  <2>2. call = [c \in Clients |-> call[c]] BY <1>3
  <2> QED BY <1>1, <1>3, <1>4, <1>5, <2>1, <2>2 DEF ServiceTypeOK, IInv, NodeIds
<1>7. IdsInv BY <1>2, <1>3, <1>4 DEF IdsInv
<1>8. RowsInv
  <2> SUFFICES ASSUME NEW id \in NodeIds, NEW n \in Held(id)
               PROVE  (n.outcome # "" => n.status = "completed") /\ n.reopens <= Returned
    BY DEF RowsInv
  <2>1. id \in DOMAIN nodes /\ n = nodes[id] BY <1>4 DEF Held
  <2>2. n.outcome = "" /\ n.reopens = 0 BY <2>1, <1>2 DEF ServiceInit, Init, NewNode
  <2>3. Returned = 0 BY <1>3, <1>5 DEF Returned
  <2>4. 0 <= 0 OBVIOUS
  <2> QED BY <2>2, <2>3, <2>4, Zenon
<1>9. Referential BY <1>1, <1>2 DEF IInv, GraphIsDag, Referential
<1> QED BY <1>6, <1>7, <1>8, <1>9 DEF SInv

LEMMA NextSInv == SInv /\ [ServiceNext]_svars => SInv'
<1> SUFFICES ASSUME SInv, [ServiceNext]_svars PROVE SInv' OBVIOUS
<1>1. ASSUME NEW c \in Clients, NEW r \in Requests, Begin(c, r) PROVE SInv'
  BY <1>1, BeginSInv
<1>2. ASSUME NEW c \in Clients, Read(c) PROVE SInv'
  BY <1>2, ReadSInv DEF Read, Calling
<1>3. ASSUME NEW c \in Clients, Commit(c) PROVE SInv'
  BY <1>3, CommitSInv DEF Commit, Calling
<1>4. ASSUME NEW c \in Clients, Fail(c) PROVE SInv'
  BY <1>4, FailSInv DEF Fail, Calling
<1>5. CASE UNCHANGED svars
  <2>1. UNCHANGED <<gstatus, nodes, edges, used, call, begun>> BY <1>5 DEF svars
  <2>2. Calling' = Calling BY <2>1 DEF Calling
  <2>3. TypeOK' /\ used' \subseteq NodeIds /\ Referential' /\ DOMAIN nodes' \subseteq used'
    BY <2>1, TablesStay DEF db
  <2>4. ServiceTypeOK' BY <2>1, <2>2, <2>3 DEF SInv, ServiceTypeOK
  <2>5. IdsInv' BY <2>1, <2>2 DEF SInv, IdsInv
  <2>6. \A id : Held(id)' = Held(id) BY <2>1, <2>2 DEF Held, HeldBy
  <2>7. Returned' = Returned BY <2>1, <2>2 DEF Returned
  <2>8. RowsInv' BY <2>6, <2>7, RowsInvKept
  <2> QED BY <2>3, <2>4, <2>5, <2>8 DEF SInv
<1> QED BY <1>1, <1>2, <1>3, <1>4, <1>5 DEF ServiceNext

(* Any number of concurrent callers: the stored rows are well typed and    *)
(* coherent, no edge dangles and the structural nodes stay, and no call    *)
(* inserts a node under an id that was used before.                        *)
THEOREM ServiceStaysSound == ServiceSpec => []SInv
<1>1. ServiceInit => SInv BY InitSInv
<1>2. SInv /\ [ServiceNext]_svars => SInv' BY NextSInv
<1> QED BY <1>1, <1>2, PTL DEF ServiceSpec

(* Whole-row writes keep the rows coherent, and the cascade keeps the      *)
(* edges between present nodes, whatever the calls read before.            *)
THEOREM RowsStayCoherent == ServiceSpec => [](RowsCoherent /\ Referential)
<1>1. SInv => RowsCoherent /\ Referential
  <2> SUFFICES ASSUME SInv PROVE RowsCoherent BY DEF SInv
  <2>1. DOMAIN nodes \subseteq NodeIds BY DEF SInv, ServiceTypeOK, TypeOK
  <2> QED BY <2>1, HeldRows DEF SInv, RowsInv, RowsCoherent
<1> QED BY <1>1, ServiceStaysSound, PTL

(* A node that was removed never comes back, whichever call still holds    *)
(* its row: saves overwrite and never insert, and ids are not reused.      *)
THEOREM RemovedRowsStayAway == ServiceSpec => RemovedStaysRemoved
<1> DEFINE Gone == \A id \in used \ DOMAIN nodes : id \notin DOMAIN nodes'
<1>1. SInv /\ [ServiceNext]_svars => [Gone]_svars
  <2> SUFFICES ASSUME SInv, ServiceNext PROVE Gone OBVIOUS
  <2>1. ASSUME UNCHANGED nodes PROVE Gone BY <2>1
  <2>2. ASSUME NEW c \in Clients, Commit(c) PROVE Gone
    <3> DEFINE r == call[c][1].req
    <3>1. c \in Calling BY <2>2 DEF Commit, Calling
    <3>2. TablesWritten(r) BY <2>2, <3>1, WriteTables DEF Commit
    <3>3. r.op = "AddNode" => r.id \notin used BY <3>1 DEF SInv, IdsInv
    <3> QED BY <3>2, <3>3 DEF TablesWritten
  <2> QED BY <2>1, <2>2 DEF ServiceNext, Begin, Read, Fail, db
<1> QED BY <1>1, ServiceStaysSound, PTL DEF ServiceSpec, RemovedStaysRemoved

-----------------------------------------------------------------------------
(* The cap of a loop on its own.  A row of the condition keeps its config, *)
(* and only its own failures count as reopenings.                          *)
LEMMA CappedRow ==
  ASSUME LoopStandsAlone, SInv, CappedInv, NEW r \in Requests, NEW id \in NodeIds, NEW n,
         Written(r, id, n)
  PROVE  Capped(id, n)
<1>1. ASSUME NEW m \in Held(id) PROVE Capped(id, m) /\ m \in NodeRow
  BY HeldTypes DEF CappedInv
<1>2. CASE r.op = "AddNode" /\ id = r.id /\ n = NewNode(KindOf[id], r.arg)
  <2>1. n.kind = KindOf[id] /\ n.meta = r.arg /\ n.reopens = 0 BY <1>2 DEF NewNode
  <2>2. r.arg \in Metas BY <1>2, RequestsAssumption, ConstantsAssumption DEF NodeIds
  <2>3. r.arg.cfg.maxRounds \in Nat BY <2>2, ConstantsAssumption
  <2>4. n.reopens <= n.meta.cfg.maxRounds BY <2>1, <2>3
  <2>5. id \in Ids BY <1>2, RequestsAssumption
  <2> QED BY <1>2, <2>1, <2>4, <2>5 DEF Capped
<1>3. ASSUME NEW m \in Held(id), NEW x, x.kind = m.kind, x.reopens = m.reopens,
             x.kind = "condition" => x.meta.cfg = m.meta.cfg
      PROVE  Capped(id, x)
  BY <1>1, <1>3 DEF Capped, Anchor
<1>4. ASSUME NEW m \in Held(id), r.id = id,
             r.op \in {"UpdateNode", "BindTask", "UnbindTask"} \cup DOMAIN StatusOf,
             n = Changed(r, m)
      PROVE  Capped(id, n)
  <2>1. m \in NodeRow /\ (m.kind = "condition" => id \in Ids /\ KindOf[id] = "condition")
    BY <1>1 DEF Capped, Anchor
  <2>2. CASE r.op = "UpdateNode"
    <3>1. n.kind = m.kind /\ n.reopens = m.reopens /\ n.kind # "condition"
      BY <2>1, <2>2, <1>4 DEF Changed, NodeRow, LoopStandsAlone
    <3> QED BY <3>1, <1>3
  <2>3. CASE r.op \in {"BindTask", "UnbindTask"}
    <3> DEFINE t == IF r.op = "BindTask" THEN r.arg ELSE NoTask
    <3>1. n = [m EXCEPT !.meta = [m.meta EXCEPT !.task = t]] BY <1>4, <2>3 DEF Changed
    <3>2. n.kind = m.kind /\ n.reopens = m.reopens /\ n.meta = [m.meta EXCEPT !.task = t]
      BY <2>1, <3>1 DEF NodeRow
    <3>3. m.meta \in [task : Tasks \cup {NoTask},
                      cfg : [maxRounds : Nat, onMaxExceeded : STRING,
                             onFailure : SUBSET NodeIds]]
      BY <2>1, ConstantsAssumption DEF NodeRow
    <3>4. n.meta.cfg = m.meta.cfg BY <3>2, <3>3
    <3> QED BY <3>2, <3>4, <1>3
  <2>4. CASE r.op \in {"StartNode", "CompleteNode", "DiscardNode"}
    <3>1. n.kind = m.kind /\ n.reopens = m.reopens /\ n.meta = m.meta
      BY <2>1, <2>4, <1>4 DEF Changed, Started, Completed, Discarded, NodeRow
    <3> QED BY <3>1, <1>3
  <2>5. CASE r.op = "ReopenNode"
    <3>1. n.kind = m.kind BY <2>1, <2>5, <1>4 DEF Changed, Reopened, NodeRow
    <3>2. m.kind # "condition" BY <2>1, <1>4, <2>5 DEF LoopStandsAlone
    <3> QED BY <1>1, <3>1, <3>2 DEF Capped, Anchor
  <2> QED BY <1>4, <2>2, <2>3, <2>4, <2>5 DEF StatusOf
<1>5. ASSUME NEW m \in Held(id),
             n \in {Completed(m, "success"), Completed(m, "force_success"), Discarded(m)}
      PROVE  Capped(id, n)
  <2>1. n.kind = m.kind /\ n.reopens = m.reopens /\ n.meta = m.meta
    BY <1>1, <1>5 DEF Completed, Discarded, NodeRow
  <2> QED BY <2>1, <1>3
<1>6. ASSUME NEW m \in Held(id), r.op = "ResolveCondition", n = Reopened(m),
             r.id = id => \E q \in Held(id) : ~MaxExceeded(m, q.meta.cfg)
      PROVE  Capped(id, n)
  <2>1. m \in NodeRow /\ Capped(id, m) BY <1>1
  <2>2. n.kind = m.kind /\ n.meta = m.meta /\ n.reopens = m.reopens + 1
    BY <2>1, <1>6 DEF Reopened, NodeRow
  <2> SUFFICES ASSUME n.kind = "condition"
               PROVE  n.meta.cfg.maxRounds > 0 => n.reopens <= n.meta.cfg.maxRounds
    BY <2>1, <2>2 DEF Capped, Anchor
  <2>3. id \in Ids /\ KindOf[id] = "condition" BY <2>1, <2>2 DEF Capped, Anchor
  <2>4. r.id = id BY <2>3, <1>6 DEF LoopStandsAlone
  <2>5. PICK q \in Held(id) : ~MaxExceeded(m, q.meta.cfg) BY <2>4, <1>6
  <2>6. Capped(id, q) BY <1>1
  <2>7. q.meta.cfg = m.meta.cfg
    <3>1. q.kind = "condition" /\ m.kind = "condition"
      BY <2>1, <2>2, <2>3, <2>6 DEF Capped
    <3>2. PICK a \in Requests : a.op = "AddNode" /\ a.id = id /\ q.meta.cfg = a.arg.cfg
      BY <2>6, <3>1 DEF Capped
    <3>3. PICK b \in Requests : b.op = "AddNode" /\ b.id = id /\ m.meta.cfg = b.arg.cfg
      BY <2>1, <3>1 DEF Capped
    <3>4. a.arg = b.arg BY <3>2, <3>3 DEF LoopStandsAlone
    <3> QED BY <3>2, <3>3, <3>4
  <2>8. m.meta.cfg.maxRounds \in Nat /\ m.reopens \in Nat
    BY <2>1, ConstantsAssumption DEF NodeRow
  <2>9. m.meta.cfg.maxRounds > 0 => ~ (m.reopens + 1 > m.meta.cfg.maxRounds)
    BY <2>5, <2>7 DEF MaxExceeded
  <2> QED BY <2>2, <2>8, <2>9
<1> QED BY <1>1, <1>2, <1>4, <1>5, <1>6 DEF Written

LEMMA CappedStep ==
  LoopStandsAlone /\ SInv /\ CappedInv /\ [ServiceNext]_svars => CappedInv'
<1> SUFFICES ASSUME LoopStandsAlone, SInv, CappedInv, [ServiceNext]_svars,
                    NEW id \in NodeIds, NEW n \in Held(id)'
             PROVE  Capped(id, n)
  BY DEF CappedInv
<1>1. n \in Held(id) \/ \E r \in Requests : Written(r, id, n)
  <2>1. ASSUME NEW c \in Clients, NEW r \in Requests, Begin(c, r) PROVE n \in Held(id)
    <3>1. \A i : HeldBy([req |-> r, todo |-> Reads(r.op), snap |-> NothingRead], i) = {}
      BY NothingReadOK
    <3> QED BY <2>1, <3>1, HeldShrinks DEF Begin
  <2>2. ASSUME NEW c \in Clients, Read(c) PROVE n \in Held(id)
    <3>1. c \in Calling BY <2>2 DEF Read, Calling
    <3>2. PICK now : /\ call' = [call EXCEPT ![c] = <<now>>]
                     /\ \A i : HeldBy(now, i) \subseteq Held(i)
      BY <2>2, <3>1, ReadOK
    <3> QED BY <2>2, <3>2, HeldShrinks DEF Read
  <2>3. ASSUME NEW c \in Clients, Fail(c) PROVE n \in Held(id)
    BY <2>3, HeldShrinks DEF Fail, Return
  <2>4. ASSUME NEW c \in Clients, Commit(c)
        PROVE  n \in Held(id) \/ \E r \in Requests : Written(r, id, n)
    <3> DEFINE r == call[c][1].req
    <3>1. c \in Calling BY <2>4 DEF Commit, Calling
    <3>2. TablesWritten(r) /\ r \in Requests BY <2>4, <3>1, WriteTables, CallFacts DEF Commit
    <3>3. n \in Held(id) \/ (id \in DOMAIN nodes' /\ n = nodes'[id])
      BY <2>4, CommitHeld
    <3> QED BY <3>2, <3>3 DEF TablesWritten
  <2>5. CASE UNCHANGED svars
    BY <2>5 DEF svars, Held, HeldBy, Calling
  <2> QED BY <2>1, <2>2, <2>3, <2>4, <2>5 DEF ServiceNext
<1>2. CASE n \in Held(id) BY <1>2 DEF CappedInv
<1>3. ASSUME NEW r \in Requests, Written(r, id, n) PROVE Capped(id, n)
  BY <1>3, CappedRow
<1> QED BY <1>1, <1>2, <1>3

(* max_rounds caps a loop that stands alone: racing resolutions, each with *)
(* its own stale reads, never reopen the condition more often.  Together   *)
(* with what holds of every graph, the rows are sound.                     *)
THEOREM LoopStaysCapped ==
  ASSUME LoopStandsAlone
  PROVE  ServiceSpec => []RowsAreSound
<1>1. ServiceInit => CappedInv
  <2> SUFFICES ASSUME ServiceInit, NEW id \in NodeIds, NEW n \in Held(id) PROVE Capped(id, n)
    BY DEF CappedInv
  <2>1. Calling = {} BY DEF ServiceInit, Calling
  <2>2. id \in DOMAIN nodes /\ n = nodes[id] BY <2>1 DEF Held
  <2>3. id \in {StartId, EndId} /\ n.kind \in {"start", "end"}
    BY <2>2 DEF ServiceInit, Init, NewNode
  <2> QED BY <2>3, ConstantsAssumption DEF Capped, Anchor
<1>2. SInv /\ CappedInv /\ [ServiceNext]_svars => CappedInv' BY CappedStep
<1>3. SInv /\ CappedInv => RowsAreSound
  <2> SUFFICES ASSUME SInv, CappedInv PROVE LoopIsCapped
    BY HeldRows DEF RowsAreSound, RowsCoherent, SInv, ServiceTypeOK, TypeOK, RowsInv
  <2> SUFFICES ASSUME NEW id \in DOMAIN nodes, nodes[id].kind = "condition",
                      nodes[id].meta.cfg.maxRounds > 0
               PROVE  nodes[id].reopens <= nodes[id].meta.cfg.maxRounds
    BY DEF LoopIsCapped
  <2>1. nodes[id] \in Held(id) /\ id \in NodeIds BY HeldRows DEF SInv, ServiceTypeOK, TypeOK
  <2> QED BY <2>1 DEF CappedInv, Capped
<1> QED BY <1>1, <1>2, <1>3, ServiceStaysSound, PTL DEF ServiceSpec

-----------------------------------------------------------------------------
(* The bound of OrchestrationGraph is never met: each of the MaxCalls      *)
(* calls reopens a node once at most, and the one in flight has not yet.   *)
LEMMA BelowBound ==
  ASSUME SInv, NEW c \in Calling, NEW id \in DOMAIN nodes
  PROVE  nodes[id].reopens < MaxReopens
<1>1. nodes[id] \in NodeRow /\ id \in NodeIds BY DEF SInv, ServiceTypeOK, TypeOK
<1>2. nodes[id].reopens \in Nat /\ nodes[id].reopens <= Returned
  BY <1>1, HeldRows DEF SInv, RowsInv, NodeRow
<1>3. Cardinality(Calling) # 0 BY CallingIsFinite, FS_EmptySet
<1>4. begun \in Nat /\ begun <= MaxCalls BY ServiceAssumption DEF SInv, ServiceTypeOK
<1>5. Returned < MaxCalls BY <1>3, <1>4, CallingIsFinite, ServiceAssumption DEF Returned
<1>6. Returned \in Int BY <1>4, CallingIsFinite DEF Returned
<1> QED BY <1>2, <1>5, <1>6, ServiceAssumption, ConstantsAssumption

(* What a current snapshot is, read by read.                               *)
LEMMA CurrentReads ==
  ASSUME NEW r, NEW snap, Current(r, snap)
  PROVE  /\ r.op \in {"StartGraph", "FinishGraph", "AddNode", "AddEdge"} => snap.header[1] = gstatus
         /\ r.op \in {"AddEdge", "RemoveNode", "ResolveCondition"} =>
              snap.nodes = nodes /\ snap.edges = edges
         /\ r.op \notin {"StartGraph", "FinishGraph", "AddNode", "AddEdge", "RemoveEdge"} =>
              snap.node = Row(r.id)
<1> DEFINE Names == {Reads(r.op)[i] : i \in DOMAIN Reads(r.op)}
<1>1. /\ "header" \in Names => snap.header = <<gstatus>>
      /\ "nodes" \in Names => snap.nodes = nodes
      /\ "edges" \in Names => snap.edges = edges
      /\ "node" \in Names => snap.node = Row(r.id)
  BY DEF Current
<1>2. CASE r.op \in {"StartGraph", "FinishGraph"}
  <2>1. Reads(r.op) = <<"header">> BY <1>2, Zenon DEF Reads
  <2>2. "header" \in Names BY <2>1
  <2> QED BY <1>1, <1>2, <2>2
<1>3. CASE r.op \in {"AddNode", "AddEdge"}
  <2>1. Reads(r.op) = <<"header", "nodes", "edges">> BY <1>3, Zenon DEF Reads
  <2>2. {"header", "nodes", "edges"} \subseteq Names BY <2>1
  <2> QED BY <1>1, <1>3, <2>2
<1>4. CASE r.op \in {"RemoveNode", "ResolveCondition"}
  <2>1. Reads(r.op) = <<"node", "nodes", "edges">> BY <1>4, Zenon DEF Reads
  <2>2. {"node", "nodes", "edges"} \subseteq Names BY <2>1
  <2> QED BY <1>1, <1>4, <2>2
<1>5. CASE r.op \notin {"StartGraph", "FinishGraph", "AddNode", "AddEdge", "RemoveNode",
                      "ResolveCondition", "RemoveEdge"}
  <2>1. Reads(r.op) = <<"node">> BY <1>5, Zenon DEF Reads
  <2>2. "node" \in Names BY <2>1
  <2> QED BY <1>1, <1>5, <2>2
<1>6. CASE r.op = "RemoveEdge" BY <1>6
<1> QED BY <1>2, <1>3, <1>4, <1>5, <1>6

(* The write of a call whose snapshot is current, operation by operation.  *)
LEMMA CurrentWrite ==
  ASSUME SInv, NEW c \in Calling, call[c][1].todo = <<>>,
         Write(call[c][1].req, call[c][1].snap), Current(call[c][1].req, call[c][1].snap)
  PROVE  Next
<1> DEFINE r == call[c][1].req  snap == call[c][1].snap
<1>1. /\ r.op \in {"StartGraph", "FinishGraph", "AddNode", "AddEdge"} => snap.header[1] = gstatus
      /\ r.op \in {"AddEdge", "RemoveNode", "ResolveCondition"} =>
           snap.nodes = nodes /\ snap.edges = edges
      /\ r.op \notin {"StartGraph", "FinishGraph", "AddNode", "AddEdge", "RemoveEdge"} =>
           snap.node = Row(r.id)
  BY CurrentReads
<1>2. r \in Requests BY CallFacts
<1>3. r.op = "AddNode" => r.id \notin DOMAIN nodes BY DEF SInv, IdsInv
<1>4. \A id \in DOMAIN nodes : nodes[id].reopens < MaxReopens BY BelowBound
<1>5. Write(r, snap) OBVIOUS
<1> HIDE DEF r, snap
<1>6. nodes = [i \in DOMAIN nodes |-> nodes[i]] BY TablesNow
<1>7. CASE r.op = "StartGraph" /\ SetStatus("running", snap)
  BY <1>1, <1>7 DEF SetStatus, StartGraph, Next
<1>8. CASE r.op = "FinishGraph" /\ SetStatus("done", snap)
  BY <1>1, <1>8 DEF SetStatus, FinishGraph, Next
<1>9. CASE r.op = "AddNode" /\ InsertNode(r, snap)
  <2>1. AddNode(r.id, r.arg) BY <1>1, <1>3, <1>9 DEF InsertNode, AddNode
  <2>2. r.id \in Ids /\ r.arg \in MetaInputs[r.id] BY <1>2, <1>9, RequestsAssumption
  <2> QED BY <2>1, <2>2 DEF Next
<1>10. CASE r.op = "RemoveNode" /\ DeleteNode(r, snap)
  <2>1. RemoveNode(r.id) BY <1>1, <1>10 DEF DeleteNode, RemoveNode
  <2>2. r.id \in NodeIds BY <1>2, <1>10, RequestsAssumption
  <2> QED BY <2>1, <2>2 DEF Next
<1>11. CASE r.op = "AddEdge" /\ InsertEdge(r, snap)
  <2>1. AddEdge(r.id) BY <1>1, <1>11 DEF InsertEdge, AddEdge
  <2>2. r.id \in EdgeInputs BY <1>2, <1>11, RequestsAssumption
  <2> QED BY <2>1, <2>2 DEF Next
<1>12. CASE r.op = "RemoveEdge" /\ DeleteEdge(r)
  <2>1. RemoveEdge(r.id) BY <1>12 DEF DeleteEdge, RemoveEdge
  <2>2. r.id \in EdgeInputs BY <1>2, <1>12, RequestsAssumption
  <2> QED BY <2>1, <2>2 DEF Next
<1>13. ASSUME snap.node # <<>>, snap.node = Row(r.id), r.id \in Operated
       PROVE  /\ r.id \in Operated \cap DOMAIN nodes /\ snap.node[1] = nodes[r.id]
              /\ OneNode(r.id) => Next
  <2>1. r.id \in DOMAIN nodes /\ snap.node[1] = nodes[r.id] BY <1>13 DEF Row
  <2> QED BY <1>13, <2>1 DEF Next
<1>14. CASE r.op = "ResolveCondition" /\ SaveResolution(r, snap)
  <2>1. r.id \in Operated /\ r.arg \in BOOLEAN BY <1>2, <1>14, RequestsAssumption
  <2>2. /\ r.id \in Operated \cap DOMAIN nodes /\ snap.node[1] = nodes[r.id]
        /\ OneNode(r.id) => Next
    BY <1>1, <1>13, <1>14, <2>1 DEF SaveResolution
  <2> DEFINE cfg == nodes[r.id].meta.cfg
             new == ApplyConditionResult(nodes, edges, r.id, cfg, r.arg)
             S == {i \in DOMAIN new : new[i] # nodes[i]}
  <2>3. ConditionApplies(nodes[r.id], cfg, r.arg) /\ SaveRows(new, S)
    BY <1>1, <1>14, <2>2 DEF SaveResolution
  <2>4. new \in [DOMAIN nodes -> NodeRow]
    BY <2>1, <2>2, ResolutionType DEF SInv, ServiceTypeOK, TypeOK
  <2>5. nodes' = [i \in DOMAIN nodes |-> IF i \in S THEN new[i] ELSE nodes[i]]
        /\ UNCHANGED <<gstatus, edges>>
    BY <2>3 DEF SaveRows
  <2> HIDE DEF new
  <2>6. nodes' = new BY <2>4, <2>5
  <2>7. ~ \E i \in DOMAIN nodes : nodes[i].reopens >= MaxReopens
    <3> SUFFICES ASSUME NEW i \in DOMAIN nodes PROVE ~ (nodes[i].reopens >= MaxReopens)
      OBVIOUS
    <3>1. nodes[i].reopens \in Nat BY DEF SInv, ServiceTypeOK, TypeOK, NodeRow
    <3> QED BY <1>4, <3>1, ConstantsAssumption
  <2>8. ResolveCondition(r.id, r.arg) BY <2>3, <2>5, <2>6, <2>7 DEF ResolveCondition, new
  <2> QED BY <2>1, <2>2, <2>8 DEF OneNode
<1>15. CASE /\ r.op \in {"UpdateNode", "BindTask", "UnbindTask"} \cup DOMAIN StatusOf
            /\ SaveNode(r, snap)
  <2>1. r.op \notin {"StartGraph", "FinishGraph", "AddNode", "AddEdge", "RemoveEdge", "RemoveNode"}
    BY <1>15 DEF StatusOf
  <2>2. /\ r.id \in Operated
        /\ r.op = "UpdateNode" => r.arg \in MetaInputs[r.id]
        /\ r.op = "BindTask" => r.arg \in TaskInputs[r.id]
        /\ r.op = "CompleteNode" => r.arg \in Outcomes
    BY <1>2, <2>1, RequestsAssumption
  <2>3. /\ r.id \in Operated \cap DOMAIN nodes /\ snap.node[1] = nodes[r.id]
        /\ OneNode(r.id) => Next
    BY <1>1, <1>13, <1>15, <2>1, <2>2 DEF SaveNode
  <2> DEFINE row == Changed(r, nodes[r.id])
  <2>4. nodes' = [nodes EXCEPT ![r.id] = row] /\ UNCHANGED <<gstatus, edges>>
    <3>1. SaveRows([i \in {r.id} |-> row], {r.id}) BY <1>15, <2>3 DEF SaveNode
    <3> HIDE DEF row
    <3> QED BY <1>6, <3>1 DEF SaveRows
  <2>5. WriteRow(r.id, row) BY <2>4 DEF WriteRow
  <2>6. r.op \in DOMAIN StatusOf => CanTransitionTo(nodes[r.id], StatusOf[r.op])
    BY <1>15, <2>3 DEF SaveNode
  <2>7. CASE r.op = "UpdateNode" BY <2>2, <2>3, <2>5, <2>7 DEF Changed, UpdateNode, OneNode
  <2>8. CASE r.op = "BindTask" BY <2>2, <2>3, <2>5, <2>8 DEF Changed, BindTask, OneNode
  <2>9. CASE r.op = "UnbindTask" BY <2>3, <2>5, <2>9 DEF Changed, UnbindTask, OneNode
  <2>10. CASE r.op = "StartNode"
    BY <2>3, <2>5, <2>6, <2>10 DEF Changed, StartNode, OneNode, StatusOf
  <2>11. CASE r.op = "CompleteNode"
    BY <2>2, <2>3, <2>5, <2>6, <2>11 DEF Changed, CompleteNode, OneNode, StatusOf
  <2>12. CASE r.op = "DiscardNode"
    BY <2>3, <2>5, <2>6, <2>12 DEF Changed, DiscardNode, OneNode, StatusOf
  <2>13. CASE r.op = "ReopenNode"
    BY <1>4, <2>3, <2>5, <2>6, <2>13 DEF Changed, ReopenNode, OneNode, StatusOf
  <2> QED BY <1>15, <2>7, <2>8, <2>9, <2>10, <2>11, <2>12, <2>13 DEF StatusOf
<1> QED
  BY <1>5, <1>7, <1>8, <1>9, <1>10, <1>11, <1>12, <1>14, <1>15, Zenon DEF Write

(* Nothing but stale reads separates the service from one operation at a   *)
(* time: a call that commits while its snapshot is current takes a step of *)
(* OrchestrationGraph.                                                     *)
THEOREM CurrentCommitsAreAtomic == ServiceSpec => CurrentCommitIsAtomic
<1> DEFINE Atomic == \A c \in Clients :
              call[c] # <<>> /\ call'[c] = <<>> /\ Current(call[c][1].req, call[c][1].snap)
                => [Next]_vars
<1>1. SInv /\ [ServiceNext]_svars => [Atomic]_svars
  <2> SUFFICES ASSUME SInv, ServiceNext, NEW c \in Clients,
                      call[c] # <<>>, call'[c] = <<>>, Current(call[c][1].req, call[c][1].snap)
               PROVE  [Next]_vars
    OBVIOUS
  <2>1. call = [d \in Clients |-> call[d]] /\ c \in Calling
    BY DEF SInv, ServiceTypeOK, Calling
  <2>2. ASSUME UNCHANGED db PROVE [Next]_vars BY <2>2 DEF db, vars
  <2>3. ASSUME NEW d \in Clients, Commit(d) PROVE [Next]_vars
    <3>1. d = c BY <2>1, <2>3 DEF Commit, Return
    <3> QED BY <2>1, <2>3, <3>1, CurrentWrite DEF Commit
  <2> QED BY <2>2, <2>3 DEF ServiceNext, Begin, Read, Fail
<1> QED BY <1>1, ServiceStaysSound, PTL DEF ServiceSpec, CurrentCommitIsAtomic

=============================================================================
