------------------------- MODULE OrchestrationGraph -------------------------
(***************************************************************************)
(* An orchestration graph whose operations run one at a time: the          *)
(* behaviour the domain model promises.  Each action is one operation of   *)
(* orchestration.Service, taken as a whole (load, domain check, write);    *)
(* OrchestrationService splits them the way concurrent callers do.         *)
(***************************************************************************)
EXTENDS GraphOps

CONSTANTS
  StartId, EndId,   \* the two structural nodes every graph is created with
  Ids,              \* ids AddNode may generate
  KindOf,           \* the kind of node each id is created as
  Metas,            \* node metadata: [task, cfg]
  MetaInputs,       \* the metadata callers pass for each node
  Operated,         \* the nodes callers operate on
  Tasks, NoTask,    \* task ids a node may be bound to
  TaskInputs,       \* the tasks callers bind to each node
  Outcomes,         \* outcomes a caller may complete a node with
  EdgeInputs,       \* edges a caller may ask for
  MaxReopens        \* bound: how often a node may be reopened

NodeIds == Ids \cup {StartId, EndId}

Kinds == {"business", "condition", "start", "end"}

ASSUME ConstantsAssumption ==
  /\ StartId # EndId /\ {StartId, EndId} \cap Ids = {}
  /\ KindOf \in [Ids -> Kinds]
  /\ Metas \subseteq [task : Tasks \cup {NoTask},
                     cfg : [maxRounds : Nat, onMaxExceeded : STRING,
                            onFailure : SUBSET NodeIds]]
  /\ \A m \in Metas : \A t \in Tasks \cup {NoTask} : [m EXCEPT !.task = t] \in Metas
  /\ \E m \in Metas : m.task = NoTask
  /\ MetaInputs \in [NodeIds -> SUBSET Metas]
  /\ TaskInputs \in [NodeIds -> SUBSET Tasks]
  /\ Operated \subseteq NodeIds
  /\ EdgeInputs \subseteq NodeIds \X NodeIds
  /\ MaxReopens \in Nat

VARIABLES
  gstatus,          \* the status column of the graph row
  nodes,            \* the node rows present, by id
  edges             \* the edge rows

vars == <<gstatus, nodes, edges>>

NodeRow ==
  [kind : Kinds,
   status : NodeStatus,
   outcome : Outcomes \cup {"", "success", "force_success"},
   reopens : Nat,
   meta : Metas]

TypeOK ==
  /\ gstatus \in GraphStatus
  /\ DOMAIN nodes \subseteq NodeIds
  /\ nodes \in [DOMAIN nodes -> NodeRow]
  /\ edges \subseteq NodeIds \X NodeIds

EmptyMeta == CHOOSE m \in Metas : m.task = NoTask

\* CreateGraph: a draft with its start and end nodes.
Init ==
  /\ gstatus = "draft"
  /\ nodes = [id \in {StartId, EndId} |->
                NewNode(IF id = StartId THEN "start" ELSE "end", EmptyMeta)]
  /\ edges = {}

-----------------------------------------------------------------------------
StartGraph ==
  /\ "running" \in graphTransitions[gstatus]
  /\ gstatus' = "running"
  /\ UNCHANGED <<nodes, edges>>

FinishGraph ==
  /\ "done" \in graphTransitions[gstatus]
  /\ gstatus' = "done"
  /\ UNCHANGED <<nodes, edges>>

AddNode(id, meta) ==
  /\ id \notin DOMAIN nodes
  /\ nodes' = [i \in DOMAIN nodes \cup {id} |->
                 IF i = id THEN NewNode(KindOf[id], meta) ELSE nodes[i]]
  /\ UNCHANGED <<gstatus, edges>>

RemoveNode(id) ==
  /\ id \in DOMAIN nodes \ {StartId, EndId}
  /\ Removable(nodes[id])
  /\ nodes' = [i \in DOMAIN nodes \ {id} |-> nodes[i]]
  /\ edges' = edges \ Touching(edges, id)
  /\ UNCHANGED gstatus

\* Every operation on one node: read its row, change it, write it back.
WriteRow(id, row) ==
  /\ nodes' = [nodes EXCEPT ![id] = row]
  /\ UNCHANGED <<gstatus, edges>>

UpdateNode(id, meta) == WriteRow(id, [nodes[id] EXCEPT !.meta = meta])
BindTask(id, t)      == WriteRow(id, [nodes[id] EXCEPT !.meta.task = t])
UnbindTask(id)       == WriteRow(id, [nodes[id] EXCEPT !.meta.task = NoTask])

StartNode(id) ==
  CanTransitionTo(nodes[id], "running") /\ WriteRow(id, Started(nodes[id]))

CompleteNode(id, out) ==
  CanTransitionTo(nodes[id], "completed") /\ WriteRow(id, Completed(nodes[id], out))

DiscardNode(id) ==
  CanTransitionTo(nodes[id], "discarded") /\ WriteRow(id, Discarded(nodes[id]))

ReopenNode(id) ==
  /\ nodes[id].reopens < MaxReopens
  /\ CanTransitionTo(nodes[id], "reopen")
  /\ WriteRow(id, Reopened(nodes[id]))

\* The caller may name any node: the kind is not checked, and a node with
\* no condition config has the zero one.
ResolveCondition(id, success) ==
  LET cfg == nodes[id].meta.cfg IN
  /\ ConditionApplies(nodes[id], cfg, success)
  /\ ~ (\E i \in DOMAIN nodes : ~success /\ ~MaxExceeded(nodes[id], cfg) /\ nodes[i].reopens >= MaxReopens)
  /\ nodes' = ApplyConditionResult(nodes, edges, id, cfg, success)
  /\ UNCHANGED <<gstatus, edges>>

\* Mutant: only the two-node cycle is looked for.
AddEdge_ChecksReverseOnly(e) ==
  /\ e[1] \in DOMAIN nodes /\ e[2] \in DOMAIN nodes
  /\ e \notin edges /\ e[1] # e[2]
  /\ <<e[2], e[1]>> \notin edges
  /\ edges' = edges \cup {e}
  /\ UNCHANGED <<gstatus, nodes>>

\* ValidateNoCycle accepts exactly the edges that keep the graph acyclic
\* (CycleCheckProofs).
AddEdge(e) ==
  /\ e[1] \in DOMAIN nodes /\ e[2] \in DOMAIN nodes
  /\ e \notin edges
  /\ AcyclicOn(edges \cup {e}, NodeIds)
  /\ edges' = edges \cup {e}
  /\ UNCHANGED <<gstatus, nodes>>

RemoveEdge(e) ==
  /\ edges' = edges \ {e}
  /\ UNCHANGED <<gstatus, nodes>>

OneNode(id) ==
  \/ \E m \in MetaInputs[id] : UpdateNode(id, m)
  \/ \E t \in TaskInputs[id] : BindTask(id, t)
  \/ UnbindTask(id)
  \/ StartNode(id)
  \/ \E out \in Outcomes : CompleteNode(id, out)
  \/ DiscardNode(id)
  \/ ReopenNode(id)
  \/ \E success \in BOOLEAN : ResolveCondition(id, success)

Next ==
  \/ StartGraph
  \/ FinishGraph
  \/ \E id \in Ids : \E m \in MetaInputs[id] : AddNode(id, m)
  \/ \E id \in NodeIds : RemoveNode(id)
  \/ \E id \in Operated \cap DOMAIN nodes : OneNode(id)
  \/ \E e \in EdgeInputs : AddEdge(e) \/ RemoveEdge(e)

Spec == Init /\ [][Next]_vars

-----------------------------------------------------------------------------
(* The graph is a DAG over the nodes present: every edge joins two of      *)
(* them, and no dependency is circular ("Graph is the aggregate root: a    *)
(* DAG of Nodes connected by Edges").                                      *)
EdgesJoinNodes == \A e \in edges : e[1] \in DOMAIN nodes /\ e[2] \in DOMAIN nodes

GraphIsDag == EdgesJoinNodes /\ AcyclicOn(edges, NodeIds)

IInv == TypeOK /\ GraphIsDag

(* A graph that is not done can always be moved on: some business node is  *)
(* running or is in ReadyNodes, or some unresolved condition has all its   *)
(* upstream satisfied and only waits for its result.                       *)
Actionable(id) ==
  \/ nodes[id].status = "running" /\ ~Anchor(nodes[id])
  \/ id \in ReadyNodes(nodes, edges)
  \/ /\ nodes[id].kind = "condition" /\ ~Resolved(nodes[id])
     /\ \A d \in Upstream(edges, id) : Satisfied(nodes, d)

NeverStuck ==
  Business(nodes) # {} /\ ~IsAutoDone(nodes) => \E id \in DOMAIN nodes : Actionable(id)

(* n is m or comes after it: no set of nodes that holds m and all that     *)
(* depends on its members leaves n out.                                    *)
Leads(m, n) ==
  \A T \in SUBSET NodeIds :
    m \in T /\ (\A e \in edges : e[1] \in T => e[2] \in T) => n \in T

(* A failed condition reopens the nodes on the paths that lead from its    *)
(* target to it, those and no others, the condition itself left out        *)
(* ("ReopenChain computes all nodes on any path from target to from").     *)
ChainIsPaths ==
  \A c \in {i \in DOMAIN nodes : nodes[i].kind = "condition"} : \A to \in NodeIds :
    ReopenChain(edges, c, to) = {n \in NodeIds \ {c} : to # c /\ Leads(to, n) /\ Leads(n, c)}
=============================================================================
