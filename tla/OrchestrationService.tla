------------------------ MODULE OrchestrationService ------------------------
(***************************************************************************)
(* orchestration.Service under concurrent callers.  A call reads what it   *)
(* needs with separate SELECTs outside any transaction, checks the domain  *)
(* rules on that snapshot, and writes in one transaction at the end; no    *)
(* write compares the version column.  (A caller that already holds a      *)
(* transaction is the special case whose steps are not interleaved.)       *)
(* Each action of OrchestrationGraph becomes Begin, its reads, and Commit. *)
(***************************************************************************)
EXTENDS OrchestrationGraph, Sequences

CONSTANTS
  Clients,     \* concurrent callers
  Requests,    \* what they ask: [op, id, arg]; id is the graph or a node or an edge
  MaxCalls     \* bound: how many calls are made in all

\* OrchestrationGraph's bound on reopenings stays out of the way.
ASSUME ServiceAssumption ==
  IsFiniteSet(Clients) /\ MaxCalls \in Nat /\ MaxCalls <= MaxReopens

\* The requests name what callers of OrchestrationGraph's actions name.
ASSUME RequestsAssumption ==
  \A r \in Requests :
    \/ r.op \in {"StartGraph", "FinishGraph"}
    \/ r.op = "AddNode" /\ r.id \in Ids /\ r.arg \in MetaInputs[r.id]
    \/ r.op = "RemoveNode" /\ r.id \in NodeIds
    \/ r.op \in {"AddEdge", "RemoveEdge"} /\ r.id \in EdgeInputs
    \/ /\ r.id \in Operated
       /\ \/ r.op \in {"StartNode", "DiscardNode", "ReopenNode", "UnbindTask"}
          \/ r.op = "UpdateNode" /\ r.arg \in MetaInputs[r.id]
          \/ r.op = "BindTask" /\ r.arg \in TaskInputs[r.id]
          \/ r.op = "CompleteNode" /\ r.arg \in Outcomes
          \/ r.op = "ResolveCondition" /\ r.arg \in BOOLEAN

VARIABLES
  used,        \* node ids that were ever inserted: ULIDs are not reused
  call,        \* per client, the sequence holding its call in flight, if any
  begun        \* how many calls have begun

svars == <<gstatus, nodes, edges, used, call, begun>>

db == <<gstatus, nodes, edges>>

\* What a call reads before it writes, in order.  loadGraph is three reads;
\* the graph row is left out where nothing the call does depends on it.
Reads(op) ==
  CASE op \in {"StartGraph", "FinishGraph"}      -> <<"header">>
    [] op \in {"AddNode", "AddEdge"}             -> <<"header", "nodes", "edges">>
    [] op \in {"RemoveNode", "ResolveCondition"} -> <<"node", "nodes", "edges">>
    [] op = "RemoveEdge"                         -> <<>>
    [] OTHER                                     -> <<"node">>

NothingRead == [header |-> <<>>, nodes |-> <<>>, edges |-> {}, node |-> <<>>]

ServiceInit ==
  /\ Init
  /\ used = {StartId, EndId}
  /\ call = [c \in Clients |-> <<>>]
  /\ begun = 0

\* The id is taken by a node, now or before, or by a call that will insert one.
Taken(id) ==
  \/ id \in used
  \/ \E d \in Clients :
       call[d] # <<>> /\ call[d][1].req.op = "AddNode" /\ call[d][1].req.id = id

\* AddNode generates an id of its own.
Begin(c, r) ==
  /\ call[c] = <<>>
  /\ begun < MaxCalls
  /\ ~ (r.op = "AddNode" /\ Taken(r.id))
  /\ call' = [call EXCEPT ![c] = <<[req |-> r, todo |-> Reads(r.op), snap |-> NothingRead]>>]
  /\ begun' = begun + 1
  /\ UNCHANGED <<db, used>>

Return(c) == call' = [call EXCEPT ![c] = <<>>]

\* The row FindByID returns: none when the node is gone.
Row(id) == IF id \in DOMAIN nodes THEN <<nodes[id]>> ELSE <<>>

Read(c) ==
  /\ call[c] # <<>>
  /\ LET now == call[c][1] IN
     /\ now.todo # <<>>
     /\ call' = [call EXCEPT ![c] =
          <<[now EXCEPT !.todo = Tail(@),
                      !.snap = CASE Head(now.todo) = "header" -> [@ EXCEPT !.header = <<gstatus>>]
                                 [] Head(now.todo) = "nodes"  -> [@ EXCEPT !.nodes = nodes]
                                 [] Head(now.todo) = "edges"  -> [@ EXCEPT !.edges = edges]
                                 [] Head(now.todo) = "node"   -> [@ EXCEPT !.node = Row(now.req.id)]]>>]
  /\ UNCHANGED <<db, used, begun>>

-----------------------------------------------------------------------------
(* The writes.  Each takes the request and the snapshot; its guard is the  *)
(* domain check on the snapshot and what the database still enforces.      *)

SetStatus(to, snap) ==
  /\ to \in graphTransitions[snap.header[1]]
  /\ gstatus' = to
  /\ UNCHANGED <<nodes, edges, used>>

\* The graph row is saved along with the node, with the status that was read.
InsertNode(r, snap) ==
  /\ nodes' = [i \in DOMAIN nodes \cup {r.id} |->
                 IF i = r.id THEN NewNode(KindOf[r.id], r.arg) ELSE nodes[i]]
  /\ gstatus' = snap.header[1]
  /\ used' = used \cup {r.id}
  /\ UNCHANGED edges

\* Mutant: only the edges that were read are deleted, with no cascade.
DeleteNode_ReadEdgesOnly(r, snap) ==
  /\ snap.node # <<>> /\ r.id \in DOMAIN snap.nodes \ {StartId, EndId}
  /\ Removable(snap.nodes[r.id])
  /\ nodes' = [i \in DOMAIN nodes \ {r.id} |-> nodes[i]]
  /\ edges' = edges \ Touching(snap.edges, r.id)
  /\ UNCHANGED <<gstatus, used>>

\* The edges read are deleted, and the foreign keys cascade to the others.
\* Deleting a node that is already gone succeeds.
DeleteNode(r, snap) ==
  /\ snap.node # <<>> /\ r.id \in DOMAIN snap.nodes \ {StartId, EndId}
  /\ Removable(snap.nodes[r.id])
  /\ nodes' = [i \in DOMAIN nodes \ {r.id} |-> nodes[i]]
  /\ edges' = edges \ Touching(edges, r.id)
  /\ UNCHANGED <<gstatus, used>>

\* The row a single-node operation computes from the one it read.
Changed(r, row) ==
  CASE r.op = "UpdateNode"   -> [row EXCEPT !.meta = r.arg]
    [] r.op = "BindTask"     -> [row EXCEPT !.meta.task = r.arg]
    [] r.op = "UnbindTask"   -> [row EXCEPT !.meta.task = NoTask]
    [] r.op = "StartNode"    -> Started(row)
    [] r.op = "CompleteNode" -> Completed(row, r.arg)
    [] r.op = "DiscardNode"  -> Discarded(row)
    [] r.op = "ReopenNode"   -> Reopened(row)

\* Mutant: the update inserts the row when it is missing.
SaveRows_Upserts(new, S) ==
  /\ nodes' = [i \in DOMAIN nodes \cup S |-> IF i \in S THEN new[i] ELSE nodes[i]]
  /\ UNCHANGED <<gstatus, edges, used>>

\* NodeRepo.Update on each row of S, in one transaction: a row that is gone
\* fails it as a whole.  Every column is overwritten.
SaveRows(new, S) ==
  /\ S \subseteq DOMAIN nodes
  /\ nodes' = [i \in DOMAIN nodes |-> IF i \in S THEN new[i] ELSE nodes[i]]
  /\ UNCHANGED <<gstatus, edges, used>>

StatusOf ==
  [StartNode |-> "running", CompleteNode |-> "completed",
   DiscardNode |-> "discarded", ReopenNode |-> "reopen"]

\* Mutant: the transition table is not consulted.
SaveNode_AnyTransition(r, snap) ==
  /\ snap.node # <<>>
  /\ SaveRows([i \in {r.id} |-> Changed(r, snap.node[1])], {r.id})

SaveNode(r, snap) ==
  /\ snap.node # <<>>
  /\ ~ (r.op \in DOMAIN StatusOf /\ ~CanTransitionTo(snap.node[1], StatusOf[r.op]))
  /\ SaveRows([i \in {r.id} |-> Changed(r, snap.node[1])], {r.id})

\* The config is that of the row read first, the routing that of the graph
\* read after it; only the rows the domain changed are written.
SaveResolution(r, snap) ==
  /\ snap.node # <<>> /\ r.id \in DOMAIN snap.nodes
  /\ LET cfg == snap.node[1].meta.cfg
         new == ApplyConditionResult(snap.nodes, snap.edges, r.id, cfg, r.arg)
     IN  /\ ConditionApplies(snap.nodes[r.id], cfg, r.arg)
         /\ SaveRows(new, {i \in DOMAIN new : new[i] # snap.nodes[i]})

\* The cycle check runs on the snapshot; the primary key and the foreign
\* keys are checked by the insert.
InsertEdge(r, snap) ==
  /\ r.id[1] \in DOMAIN snap.nodes /\ r.id[2] \in DOMAIN snap.nodes
  /\ r.id \notin snap.edges
  /\ AcyclicOn(snap.edges \cup {r.id}, NodeIds)
  /\ r.id[1] \in DOMAIN nodes /\ r.id[2] \in DOMAIN nodes
  /\ r.id \notin edges
  /\ edges' = edges \cup {r.id}
  /\ gstatus' = snap.header[1]
  /\ UNCHANGED <<nodes, used>>

DeleteEdge(r) ==
  /\ edges' = edges \ {r.id}
  /\ UNCHANGED <<gstatus, nodes, used>>

Write(r, snap) ==
  \/ r.op = "StartGraph"       /\ SetStatus("running", snap)
  \/ r.op = "FinishGraph"      /\ SetStatus("done", snap)
  \/ r.op = "AddNode"          /\ InsertNode(r, snap)
  \/ r.op = "RemoveNode"       /\ DeleteNode(r, snap)
  \/ r.op = "ResolveCondition" /\ SaveResolution(r, snap)
  \/ r.op = "AddEdge"          /\ InsertEdge(r, snap)
  \/ r.op = "RemoveEdge"       /\ DeleteEdge(r)
  \/ r.op \in {"UpdateNode", "BindTask", "UnbindTask"} \cup DOMAIN StatusOf
     /\ SaveNode(r, snap)

Commit(c) ==
  /\ call[c] # <<>> /\ call[c][1].todo = <<>>
  /\ Write(call[c][1].req, call[c][1].snap)
  /\ Return(c)
  /\ UNCHANGED begun

\* An error (a check that fails, a cancelled request, a busy database): the
\* call returns and nothing is written.
Fail(c) ==
  /\ call[c] # <<>>
  /\ Return(c)
  /\ UNCHANGED <<db, used, begun>>

ServiceNext ==
  \E c \in Clients :
    \/ \E r \in Requests : Begin(c, r)
    \/ Read(c)
    \/ Commit(c)
    \/ Fail(c)

ServiceSpec == ServiceInit /\ [][ServiceNext]_svars

-----------------------------------------------------------------------------
(* Whole-row writes keep each row coherent under any interleaving: a node  *)
(* has an outcome only while it is completed.                              *)
RowsCoherent ==
  \A id \in DOMAIN nodes : nodes[id].outcome # "" => nodes[id].status = "completed"

(* Whatever is removed meanwhile, no edge dangles and the structural nodes *)
(* stay: AddEdge racing RemoveNode leaves neither half behind.             *)
Referential == EdgesJoinNodes /\ {StartId, EndId} \subseteq DOMAIN nodes

(* A node that was removed never comes back: a call that read its row      *)
(* before the removal does not write it again.                             *)
RemovedStaysRemoved ==
  [][\A id \in used \ DOMAIN nodes : id \notin DOMAIN nodes']_svars

(* The failure loop of a condition is capped, unless its max_rounds is 0   *)
(* (unlimited): racing resolutions never push it past that number.  It is  *)
(* the cap of one loop: in a graph with several conditions one may reopen  *)
(* another, and a caller may reopen or reconfigure it as any other node.   *)
LoopIsCapped ==
  \A id \in DOMAIN nodes :
    nodes[id].kind = "condition" /\ nodes[id].meta.cfg.maxRounds > 0 =>
      nodes[id].reopens <= nodes[id].meta.cfg.maxRounds

\* The graphs the cap is stated for: one condition, created once with its
\* config, that only ResolveCondition and the two ends of its life touch.
LoopStandsAlone ==
  /\ \A i, j \in Ids : KindOf[i] = "condition" /\ KindOf[j] = "condition" => i = j
  /\ \A r \in Requests :
       /\ r.op \in {"ReopenNode", "UpdateNode"} /\ r.id \in Ids => KindOf[r.id] # "condition"
       /\ r.op = "ResolveCondition" => r.id \in Ids /\ KindOf[r.id] = "condition"
  /\ \A q, r \in Requests :
       q.op = "AddNode" /\ r.op = "AddNode" /\ q.id = r.id => q.arg = r.arg

(* What no interleaving of stale reads breaks in the stored rows.          *)
RowsAreSound == RowsCoherent /\ Referential /\ LoopIsCapped

(* A call whose reads are still current when it commits is one atomic step *)
(* of OrchestrationGraph: splitting the operation costs nothing else.      *)
Current(r, snap) ==
  \A x \in {Reads(r.op)[i] : i \in DOMAIN Reads(r.op)} :
    snap[x] = [header |-> <<gstatus>>, nodes |-> nodes, edges |-> edges,
               node |-> IF x = "node" THEN Row(r.id) ELSE <<>>][x]

CurrentCommitIsAtomic ==
  [][\A c \in Clients :
       call[c] # <<>> /\ call'[c] = <<>> /\ Current(call[c][1].req, call[c][1].snap)
         => [Next]_vars]_svars

-----------------------------------------------------------------------------
(* The inductive invariant.                                                *)

IsTable(rows) == DOMAIN rows \subseteq NodeIds /\ rows \in [DOMAIN rows -> NodeRow]

\* The calls in flight, the rows of the table they have read being "rows".
Calls(rows) ==
  [req : Requests,
   todo : Seq({"header", "nodes", "edges", "node"}),
   snap : [header : Seq(GraphStatus), nodes : {rows},
           edges : SUBSET (NodeIds \X NodeIds), node : Seq(NodeRow)]]

\* A read hands over at most one row, and the graph row is the first one read.
CallOK(now) ==
  /\ IsTable(now.snap.nodes) /\ now \in Calls(now.snap.nodes)
  /\ Len(now.snap.header) <= 1 /\ Len(now.snap.node) <= 1
  /\ now.req.op \in {"StartGraph", "FinishGraph", "AddNode", "AddEdge"} =>
       now.snap.header # <<>> \/ now.todo = Reads(now.req.op)

Calling == {c \in Clients : call[c] # <<>>}

ServiceTypeOK ==
  /\ TypeOK
  /\ used \subseteq NodeIds
  /\ call = [c \in Clients |-> call[c]]
  /\ \A c \in Calling : call[c] = <<call[c][1]>> /\ CallOK(call[c][1])
  /\ begun \in 0..MaxCalls /\ Cardinality(Calling) <= begun

\* An id names one node, the one it was generated for.
IdsInv ==
  /\ DOMAIN nodes \subseteq used
  /\ \A c \in Calling : call[c][1].req.op = "AddNode" =>
       /\ call[c][1].req.id \notin used
       /\ \A d \in Calling : call[d][1].req.op = "AddNode" =>
            d = c \/ call[d][1].req.id # call[c][1].req.id

\* The rows of a node: the one in the table, and those calls in flight have read.
HeldBy(x, id) ==
  {x.snap.nodes[i] : i \in {id} \cap DOMAIN x.snap.nodes}
  \cup {x.snap.node[i] : i \in {j \in DOMAIN x.snap.node : x.req.id = id}}

Held(id) ==
  {nodes[i] : i \in {id} \cap DOMAIN nodes} \cup UNION {HeldBy(call[c][1], id) : c \in Calling}

\* How many calls have returned.
Returned == begun - Cardinality(Calling)

\* Each call reopens a node once at most, and only a completed node has an outcome.
RowsInv ==
  \A id \in NodeIds : \A n \in Held(id) :
    /\ n.outcome # "" => n.status = "completed"
    /\ n.reopens <= Returned

SInv == ServiceTypeOK /\ IdsInv /\ Referential /\ RowsInv

\* With the loop on its own, every row of the condition keeps the config it was
\* created with and stays under that cap.
Capped(id, n) ==
  /\ IF id \in Ids THEN n.kind = KindOf[id] ELSE Anchor(n)
  /\ n.kind = "condition" =>
       /\ \E r \in Requests : r.op = "AddNode" /\ r.id = id /\ n.meta.cfg = r.arg.cfg
       /\ n.meta.cfg.maxRounds > 0 => n.reopens <= n.meta.cfg.maxRounds

CappedInv == \A id \in NodeIds : \A n \in Held(id) : Capped(id, n)
=============================================================================
