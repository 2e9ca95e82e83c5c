------------------------------ MODULE GraphOps ------------------------------
(***************************************************************************)
(* The orchestration domain model (internal/projectmanager/orchestration): *)
(* what the Node and Graph methods compute, as operators on values.  A     *)
(* graph is its node rows (a function from the ids present) and its edges  *)
(* (pairs <<from, to>>: "to" depends on "from").                           *)
(*                                                                         *)
(* A node row keeps its kind (the category, with the control kind), its    *)
(* status, its outcome, the number of "reopened" entries of its action log *)
(* and its metadata: the bound task and the parsed condition config.       *)
(***************************************************************************)
EXTENDS Naturals, FiniteSets, Dag

NodeStatus == {"open", "running", "completed", "reopen", "discarded"}

nodeTransitions ==
  [open      |-> {"running", "discarded"},
   running   |-> {"completed", "discarded", "reopen"},
   completed |-> {"reopen"},
   reopen    |-> {"running", "discarded"},
   discarded |-> {}]

CanTransitionTo(n, to) == to \in nodeTransitions[n.status]

GraphStatus == {"draft", "running", "done", "archived"}

graphTransitions ==
  [draft    |-> {"running", "archived"},
   running  |-> {"draft", "done"},
   done     |-> {"archived"},
   archived |-> {}]

\* A new node is open, has no outcome and an empty log.
NewNode(kind, meta) ==
  [kind |-> kind, status |-> "open", outcome |-> "", reopens |-> 0, meta |-> meta]

Started(n)        == [n EXCEPT !.status = "running"]
Completed(n, out) == [n EXCEPT !.status = "completed", !.outcome = out]
Reopened(n)       == [n EXCEPT !.status = "reopen", !.outcome = "", !.reopens = @ + 1]
Discarded(n)      == [n EXCEPT !.status = "discarded"]

Resolved(n) == n.status \in {"completed", "discarded"}
Waiting(n)  == n.status \in {"open", "reopen"}

\* The start and end nodes are structural: they never gate what follows.
Anchor(n) == n.kind \in {"start", "end"}

Upstream(edges, id) == {e[1] : e \in {x \in edges : x[2] = id}}

\* Mutant: a discarded upstream node never counts as done.
Satisfied_OnlyCompleted(nodes, id) ==
  id \in DOMAIN nodes /\ (nodes[id].status = "completed" \/ Anchor(nodes[id]))

\* A dependency no longer holds a node back.
Satisfied(nodes, id) ==
  id \in DOMAIN nodes /\ (Resolved(nodes[id]) \/ Anchor(nodes[id]))

ReadyNodes(nodes, edges) ==
  {id \in DOMAIN nodes :
     /\ nodes[id].kind = "business"
     /\ Waiting(nodes[id])
     /\ \A d \in Upstream(edges, id) : Satisfied(nodes, d)}

Business(nodes) == {id \in DOMAIN nodes : nodes[id].kind = "business"}

IsAutoDone(nodes) ==
  /\ Business(nodes) # {}
  /\ \A id \in Business(nodes) : Resolved(nodes[id])

Removable(n) == n.status \notin {"running", "completed"}

Touching(edges, id) == {e \in edges : e[1] = id \/ e[2] = id}

-----------------------------------------------------------------------------
(* Breadth-first search: what is reached from the nodes S along the pairs  *)
(* of R is the least set that holds S and that no pair leads out of.       *)
Reach(S, R) ==
  LET all == S \cup {r[2] : r \in R}
  IN  {n \in all : \A T \in SUBSET all :
         S \subseteq T /\ (\A r \in R : r[1] \in T => r[2] \in T) => n \in T}

Backward(E) == {<<e[2], e[1]>> : e \in E}

\* Mutant: the last pass keeps every ancestor, on a path or not.
ReopenChain_AllAncestors(E, from, target) ==
  LET reachable == Reach({from}, Backward(E)) \ {from}
  IN  IF target \notin reachable THEN {} ELSE reachable

\* The nodes to reopen when the condition "from" loops back to "target":
\* three searches, backward from the condition, forward from the target
\* inside what was found (never past the condition), and backward again.
ReopenChain(E, from, target) ==
  LET reachable == Reach({from}, Backward(E)) \ {from}
      forward == {e \in E : e[1] # from /\ e[2] \in reachable \cup {from}}
      onPath == Reach({target}, forward) \ {from}
      chain == Reach({from}, {r \in Backward(E) : r[2] \in onPath}) \ {from}
  IN  IF target \notin reachable THEN {} ELSE chain

-----------------------------------------------------------------------------
(* ApplyConditionResult: how a condition node routes its result.           *)

MaxExceeded(n, cfg) == cfg.maxRounds > 0 /\ n.reopens + 1 > cfg.maxRounds

\* The error returns: past max_rounds the condition must still be active.
ConditionApplies(n, cfg, success) ==
  success \/ ~MaxExceeded(n, cfg) \/ ~Resolved(n)

ToReopen(E, cond, cfg) == UNION {ReopenChain(E, cond, t) : t \in cfg.onFailure}

\* The condition row after a failure that loops back.  A discarded one stays
\* as it is; any other cycles through running and completed to reopen.
LoopedBack(n) == IF n.status = "discarded" THEN n ELSE Reopened(n)

ApplyConditionResult(nodes, E, cond, cfg, success) ==
  LET n == nodes[cond] IN
  IF success
  THEN [nodes EXCEPT ![cond] = IF Resolved(n) THEN n ELSE Completed(n, "success")]
  ELSE IF MaxExceeded(n, cfg)
  THEN [nodes EXCEPT ![cond] = IF cfg.onMaxExceeded = "force_success"
                               THEN Completed(n, "force_success")
                               ELSE Discarded(n)]
  ELSE [id \in DOMAIN nodes |->
          IF id = cond THEN LoopedBack(n)
          ELSE IF id \in ToReopen(E, cond, cfg) /\ nodes[id].status = "completed"
          THEN Reopened(nodes[id])
          ELSE nodes[id]]
=============================================================================
