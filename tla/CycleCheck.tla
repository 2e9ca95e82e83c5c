----------------------------- MODULE CycleCheck -----------------------------
(***************************************************************************)
(* ValidateNoCycle (internal/projectmanager/orchestration/edge.go): the    *)
(* three-colour depth-first search that decides whether an edge may be     *)
(* added to an orchestration graph.  The Go code iterates over maps and    *)
(* over edge lists whose order the database does not fix, so the root and  *)
(* the next child are chosen nondeterministically.                         *)
(***************************************************************************)
EXTENDS Naturals, Sequences, Dag

CONSTANTS
  Nodes,      \* node ids
  Existing    \* the edge sets the search is called with

ASSUME ExistingAssumption == Existing \subseteq SUBSET (Nodes \X Nodes)

VARIABLES
  existing,   \* the edges already in the graph
  add,        \* the edge to be added
  color,      \* white | gray | black, per node
  todo,       \* the children of a frame the search has yet to look at
  stack,      \* the explicit stack of frames, top last
  result      \* "running", or what the function returned

vars == <<existing, add, color, todo, stack, result>>

\* The adjacency list the search walks: the existing edges and the new one.
adj == existing \cup {add}

Children(n) == {m \in Nodes : <<n, m>> \in adj}

\* Only the end points of edges are visited.
Reached == {n \in Nodes : \E e \in adj : n = e[1] \/ n = e[2]}

Top == stack[Len(stack)]

TypeOK ==
  /\ existing \in SUBSET (Nodes \X Nodes)
  /\ add \in Nodes \X Nodes
  /\ color \in [Nodes -> {"white", "gray", "black"}]
  /\ todo \in [Nodes -> SUBSET Nodes]
  /\ stack \in Seq(Nodes)
  /\ result \in {"running", "ok", "self_edge", "cycle"}

Init ==
  /\ existing \in Existing
  /\ add \in Nodes \X Nodes
  /\ color = [n \in Nodes |-> "white"]
  /\ todo = [n \in Nodes |-> Children(n)]
  /\ stack = <<>>
  /\ result = IF add[1] = add[2] THEN "self_edge" ELSE "running"

\* Outer loop: start a search at a node no search has touched.
PickRoot(n) ==
  /\ stack = <<>>
  /\ color[n] = "white"
  /\ n \in Reached
  /\ color' = [color EXCEPT ![n] = "gray"]
  /\ stack' = <<n>>
  /\ UNCHANGED <<existing, add, todo, result>>

\* Mutant: the child is pushed without being coloured.
Descend_LeavesWhite(child) ==
  /\ color[child] = "white"
  /\ stack' = Append(stack, child)
  /\ UNCHANGED <<color, result>>

\* Inner loop: look at one more child of the top frame.
Descend(child) ==
  /\ color[child] = "white"
  /\ color' = [color EXCEPT ![child] = "gray"]
  /\ stack' = Append(stack, child)
  /\ UNCHANGED result

\* Mutant: a frame of the stack is passed over like a finished node.
BackEdge_Ignored(child) ==
  /\ color[child] = "gray"
  /\ UNCHANGED <<color, stack, result>>

BackEdge(child) ==
  /\ color[child] = "gray"
  /\ result' = "cycle"
  /\ UNCHANGED <<color, stack>>

SkipDone(child) ==
  /\ color[child] = "black"
  /\ UNCHANGED <<color, stack, result>>

VisitChild(child) ==
  /\ stack # <<>>
  /\ child \in todo[Top]
  /\ todo' = [todo EXCEPT ![Top] = @ \ {child}]
  /\ Descend(child) \/ BackEdge(child) \/ SkipDone(child)
  /\ UNCHANGED <<existing, add>>

\* Mutant: a finished node goes back to white.
PopFrame_KeepsWhite ==
  /\ stack # <<>>
  /\ todo[Top] = {}
  /\ color' = [color EXCEPT ![Top] = "white"]
  /\ stack' = SubSeq(stack, 1, Len(stack) - 1)
  /\ UNCHANGED <<existing, add, todo, result>>

\* Every child of the top frame was looked at: it is done.
PopFrame ==
  /\ stack # <<>>
  /\ todo[Top] = {}
  /\ color' = [color EXCEPT ![Top] = "black"]
  /\ stack' = SubSeq(stack, 1, Len(stack) - 1)
  /\ UNCHANGED <<existing, add, todo, result>>

Accept ==
  /\ stack = <<>>
  /\ \A n \in Reached : color[n] # "white"
  /\ result' = "ok"
  /\ UNCHANGED <<existing, add, color, todo, stack>>

Step ==
  \/ \E n \in Nodes : PickRoot(n) \/ VisitChild(n)
  \/ PopFrame
  \/ Accept

Next == result = "running" /\ Step

Spec == Init /\ [][Next]_vars

FairSpec == Spec /\ WF_vars(Next)

-----------------------------------------------------------------------------
Acyclic(E) == AcyclicOn(E, Nodes)

(* ValidateNoCycle is exact: nil is returned only when the graph with the  *)
(* new edge is acyclic, and an error only when it is not, whatever order   *)
(* the maps are iterated in.                                               *)
VerdictIsExact ==
  /\ result = "ok" => Acyclic(adj)
  /\ result \in {"cycle", "self_edge"} => ~Acyclic(adj)

(* The three-colour discipline the search rests on: the gray nodes are     *)
(* exactly the frames of the stack, which form a path; a black node only   *)
(* has black children; what a frame has looked at is black or is the frame *)
(* above it; and the black part of the graph is acyclic.                   *)
GrayIsStack ==
  \A n \in Nodes : color[n] = "gray" <=> \E i \in 1..Len(stack) : stack[i] = n

StackIsPath ==
  /\ \A i, j \in 1..Len(stack) : stack[i] = stack[j] => i = j
  /\ \A i \in 1..Len(stack) - 1 : <<stack[i], stack[i + 1]>> \in adj

BlackIsClosed ==
  \A n, m \in Nodes : <<n, m>> \in adj /\ color[n] = "black" => color[m] = "black"

LookedAtIsDone ==
  \A i \in 1..Len(stack), m \in Nodes :
    <<stack[i], m>> \in adj /\ m \notin todo[stack[i]] =>
      \/ color[m] = "black"
      \/ result = "cycle"
      \/ i < Len(stack) /\ m = stack[i + 1]

WhiteIsFresh ==
  \A n, m \in Nodes : <<n, m>> \in adj /\ color[n] = "white" => m \in todo[n]

TodoAreEdges == \A n \in Nodes : \A m \in todo[n] : <<n, m>> \in adj

Black == {n \in Nodes : color[n] = "black"}

ColourDiscipline ==
  /\ GrayIsStack
  /\ StackIsPath
  /\ BlackIsClosed
  /\ LookedAtIsDone
  /\ WhiteIsFresh
  /\ TodoAreEdges
  /\ AcyclicOn(adj, Black)

IInv == TypeOK /\ ColourDiscipline

(* Liveness: the search always returns.                                    *)
SearchReturns == <>(result # "running")
=============================================================================
