----------------------- MODULE MCOrchestrationService -----------------------
(* Two callers on a business node and a condition that loops back to it.   *)
EXTENDS OrchestrationService, TLC

CONSTANTS s, e, a, k, t, none, c1, c2

MCKindOf == [i \in {a, k} |-> IF i = k THEN "condition" ELSE "business"]

Meta(x, y) ==
  [task |-> y, cfg |-> IF x = k
                       THEN [maxRounds |-> 1, onMaxExceeded |-> "discard", onFailure |-> {a}]
                       ELSE [maxRounds |-> 0, onMaxExceeded |-> "", onFailure |-> {}]]

MCMetas == {Meta(x, y) : x \in {a, k}, y \in {t, none}}

MCMetaInputs == [i \in {s, e, a, k} |-> {Meta(i, none)}]

MCTaskInputs == [i \in {s, e, a, k} |-> {t}]

MCEdgeInputs == {<<a, k>>, <<k, a>>}

Req(op, id, arg) == [op |-> op, id |-> id, arg |-> arg]

Editing ==
  {Req("AddNode", i, Meta(i, none)) : i \in {a, k}}
  \cup {Req("RemoveNode", i, none) : i \in {a, k}}
  \cup {Req("AddEdge", x, none) : x \in MCEdgeInputs}

AllRequests ==
  Editing
  \cup {Req("RemoveEdge", <<a, k>>, none)}
  \cup {Req(op, s, none) : op \in {"StartGraph", "FinishGraph"}}
  \cup {Req(op, a, none) : op \in {"StartNode", "DiscardNode", "ReopenNode", "UnbindTask"}}
  \cup {Req("CompleteNode", a, "success"), Req("BindTask", a, t),
        Req("UpdateNode", a, Meta(a, none))}
  \cup {Req("ResolveCondition", k, x) : x \in BOOLEAN}

OnOneNode ==
  {Req("AddNode", a, Meta(a, none))} \cup {Req(op, a, none) : op \in {"StartNode", "DiscardNode"}}

Symmetry == Permutations(Clients)
=============================================================================
