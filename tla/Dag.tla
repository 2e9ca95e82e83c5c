-------------------------------- MODULE Dag ---------------------------------
(* Acyclicity of a dependency relation, as the reference definition the    *)
(* graph code is checked against.  An edge <<m, n>> says that n depends on *)
(* m: the relation is acyclic when no non-empty set of nodes is one where  *)
(* every member depends on a member (the nodes of a cycle are such a set). *)
AcyclicOn(E, S) ==
  ~ \E T \in SUBSET S :
      T # {} /\ \A n \in T : \E m \in T : <<m, n>> \in E
=============================================================================
