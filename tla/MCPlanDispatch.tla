--------------------------- MODULE MCPlanDispatch ---------------------------
(* The instance of PlanDispatch: one feature cycle.  The decision reviews   *)
(* dev and passes to the integration or sends dev into another round.       *)
EXTENDS PlanDispatch

CONSTANTS dev, review, integrate

Edge(f, t, k, w) == [from |-> f, to |-> t, kind |-> k, when |-> w]

FeatureCycle ==
  {Edge(review, dev, "seq", ""),
   Edge(review, dev, "loopback", "reject"),
   Edge(integrate, review, "conditional", "pass")}
=============================================================================
