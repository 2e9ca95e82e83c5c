------------------------ MODULE MCOrchestrationGraph ------------------------
(* Two business nodes and one condition that loops back to the first, with *)
(* edges that allow a chain, a diamond, a gate and three kinds of cycle.   *)
EXTENDS OrchestrationGraph

CONSTANTS s, e, a, b, k, t, none

MCKindOf == [i \in {a, b, k} |-> IF i = k THEN "condition" ELSE "business"]

Config(x, y) == [task |-> y, cfg |-> [maxRounds |-> 1, onMaxExceeded |-> x, onFailure |-> {a}]]

NoConfig(y) == [task |-> y, cfg |-> [maxRounds |-> 0, onMaxExceeded |-> "", onFailure |-> {}]]

MCMetas ==
  UNION {{NoConfig(y), Config("force_success", y), Config("discard", y)} : y \in {t, none}}

MCMetaInputs ==
  [i \in {s, e, a, b, k} |-> IF i = k
                            THEN {Config("force_success", none), Config("discard", none)}
                            ELSE {NoConfig(none)}]

MCTaskInputs == [i \in {s, e, a, b, k} |-> IF i = a THEN {t} ELSE {}]

MCEdgeInputs == {<<s, a>>, <<a, b>>, <<b, k>>, <<a, k>>, <<k, a>>}
=============================================================================
