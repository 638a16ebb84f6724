---------------------------- MODULE MCMetricStore ----------------------------
(* A small instance of MetricStore: the "depth" metric of two queues, which a  *)
(* poll may bring with mixed labels, and the "puts" metric of one. The queue   *)
(* managers are interchangeable.                                               *)
EXTENDS MetricStore, TLC

MCDepths == UNION {[1..n -> Records] : n \in 0..2}
MCPuts == {<<>>} \cup [1..1 -> {r \in Records : r.object = 1}]
MCBatches == {b \in [Metrics -> MCDepths] :
                /\ b["puts"] \in MCPuts
                /\ b["depth"] # <<>> => Head(b["depth"]).object = 1}

MCSymmetry == Permutations(Scopes)
=============================================================================
