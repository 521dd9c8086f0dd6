------------------------------ MODULE MCMetrics ------------------------------
(* Model checking the in-memory metrics: one event that is ignored, one     *)
(* without and two with a latency, on two metric keys.                      *)
EXTENDS MetricsStore, TLC

Event(kind, name, duration) ==
    [op |-> "RecordMetric", kind |-> kind, name |-> name, duration |-> duration]

MCEvents ==
    UNION {{Event("refresh start", n, 0), Event("hit", n, 0),
            Event("refresh success", n, 1), Event("refresh success", n, 2)} : n \in Names}

Symmetry == Permutations(Calls) \cup Permutations(Names)
==============================================================================
