---------------------------- MODULE EngineFlights ----------------------------
(* The cache engine implements SingleFlight.                                *)
EXTENDS CacheEngine

\* How a call and the flight it created look to SingleFlight.
Status(c) ==
    IF stage[c] = "none" THEN "idle"
    ELSE IF stage[c] \in Registered THEN "running"
    ELSE IF stage[c] = "done" THEN "closed" ELSE "landed"

Attached(c) == IF pc[c] = "waiting" THEN joined[c] ELSE None

Published(c) == IF stage[c] \in {"done", "landed"} THEN outcome[c] ELSE None

Flights == INSTANCE SingleFlight WITH
    Outcomes   <- Results,
    registered <- flights,
    status     <- [c \in Calls |-> Status(c)],
    attached   <- [c \in Calls |-> Attached(c)],
    published  <- [c \in Calls |-> Published(c)]

\* Every run of the engine is a run of SingleFlight: one flight per key at a
\* time, an outcome that is final once published, waiters released by it alone.
ImplementsSingleFlight == Flights!Spec
==============================================================================
