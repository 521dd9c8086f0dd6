---------------------------- MODULE SingleFlight -----------------------------
(***************************************************************************)
(* What the flight map of the cache engine promises (cache.go:10-24,       *)
(* 117-160): per key one flight at a time; a flight is closed to newcomers *)
(* when its outcome is published, its outcome never changes afterwards,    *)
(* and whoever joined it leaves only once it has landed.  What a flight    *)
(* computes, and what becomes of it in the store, is not said here.        *)
(***************************************************************************)
CONSTANTS Calls, Keys, Outcomes, None

VARIABLES
    registered, \* registered[k]: the flight newcomers for k would join, or None
    status,     \* "idle", "running", "closed" (unregistered) or "landed"
    attached,   \* attached[c]: the flight c waits for, or None
    published   \* published[c]: the outcome of flight c, None until closed

vars == <<registered, status, attached, published>>

Init ==
    /\ registered = [k \in Keys |-> None]
    /\ status = [c \in Calls |-> "idle"]
    /\ attached = [c \in Calls |-> None]
    /\ published = [c \in Calls |-> None]

\* startFlight finds no flight: c becomes the flight of k.
Open(c, k) ==
    /\ registered[k] = None /\ status[c] = "idle" /\ attached[c] = None
    /\ registered' = [registered EXCEPT ![k] = c]
    /\ status' = [status EXCEPT ![c] = "running"]
    /\ UNCHANGED <<attached, published>>

\* startFlight or waitForFlight finds one: c waits for it.
Join(c, k) ==
    /\ registered[k] # None /\ status[c] = "idle" /\ attached[c] = None
    /\ attached' = [attached EXCEPT ![c] = registered[k]]
    /\ UNCHANGED <<registered, status, published>>

\* finishFlight publishes the outcome and unregisters the flight, ...
Close(c, k) ==
    /\ registered[k] = c /\ status[c] = "running"
    /\ registered' = [registered EXCEPT ![k] = None]
    /\ status' = [status EXCEPT ![c] = "closed"]
    /\ \E o \in Outcomes : published' = [published EXCEPT ![c] = o]
    /\ UNCHANGED attached

\* ... then releases the waiters.
Land(c) ==
    /\ status[c] = "closed"
    /\ status' = [status EXCEPT ![c] = "landed"]
    /\ UNCHANGED <<registered, attached, published>>

Leave(c) ==
    /\ attached[c] # None /\ status[attached[c]] = "landed"
    /\ attached' = [attached EXCEPT ![c] = None]
    /\ UNCHANGED <<registered, status, published>>

Next ==
    \E c \in Calls :
        \/ \E k \in Keys : Open(c, k) \/ Join(c, k) \/ Close(c, k)
        \/ Land(c) \/ Leave(c)

Spec == Init /\ [][Next]_vars
==============================================================================
