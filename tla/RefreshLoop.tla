----------------------------- MODULE RefreshLoop -----------------------------
(***************************************************************************)
(* refreshloop.Run (internal/refreshloop/refreshloop.go): load on every    *)
(* tick until the context is cancelled.  The hooks of whoever runs the     *)
(* loop are called in location "hook", one of them per load, and are       *)
(* modelled by that module, which takes the step out of "hook" with        *)
(* HookReturns.                                                            *)
(***************************************************************************)
CONSTANTS Results  \* what load may return: values, and the error

VARIABLES loop,   \* where the goroutine is
          tick,   \* a tick waits in ticker.C, which holds one and drops others
          loaded, \* what the last load returned
          cancelled \* ctx.Done() is closed

LoopTypes ==
    /\ loop \in {"off", "select", "loading", "hook", "ended"}
    /\ tick \in BOOLEAN /\ cancelled \in BOOLEAN
    /\ loaded \in Results

LoopInit == loop = "off" /\ tick = FALSE /\ loaded \in Results

\* A non-positive interval ends the loop before it begins.
Run(positive) ==
    /\ loop = "off"
    /\ loop' = IF positive THEN "select" ELSE "ended"
    /\ UNCHANGED <<tick, loaded, cancelled>>

TickerFires ==
    /\ loop \in {"select", "loading", "hook"} /\ ~tick
    /\ tick' = TRUE
    /\ UNCHANGED <<loop, loaded, cancelled>>

\* Mutant: the loop does not look at ctx.Done().
IgnoresDone == FALSE

\* When a tick and the cancellation are both there, select takes either.
Ends ==
    /\ loop = "select" /\ cancelled
    /\ loop' = "ended"
    /\ UNCHANGED <<tick, loaded, cancelled>>

LoadBegins ==
    /\ loop = "select" /\ tick
    /\ loop' = "loading" /\ tick' = FALSE
    /\ UNCHANGED <<loaded, cancelled>>

LoadReturns(r) ==
    /\ loop = "loading"
    /\ loop' = "hook" /\ loaded' = r
    /\ UNCHANGED <<tick, cancelled>>

HookReturns ==
    /\ loop = "hook"
    /\ loop' = "select"
    /\ UNCHANGED <<tick, loaded, cancelled>>
==============================================================================
