------------------------------ MODULE Background -----------------------------
(***************************************************************************)
(* background.Keep with WriteThrough in one process, a remote store, and   *)
(* background.Mirror of the same key in another (background/background.go):*)
(* the pipeline by which a value loaded from a source reaches the readers  *)
(* of another process.  The value a load returns is the source's version   *)
(* at that moment.                                                         *)
(***************************************************************************)
EXTENDS Naturals

CONSTANTS MaxVersion,      \* bound on the source's versions
          MaxFaults,       \* bound on failing loads, reads and writes and lost entries
          Failed, Missed   \* a load's error; errMirrorRefreshMiss

Versions == 1..MaxVersion
Absent == 0
Results == Versions \cup {Failed, Missed}

ASSUME BackgroundAssumption ==
    /\ MaxVersion \in Nat \ {0} /\ MaxFaults \in Nat
    /\ Failed \notin Nat /\ Missed \notin Nat /\ Failed # Missed

VARIABLES
    source,    \* the version fn would load now
    remote,    \* the version in the remote store, or Absent
    faults,    \* failures so far
    keep, kept,         \* where the call of Keep is; its Value
    publishing,         \* OnValue has stored the value and not yet written it through
    keepTicks,          \* its interval is positive
    kloop, ktick, kloaded, kcancelled,   \* its refresh loop and context
    mirror, mirrored,   \* the same for Mirror
    mirrorTicks,
    mloop, mtick, mloaded, mcancelled

KLoop == INSTANCE RefreshLoop
         WITH loop <- kloop, tick <- ktick, loaded <- kloaded, cancelled <- kcancelled
MLoop == INSTANCE RefreshLoop
         WITH loop <- mloop, tick <- mtick, loaded <- mloaded, cancelled <- mcancelled

kloopVars  == <<kloop, ktick, kloaded, kcancelled>>
mloopVars  == <<mloop, mtick, mloaded, mcancelled>>
keepVars   == <<keep, kept, publishing, keepTicks, kloopVars>>
mirrorVars == <<mirror, mirrored, mirrorTicks, mloopVars>>
vars == <<source, remote, faults, keepVars, mirrorVars>>

Init ==
    /\ source = 1 /\ remote = Absent /\ faults = 0
    /\ keep = "new" /\ kept = Absent /\ publishing = FALSE /\ keepTicks \in BOOLEAN
    /\ mirror = "new" /\ mirrored = Absent /\ mirrorTicks \in BOOLEAN
    /\ KLoop!LoopInit /\ kloaded = Failed /\ kcancelled = FALSE
    /\ MLoop!LoopInit /\ mloaded = Failed /\ mcancelled = FALSE

Fault == faults < MaxFaults /\ faults' = faults + 1

------------------------------------------------------------------------------
(* The writer's process *)

\* fn is called in the caller's goroutine; its error is Keep's.
KeepLoads ==
    /\ keep = "new"
    /\ \/ keep' = "failed" /\ Fault /\ UNCHANGED kept
       \/ keep' = "publish" /\ kept' = source /\ UNCHANGED faults
    /\ UNCHANGED <<source, remote, publishing, keepTicks, kloopVars, mirrorVars>>

\* The error of the write-through is dropped; the write may have been done.
WriteThrough ==
    \/ remote' = kept /\ UNCHANGED faults
    \/ remote' \in {remote, kept} /\ Fault

\* The first value is written through before the loop starts.
KeepReturns ==
    /\ keep = "publish"
    /\ WriteThrough
    /\ keep' = "returned"
    /\ KLoop!Run(keepTicks)
    /\ UNCHANGED <<source, kept, publishing, keepTicks, mirrorVars>>

KeepLoopStep ==
    /\ KLoop!TickerFires \/ KLoop!Ends \/ KLoop!LoadBegins
    /\ UNCHANGED <<source, remote, faults, keep, kept, publishing, keepTicks, mirrorVars>>

KeepReloads ==
    /\ \/ KLoop!LoadReturns(source) /\ UNCHANGED faults
       \/ KLoop!LoadReturns(Failed) /\ Fault
    /\ UNCHANGED <<source, remote, keep, kept, publishing, keepTicks, mirrorVars>>

\* OnError: the value stays.
KeepSkips ==
    /\ kloaded = Failed /\ KLoop!HookReturns
    /\ UNCHANGED <<source, remote, faults, keep, kept, publishing, keepTicks, mirrorVars>>

\* Mutant: OnValue publishes before it stores.
KeepPublishesFirst ==
    /\ kloop = "hook" /\ kloaded # Failed /\ ~publishing
    /\ remote' = kloaded /\ publishing' = TRUE
    /\ UNCHANGED <<source, faults, keep, kept, keepTicks, kloopVars, mirrorVars>>

\* OnValue: first the local value, ...
KeepStores ==
    /\ kloop = "hook" /\ kloaded # Failed /\ ~publishing
    /\ kept' = kloaded /\ publishing' = TRUE
    /\ UNCHANGED <<source, remote, faults, keep, keepTicks, kloopVars, mirrorVars>>

\* Mutant: the write-through of a refresh is forgotten.
KeepForgets ==
    /\ publishing /\ publishing' = FALSE
    /\ KLoop!HookReturns
    /\ UNCHANGED <<source, remote, faults, keep, kept, keepTicks, mirrorVars>>

\* ... then the remote store.
KeepPublishes ==
    /\ publishing /\ publishing' = FALSE
    /\ WriteThrough
    /\ KLoop!HookReturns
    /\ UNCHANGED <<source, keep, kept, keepTicks, mirrorVars>>

------------------------------------------------------------------------------
(* The reader's process *)

\* Mirror's first read must find the entry.
MirrorReads ==
    /\ mirror = "new"
    /\ \/ /\ remote # Absent
          /\ mirrored' = remote /\ mirror' = "returned"
          /\ MLoop!Run(mirrorTicks)
          /\ UNCHANGED faults
       \/ /\ (remote = Absent /\ UNCHANGED faults) \/ Fault
          /\ mirror' = "failed"
          /\ UNCHANGED <<mirrored, mloopVars>>
    /\ UNCHANGED <<source, remote, mirrorTicks, keepVars>>

MirrorLoopStep ==
    /\ MLoop!TickerFires \/ MLoop!Ends \/ MLoop!LoadBegins
    /\ UNCHANGED <<source, remote, faults, mirror, mirrored, mirrorTicks, keepVars>>

MirrorReloads ==
    /\ \/ MLoop!LoadReturns(IF remote = Absent THEN Missed ELSE remote) /\ UNCHANGED faults
       \/ MLoop!LoadReturns(Failed) /\ Fault
    /\ UNCHANGED <<source, remote, mirror, mirrored, mirrorTicks, keepVars>>

\* Mutant: a miss is taken for a value, the zero value of V.
MirrorTakesMiss ==
    /\ MLoop!HookReturns
    /\ mirrored' = CASE mloaded = Failed -> mirrored
                     [] mloaded = Missed -> Absent
                     [] OTHER -> mloaded
    /\ UNCHANGED <<source, remote, faults, mirror, mirrorTicks, keepVars>>

\* An error and a miss leave the last value; only the error is reported.
MirrorHook ==
    /\ MLoop!HookReturns
    /\ mirrored' = IF mloaded \in Versions THEN mloaded ELSE mirrored
    /\ UNCHANGED <<source, remote, faults, mirror, mirrorTicks, keepVars>>

------------------------------------------------------------------------------
(* The environment *)

SourceChanges ==
    /\ source < MaxVersion /\ source' = source + 1
    /\ UNCHANGED <<remote, faults, keepVars, mirrorVars>>

\* The remote store loses the entry: eviction, a flush, a backend's own expiry.
RemoteDrops ==
    /\ remote # Absent /\ Fault
    /\ remote' = Absent
    /\ UNCHANGED <<source, keepVars, mirrorVars>>

CancelKeep ==
    /\ ~kcancelled /\ kcancelled' = TRUE
    /\ UNCHANGED <<source, remote, faults, keep, kept, publishing, keepTicks, kloop,
                   ktick, kloaded, mirrorVars>>

CancelMirror ==
    /\ ~mcancelled /\ mcancelled' = TRUE
    /\ UNCHANGED <<source, remote, faults, mirror, mirrored, mirrorTicks, mloop, mtick,
                   mloaded, keepVars>>

\* Both contexts are cancelled and both loops have ended or never started.
Quiescent ==
    /\ keep = "failed" \/ kloop = "ended"
    /\ mirror = "failed" \/ mloop = "ended"
    /\ UNCHANGED vars

Next ==
    \/ KeepLoads \/ KeepReturns \/ KeepLoopStep \/ KeepReloads \/ KeepSkips
    \/ KeepStores \/ KeepPublishes
    \/ MirrorReads \/ MirrorLoopStep \/ MirrorReloads \/ MirrorHook
    \/ SourceChanges \/ RemoteDrops \/ CancelKeep \/ CancelMirror
    \/ Quiescent

Spec == Init /\ [][Next]_vars

\* Loads and store operations return and tickers tick.  A cancellation that select
\* sees again and again is taken: strong fairness, as in Loader.  Nobody has to
\* call Keep or Mirror, to cancel, or to change the source.
FairSpec ==
    /\ Spec
    /\ WF_vars(KeepReturns \/ KeepReloads \/ KeepSkips \/ KeepStores \/ KeepPublishes)
    /\ WF_vars(KeepLoopStep /\ KLoop!TickerFires)
    /\ WF_vars(KeepLoopStep /\ KLoop!LoadBegins)
    /\ SF_vars(KeepLoopStep /\ KLoop!Ends)
    /\ WF_vars(MirrorReloads \/ MirrorHook)
    /\ WF_vars(MirrorLoopStep /\ MLoop!TickerFires)
    /\ WF_vars(MirrorLoopStep /\ MLoop!LoadBegins)
    /\ SF_vars(MirrorLoopStep /\ MLoop!Ends)

------------------------------------------------------------------------------
(* Correctness *)

TypeOK ==
    /\ source \in Versions /\ remote \in 0..MaxVersion /\ faults \in 0..MaxFaults
    /\ keep \in {"new", "publish", "returned", "failed"}
    /\ mirror \in {"new", "returned", "failed"}
    /\ kept \in 0..MaxVersion /\ mirrored \in 0..MaxVersion
    /\ publishing \in BOOLEAN /\ keepTicks \in BOOLEAN /\ mirrorTicks \in BOOLEAN
    /\ KLoop!LoopTypes /\ MLoop!LoopTypes

\* A version moves from the source to Keep, to the remote store, to Mirror, and is
\* nowhere ahead of the place it came from.
InOrder ==
    /\ kept <= source /\ remote <= kept
    /\ mirrored <= kept
    /\ remote # Absent => mirrored <= remote
    /\ mloaded \in Versions =>
          /\ mirrored <= mloaded /\ mloaded <= kept
          /\ remote # Absent => mloaded <= remote
    /\ kloaded \in Versions => kloaded <= source

\* The inductive invariant.
BackgroundInv ==
    /\ TypeOK /\ InOrder
    /\ kloaded # Missed
    /\ kloop = "off" <=> keep # "returned"
    /\ mloop = "off" <=> mirror # "returned"
    /\ keep \in {"publish", "returned"} <=> kept # Absent
    /\ mirror = "returned" <=> mirrored # Absent
    /\ mirror # "returned" => mloaded = Failed
    /\ publishing => kloop = "hook" /\ kept = kloaded
    /\ kloop = "hook" /\ kloaded \in Versions => kept <= kloaded

\* Neither value ever goes back to an older version or to none, whatever fails or
\* is lost in between (background.go:38-48,92-113).
NeverGoesBack ==
    [][kept <= kept' /\ mirrored <= mirrored']_vars

\* What the source has reaches both values as long as both run: failed loads,
\* reads and writes and a lost entry only delay it.
CatchesUp ==
    \A v \in Versions :
        /\ keep = "returned" /\ keepTicks /\ mirror = "returned" /\ mirrorTicks
        /\ source >= v
        ~> mirrored >= v \/ kcancelled \/ mcancelled

\* A cancelled context ends the goroutine (background.go:18,70).
CancelEnds ==
    /\ kcancelled /\ keep = "returned" ~> kloop = "ended"
    /\ mcancelled /\ mirror = "returned" ~> mloop = "ended"
==============================================================================
