----------------------------- MODULE HeroEngine -----------------------------
(***************************************************************************)
(* The engine of the landing (components/hero): an effect of the page      *)
(* starts a build whenever the mode or the failure of WebGL changes, the   *)
(* build imports and creates the engine later, and the cleanup of the      *)
(* effect cancels it, wherever it is by then.  An engine draws in a loop   *)
(* of animation frames that stops while the tab is in the background, and  *)
(* tells the page which station is shown.                                  *)
(*                                                                         *)
(* A build is a number; what belongs to the closure of one run of the      *)
(* effect and to the engine it makes is a record.  What is drawn is left   *)
(* out.                                                                    *)
(***************************************************************************)
EXTENDS Naturals

CONSTANTS Stations      \* how many stations the ride has

ASSUME HeroAssumption == Stations \in Nat

VARIABLES
    failed,         \* webglFailed
    shownFailed,    \* webglFailed as the page was last rendered
    started,        \* how many builds have been started
    builds,         \* the builds
    current,        \* the build the cleanup of the effect belongs to, 0 for none
    engineRef,      \* the build whose engine the page holds, 0 for none
    active,         \* the station shown, 0 for none
    snap            \* the document snaps to the stops of the ride

hero == <<failed, shownFailed, started, builds, current, engineRef, active, snap>>

-----------------------------------------------------------------------------
Stage == {"importing", "made", "threw", "adopted", "dropped", "failed"}

\* live: the engine holds its GPU resources and listeners; raf: animation
\* frames it has asked for.
Build == [stage : Stage, mode : {"full", "reduced"}, cancelled : BOOLEAN,
          live : BOOLEAN, running : BOOLEAN, raf : Nat, disposals : Nat]

NewBuild(mode) ==
    [stage |-> "importing", mode |-> mode, cancelled |-> FALSE,
     live |-> FALSE, running |-> FALSE, raf |-> 0, disposals |-> 0]

Made == 1 .. started

\* The engine of a build is there and listens.
Running(b) == builds[b].live /\ builds[b].stage \in {"made", "adopted"}

\* dispose: the loop ends and everything is given back.
Disposed(e) ==
    [e EXCEPT !.live = FALSE, !.running = FALSE, !.disposals = @ + 1,
              !.raf = IF @ = 0 THEN 0 ELSE @ - 1]

\* Variant: the cleanup does not mark its build.
CleanedUnmarked ==
    [b \in Made |->
        IF b # current THEN builds[b]
        ELSE IF builds[b].stage = "adopted" THEN Disposed(builds[b]) ELSE builds[b]]

\* The cleanup of the effect: the build is cancelled, and its engine disposed
\* of if it is known by now.
Cleaned ==
    [b \in Made |->
        IF b # current THEN builds[b]
        ELSE LET e == [builds[b] EXCEPT !.cancelled = TRUE]
             IN IF e.stage = "adopted" THEN Disposed(e) ELSE e]

\* The builds after another one has been started.
With(mode) ==
    [b \in 1 .. started + 1 |-> IF b \in Made THEN Cleaned[b] ELSE NewBuild(mode)]

\* The effect runs: the old build is cleaned up, and unless WebGL has failed
\* a new one starts. The page snaps only while the ride is shown.
Effect(mode, fails) ==
    /\ started' = IF fails THEN started ELSE started + 1
    /\ builds' = IF fails THEN Cleaned ELSE With(mode)
    /\ current' = IF fails THEN 0 ELSE started + 1
    /\ engineRef' = 0
    /\ snap' = (mode = "full" /\ ~fails)

\* The page is mounted.
Mount(mode) ==
    /\ Effect(mode, FALSE)
    /\ failed' = FALSE /\ shownFailed' = FALSE
    /\ active' = 0

Unmount ==
    /\ builds' = Cleaned
    /\ current' = 0 /\ engineRef' = 0
    /\ snap' = FALSE
    /\ UNCHANGED <<failed, shownFailed, started, active>>

\* Variant: the engine is given back, and no other is built.
RerunCleanOnly(mode) ==
    /\ builds' = Cleaned
    /\ current' = 0 /\ engineRef' = 0
    /\ snap' = (mode = "full" /\ ~failed)
    /\ shownFailed' = failed
    /\ UNCHANGED <<failed, started, active>>

\* The page is rendered again with another mode or because WebGL has failed.
Rerun(mode) ==
    /\ Effect(mode, failed)
    /\ shownFailed' = failed
    /\ UNCHANGED <<failed, active>>

\* onStation, of a frame of the ride; a cancelled build does nothing.
Speaks(b) ==
    IF builds[b].mode = "full" /\ ~builds[b].cancelled
    THEN active' \in 1 .. Stations
    ELSE UNCHANGED active

\* All builds import the same module, so they go on in their order.
Imported(b) ==
    builds[b].stage = "importing" /\ \A o \in 1 .. b - 1 : builds[o].stage # "importing"

\* The import has arrived and createWebglEngine makes the engine and draws its
\* first frame ...
Create(b) ==
    /\ Imported(b)
    /\ builds' = [builds EXCEPT ![b].stage = "made", ![b].live = TRUE,
                                ![b].running = TRUE, ![b].raf = 1]
    /\ Speaks(b)
    /\ UNCHANGED <<failed, shownFailed, started, current, engineRef, snap>>

\* ... or it throws: without a context, or when the simulation cannot be set
\* up. (In the second case the renderer made before is disposed of by nobody.)
Throw(b) ==
    /\ Imported(b)
    /\ builds' = [builds EXCEPT ![b].stage = "threw"]
    /\ UNCHANGED <<failed, shownFailed, started, current, engineRef, active, snap>>

\* Variant: the engine is kept without another look at the cancellation.
SettleAnyway(b) ==
    /\ builds[b].stage = "made"
    /\ builds' = [builds EXCEPT ![b].stage = "adopted"]
    /\ engineRef' = b
    /\ UNCHANGED <<failed, shownFailed, started, current, active, snap>>

\* Variant: a cancelled build leaves its engine as it is.
SettleForgotten(b) ==
    /\ builds[b].stage = "made"
    /\ builds' = [builds EXCEPT ![b].stage = IF builds[b].cancelled THEN "dropped" ELSE "adopted"]
    /\ engineRef' = IF builds[b].cancelled THEN engineRef ELSE b
    /\ UNCHANGED <<failed, shownFailed, started, current, active, snap>>

\* The awaited engine is the page's, unless the build was cancelled meanwhile.
Settle(b) ==
    /\ builds[b].stage = "made"
    /\ IF builds[b].cancelled
       THEN /\ builds' = [builds EXCEPT ![b] = [Disposed(@) EXCEPT !.stage = "dropped"]]
            /\ UNCHANGED engineRef
       ELSE /\ builds' = [builds EXCEPT ![b].stage = "adopted"]
            /\ engineRef' = b
    /\ UNCHANGED <<failed, shownFailed, started, current, active, snap>>

\* Variant: a cancelled build reports its error as well.
GiveUpAnyway(b) ==
    /\ builds[b].stage = "threw"
    /\ builds' = [builds EXCEPT ![b].stage = "failed"]
    /\ failed' = TRUE
    /\ UNCHANGED <<shownFailed, started, current, engineRef, active, snap>>

\* The error is caught; only a build that is not cancelled falls back.
GiveUp(b) ==
    /\ builds[b].stage = "threw"
    /\ builds' = [builds EXCEPT ![b].stage = "failed"]
    /\ failed' = (failed \/ ~builds[b].cancelled)
    /\ UNCHANGED <<shownFailed, started, current, engineRef, active, snap>>

\* onContextLost, which listens until the cleanup.
LoseContext(b) ==
    /\ Running(b) /\ ~builds[b].cancelled
    /\ ~failed
    /\ failed' = TRUE
    /\ UNCHANGED <<shownFailed, started, builds, current, engineRef, active, snap>>

\* An animation frame: loop and quietLoop ask for the next one and draw.
Frame(b) ==
    /\ builds[b].raf > 0 /\ builds[b].running
    /\ Speaks(b)
    /\ UNCHANGED <<failed, shownFailed, started, builds, current, engineRef, snap>>

\* Variant: a loop is started whether or not one is running.
ResumedAlways(e) == [e EXCEPT !.running = TRUE, !.raf = @ + 1]

\* onVisibility of an engine, for a tab that comes to the front ...
Resumed(e) == IF e.running THEN e ELSE [e EXCEPT !.running = TRUE, !.raf = @ + 1]

\* ... and for one that goes to the background.
Paused(e) ==
    [e EXCEPT !.running = FALSE, !.raf = IF @ = 0 THEN 0 ELSE @ - 1]

\* Every engine that is there hears of it; one that starts its loop draws.
Visibility(v) ==
    /\ builds' = [b \in Made |->
                    IF ~Running(b) THEN builds[b]
                    ELSE IF v THEN Resumed(builds[b]) ELSE Paused(builds[b])]
    /\ IF v /\ current # 0 /\ Running(current) /\ ~builds[current].running
       THEN Speaks(current)
       ELSE UNCHANGED active
    /\ UNCHANGED <<failed, shownFailed, started, current, engineRef, snap>>

HeroInit ==
    /\ failed = FALSE /\ shownFailed = FALSE
    /\ started = 0 /\ builds = <<>>
    /\ current = 0 /\ engineRef = 0 /\ active = 0
    /\ snap = FALSE

HeroTypeOK ==
    /\ failed \in BOOLEAN /\ shownFailed \in BOOLEAN
    /\ started \in Nat
    /\ builds \in [Made -> Build]
    /\ current \in Made \cup {0} /\ engineRef \in Made \cup {0}
    /\ active \in 0 .. Stations
    /\ snap \in BOOLEAN

=============================================================================
