------------------------------ MODULE Landing -------------------------------
(***************************************************************************)
(* The landing page (components/hero/Hero.tsx): the motion setting of the  *)
(* tab decides which engine the page builds.  A step of the setting that   *)
(* mounts, leaves or renders the page takes the effects of that rendering  *)
(* with it, as React runs them before the next event.                      *)
(***************************************************************************)
EXTENDS Motion, HeroEngine

vars == <<motion, hero>>

-----------------------------------------------------------------------------
Open(p) == Load(p) /\ UNCHANGED hero

\* The effects of the first rendering see the mode of the server; the tab's
\* own follows with the next Commit.
Arrive == Hydrate /\ Mount("full")

Return == Enter /\ Mount(attr)

Depart == Leave /\ Unmount

\* Something the page is rendered from has changed.
Commit ==
    /\ shown # attr \/ shownFailed # failed
    /\ Render
    /\ Rerun(attr)

\* The switch; "full" cannot be chosen in the fallback.
Press(m, saved) ==
    /\ m = "full" => ~shownFailed
    /\ Choose(m, saved)
    /\ UNCHANGED hero

Others ==
    /\ \/ \E c \in Choices : OtherTab(c)
       \/ \E q \in Queries : SystemChanges(q)
    /\ UNCHANGED hero

Told ==
    /\ StorageEvent \/ SystemEvent
    /\ UNCHANGED hero

ToFront(v) == Turn(v) /\ Visibility(v)

Building(b) ==
    /\ Create(b) \/ Settle(b) \/ GiveUp(b)
    /\ UNCHANGED motion

Fault(b) == (Throw(b) \/ LoseContext(b)) /\ Elsewhere

Draw(b) == visible /\ Frame(b) /\ UNCHANGED motion

Init == MotionInit /\ HeroInit

Next ==
    \/ \E p \in {"loading", "elsewhere"} : Open(p)
    \/ Arrive \/ Return \/ Depart \/ Commit
    \/ \E m \in Modes, saved \in BOOLEAN : Press(m, saved)
    \/ Others \/ Told
    \/ \E v \in BOOLEAN : ToFront(v)
    \/ \E b \in Made : Building(b) \/ Fault(b) \/ Draw(b)

\* The browser delivers its events, React renders what has changed, and an
\* import arrives or fails. The visitor, the other tabs, the system and the
\* loss of a context are under no obligation.
Fairness ==
    /\ WF_vars(Arrive) /\ WF_vars(Commit) /\ WF_vars(Told)
    /\ WF_vars(\E b \in Made : Create(b) /\ UNCHANGED motion)
    /\ WF_vars(\E b \in Made : (Settle(b) \/ GiveUp(b)) /\ UNCHANGED motion)

Spec == Init /\ [][Next]_vars

FairSpec == Spec /\ Fairness

-----------------------------------------------------------------------------
(* Properties.                                                              *)

\* Every variable of the setting and of the engine has its type.
TypeOK == MotionTypeOK /\ HeroTypeOK

\* The attribute is "the single source of truth" (motion.ts): when the page has
\* been told of everything, it is what the choice, the system and the device
\* resolve to, whatever the order in which choices, failed writes, events of
\* other tabs and of the system came.
ShowsSetting ==
    phase = "landing" /\ mail = <<>> /\ seen = system /\ unsaved = None /\ ~missed
        => attr = Setting

\* The page holds an engine only of the build its cleanup belongs to, made for
\* the mode that is shown, and every other engine is cancelled and given back
\* as soon as its build has settled. (useHeroEngine.ts: "disposes on cleanup".)
EnginesAccounted ==
    /\ engineRef # 0 =>
        /\ engineRef = current /\ phase = "landing" /\ ~shownFailed
        /\ builds[engineRef].live /\ builds[engineRef].mode = shown
    /\ \A b \in Made : b # current =>
        /\ builds[b].cancelled
        /\ builds[b].stage \in {"adopted", "dropped"} =>
            ~builds[b].live /\ builds[b].disposals = 1

\* An engine has one loop while the tab is visible, also when it was made in
\* the background, and none once it has been disposed of.
OneLoop ==
    \A b \in Made :
        /\ builds[b].raf <= 1
        /\ builds[b].stage \in {"made", "adopted", "dropped"} =>
            IF builds[b].live
            THEN visible => builds[b].raf = 1 /\ builds[b].running
            ELSE builds[b].raf = 0

\* Only the build of the page as it is shown moves the station or turns the
\* page to its fallback; a cancelled one says nothing any more.
OnlyTheCurrentBuildSpeaks ==
    [][(failed' /\ ~failed) \/ (active' # active /\ active' # 0) =>
            /\ current # 0 /\ ~builds[current].cancelled
            /\ \A b \in Made \ {current} : builds'[b].stage = builds[b].stage]_vars

\* No cancelled build keeps its engine for good, wherever it was when it was
\* cancelled: time and again all of them have ended and given everything back.
CancelledIsGivenBack ==
    []<>(\A b \in Made : builds[b].cancelled =>
            /\ builds[b].stage \in {"adopted", "dropped", "failed"}
            /\ builds[b].stage # "failed" => ~builds[b].live)

\* In a tab that stays in the front the page settles on what was chosen.
PageFollows ==
    <>[]visible => <>[](phase = "landing" =>
            /\ mail = <<>> /\ seen = system
            /\ shown = attr /\ shownFailed = failed
            /\ ~missed /\ unsaved = None => shown = Setting
            /\ snap = (shown = "full" /\ ~failed)
            /\ ~failed => engineRef # 0)

\* "1. a stored choice" is the highest rung of the mode (motion.ts), also when
\* it was made in another tab while this one was elsewhere.
StoredChoiceWins ==
    phase = "landing" /\ mail = <<>> /\ stored # None /\ unsaved = None => attr = stored

\* The page is the abstract one: what it shows, and the engine it holds for it.
Engine == INSTANCE OneEngine WITH
    show   <- IF phase # "landing" THEN "away"
              ELSE IF shownFailed THEN "fallback" ELSE shown,
    engine <- IF engineRef = 0 THEN "none" ELSE builds[engineRef].mode

OneEngineSafe == Engine!SafeSpec
OneEngineServed == Engine!Served

=============================================================================
