--------------------------- MODULE LandingProofs ----------------------------
(***************************************************************************)
(* Proofs about Landing, for any media queries, any number of stations and *)
(* any number of events.                                                   *)
(***************************************************************************)
EXTENDS Landing, TLAPS

USE MotionAssumption, HeroAssumption DEF MotionAssumption, HeroAssumption

-----------------------------------------------------------------------------
(* The setting.                                                             *)

MotionStep ==
    \/ \E p \in {"loading", "elsewhere"} : Load(p)
    \/ Hydrate \/ Enter \/ Leave \/ Render
    \/ \E m \in Modes, saved \in BOOLEAN : Choose(m, saved)
    \/ \E c \in Choices : OtherTab(c)
    \/ \E q \in Queries : SystemChanges(q)
    \/ StorageEvent \/ SystemEvent
    \/ \E v \in BOOLEAN : Turn(v)
    \/ Elsewhere

\* A step of the page is one of the setting, or leaves the setting alone.
LEMMA MotionSteps == Next => MotionStep \/ UNCHANGED motion
  BY DEF Next, MotionStep, Open, Arrive, Return, Depart, Commit, Press, Others, Told,
         ToFront, Building, Fault, Draw

\* What is resolved is a mode.
LEMMA ResolveMode ==
    ASSUME NEW c \in Choices, NEW sys
    PROVE  Resolve(c, sys) \in Modes
  BY DEF Resolve, Choices, Modes

LEMMA MotionTyped == MotionTypeOK /\ [MotionStep]_motion => MotionTypeOK'
  <1> SUFFICES ASSUME MotionTypeOK, [MotionStep]_motion
               PROVE  MotionTypeOK'
    OBVIOUS
  <1> USE DEF MotionTypeOK
  <1>0. Setting \in Modes
    BY ResolveMode DEF Setting
  <1>1. \A p \in {"loading", "elsewhere"} : Load(p) => MotionTypeOK'
    BY <1>0 DEF Load, Phases
  <1>2. Hydrate => MotionTypeOK'
    BY DEF Hydrate, Phases, Modes
  <1>3. Enter => MotionTypeOK'
    BY DEF Enter, Event, Phases
  <1>4. Leave => MotionTypeOK'
    BY DEF Leave, Phases
  <1>5. Render => MotionTypeOK'
    BY DEF Render
  <1>6. ASSUME NEW m \in Modes, NEW saved \in BOOLEAN, Choose(m, saved)
        PROVE  MotionTypeOK'
    <2>1. m \in Choices /\ None \in Choices
      BY DEF Choices
    <2>2. Resolve(m, system) \in Modes
      BY <2>1, ResolveMode
    <2> QED BY <1>6, <2>1, <2>2 DEF Choose, Event
  <1>7. \A c \in Choices : OtherTab(c) => MotionTypeOK'
    BY DEF OtherTab, Event
  <1>8. \A q \in Queries : SystemChanges(q) => MotionTypeOK'
    BY DEF SystemChanges, Event
  <1>9. StorageEvent => MotionTypeOK'
    BY <1>0 DEF StorageEvent, Choices
  <1>10. SystemEvent => MotionTypeOK'
    <2>1. Resolve(None, system) \in Modes /\ None \in Choices
      BY ResolveMode DEF Choices
    <2> QED BY <2>1 DEF SystemEvent
  <1>11. \A v \in BOOLEAN : Turn(v) => MotionTypeOK'
    BY DEF Turn, Event
  <1>12. Elsewhere => MotionTypeOK'
    BY DEF Elsewhere, Event
  <1>13. UNCHANGED motion => MotionTypeOK'
    BY DEF motion
  <1> QED
    BY <1>1, <1>2, <1>3, <1>4, <1>5, <1>6, <1>7, <1>8, <1>9, <1>10, <1>11, <1>12, <1>13
    DEF MotionStep

\* The attribute in each phase. Off the landing nobody listens, so a change is
\* missed there; on it, the attribute is at what was reported last.
Resolved ==
    /\ phase # "landing" => mail = <<>>
    /\ phase \in {"loading", "elsewhere"} /\ ~missed /\ unsaved = None => attr = Setting
    /\ phase = "landing" /\ ~missed /\ mail = <<>> /\ unsaved = None
        => attr = Resolve(stored, seen)

LEMMA ResolvedKept == MotionTypeOK /\ Resolved /\ [MotionStep]_motion => Resolved'
  <1> SUFFICES ASSUME MotionTypeOK, Resolved, [MotionStep]_motion
               PROVE  Resolved'
    OBVIOUS
  <1> USE DEF Resolved, Setting
  <1>1. \A p \in {"loading", "elsewhere"} : Load(p) => Resolved'
    BY DEF Load
  <1>2. Hydrate => Resolved'
    BY DEF Hydrate
  <1>3. Enter => Resolved'
    BY DEF Enter, Event
  <1>4. Leave => Resolved'
    BY DEF Leave
  <1>5. Render => Resolved'
    BY DEF Render
  <1>6. ASSUME NEW m \in Modes, NEW saved \in BOOLEAN, Choose(m, saved)
        PROVE  Resolved'
    BY <1>6 DEF Choose, Event, Resolve, Modes
  <1>7. ASSUME NEW c \in Choices, OtherTab(c)
        PROVE  Resolved'
    <2>1. Append(mail, c) # <<>>
      BY DEF MotionTypeOK
    <2> QED BY <1>7, <2>1 DEF OtherTab, Event
  <1>8. \A q \in Queries : SystemChanges(q) => Resolved'
    BY DEF SystemChanges, Event
  <1>9. StorageEvent => Resolved'
    BY DEF StorageEvent, Resolve
  <1>10. SystemEvent => Resolved'
    BY DEF SystemEvent, Resolve
  <1>11. \A v \in BOOLEAN : Turn(v) => Resolved'
    BY DEF Turn, Event
  <1>12. Elsewhere => Resolved'
    BY DEF Elsewhere, Event
  <1>13. UNCHANGED motion => Resolved'
    BY DEF motion
  <1> QED
    BY <1>1, <1>2, <1>3, <1>4, <1>5, <1>6, <1>7, <1>8, <1>9, <1>10, <1>11, <1>12, <1>13
    DEF MotionStep

-----------------------------------------------------------------------------
(* The engines.                                                             *)

\* What a build is at each of its stages, in a tab that is visible or not.
Sound(e, v) ==
    /\ e.stage \in {"importing", "threw", "failed"} =>
        ~e.live /\ ~e.running /\ e.raf = 0 /\ e.disposals = 0
    /\ e.stage = "made" \/ (e.stage = "adopted" /\ ~e.cancelled) =>
        /\ e.live /\ e.disposals = 0
        /\ e.raf = IF e.running THEN 1 ELSE 0
        /\ v => e.running
    /\ e.stage = "dropped" \/ (e.stage = "adopted" /\ e.cancelled) =>
        ~e.live /\ ~e.running /\ e.raf = 0 /\ e.disposals = 1

\* All builds but the current one are cancelled, and that one is the page's.
Accounted ==
    /\ \A b \in Made : Sound(builds[b], visible)
    /\ \A b \in Made : b # current => builds[b].cancelled
    /\ current # 0 =>
        /\ ~builds[current].cancelled
        /\ phase = "landing" /\ ~shownFailed
        /\ builds[current].mode = shown
    /\ engineRef # 0 => engineRef = current /\ builds[engineRef].stage = "adopted"

HeroInv == HeroTypeOK /\ Accounted

LEMMA NewBuildSound ==
    ASSUME NEW mode \in Modes, NEW v
    PROVE  /\ NewBuild(mode) \in Build
           /\ Sound(NewBuild(mode), v)
           /\ NewBuild(mode).mode = mode /\ ~NewBuild(mode).cancelled
  BY DEF NewBuild, Build, Stage, Sound, Modes

LEMMA DisposedSound ==
    ASSUME NEW e \in Build, e.disposals = 0, e.raf \in {0, 1}
    PROVE  /\ Disposed(e) \in Build
           /\ Disposed(e).stage = e.stage /\ Disposed(e).cancelled = e.cancelled
           /\ Disposed(e).mode = e.mode
           /\ ~Disposed(e).live /\ ~Disposed(e).running
           /\ Disposed(e).raf = 0 /\ Disposed(e).disposals = 1
  <1>1. (IF e.raf = 0 THEN 0 ELSE e.raf - 1) = 0 /\ e.disposals + 1 = 1
    OBVIOUS
  <1>2. Disposed(e) = [e EXCEPT !.live = FALSE, !.running = FALSE, !.disposals = 1, !.raf = 0]
    BY <1>1 DEF Disposed
  <1> DEFINE d == [e EXCEPT !.live = FALSE, !.running = FALSE, !.disposals = 1, !.raf = 0]
  <1>3. d \in Build
    BY DEF Build
  <1>4. /\ d.stage = e.stage /\ d.cancelled = e.cancelled /\ d.mode = e.mode
        /\ d.live = FALSE /\ d.running = FALSE /\ d.raf = 0 /\ d.disposals = 1
    BY DEF Build
  <1> HIDE DEF d
  <1>5. Disposed(e) = d
    BY <1>2 DEF d
  <1> QED BY <1>3, <1>4, <1>5

\* The cleanup cancels every build and gives an adopted engine back.
LEMMA CleanedSound ==
    ASSUME HeroInv
    PROVE  /\ Cleaned \in [Made -> Build]
           /\ \A b \in Made : Sound(Cleaned[b], visible) /\ Cleaned[b].cancelled
  <1>1. ASSUME NEW b \in Made
        PROVE  Cleaned[b] \in Build /\ Sound(Cleaned[b], visible) /\ Cleaned[b].cancelled
    <2>0. builds[b] \in Build /\ Sound(builds[b], visible)
      BY DEF HeroInv, HeroTypeOK, Accounted
    <2>1. CASE b # current
      BY <2>0, <2>1 DEF Cleaned, HeroInv, Accounted
    <2>2. CASE b = current /\ builds[b].stage # "adopted"
      <3>0. ~builds[b].cancelled
        BY <2>2 DEF HeroInv, Accounted, Made
      <3>1. Cleaned[b] = [builds[b] EXCEPT !.cancelled = TRUE]
        BY <2>2, <2>0 DEF Cleaned, Build
      <3> QED BY <3>0, <3>1, <2>0, <2>2 DEF Build, Sound, Stage
    <2>3. CASE b = current /\ builds[b].stage = "adopted"
      <3>0. ~builds[b].cancelled
        BY <2>3 DEF HeroInv, Accounted, Made
      <3>1. builds[b].disposals = 0 /\ builds[b].raf \in {0, 1}
        BY <3>0, <2>3, <2>0 DEF Sound
      <3> DEFINE e == [builds[b] EXCEPT !.cancelled = TRUE]
      <3>2. e \in Build /\ e.disposals = 0 /\ e.raf \in {0, 1} /\ e.cancelled
            /\ e.stage = "adopted"
        BY <3>1, <2>0, <2>3 DEF Build
      <3>3. Cleaned[b] = Disposed(e)
        BY <2>3, <3>2 DEF Cleaned
      <3> HIDE DEF e
      <3>4. /\ Disposed(e) \in Build /\ Disposed(e).stage = "adopted"
            /\ Disposed(e).cancelled /\ ~Disposed(e).live /\ ~Disposed(e).running
            /\ Disposed(e).raf = 0 /\ Disposed(e).disposals = 1
        BY <3>2, DisposedSound
      <3> QED BY <3>3, <3>4 DEF Sound
    <2> QED BY <2>1, <2>2, <2>3
  <1>2. Cleaned \in [Made -> Build]
    <2>1. Cleaned = [b \in Made |-> Cleaned[b]]
      BY DEF Cleaned
    <2> QED BY <1>1, <2>1
  <1> QED BY <1>1, <1>2

\* The effect leaves the page with a new build of the mode, or with none.
LEMMA EffectSound ==
    ASSUME HeroInv, NEW mode \in Modes, NEW fails \in BOOLEAN, Effect(mode, fails),
           UNCHANGED visible, phase' = "landing", shown' = mode, shownFailed' = fails,
           failed' \in BOOLEAN, active' \in 0 .. Stations
    PROVE  HeroInv'
  <1> DEFINE N == started + 1
  <1>0. started \in Nat /\ N \in Nat /\ N # 0 /\ N \notin Made
    BY DEF HeroInv, HeroTypeOK, Made
  <1>1. CASE fails
    <2>1. /\ started' = started /\ Made' = Made
          /\ builds' = Cleaned /\ current' = 0 /\ engineRef' = 0 /\ snap' \in BOOLEAN
      BY <1>1 DEF Effect, Made
    <2>2. HeroTypeOK'
      BY <2>1, <1>0, CleanedSound DEF HeroTypeOK
    <2>3. Accounted'
      BY <2>1, CleanedSound DEF Accounted
    <2> QED BY <2>2, <2>3 DEF HeroInv
  <1>2. CASE ~fails
    <2>1. /\ started' = N /\ builds' = With(mode) /\ current' = N /\ engineRef' = 0
          /\ snap' \in BOOLEAN
      BY <1>2 DEF Effect
    <2>2. Made' = Made \cup {N} /\ Made' = 1 .. N
      BY <2>1, <1>0 DEF Made
    <2>3. \A b \in Made : builds'[b] = Cleaned[b]
      BY <2>1, <2>2, <1>0 DEF With
    <2>4. builds'[N] = NewBuild(mode)
      BY <2>1, <2>2, <1>0 DEF With
    <2>5. builds' \in [Made' -> Build]
      <3>1. builds' = [b \in Made' |-> builds'[b]]
        BY <2>1, <2>2 DEF With
      <3>2. \A b \in Made' : builds'[b] \in Build
        BY <2>2, <2>3, <2>4, CleanedSound, NewBuildSound
      <3> QED BY <3>1, <3>2
    <2>6. HeroTypeOK'
      BY <2>1, <2>2, <2>5, <1>0 DEF HeroTypeOK
    <2>7. \A b \in Made' : Sound(builds'[b], visible')
      BY <2>2, <2>3, <2>4, CleanedSound, NewBuildSound
    <2>8. \A b \in Made' : b # current' => builds'[b].cancelled
      BY <2>1, <2>2, <2>3, CleanedSound
    <2>9. ~builds'[N].cancelled /\ builds'[N].mode = mode
      BY <2>4, NewBuildSound
    <2>10. Accounted'
      BY <2>1, <2>7, <2>8, <2>9, <1>2 DEF Accounted
    <2> QED BY <2>6, <2>10 DEF HeroInv
  <1> QED BY <1>1, <1>2

\* A step that changes one build, leaves the page as it is and keeps what the
\* build has to do with it.
LEMMA OneBuildSound ==
    ASSUME HeroInv, NEW b \in Made, NEW e \in Build,
           builds' = [builds EXCEPT ![b] = e],
           Sound(e, visible), e.mode = builds[b].mode, e.cancelled = builds[b].cancelled,
           b = engineRef => e.stage = "adopted",
           engineRef' = engineRef \/ (engineRef' = b /\ b = current /\ e.stage = "adopted"),
           UNCHANGED <<shownFailed, started, current, snap, phase, shown, visible>>,
           failed' \in BOOLEAN, active' \in 0 .. Stations
    PROVE  HeroInv'
  <1>1. Made' = Made
    BY DEF Made
  <1>2. builds \in [Made -> Build]
    BY DEF HeroInv, HeroTypeOK
  <1>3. builds'[b] = e /\ \A o \in Made : o # b => builds'[o] = builds[o]
    BY <1>2
  <1>4. builds' \in [Made' -> Build]
    BY <1>1, <1>2
  <1>5. HeroTypeOK'
    BY <1>1, <1>4 DEF HeroInv, HeroTypeOK
  <1>6. Accounted'
    <2>1. \A o \in Made : Sound(builds'[o], visible') /\ (o # current' => builds'[o].cancelled)
      BY <1>3 DEF HeroInv, Accounted
    <2>2. current' # 0 =>
            /\ ~builds'[current'].cancelled
            /\ phase' = "landing" /\ ~shownFailed'
            /\ builds'[current'].mode = shown'
      <3>1. current # 0 => current \in Made
        BY DEF HeroInv, HeroTypeOK
      <3> QED BY <1>3, <3>1 DEF HeroInv, Accounted
    <2>3. engineRef' # 0 => engineRef' = current' /\ builds'[engineRef'].stage = "adopted"
      <3>1. engineRef # 0 => engineRef \in Made
        BY DEF HeroInv, HeroTypeOK
      <3> QED BY <1>3, <3>1 DEF HeroInv, Accounted
    <2> QED BY <1>1, <2>1, <2>2, <2>3 DEF Accounted
  <1> QED BY <1>5, <1>6 DEF HeroInv

LEMMA SpeaksTyped ==
    ASSUME NEW b, Speaks(b), active \in 0 .. Stations
    PROVE  active' \in 0 .. Stations
  BY DEF Speaks

LEMMA ImportSound == \A b \in Made : HeroInv /\ (Create(b) \/ Throw(b))
                       /\ UNCHANGED <<phase, shown, visible>> => HeroInv'
  <1> SUFFICES ASSUME NEW b \in Made, HeroInv, Create(b) \/ Throw(b),
                      UNCHANGED <<phase, shown, visible>>
               PROVE  HeroInv'
    OBVIOUS
  <1>0. /\ builds[b] \in Build /\ builds[b].stage = "importing" /\ Sound(builds[b], visible)
        /\ builds[b].disposals = 0 /\ b # engineRef /\ failed \in BOOLEAN
        /\ active \in 0 .. Stations
    <2>1. builds[b].stage = "importing"
      BY DEF Create, Throw, Imported
    <2>2. builds[b] \in Build /\ Sound(builds[b], visible)
      BY DEF HeroInv, HeroTypeOK, Accounted
    <2>3. b # engineRef
      BY <2>1 DEF HeroInv, Accounted, Made
    <2>4. failed \in BOOLEAN /\ active \in 0 .. Stations
      BY DEF HeroInv, HeroTypeOK
    <2> QED BY <2>1, <2>2, <2>3, <2>4 DEF Sound
  <1>1. CASE Create(b)
    <2> DEFINE e == [builds[b] EXCEPT !.stage = "made", !.live = TRUE, !.running = TRUE, !.raf = 1]
    <2>1. /\ e \in Build /\ e.mode = builds[b].mode /\ e.cancelled = builds[b].cancelled
          /\ e.stage = "made" /\ e.live = TRUE /\ e.running = TRUE /\ e.raf = 1 /\ e.disposals = 0
      BY <1>0 DEF Build, Stage
    <2>2. builds' = [builds EXCEPT ![b] = e]
      BY <1>1 DEF Create
    <2> HIDE DEF e
    <2>3. Sound(e, visible)
      BY <2>1 DEF Sound
    <2>4. active' \in 0 .. Stations
      BY <1>0, <1>1, SpeaksTyped DEF Create
    <2>5. UNCHANGED <<failed, engineRef, shownFailed, started, current, snap>>
      BY <1>1 DEF Create
    <2> QED BY <1>0, <2>1, <2>2, <2>3, <2>4, <2>5, OneBuildSound
  <1>2. CASE Throw(b)
    <2> DEFINE e == [builds[b] EXCEPT !.stage = "threw"]
    <2>1. /\ e \in Build /\ e.mode = builds[b].mode /\ e.cancelled = builds[b].cancelled
          /\ e.stage = "threw" /\ e.live = builds[b].live /\ e.running = builds[b].running
          /\ e.raf = builds[b].raf /\ e.disposals = 0
      BY <1>0 DEF Build, Stage
    <2>2. builds' = [builds EXCEPT ![b] = e]
      BY <1>2 DEF Throw
    <2> HIDE DEF e
    <2>3. Sound(e, visible)
      BY <1>0, <2>1 DEF Sound
    <2>4. UNCHANGED <<failed, engineRef, shownFailed, started, current, snap, active>>
      BY <1>2 DEF Throw
    <2> QED BY <1>0, <2>1, <2>2, <2>3, <2>4, OneBuildSound
  <1> QED BY <1>1, <1>2

LEMMA SettleSound == \A b \in Made : HeroInv /\ (Settle(b) \/ GiveUp(b))
                       /\ UNCHANGED <<phase, shown, visible>> => HeroInv'
  <1> SUFFICES ASSUME NEW b \in Made, HeroInv, Settle(b) \/ GiveUp(b),
                      UNCHANGED <<phase, shown, visible>>
               PROVE  HeroInv'
    OBVIOUS
  <1>0. /\ builds[b] \in Build /\ Sound(builds[b], visible) /\ b # engineRef
        /\ failed \in BOOLEAN /\ active \in 0 .. Stations
        /\ b # current => builds[b].cancelled
    <2>1. builds[b].stage # "adopted"
      BY DEF Settle, GiveUp
    <2>2. builds[b] \in Build /\ Sound(builds[b], visible)
      BY DEF HeroInv, HeroTypeOK, Accounted
    <2>3. b # engineRef
      BY <2>1 DEF HeroInv, Accounted, Made
    <2>4. failed \in BOOLEAN /\ active \in 0 .. Stations
      BY DEF HeroInv, HeroTypeOK
    <2>5. b # current => builds[b].cancelled
      BY DEF HeroInv, Accounted
    <2> QED BY <2>1, <2>2, <2>3, <2>4, <2>5
  <1>1. CASE Settle(b) /\ builds[b].cancelled
    <2>0. builds[b].stage = "made" /\ builds[b].disposals = 0 /\ builds[b].raf \in {0, 1}
      BY <1>0, <1>1 DEF Settle, Sound
    <2> DEFINE d == Disposed(builds[b])
               e == [d EXCEPT !.stage = "dropped"]
    <2>1. /\ d \in Build /\ d.cancelled = TRUE /\ d.mode = builds[b].mode
          /\ d.live = FALSE /\ d.running = FALSE /\ d.raf = 0 /\ d.disposals = 1
      BY <1>0, <1>1, <2>0, DisposedSound DEF Build
    <2>2. builds' = [builds EXCEPT ![b] = e]
      BY <1>1 DEF Settle
    <2> HIDE DEF d
    <2>3. /\ e \in Build /\ e.cancelled = TRUE /\ e.mode = builds[b].mode /\ e.stage = "dropped"
          /\ e.live = FALSE /\ e.running = FALSE /\ e.raf = 0 /\ e.disposals = 1
      BY <2>1 DEF Build, Stage
    <2> HIDE DEF e
    <2>4. Sound(e, visible)
      BY <2>3 DEF Sound
    <2>5. UNCHANGED <<failed, engineRef, shownFailed, started, current, snap, active>>
      BY <1>1 DEF Settle
    <2>6. e.cancelled = builds[b].cancelled
      BY <1>1, <1>0, <2>3 DEF Build
    <2> QED BY <1>0, <2>2, <2>3, <2>4, <2>5, <2>6, OneBuildSound
  <1>2. CASE Settle(b) /\ ~builds[b].cancelled
    <2> DEFINE e == [builds[b] EXCEPT !.stage = "adopted"]
    <2>1. /\ e \in Build /\ e.mode = builds[b].mode /\ e.cancelled = builds[b].cancelled
          /\ e.stage = "adopted" /\ e.live = builds[b].live /\ e.running = builds[b].running
          /\ e.raf = builds[b].raf /\ e.disposals = builds[b].disposals
      BY <1>0 DEF Build, Stage
    <2>2. builds' = [builds EXCEPT ![b] = e] /\ builds[b].stage = "made" /\ engineRef' = b
      BY <1>2 DEF Settle
    <2> HIDE DEF e
    <2>3. Sound(e, visible)
      BY <1>0, <1>2, <2>1, <2>2 DEF Sound
    <2>4. UNCHANGED <<failed, shownFailed, started, current, snap, active>>
      BY <1>2 DEF Settle
    <2>5. b = current
      BY <1>0, <1>2
    <2> QED BY <1>0, <2>1, <2>2, <2>3, <2>4, <2>5, OneBuildSound
  <1>3. CASE GiveUp(b)
    <2> DEFINE e == [builds[b] EXCEPT !.stage = "failed"]
    <2>1. /\ e \in Build /\ e.mode = builds[b].mode /\ e.cancelled = builds[b].cancelled
          /\ e.stage = "failed" /\ e.live = builds[b].live /\ e.running = builds[b].running
          /\ e.raf = builds[b].raf /\ e.disposals = builds[b].disposals
      BY <1>0 DEF Build, Stage
    <2>2. builds' = [builds EXCEPT ![b] = e] /\ builds[b].stage = "threw"
      BY <1>3 DEF GiveUp
    <2> HIDE DEF e
    <2>3. Sound(e, visible)
      BY <1>0, <2>1, <2>2 DEF Sound
    <2>4. UNCHANGED <<engineRef, shownFailed, started, current, snap, active>>
      BY <1>3 DEF GiveUp
    <2>5. failed' \in BOOLEAN
      BY <1>3, <1>0 DEF GiveUp
    <2> QED BY <1>0, <2>1, <2>2, <2>3, <2>4, <2>5, OneBuildSound
  <1> QED BY <1>1, <1>2, <1>3

LEMMA ResumedSound ==
    ASSUME NEW e \in Build, NEW v \in BOOLEAN, NEW w \in BOOLEAN, v # w, Sound(e, w),
           e.live, e.stage \in {"made", "adopted"}
    PROVE  LET f == IF v THEN Resumed(e) ELSE Paused(e)
           IN  /\ f \in Build /\ Sound(f, v)
               /\ f.stage = e.stage /\ f.mode = e.mode /\ f.cancelled = e.cancelled
  <1>0. e.disposals = 0 /\ (e.stage = "adopted" => ~e.cancelled)
        /\ e.raf = (IF e.running THEN 1 ELSE 0)
    BY DEF Sound
  <1>1. CASE v /\ e.running
    BY <1>0, <1>1 DEF Resumed, Sound
  <1>2. CASE v /\ ~e.running
    <2> DEFINE f == [e EXCEPT !.running = TRUE, !.raf = 1]
    <2>1. Resumed(e) = f
      BY <1>0, <1>2 DEF Resumed
    <2>2. /\ f \in Build /\ f.stage = e.stage /\ f.mode = e.mode /\ f.cancelled = e.cancelled
          /\ f.live = e.live /\ f.running = TRUE /\ f.raf = 1 /\ f.disposals = 0
      BY <1>0 DEF Build
    <2> HIDE DEF f
    <2>3. Sound(f, v)
      BY <2>2, <1>0 DEF Sound
    <2> QED BY <2>1, <2>2, <2>3, <1>2
  <1>3. CASE ~v
    <2> DEFINE f == [e EXCEPT !.running = FALSE, !.raf = 0]
    <2>1. Paused(e) = f
      <3>1. (IF e.raf = 0 THEN 0 ELSE e.raf - 1) = 0
        BY <1>0
      <3> QED BY <3>1 DEF Paused
    <2>2. /\ f \in Build /\ f.stage = e.stage /\ f.mode = e.mode /\ f.cancelled = e.cancelled
          /\ f.live = e.live /\ f.running = FALSE /\ f.raf = 0 /\ f.disposals = 0
      BY <1>0 DEF Build
    <2> HIDE DEF f
    <2>3. Sound(f, v)
      BY <2>2, <1>0, <1>3 DEF Sound
    <2> QED BY <2>1, <2>2, <2>3, <1>3
  <1> QED BY <1>1, <1>2, <1>3

\* The background does not reach an engine that is not there.
LEMMA QuietSound ==
    ASSUME NEW e \in Build, NEW v \in BOOLEAN, NEW w \in BOOLEAN, Sound(e, w),
           ~(e.live /\ e.stage \in {"made", "adopted"})
    PROVE  Sound(e, v)
  BY DEF Sound, Build, Stage

LEMMA VisibilitySound ==
    ASSUME HeroInv, MotionTypeOK, NEW v \in BOOLEAN, ToFront(v)
    PROVE  HeroInv'
  <1>0. /\ visible \in BOOLEAN /\ visible' = v /\ v # visible
        /\ UNCHANGED <<phase, shown, failed, shownFailed, started, current, engineRef, snap>>
    BY DEF MotionTypeOK, ToFront, Turn, Visibility
  <1>1. Made' = Made
    BY <1>0 DEF Made
  <1>2. builds' = [b \in Made |->
                    IF ~Running(b) THEN builds[b]
                    ELSE IF v THEN Resumed(builds[b]) ELSE Paused(builds[b])]
    BY DEF ToFront, Visibility
  <1>3. ASSUME NEW b \in Made
        PROVE  /\ builds'[b] \in Build /\ Sound(builds'[b], v)
               /\ builds'[b].stage = builds[b].stage /\ builds'[b].mode = builds[b].mode
               /\ builds'[b].cancelled = builds[b].cancelled
    <2>1. builds[b] \in Build /\ Sound(builds[b], visible)
      BY DEF HeroInv, HeroTypeOK, Accounted
    <2>2. CASE Running(b)
      <3>1. builds[b].live /\ builds[b].stage \in {"made", "adopted"}
        BY <2>2 DEF Running
      <3>2. builds'[b] = IF v THEN Resumed(builds[b]) ELSE Paused(builds[b])
        BY <1>2, <2>2
      <3> QED BY <1>0, <2>1, <3>1, <3>2, ResumedSound
    <2>3. CASE ~Running(b)
      <3>1. ~(builds[b].live /\ builds[b].stage \in {"made", "adopted"})
        BY <2>3 DEF Running
      <3>2. builds'[b] = builds[b]
        BY <1>2, <2>3
      <3> QED BY <1>0, <2>1, <3>1, <3>2, QuietSound
    <2> QED BY <2>2, <2>3
  <1>4. builds' \in [Made -> Build]
    <2>1. builds' = [b \in Made |-> builds'[b]]
      BY <1>2
    <2> QED BY <1>3, <2>1
  <1>5. active' \in 0 .. Stations
    BY SpeaksTyped DEF HeroInv, HeroTypeOK, ToFront, Visibility
  <1>6. HeroTypeOK'
    BY <1>0, <1>1, <1>4, <1>5 DEF HeroInv, HeroTypeOK
  <1>7. Accounted'
    <2>1. current # 0 => current \in Made
      BY DEF HeroInv, HeroTypeOK
    <2>2. engineRef # 0 => engineRef \in Made
      BY DEF HeroInv, HeroTypeOK
    <2> QED BY <1>0, <1>1, <1>3, <2>1, <2>2 DEF HeroInv, Accounted
  <1> QED BY <1>6, <1>7 DEF HeroInv

\* The engines stay accounted for when only the setting changes.
LEMMA SameEngines ==
    ASSUME HeroInv, UNCHANGED <<failed, shownFailed, started, builds, current, engineRef, snap>>,
           active' \in 0 .. Stations, UNCHANGED visible,
           current # 0 => UNCHANGED <<phase, shown>>
    PROVE  HeroInv'
  <1>1. Made' = Made
    BY DEF Made
  <1> QED BY <1>1 DEF HeroInv, HeroTypeOK, Accounted

LEMMA HeroInvKept ==
    ASSUME HeroInv, MotionTypeOK, MotionTypeOK', [Next]_vars
    PROVE  HeroInv'
  <1> active \in 0 .. Stations /\ failed \in BOOLEAN /\ shownFailed \in BOOLEAN
    BY DEF HeroInv, HeroTypeOK
  <1>1. ASSUME NEW p \in {"loading", "elsewhere"}, Open(p)
        PROVE  HeroInv'
    <2>1. current = 0
      BY <1>1 DEF HeroInv, Accounted, Open, Load
    <2> QED BY <1>1, <2>1, SameEngines DEF Open, Load, hero
  <1>2. CASE Arrive
    <2>1. "full" \in Modes /\ FALSE \in BOOLEAN
      BY DEF Modes
    <2>2. /\ Effect("full", FALSE) /\ UNCHANGED visible /\ phase' = "landing" /\ shown' = "full"
          /\ shownFailed' = FALSE /\ failed' = FALSE /\ active' = 0
      BY <1>2 DEF Arrive, Hydrate, Mount
    <2>3. failed' \in BOOLEAN
      BY <2>2, Zenon
    <2>4. 0 \in 0 .. Stations
      BY SMT
    <2>5. active' \in 0 .. Stations
      BY <2>2, <2>4
    <2> QED BY <2>1, <2>2, <2>3, <2>5, EffectSound
  <1>3. CASE Return
    <2>1. attr \in Modes /\ FALSE \in BOOLEAN
      BY DEF MotionTypeOK
    <2>2. /\ Effect(attr, FALSE) /\ UNCHANGED visible /\ phase' = "landing" /\ shown' = attr
          /\ shownFailed' = FALSE /\ failed' = FALSE /\ active' = 0
      BY <1>3 DEF Return, Enter, Mount
    <2>3. failed' \in BOOLEAN
      BY <2>2, Zenon
    <2>4. 0 \in 0 .. Stations
      BY SMT
    <2>5. active' \in 0 .. Stations
      BY <2>2, <2>4
    <2> QED BY <2>1, <2>2, <2>3, <2>5, EffectSound
  <1>4. CASE Depart
    <2>1. /\ builds' = Cleaned /\ started' = started /\ current' = 0 /\ engineRef' = 0
          /\ snap' = FALSE /\ UNCHANGED <<failed, shownFailed, active, visible>>
      BY <1>4 DEF Depart, Leave, Unmount
    <2>2. Made' = Made
      BY <2>1 DEF Made
    <2>3. HeroTypeOK'
      BY <2>1, <2>2, CleanedSound DEF HeroInv, HeroTypeOK
    <2>4. Accounted'
      BY <2>1, <2>2, CleanedSound DEF Accounted
    <2> QED BY <2>3, <2>4 DEF HeroInv
  <1>5. CASE Commit
    <2>1. attr \in Modes
      BY DEF MotionTypeOK
    <2>2. /\ Effect(attr, failed) /\ UNCHANGED visible /\ phase' = "landing" /\ shown' = attr
          /\ shownFailed' = failed /\ failed' \in BOOLEAN /\ active' \in 0 .. Stations
      BY <1>5 DEF Commit, Render, Rerun
    <2> QED BY <2>1, <2>2, EffectSound
  <1>6. ASSUME NEW m \in Modes, NEW saved \in BOOLEAN, Press(m, saved)
        PROVE  HeroInv'
    BY <1>6, SameEngines DEF Press, Choose, hero
  <1>7. CASE Others
    BY <1>7, SameEngines DEF Others, OtherTab, SystemChanges, hero
  <1>8. CASE Told
    BY <1>8, SameEngines DEF Told, StorageEvent, SystemEvent, hero
  <1>9. \A v \in BOOLEAN : ToFront(v) => HeroInv'
    BY VisibilitySound
  <1>10. ASSUME NEW b \in Made, Building(b)
         PROVE  HeroInv'
    <2>1. UNCHANGED <<phase, shown, visible>>
      BY <1>10 DEF Building, motion
    <2>2. Create(b) \/ Settle(b) \/ GiveUp(b)
      BY <1>10 DEF Building
    <2> QED BY <2>1, <2>2, ImportSound, SettleSound
  <1>11. ASSUME NEW b \in Made, Fault(b)
         PROVE  HeroInv'
    <2>1. UNCHANGED <<phase, shown, visible>>
      BY <1>11 DEF Fault, Elsewhere
    <2>2. CASE Throw(b)
      BY <2>1, <2>2, ImportSound
    <2>3. CASE LoseContext(b)
      <3>1. Made' = Made
        BY <2>3 DEF LoseContext, Made
      <3> QED BY <2>1, <2>3, <3>1 DEF LoseContext, HeroInv, HeroTypeOK, Accounted
    <2> QED BY <1>11, <2>2, <2>3 DEF Fault
  <1>12. ASSUME NEW b \in Made, Draw(b)
         PROVE  HeroInv'
    <2>1. active' \in 0 .. Stations
      BY <1>12, SpeaksTyped DEF Draw, Frame
    <2> QED BY <1>12, <2>1, SameEngines DEF Draw, Frame, motion
  <1>13. CASE UNCHANGED vars
    BY <1>13, SameEngines DEF vars, motion, hero
  <1> QED
    BY <1>1, <1>2, <1>3, <1>4, <1>5, <1>6, <1>7, <1>8, <1>9, <1>10, <1>11, <1>12, <1>13 DEF Next

-----------------------------------------------------------------------------
(* The page.                                                                *)

LandingInv == MotionTypeOK /\ Resolved /\ HeroInv

LEMMA LandingInvInit == Init => LandingInv
  <1> SUFFICES ASSUME Init
               PROVE  LandingInv
    OBVIOUS
  <1>1. MotionTypeOK
    <2>1. /\ stored \in Choices /\ system \in SUBSET Queries /\ visible \in BOOLEAN
          /\ phase = "closed" /\ attr = "full" /\ shown = "full" /\ seen = {}
          /\ mail = <<>> /\ unsaved = None /\ missed = FALSE /\ events = 0
      BY Zenon DEF Init, MotionInit
    <2>2. missed \in BOOLEAN
      BY <2>1, Zenon
    <2>3. mail \in Seq(Choices)
      BY <2>1
    <2>4. unsaved \in Choices /\ attr \in Modes /\ shown \in Modes /\ phase \in Phases
      BY <2>1 DEF Choices, Modes, Phases
    <2>5. system \subseteq Queries /\ seen \subseteq Queries /\ events \in Nat
      BY <2>1
    <2> QED BY <2>1, <2>2, <2>3, <2>4, <2>5, Zenon DEF MotionTypeOK
  <1>2. Resolved
    BY DEF Init, MotionInit, Resolved
  <1>3. HeroInv
    <2>1. /\ failed = FALSE /\ shownFailed = FALSE /\ started = 0 /\ builds = <<>>
          /\ current = 0 /\ engineRef = 0 /\ active = 0 /\ snap = FALSE
      BY DEF Init, HeroInit
    <2>2. Made = {}
      BY <2>1 DEF Made
    <2>3. builds \in [Made -> Build]
      BY <2>1, <2>2
    <2>4. 0 \in 0 .. Stations
      BY SMT
    <2>5. failed \in BOOLEAN /\ shownFailed \in BOOLEAN /\ snap \in BOOLEAN
      BY <2>1, Zenon
    <2>6. HeroTypeOK
      BY <2>1, <2>2, <2>3, <2>4, <2>5 DEF HeroTypeOK
    <2>7. Accounted
      BY <2>1, <2>2 DEF Accounted
    <2> QED BY <2>6, <2>7 DEF HeroInv
  <1> QED BY <1>1, <1>2, <1>3 DEF LandingInv

LEMMA LandingInvKept == LandingInv /\ [Next]_vars => LandingInv'
  <1> SUFFICES ASSUME LandingInv, [Next]_vars
               PROVE  LandingInv'
    OBVIOUS
  <1>1. [MotionStep]_motion
    BY MotionSteps DEF vars
  <1>2. MotionTypeOK' /\ Resolved'
    BY <1>1, MotionTyped, ResolvedKept DEF LandingInv
  <1>3. HeroInv'
    BY <1>2, HeroInvKept DEF LandingInv
  <1> QED BY <1>2, <1>3 DEF LandingInv

\* The invariant the theorems rest on.
THEOREM LandingIsSound == Spec => []LandingInv
  BY LandingInvInit, LandingInvKept, PTL DEF Spec

\* Every variable of the setting and of the engine keeps its type.
THEOREM TypeCorrect == Spec => []TypeOK
  <1>1. LandingInv => TypeOK
    BY DEF LandingInv, HeroInv, TypeOK
  <1> QED BY <1>1, LandingIsSound, PTL

\* A page that has been told of everything shows what choice, system and device
\* resolve to (motion.ts), after any number of events in any order.
THEOREM SettingIsShown == Spec => []ShowsSetting
  <1>1. LandingInv => ShowsSetting
    BY DEF LandingInv, Resolved, ShowsSetting, Setting
  <1> QED BY <1>1, LandingIsSound, PTL

\* Every engine that is not the page's is cancelled and, once its build has
\* settled, disposed of exactly once (useHeroEngine.ts).
THEOREM EnginesAreAccountedFor == Spec => []EnginesAccounted
  <1>1. LandingInv => EnginesAccounted
    <2> SUFFICES ASSUME LandingInv
                 PROVE  EnginesAccounted
      OBVIOUS
    <2>1. ASSUME engineRef # 0
          PROVE  /\ engineRef = current /\ phase = "landing" /\ ~shownFailed
                 /\ builds[engineRef].live /\ builds[engineRef].mode = shown
      <3>1. /\ engineRef \in Made /\ engineRef = current /\ current # 0
            /\ builds[engineRef].stage = "adopted" /\ Sound(builds[engineRef], visible)
        BY <2>1 DEF LandingInv, HeroInv, HeroTypeOK, Accounted
      <3>2. /\ ~builds[engineRef].cancelled /\ phase = "landing" /\ ~shownFailed
            /\ builds[engineRef].mode = shown
        BY <3>1 DEF LandingInv, HeroInv, Accounted
      <3>3. builds[engineRef].live
        BY <3>1, <3>2 DEF Sound
      <3> QED BY <3>1, <3>2, <3>3
    <2>2. ASSUME NEW b \in Made, b # current
          PROVE  /\ builds[b].cancelled
                 /\ builds[b].stage \in {"adopted", "dropped"} =>
                        ~builds[b].live /\ builds[b].disposals = 1
      BY <2>2 DEF LandingInv, HeroInv, Accounted, Sound
    <2> QED BY <2>1, <2>2 DEF EnginesAccounted
  <1> QED BY <1>1, LandingIsSound, PTL

\* A visible engine has exactly one animation loop, a disposed one none
\* (webglEngine.ts, onVisibility and dispose).
THEOREM LoopsAreSingle == Spec => []OneLoop
  <1>1. LandingInv => OneLoop
    <2> SUFFICES ASSUME LandingInv, NEW b \in Made
                 PROVE  /\ builds[b].raf <= 1
                        /\ builds[b].stage \in {"made", "adopted", "dropped"} =>
                            IF builds[b].live
                            THEN visible => builds[b].raf = 1 /\ builds[b].running
                            ELSE builds[b].raf = 0
      BY DEF OneLoop
    <2>1. builds[b] \in Build /\ Sound(builds[b], visible)
      BY DEF LandingInv, HeroInv, HeroTypeOK, Accounted
    <2> QED BY <2>1 DEF Sound, Build, Stage
  <1> QED BY <1>1, LandingIsSound, PTL

\* A cancelled build, one that is not the page's, never moves the station or
\* turns the page to its fallback (useHeroEngine.ts, "if (cancelled)").
THEOREM OnlyTheCurrentSpeaks == Spec => OnlyTheCurrentBuildSpeaks
  <1> DEFINE Speaking == (failed' /\ ~failed) \/ (active' # active /\ active' # 0)
             Alone == /\ current # 0 /\ ~builds[current].cancelled
                      /\ \A b \in Made \ {current} : builds'[b].stage = builds[b].stage
  <1>1. LandingInv /\ [Next]_vars => [Speaking => Alone]_vars
    <2> SUFFICES ASSUME LandingInv, Next, Speaking
                 PROVE  Alone
      OBVIOUS
    <2>0. /\ \A b \in Made : builds[b] \in Build
          /\ \A b \in Made : ~builds[b].cancelled => b = current /\ b # 0
      BY DEF LandingInv, HeroInv, HeroTypeOK, Accounted, Made
    <2>1. ASSUME NEW b \in Made, ~builds[b].cancelled,
                 \A o \in Made \ {b} : builds'[o].stage = builds[o].stage
          PROVE  Alone
      BY <2>0, <2>1
    <2>2. CASE \E p \in {"loading", "elsewhere"} : Open(p)
      BY <2>2 DEF Open, hero
    <2>3. CASE Arrive \/ Return \/ Depart \/ Commit
      BY <2>3 DEF Arrive, Return, Depart, Commit, Mount, Unmount, Rerun
    <2>4. CASE \E m \in Modes, saved \in BOOLEAN : Press(m, saved)
      BY <2>4 DEF Press, hero
    <2>5. CASE Others \/ Told
      BY <2>5 DEF Others, Told, hero
    <2>6. ASSUME NEW v \in BOOLEAN, ToFront(v)
          PROVE  Alone
      <3>1. /\ current # 0 /\ Running(current) /\ UNCHANGED failed
            /\ builds' = [b \in Made |->
                            IF ~Running(b) THEN builds[b]
                            ELSE IF v THEN Resumed(builds[b]) ELSE Paused(builds[b])]
        BY <2>6 DEF ToFront, Visibility
      <3>2. current \in Made /\ ~builds[current].cancelled
        BY <3>1 DEF LandingInv, HeroInv, HeroTypeOK, Accounted
      <3>3. \A b \in Made : builds'[b].stage = builds[b].stage
        BY <2>0, <3>1 DEF Resumed, Paused, Build
      <3> QED BY <3>2, <3>3, <2>1
    <2>7. ASSUME NEW b \in Made, Building(b)
          PROVE  Alone
      <3>1. CASE Create(b)
        <4>1. ~builds[b].cancelled
          BY <3>1 DEF Create, Speaks
        <4>2. \A o \in Made \ {b} : builds'[o] = builds[o]
          BY <3>1, <2>0 DEF Create, LandingInv, HeroInv, HeroTypeOK
        <4> QED BY <4>1, <4>2, <2>1
      <3>2. CASE Settle(b)
        BY <3>2 DEF Settle
      <3>3. CASE GiveUp(b)
        <4>1. ~builds[b].cancelled
          BY <3>3 DEF GiveUp
        <4>2. \A o \in Made \ {b} : builds'[o] = builds[o]
          BY <3>3 DEF GiveUp, LandingInv, HeroInv, HeroTypeOK
        <4> QED BY <4>1, <4>2, <2>1
      <3> QED BY <2>7, <3>1, <3>2, <3>3 DEF Building
    <2>8. ASSUME NEW b \in Made, Fault(b)
          PROVE  Alone
      <3>1. CASE Throw(b)
        BY <3>1 DEF Throw
      <3>2. CASE LoseContext(b)
        BY <3>2, <2>1 DEF LoseContext
      <3> QED BY <2>8, <3>1, <3>2 DEF Fault
    <2>9. ASSUME NEW b \in Made, Draw(b)
          PROVE  Alone
      BY <2>9, <2>1 DEF Draw, Frame, Speaks
    <2> QED BY <2>2, <2>3, <2>4, <2>5, <2>6, <2>7, <2>8, <2>9 DEF Next
  <1> QED BY <1>1, LandingIsSound, PTL DEF Spec, OnlyTheCurrentBuildSpeaks

-----------------------------------------------------------------------------
(* The page implements the abstract one.                                    *)

Show == IF phase # "landing" THEN "away" ELSE IF shownFailed THEN "fallback" ELSE shown
Holds == IF engineRef = 0 THEN "none" ELSE builds[engineRef].mode

LEMMA AbstractInit == Init => Engine!Init
  BY DEF Init, MotionInit, HeroInit, Engine!Init

\* An engine is only held by a page that shows its mode.
LEMMA HeldForShown ==
    ASSUME LandingInv, engineRef # 0
    PROVE  /\ engineRef \in Made /\ engineRef = current
           /\ phase = "landing" /\ ~shownFailed /\ builds[engineRef].mode = shown
  BY DEF LandingInv, HeroInv, HeroTypeOK, Accounted

\* A page without an engine that shows something else has turned.
LEMMA TurnedAway ==
    ASSUME engineRef' = 0, Show' # Show, Show' \in Modes \cup {"away", "fallback"}
    PROVE  Engine!Next
  BY DEF Show, Engine!Next, Engine!Turn, Engine!Shows

\* A step that changes neither what is shown nor the engine held.
LEMMA NothingSeen ==
    ASSUME UNCHANGED <<Show, Holds>>
    PROVE  UNCHANGED Engine!vars
  BY DEF Show, Holds, Engine!vars

LEMMA AbstractStep == LandingInv /\ [Next]_vars => [Engine!Next]_(Engine!vars)
  <1> SUFFICES ASSUME LandingInv, [Next]_vars
               PROVE  Engine!Next \/ UNCHANGED Engine!vars
    OBVIOUS
  <1>0. attr \in Modes /\ shown \in Modes /\ "full" \in Modes
        /\ "away" \notin Modes /\ "fallback" \notin Modes
    BY DEF LandingInv, MotionTypeOK, Modes
  <1>a. ASSUME UNCHANGED <<phase, shown, shownFailed, engineRef>>,
               \A b \in Made : builds'[b].mode = builds[b].mode
        PROVE  UNCHANGED Engine!vars
    <2>1. UNCHANGED Show
      BY <1>a DEF Show
    <2>2. UNCHANGED Holds
      BY <1>a, HeldForShown DEF Holds
    <2> QED BY <2>1, <2>2, NothingSeen
  <1>1. ASSUME NEW p \in {"loading", "elsewhere"}, Open(p)
        PROVE  UNCHANGED Engine!vars
    <2>1. UNCHANGED Show
      BY <1>1 DEF Open, Load, Show
    <2>2. UNCHANGED Holds
      BY <1>1 DEF Open, hero, Holds
    <2> QED BY <2>1, <2>2, NothingSeen
  <1>2. CASE Arrive
    <2>1. Show = "away" /\ Show' = "full" /\ engineRef' = 0
      BY <1>2 DEF Arrive, Hydrate, Mount, Effect, Show
    <2> QED BY <1>0, <2>1, TurnedAway
  <1>3. CASE Return
    <2>1. Show = "away" /\ Show' = attr /\ engineRef' = 0
      BY <1>3 DEF Return, Enter, Mount, Effect, Show
    <2> QED BY <1>0, <2>1, TurnedAway
  <1>4. CASE Depart
    <2>1. Show # "away" /\ Show' = "away" /\ engineRef' = 0
      BY <1>4, <1>0 DEF Depart, Leave, Unmount, Show
    <2> QED BY <2>1, TurnedAway
  <1>5. CASE Commit
    <2>1. /\ phase = "landing" /\ phase' = "landing" /\ engineRef' = 0
          /\ shown' = attr /\ shownFailed' = failed /\ (shown # attr \/ shownFailed # failed)
          /\ shownFailed \in BOOLEAN /\ failed \in BOOLEAN
      BY <1>5 DEF Commit, Render, Rerun, Effect, LandingInv, HeroInv, HeroTypeOK
    <2>2. Show' \in Modes \cup {"away", "fallback"}
      BY <2>1, <1>0 DEF Show
    <2>3. CASE shownFailed /\ failed
      <3>1. UNCHANGED Show
        BY <2>1, <2>3 DEF Show
      <3>2. UNCHANGED Holds
        BY <2>1, <2>3, HeldForShown DEF Holds
      <3> QED BY <3>1, <3>2, NothingSeen
    <2>4. CASE ~(shownFailed /\ failed)
      <3>1. Show' # Show
        BY <2>1, <2>4, <1>0 DEF Show
      <3> QED BY <2>1, <2>2, <3>1, TurnedAway
    <2> QED BY <2>3, <2>4
  <1>6. ASSUME NEW m \in Modes, NEW saved \in BOOLEAN, Press(m, saved)
        PROVE  UNCHANGED Engine!vars
    BY <1>6, <1>a DEF Press, Choose, hero
  <1>7. CASE Others
    BY <1>7, <1>a DEF Others, OtherTab, SystemChanges, hero
  <1>8. CASE Told
    BY <1>8, <1>a DEF Told, StorageEvent, SystemEvent, hero
  <1>9. ASSUME NEW v \in BOOLEAN, ToFront(v)
        PROVE  UNCHANGED Engine!vars
    <2>1. /\ UNCHANGED <<phase, shown, shownFailed, engineRef>>
          /\ builds' = [b \in Made |->
                            IF ~Running(b) THEN builds[b]
                            ELSE IF v THEN Resumed(builds[b]) ELSE Paused(builds[b])]
      BY <1>9 DEF ToFront, Turn, Visibility
    <2>2. \A b \in Made : builds[b] \in Build
      BY DEF LandingInv, HeroInv, HeroTypeOK
    <2>3. \A b \in Made : builds'[b].mode = builds[b].mode
      BY <2>1, <2>2 DEF Resumed, Paused, Build
    <2> QED BY <2>1, <2>3, <1>a
  <1>10. ASSUME NEW b \in Made, Building(b)
         PROVE  Engine!Next \/ UNCHANGED Engine!vars
    <2>0. /\ builds \in [Made -> Build]
          /\ UNCHANGED <<phase, shown, shownFailed>>
      BY <1>10 DEF LandingInv, HeroInv, HeroTypeOK, Building, motion, Create, Settle, GiveUp
    <2>1. CASE Create(b)
      BY <2>0, <2>1, <1>a DEF Create, Build
    <2>2. CASE GiveUp(b)
      BY <2>0, <2>2, <1>a DEF GiveUp, Build
    <2>3. CASE Settle(b) /\ builds[b].cancelled
      <3>1. \A o \in Made : builds'[o].mode = builds[o].mode
        <4> DEFINE e == Disposed(builds[b])
                   d == [e EXCEPT !.stage = "dropped"]
        <4>1. builds[b].disposals = 0 /\ builds[b].raf \in {0, 1}
          BY <2>3 DEF Settle, LandingInv, HeroInv, Accounted, Sound
        <4>2. e \in Build /\ e.mode = builds[b].mode
          BY <2>0, <4>1, DisposedSound
        <4>3. builds' = [builds EXCEPT ![b] = d]
          BY <2>3 DEF Settle
        <4> HIDE DEF e
        <4>4. d.mode = builds[b].mode
          BY <4>2 DEF Build
        <4> HIDE DEF d
        <4> QED BY <2>0, <4>3, <4>4
      <3> QED BY <2>0, <2>3, <3>1, <1>a DEF Settle
    <2>4. CASE Settle(b) /\ ~builds[b].cancelled
      <3>1. /\ b = current /\ b # 0 /\ builds[b].stage = "made"
            /\ phase = "landing" /\ ~shownFailed /\ builds[b].mode = shown
        BY <2>4 DEF Settle, LandingInv, HeroInv, Accounted, Made
      <3>2. engineRef = 0
        BY <3>1 DEF LandingInv, HeroInv, Accounted
      <3>3. engineRef' = b /\ builds'[b].mode = shown
        BY <2>0, <2>4, <3>1 DEF Settle, Build
      <3> QED BY <1>0, <2>0, <3>1, <3>2, <3>3 DEF Engine!Next, Engine!Start
    <2> QED BY <1>10, <2>1, <2>2, <2>3, <2>4 DEF Building
  <1>11. ASSUME NEW b \in Made, Fault(b)
         PROVE  UNCHANGED Engine!vars
    <2>1. /\ builds \in [Made -> Build]
          /\ UNCHANGED <<phase, shown, shownFailed, engineRef>>
      BY <1>11 DEF LandingInv, HeroInv, HeroTypeOK, Fault, Elsewhere, Throw, LoseContext
    <2>2. \A o \in Made : builds'[o].mode = builds[o].mode
      BY <2>1, <1>11 DEF Fault, Throw, LoseContext, Build
    <2> QED BY <2>1, <2>2, <1>a
  <1>12. ASSUME NEW b \in Made, Draw(b)
         PROVE  UNCHANGED Engine!vars
    BY <1>12, <1>a DEF Draw, Frame, motion
  <1>13. CASE UNCHANGED vars
    BY <1>13, <1>a DEF vars, motion, hero
  <1> QED
    BY <1>1, <1>2, <1>3, <1>4, <1>5, <1>6, <1>7, <1>8, <1>9, <1>10, <1>11, <1>12, <1>13
    DEF Next

\* The page holds at most one engine, made for the mode it shows, and lets it
\* go whenever it shows something else: Landing implements OneEngine.
THEOREM ImplementsOneEngine == Spec => OneEngineSafe
  BY AbstractInit, AbstractStep, LandingIsSound, PTL DEF Spec, OneEngineSafe, Engine!SafeSpec

=============================================================================
