------------------------------- MODULE Motion -------------------------------
(***************************************************************************)
(* The motion setting of the site as one tab sees it (lib/motion.ts,       *)
(* lib/useMotionMode.ts, components/MotionToggle.tsx).                     *)
(*                                                                         *)
(* The mode is resolved from the choice in the local storage, which all    *)
(* tabs share, and from two media queries, and kept in the data-motion     *)
(* attribute of the page.  The head script sets the attribute before the   *)
(* first paint; the landing page shows the mode it read there last, and    *)
(* resolves it again when it is told of a change.  A tab knows of the      *)
(* others only through the storage and its events, so one tab stands for   *)
(* each and the others are writers of the storage.                         *)
(*                                                                         *)
(* Pages other than the landing do not read the mode and do not listen.    *)
(***************************************************************************)
EXTENDS Naturals, Sequences

CONSTANTS
    None,           \* no stored choice
    Queries,        \* the media queries: less motion, a compact device
    MaxEvents       \* bound: what visitor, other tabs, system and GPU do

ASSUME MotionAssumption ==
    /\ None \notin {"full", "reduced"}
    /\ MaxEvents \in Nat

VARIABLES
    stored,     \* local storage: the choice
    system,     \* the media queries that match
    visible,    \* the tab is not in the background
    phase,      \* where the tab is; "loading" is the landing before hydration
    attr,       \* data-motion
    shown,      \* the mode the landing is rendered with
    seen,       \* what the queries matched when they were last reported
    mail,       \* storage events under way, by the choice they tell of
    unsaved,    \* history: a choice applied that could not be stored, or None
    missed,     \* history: something changed that the page was not told of
    events      \* for the bound

motion == <<stored, system, visible, phase, attr, shown, seen, mail, unsaved, missed,
            events>>

-----------------------------------------------------------------------------
Modes   == {"full", "reduced"}
Choices == Modes \cup {None}
Phases  == {"closed", "loading", "landing", "elsewhere"}

\* resolveMotion: the choice, then the system, then the device.
Resolve(choice, sys) ==
    IF choice # None THEN choice ELSE IF sys = {} THEN "full" ELSE "reduced"

\* Variant: the stored choice is taken as it is.
SettingUnresolved == stored

\* What the page should be, and what the head script and a choice of another
\* tab set.
Setting == Resolve(stored, system)

\* Something the page is not master of happens.
Event == events < MaxEvents /\ events' = events + 1

\* The page is opened, on the landing or elsewhere: the head script.
Load(p) ==
    /\ phase = "closed"
    /\ p \in {"loading", "elsewhere"}
    /\ phase' = p
    /\ attr' = Setting
    /\ UNCHANGED <<stored, system, visible, shown, seen, mail, unsaved, missed, events>>

\* React takes over the markup of the server, whose snapshot is "full", and
\* subscribes.
Hydrate ==
    /\ phase = "loading"
    /\ phase' = "landing"
    /\ shown' = "full"
    /\ seen' = system
    /\ UNCHANGED <<stored, system, visible, attr, mail, unsaved, missed, events>>

\* The landing is reached by a link of the site: nothing resolves the mode.
Enter ==
    /\ phase = "elsewhere"
    /\ Event
    /\ phase' = "landing"
    /\ shown' = attr
    /\ seen' = system
    /\ UNCHANGED <<stored, system, visible, attr, mail, unsaved, missed>>

\* A link of the landing: the subscriptions end, and what they had not
\* delivered is lost.
Leave ==
    /\ phase = "landing"
    /\ phase' = "elsewhere"
    /\ mail' = <<>>
    /\ missed' = (missed \/ mail # <<>> \/ seen # system)
    /\ UNCHANGED <<stored, system, visible, attr, shown, seen, unsaved, events>>

\* React renders again with the attribute as it is now.
Render ==
    /\ phase = "landing"
    /\ shown' = attr
    /\ UNCHANGED <<stored, system, visible, phase, attr, seen, mail, unsaved, missed, events>>

\* setMotionChoice, by the switch. The write of the storage may fail; the
\* other subscribers of the page are told at once.
Choose(m, saved) ==
    /\ phase = "landing"
    /\ Event
    /\ stored' = IF saved THEN m ELSE stored
    /\ unsaved' = IF saved THEN None ELSE m
    /\ attr' = Resolve(m, system)
    /\ missed' = (missed /\ ~saved)
    /\ UNCHANGED <<system, visible, phase, shown, seen, mail>>

\* Another tab stores a choice or the storage is cleared. An event tells the
\* tabs that listen, if the value is another one.
OtherTab(c) ==
    /\ phase # "closed"
    /\ c # stored
    /\ Event
    /\ stored' = c
    /\ mail' = IF phase = "landing" THEN Append(mail, c) ELSE mail
    /\ missed' = (missed \/ phase \in {"loading", "elsewhere"})
    /\ UNCHANGED <<system, visible, phase, attr, shown, seen, unsaved>>

\* Variant: the choice the event tells of is taken, not the one in the storage.
StorageEventOfItsTime ==
    /\ phase = "landing" /\ mail # <<>>
    /\ attr' = Resolve(Head(mail), system)
    /\ mail' = Tail(mail)
    /\ unsaved' = None
    /\ missed' = (stored = None /\ seen # system)
    /\ UNCHANGED <<stored, system, visible, phase, shown, seen, events>>

\* onStorage: syncMotionFromStorage reads the storage again.
StorageEvent ==
    /\ phase = "landing" /\ mail # <<>>
    /\ attr' = Setting
    /\ mail' = Tail(mail)
    /\ unsaved' = None
    /\ missed' = (stored = None /\ seen # system)
    /\ UNCHANGED <<stored, system, visible, phase, shown, seen, events>>

\* The system setting or the size of the window changes.
SystemChanges(q) ==
    /\ phase # "closed"
    /\ Event
    /\ system' = IF q \in system THEN system \ {q} ELSE system \cup {q}
    /\ missed' = (missed \/ phase \in {"loading", "elsewhere"})
    /\ UNCHANGED <<stored, visible, phase, attr, shown, seen, mail, unsaved>>

\* Variant: the page is told, but the attribute stays.
SystemEventUnsynced ==
    /\ phase = "landing" /\ visible /\ seen # system
    /\ seen' = system
    /\ UNCHANGED <<stored, system, visible, phase, attr, shown, mail, unsaved, missed, events>>

\* onSystem: the queries are reported when a visible tab is drawn, and
\* syncMotionFromSystem resolves the mode unless a choice is stored.
SystemEvent ==
    /\ phase = "landing" /\ visible /\ seen # system
    /\ seen' = system
    /\ IF stored # None
       THEN UNCHANGED <<attr, unsaved, missed>>
       ELSE /\ attr' = Resolve(None, system)
            /\ unsaved' = None
            /\ missed' = FALSE
    /\ UNCHANGED <<stored, system, visible, phase, shown, mail, events>>

\* The tab goes to the background or comes back.
Turn(v) ==
    /\ phase # "closed"
    /\ visible # v
    /\ visible' = v
    /\ IF v THEN UNCHANGED events ELSE Event
    /\ UNCHANGED <<stored, system, phase, attr, shown, seen, mail, unsaved, missed>>

\* Something happens outside of the setting.
Elsewhere ==
    /\ Event
    /\ UNCHANGED <<stored, system, visible, phase, attr, shown, seen, mail, unsaved, missed>>

MotionInit ==
    /\ stored \in Choices
    /\ system \in SUBSET Queries
    /\ visible \in BOOLEAN
    /\ phase = "closed"
    /\ attr = "full" /\ shown = "full"
    /\ seen = {}
    /\ mail = <<>>
    /\ unsaved = None /\ missed = FALSE
    /\ events = 0

MotionTypeOK ==
    /\ stored \in Choices /\ system \subseteq Queries /\ seen \subseteq Queries
    /\ visible \in BOOLEAN /\ phase \in Phases
    /\ attr \in Modes /\ shown \in Modes
    /\ mail \in Seq(Choices)
    /\ unsaved \in Choices /\ missed \in BOOLEAN
    /\ events \in Nat

=============================================================================
