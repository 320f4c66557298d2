----------------------------- MODULE OneEngine ------------------------------
(***************************************************************************)
(* What the landing promises of its engine, whatever is built, cancelled   *)
(* and thrown away behind it: the page is away, shows one of its two modes *)
(* or the fallback without WebGL; it holds at most one engine, made for    *)
(* the mode it shows; and a mode does not stay without its engine.         *)
(***************************************************************************)
CONSTANT Modes

VARIABLES
    show,       \* "away", a mode, or "fallback"
    engine      \* the mode the engine was made for, or "none"

vars == <<show, engine>>

Shows == Modes \cup {"away", "fallback"}

Init == show = "away" /\ engine = "none"

\* The page changes, and its engine goes with the old one.
Turn(s) ==
    /\ show # s
    /\ show' = s
    /\ engine' = "none"

\* The engine of the mode is there.
Start ==
    /\ show \in Modes
    /\ engine = "none"
    /\ engine' = show
    /\ UNCHANGED show

Next == Start \/ \E s \in Shows : Turn(s)

SafeSpec == Init /\ [][Next]_vars

\* A mode gets its engine, or is left.
Served == \A m \in Modes : (show = m /\ engine = "none") ~> (engine = m \/ show # m)

Spec == SafeSpec /\ Served

=============================================================================
