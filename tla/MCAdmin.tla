------------------------------ MODULE MCAdmin -------------------------------
(* The instance of Admin for TLC: one category with one technology, a       *)
(* profile without and one with its optional parts, half an address among   *)
(* them.                                                                     *)
EXTENDS Admin

MCDrafts == {[link |-> "", street |-> "", city |-> "x"]}

MCStarts == {[profile |-> [link |-> None, address |-> None],
              factor |-> "no", session |-> TRUE],
             [profile |-> [link |-> "x", address |-> [street |-> "x", city |-> ""]],
              factor |-> "yes", session |-> FALSE]}

MCSkills == <<R(1, "category", 0), R(2, "technology", 1)>>

=============================================================================
