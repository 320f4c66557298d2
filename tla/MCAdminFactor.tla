--------------------------- MODULE MCAdminFactor ---------------------------
(* Instances of AdminFactor for TLC.                                        *)
EXTENDS AdminFactor, TLC

CONSTANTS r1, r2, c1, k1, k2

\* Two requests of one client, which share its attempts.
MCRequests == {r1, r2}
MCClients == {c1}
MCClientOf == [r \in MCRequests |-> c1]
MCKeys == {k1}
Same == Permutations({r1, r2})

=============================================================================
