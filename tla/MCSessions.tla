----------------------------- MODULE MCSessions -----------------------------
(* Instances of Sessions for TLC.                                           *)
EXTENDS Sessions, TLC

CONSTANTS b1, r1, r2, l1, l2

\* Both requests come from the same browser: two tabs of it.
MCBrowsers == {b1}
MCRequests == {r1, r2}
MCBrowserOf == [r \in MCRequests |-> b1]
MCLinks == {l1}
TwoLinks == {l1, l2}
Tabs == Permutations({r1, r2})
TabsAndLinks == Permutations({r1, r2}) \cup Permutations({l1, l2})

\* One request at a time, for the run that is about lifetimes.
OneRequest == {r1}
OneBrowserOf == [r \in OneRequest |-> b1]

\* The routes of the login through authentik and of the password login, with
\* the redeem for the recruiter part they must leave alone.
LifetimeOps == {"oidc_login", "callback", "login", "redeem", "visit"}

RedeemAndLogin == {"login", "redeem"}

RecruiterOps == {"redeem", "visit", "logout", "login"}

LoginOps == {"oidc_login", "callback", "oidc_logout", "login", "login_totp"}

=============================================================================
