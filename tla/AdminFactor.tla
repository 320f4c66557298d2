---------------------------- MODULE AdminFactor ----------------------------
(***************************************************************************)
(* The second factor of the password login: the one admin row, setup and   *)
(* confirm of the factor, the password login and its second step, and the  *)
(* limiter that second step and confirm share (backend/app/auth/router.py, *)
(* totp.py, bootstrap.py).                                                 *)
(*                                                                         *)
(* Every handler reads the admin row in one transaction and acts on what   *)
(* it read in a later one, and handlers run in threads, so each action is  *)
(* one transaction or one call of the limiter.  _start_session, which the  *)
(* module Sessions takes apart, is one step here.                          *)
(*                                                                         *)
(* A secret is a number handed out in order, a code is the number of the   *)
(* secret it was made for, and 0 stands for a code made for none.          *)
(***************************************************************************)
EXTENDS Naturals, FiniteSets

CONSTANTS
    Requests,       \* requests that can be under way at the same time
    Clients,        \* what limit_key tells apart
    ClientOf,       \* the client each request comes from
    Keys,           \* values TOTP_ENC_KEY can have
    NoKey,          \* TOTP_ENC_KEY is missing or is no key
    MaxAttempts,    \* max_attempts of totp_limiter
    MaxRequests,    \* bound: how many requests a behaviour makes
    MaxStarts       \* bound: how often the process starts

ASSUME AdminFactorAssumption ==
    /\ IsFiniteSet(Requests)
    /\ ClientOf \in [Requests -> Clients]
    /\ NoKey \notin Keys
    /\ MaxAttempts \in Nat /\ MaxRequests \in Nat /\ MaxStarts \in Nat

VARIABLES
    admin,      \* the row of access.admin
    key,        \* TOTP_ENC_KEY of the running process
    sess,       \* the sessions with a password login
    hits,       \* totp_limiter: attempts in the window of each client
    req,        \* the requests under way
    made,       \* secrets generated so far
    opened,     \* sessions opened so far
    enabledOnce,  \* history: the secrets that have been enabled
    wrong,      \* history: wrong codes among the attempts hits counts
    begun, started  \* for the bounds

vars == <<admin, key, sess, hits, req, made, opened, enabledOnce, wrong,
          begun, started>>

-----------------------------------------------------------------------------
Ops == {"setup", "confirm", "login", "login_totp"}

NoSecret == [n |-> 0, key |-> NoKey]
Secret   == [n : Nat, key : Keys \cup {NoKey}]
Admin    == [present : BOOLEAN, secret : Secret, enabled : BOOLEAN]
NoAdmin  == [present |-> FALSE, secret |-> NoSecret, enabled |-> FALSE]

\* A session with an old admin login. History: the code that was checked for
\* it (0 for none), and whether the factor was off at some moment since the
\* request that made it began.
Session == [state : {"pending", "done"}, code : Nat, off : BOOLEAN]

Request ==
    [pc : {"idle", "load", "hit", "read", "check", "write", "start"},
     op : Ops,
     sid : Nat,             \* the session it came with, 0 for none
     code : Nat,            \* the code in the body
     read : Admin,          \* the admin row as it was read
     off : BOOLEAN,         \* history: the factor was off since it began
     counted : BOOLEAN]     \* history: hits still counts its attempt

NoRequest == [pc |-> "idle", op |-> "login", sid |-> 0, code |-> 0,
              read |-> NoAdmin, off |-> FALSE, counted |-> FALSE]

Live == DOMAIN sess

Goto(r, q) == req' = [req EXCEPT ![r] = q]

First(op) == CASE op = "login_totp" -> "load" [] op = "confirm" -> "hit" [] OTHER -> "read"

\* A request that passed the checks in front of its handler. Setup and confirm
\* come from an admin, by whichever login. Wrong passwords do not arrive.
Begin(r, op) ==
    /\ req[r].pc = "idle"
    /\ started > 0
    /\ begun < MaxRequests
    /\ begun' = begun + 1
    /\ \E code \in IF op \in {"confirm", "login_totp"} THEN 0 .. made ELSE {0},
          sid \in IF op \in {"login", "login_totp"} THEN Live \cup {0} ELSE {0} :
            Goto(r, [NoRequest EXCEPT !.pc = First(op), !.op = op, !.code = code,
                                      !.sid = sid, !.off = ~admin.enabled])
    /\ UNCHANGED <<admin, key, sess, hits, made, opened, enabledOnce, wrong, started>>

\* login_totp: current() and the check that a second factor is waited for.
Load(r) ==
    LET q == req[r] IN
    /\ q.pc = "load"
    /\ Goto(r, IF q.sid \in Live /\ sess[q.sid].state = "pending"
               THEN [q EXCEPT !.pc = "hit"] ELSE NoRequest)
    /\ UNCHANGED <<admin, key, sess, hits, made, opened, enabledOnce, wrong, begun, started>>

\* Variant: confirm does not share the limiter.
HitUnshared(r) ==
    LET q == req[r]
        c == ClientOf[r]
    IN
    /\ q.pc = "hit"
    /\ hits' = [hits EXCEPT ![c] = IF @ > MaxAttempts \/ q.op = "confirm" THEN @ ELSE @ + 1]
    /\ Goto(r, IF hits[c] < MaxAttempts \/ q.op = "confirm"
               THEN [q EXCEPT !.pc = "read", !.counted = TRUE] ELSE NoRequest)
    /\ UNCHANGED <<admin, key, sess, made, opened, enabledOnce, wrong, begun, started>>

\* totp_limiter.hit. What is past the limit is counted as one past it.
Hit(r) ==
    LET q == req[r]
        c == ClientOf[r]
    IN
    /\ q.pc = "hit"
    /\ hits' = [hits EXCEPT ![c] = IF @ > MaxAttempts THEN @ ELSE @ + 1]
    /\ Goto(r, IF hits[c] < MaxAttempts THEN [q EXCEPT !.pc = "read", !.counted = TRUE]
                                        ELSE NoRequest)
    /\ UNCHANGED <<admin, key, sess, made, opened, enabledOnce, wrong, begun, started>>

\* Variants of MayGoOn: confirm takes any row, the second step any secret.
MayGoOnAlways(op, a) == op # "setup" \/ ~a.enabled
MayGoOnUnconfirmed(op, a) ==
    CASE op = "setup" -> ~a.enabled
      [] op = "login" -> a.present
      [] OTHER -> a.present /\ a.secret # NoSecret

\* The early returns after the select of the admin row.
MayGoOn(op, a) ==
    CASE op = "setup" -> ~a.enabled
      [] op = "confirm" -> a.present /\ a.secret # NoSecret
      [] op = "login" -> a.present
      [] op = "login_totp" -> a.present /\ a.enabled /\ a.secret # NoSecret

AfterRead(op) == CASE op = "setup" -> "write" [] op = "login" -> "start" [] OTHER -> "check"

\* The select of the admin row. A setup that goes on also needs the key to
\* encrypt with (500 without it).
Read(r) ==
    LET q == req[r] IN
    /\ q.pc = "read"
    /\ Goto(r, IF MayGoOn(q.op, admin) /\ (q.op = "setup" => key # NoKey)
               THEN [q EXCEPT !.pc = AfterRead(q.op), !.read = admin]
               ELSE NoRequest)
    /\ UNCHANGED <<admin, key, sess, hits, made, opened, enabledOnce, wrong, begun, started>>

\* A new window, or a reset: the attempts counted so far are forgotten.
Forgotten(c, others) ==
    [r \in Requests |-> IF ClientOf[r] = c THEN [others[r] EXCEPT !.counted = FALSE]
                                           ELSE others[r]]

\* The code is verified. A secret that cannot be decrypted is a 500; a right
\* code resets the limiter.
Check(r) ==
    LET q == req[r]
        c == ClientOf[r]
    IN
    /\ q.pc = "check"
    /\ \/ /\ q.read.secret.key # key
          /\ Goto(r, NoRequest)
          /\ UNCHANGED <<hits, wrong>>
       \/ /\ q.read.secret.key = key /\ q.code # q.read.secret.n
          /\ wrong' = [wrong EXCEPT ![c] = IF q.counted THEN @ + 1 ELSE @]
          /\ Goto(r, NoRequest)
          /\ UNCHANGED hits
       \/ /\ q.read.secret.key = key /\ q.code = q.read.secret.n
          /\ hits' = [hits EXCEPT ![c] = 0]
          /\ wrong' = [wrong EXCEPT ![c] = 0]
          /\ req' = Forgotten(c, [req EXCEPT ![r].pc =
                                    IF q.op = "confirm" THEN "write" ELSE "start"])
    /\ UNCHANGED <<admin, key, sess, made, opened, enabledOnce, begun, started>>

\* Variant: setup stores the secret in the clear.
SetUpPlain(a) == [a EXCEPT !.secret = [n |-> made + 1, key |-> "clear"], !.enabled = FALSE]

\* The update of totp_setup.
SetUp(a) == [a EXCEPT !.secret = [n |-> made + 1, key |-> key], !.enabled = FALSE]

WriteSetup(r) ==
    LET q == req[r] IN
    /\ q.pc = "write" /\ q.op = "setup"
    /\ made' = made + 1
    /\ admin' = IF admin.present THEN SetUp(admin) ELSE admin
    /\ req' = [o \in Requests |-> IF o = r THEN NoRequest
                                  ELSE [req[o] EXCEPT !.off = @ \/ req[o].pc # "idle"]]
    /\ UNCHANGED <<key, sess, hits, opened, enabledOnce, wrong, begun, started>>

\* The update of totp_confirm.
WriteConfirm(r) ==
    LET q == req[r] IN
    /\ q.pc = "write" /\ q.op = "confirm"
    /\ admin' = [admin EXCEPT !.enabled = TRUE]
    /\ enabledOnce' = enabledOnce \cup {admin.secret.n}
    /\ Goto(r, NoRequest)
    /\ UNCHANGED <<key, sess, hits, made, opened, wrong, begun, started>>

\* What the password login leaves for the second step, and what is done.
StateFor(q) == IF q.op = "login" /\ q.read.enabled THEN "pending" ELSE "done"

\* _start_session: the session the request came with ends, a new one holds the
\* login.
Start(r) ==
    LET q == req[r]
        new == opened + 1
    IN
    /\ q.pc = "start"
    /\ opened' = new
    /\ sess' = [s \in (Live \ {q.sid}) \cup {new} |->
                  IF s = new THEN [state |-> StateFor(q), off |-> q.off,
                                   code |-> IF q.op = "login" THEN 0 ELSE q.code]
                             ELSE sess[s]]
    /\ Goto(r, NoRequest)
    /\ UNCHANGED <<admin, key, hits, made, enabledOnce, wrong, begun, started>>

-----------------------------------------------------------------------------
(* What is not a step of one of these handlers.                             *)

\* A session ends: a logout, an idle session, a login through authentik.
End(s) ==
    /\ sess' = [o \in Live \ {s} |-> sess[o]]
    /\ UNCHANGED <<admin, key, hits, req, made, opened, enabledOnce, wrong, begun, started>>

\* The window of a client is over, the next hit starts another.
WindowOver(c) ==
    /\ hits[c] > 0
    /\ hits' = [hits EXCEPT ![c] = 0]
    /\ wrong' = [wrong EXCEPT ![c] = 0]
    /\ req' = Forgotten(c, req)
    /\ UNCHANGED <<admin, key, sess, made, opened, enabledOnce, begun, started>>

\* A request fails or its process stops between two transactions.
Abort(r) ==
    /\ req[r].pc # "idle"
    /\ Goto(r, NoRequest)
    /\ UNCHANGED <<admin, key, sess, hits, made, opened, enabledOnce, wrong, begun, started>>

\* The process starts, perhaps with another key: the limiter is empty, and
\* ensure_admin makes the row if there is none and a password is configured.
StartUp ==
    /\ started < MaxStarts
    /\ started' = started + 1
    /\ \E k \in Keys \cup {NoKey}, password \in BOOLEAN :
        /\ key' = k
        /\ admin' = [admin EXCEPT !.present = @ \/ password]
    /\ hits' = [c \in Clients |-> 0]
    /\ wrong' = [c \in Clients |-> 0]
    /\ req' = [r \in Requests |-> NoRequest]
    /\ UNCHANGED <<sess, made, opened, enabledOnce, begun>>

Init ==
    /\ admin = NoAdmin /\ key = NoKey
    /\ sess = [s \in {} |-> [state |-> "done", code |-> 0, off |-> FALSE]]
    /\ hits = [c \in Clients |-> 0] /\ wrong = [c \in Clients |-> 0]
    /\ req = [r \in Requests |-> NoRequest]
    /\ made = 0 /\ opened = 0 /\ enabledOnce = {}
    /\ begun = 0 /\ started = 0

Handler(r) ==
    \/ Load(r) \/ Hit(r) \/ Read(r) \/ Check(r)
    \/ WriteSetup(r) \/ WriteConfirm(r) \/ Start(r)

Next ==
    \/ \E r \in Requests :
        \/ \E op \in Ops : Begin(r, op)
        \/ Handler(r) \/ Abort(r)
    \/ \E s \in Live : End(s)
    \/ \E c \in Clients : WindowOver(c)
    \/ StartUp

Spec == Init /\ [][Next]_vars

-----------------------------------------------------------------------------
(* Properties.                                                              *)

\* Every variable has its type.
TypeOK ==
    /\ admin \in Admin
    /\ key \in Keys \cup {NoKey}
    /\ sess \in [Live -> Session] /\ Live \subseteq 1 .. opened
    /\ hits \in [Clients -> Nat] /\ wrong \in [Clients -> Nat]
    /\ req \in [Requests -> Request]
    /\ made \in Nat /\ opened \in Nat /\ begun \in Nat /\ started \in Nat
    /\ enabledOnce \subseteq Nat

\* "With the second factor enabled a correct password [...] grants no admin
\* rights until the TOTP step succeeds" (auth/router.py, login): however setup,
\* confirm and logins overlap, a session with full rights comes from a request
\* during which the factor was off, or from a code of a secret that was
\* enabled, never of one that was only set up.
FactorNotBypassed ==
    \A s \in Live : sess[s].state = "done" =>
        IF sess[s].code = 0 THEN sess[s].off ELSE sess[s].code \in enabledOnce

\* The factor is never on without a secret, which would leave every login stuck
\* between its two steps ("Second factor is not active"), although the confirm
\* that enables it checked the secret one transaction earlier.
EnabledHasSecret == admin.enabled => admin.present /\ admin.secret.n \in 1 .. made

\* "The same limiter covers the login code step and the setup confirmation"
\* (ratelimit.py): the wrong codes of one window, of both routes and of
\* requests that overlap, are no more than the limit.
WrongCodesBounded == \A c \in Clients : wrong[c] <= MaxAttempts

\* "Setup is refused once the factor is active, so a stray call cannot
\* silently disable a working second factor" (auth/router.py, totp_setup).
FactorStaysOn == [][admin.enabled => admin'.enabled]_vars

\* "Enable the second factor once a code proves the secret was stored"
\* (auth/router.py, totp_confirm): the secret that becomes active is the one
\* the code was checked against.
EnabledSecretIsProven ==
    [][\A r \in Requests :
        req[r].op = "confirm" /\ req[r].pc = "write" /\ ~admin.enabled /\ admin'.enabled
            => admin.secret = req[r].read.secret]_vars

=============================================================================
