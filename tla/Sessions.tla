------------------------------ MODULE Sessions ------------------------------
(***************************************************************************)
(* The server-side sessions of the backend and every handler that changes  *)
(* them: the password login and its second step, the login through         *)
(* authentik with its callback and logout, the redeem of a recruiter link, *)
(* the gated reads, the plain logout and the hourly clean-up.              *)
(*                                                                         *)
(* A handler runs in a thread of its own and is a sequence of database     *)
(* transactions, so requests interleave between any two of them.  Each     *)
(* action below is one transaction (or one statement of one, where another *)
(* request can get in between), followed by what the handler decides from  *)
(* it before the next.  A request is a record that carries its program     *)
(* counter and the handler's local state.                                  *)
(*                                                                         *)
(* Random values (session ids, tokens, login states) are numbers handed    *)
(* out in order: a fresh one differs from all before it and may be         *)
(* compared with them.  token_hash and csrf_token are always replaced      *)
(* together, so one number stands for both.                                *)
(***************************************************************************)
EXTENDS Naturals

CONSTANTS
    Browsers,       \* cookie jars
    Requests,       \* requests that can be under way at the same time
    BrowserOf,      \* the browser each of them comes from
    Links,          \* recruiter links
    NoLink,
    Ops,            \* the routes this instance serves
    RedeemForwardsCookie,  \* whether /r/[token] passes the browser's cookie on
    Idle, FlowLife, LoginLife, AccessLife,  \* the lifetimes, in ticks
    MaxRequests,    \* bound: how many requests a behaviour makes
    MaxClock        \* bound: how far the clock goes

AllOps == {"visit", "redeem", "login", "login_totp", "logout",
           "oidc_login", "callback", "oidc_logout"}

Roles == {"admin", "hub"}

\* Variant with a bug: the groups are stored as they come.
RoleSetsUnmapped == {{}, {"friends"}, {"wediga-admins", "friends"}}

\* What roles_for makes of a list of groups: wediga-admins gives both roles,
\* friends only the hub, anything else none.
RoleSets == {{}, {"hub"}, {"admin", "hub"}}

ASSUME SessionsAssumption ==
    /\ BrowserOf \in [Requests -> Browsers]
    /\ NoLink \notin Links
    /\ Ops \subseteq AllOps
    /\ RedeemForwardsCookie \in BOOLEAN
    /\ Idle \in Nat /\ FlowLife \in Nat /\ LoginLife \in Nat /\ AccessLife \in Nat
    /\ MaxRequests \in Nat /\ MaxClock \in Nat

VARIABLES
    clock,      \* now()
    db,         \* access.session with the parts of each row, by session id
    links,      \* state of each recruiter link
    views,      \* rows of link_view, per link
    cookie,     \* the session cookie each browser holds, 0 for none
    req,        \* the requests under way
    issued,     \* tokens handed out so far
    made,       \* session rows made so far
    states,     \* login states handed out so far
    accepted,   \* history: the login states a callback has accepted
    begun       \* requests begun so far, for the bound

vars == <<clock, db, links, views, cookie, req, issued, made, states,
          accepted, begun>>

-----------------------------------------------------------------------------
(* The rows. A part that is absent is the record with 0, or NoLink.         *)

NoLogin  == [before |-> 0, at |-> 0, roles |-> {}]
NoFlow   == [state |-> 0, at |-> 0]
NoAccess == [link |-> NoLink, at |-> 0]

\* AuthentikLogin with its roles. "before" is history: the newest token handed
\* out when the callback that made this login dropped the earlier ones.
Login  == [before : Nat, at : Nat, roles : SUBSET Roles]
Flow   == [state : Nat, at : Nat]
Access == [link : Links \cup {NoLink}, at : Nat]

Row == [token : Nat, created : Nat, seen : Nat, login : Login, flow : Flow,
        legacy : {"none", "pending", "done"}, access : Access]

NewRow(t) == [token |-> t, created |-> clock, seen |-> clock,
              login |-> NoLogin, flow |-> NoFlow, legacy |-> "none",
              access |-> NoAccess]

Live == DOMAIN db

\* Every row but s, as DELETE FROM access.session leaves it (parts cascade).
Without(s) == [i \in Live \ {s} |-> db[i]]

With(s, row) == [i \in Live \cup {s} |-> IF i = s THEN row ELSE db[i]]

Expired(began, life, moment) == began + life <= moment

\* What _load reads of a row at a moment.
RolesAt(row, m)   == IF Expired(row.login.at, LoginLife, m) THEN {} ELSE row.login.roles
LegacyAt(row, m)  == IF Expired(row.created, LoginLife, m) THEN "none" ELSE row.legacy
LinkAt(row, m)    == IF Expired(row.access.at, AccessLife, m) THEN NoLink ELSE row.access.link
IsAdmin(row, m)   == LegacyAt(row, m) = "done" \/ "admin" \in RolesAt(row, m)

\* The row the select of _load matches.
Matches(s, t, m) == t # 0 /\ db[s].token = t /\ ~Expired(db[s].seen, Idle, m)

-----------------------------------------------------------------------------
(* The requests.                                                            *)

PCs == {"idle", "load", "parts", "gate", "dropAccess", "validate", "renew",
        "renewSet", "grant", "view", "end", "insertLegacy", "dropFlow",
        "insertFlow", "takeFlow", "exchange", "dropLogins", "record", "answer"}

Request ==
    [pc : PCs, next : PCs,   \* the step to take, and the one after _load
     op : AllOps,
     cookie : Nat,           \* the cookie it came with
     param : Nat,            \* its state parameter or its CSRF header
     link : Links \cup {NoLink},
     done : BOOLEAN,         \* the password login: no second factor is asked
     roles : SUBSET Roles,   \* what authentik's groups gave
     moment : Nat,           \* now() of the _load under way
     known : Nat,            \* the session current() remembers, 0 for none
     sid : Nat,              \* the session id renew() or ensure() returned
     before : Nat,           \* history: the newest token at _drop_logins
     new : Nat,              \* the token to send as the new cookie
     clear : BOOLEAN]        \* the order to remove the cookie

NoRequest ==
    [pc |-> "idle", next |-> "idle", op |-> "visit", cookie |-> 0, param |-> 0,
     link |-> NoLink, done |-> FALSE, roles |-> {}, moment |-> 0, known |-> 0,
     sid |-> 0, before |-> 0, new |-> 0, clear |-> FALSE]

Goto(r, q) == req' = [req EXCEPT ![r] = q]

\* The handler has its answer: all that is left of it is what the middleware
\* does to the cookie.
Answered(q) == [NoRequest EXCEPT !.pc = "answer", !.op = q.op,
                                 !.new = q.new, !.clear = q.clear]

Continue(q, pc) == IF pc = "answer" THEN Answered(q) ELSE [q EXCEPT !.pc = pc]

\* The redeem route of the frontend passes cookies on only with a success.
Refused(q) ==
    Answered(IF q.op = "redeem" /\ ~RedeemForwardsCookie
             THEN [q EXCEPT !.new = 0] ELSE q)

\* The first step after the first current() of each handler.
First(op) ==
    CASE op = "visit" -> "gate"
      [] op = "redeem" -> "renew"
      [] op \in {"login", "login_totp", "logout"} -> "end"
      [] op = "oidc_login" -> "dropFlow"
      [] op = "callback" -> "takeFlow"
      [] op = "oidc_logout" -> "dropLogins"

Params(r, op) ==
    CASE op = "callback" -> 0 .. states
      [] op = "oidc_logout" -> {0, cookie[BrowserOf[r]]}
      [] OTHER -> {0}

\* Variant: the route of the link passes the cookie on.
CookieForEvery(r, op) == cookie[BrowserOf[r]]

\* The cookie the backend sees. The route handler of /r/[token] calls the
\* redeem route without the browser's cookie.
CookieFor(r, op) ==
    IF op = "redeem" /\ ~RedeemForwardsCookie THEN 0 ELSE cookie[BrowserOf[r]]

\* A request arrives with the cookie its browser holds now. The checks that
\* come before any session is read and end the request at once (rate limit,
\* wrong password, unknown link, authentik not reachable) are requests that
\* do not arrive; a right password arrives with the value of totp_enabled
\* that was read before it was verified.
Begin(r, op) ==
    /\ req[r].pc = "idle"
    /\ begun < MaxRequests
    /\ begun' = begun + 1
    /\ \E param \in Params(r, op),
          link \in IF op = "redeem" THEN Links ELSE {NoLink},
          done \in IF op = "login" THEN BOOLEAN ELSE {op = "login_totp"} :
            Goto(r, [NoRequest EXCEPT
                !.pc = IF op = "redeem" THEN "validate" ELSE "load",
                !.next = First(op), !.op = op, !.param = param,
                !.link = link, !.done = done,
                !.cookie = CookieFor(r, op)])
    /\ UNCHANGED <<clock, db, links, views, cookie, issued, made, states, accepted>>

\* validate_token, the first transaction of redeem.
Validate(r) ==
    LET q == req[r] IN
    /\ q.pc = "validate"
    /\ Goto(r, Continue(q, IF links[q.link] = "ok" THEN "load" ELSE "answer"))
    /\ UNCHANGED <<clock, db, links, views, cookie, issued, made, states, accepted, begun>>

\* Where a handler goes when current() returns None ...
WithoutSession(q) ==
    CASE q.next = "renew" -> "renew"
      [] q.next = "end" /\ q.op # "login_totp" -> "end"
      [] q.next = "dropFlow" -> IF q.new = 0 THEN "renew" ELSE "insertFlow"
      [] OTHER -> "answer"

\* ... and when it returns the session in this row. The second step of the
\* password login also depends on the code.
WithSession(q, row) ==
    CASE q.op = "visit" ->
           {IF IsAdmin(row, q.moment) \/ LinkAt(row, q.moment) = NoLink
            THEN "answer" ELSE "gate"}
      [] q.op = "login_totp" ->
           IF LegacyAt(row, q.moment) = "pending" THEN {"end", "answer"} ELSE {"answer"}
      [] q.op = "oidc_logout" /\ q.next = "dropLogins" ->
           {IF q.param = q.cookie THEN "dropLogins" ELSE "answer"}
      [] OTHER -> {q.next}

\* _load, its select of the session row.
LoadRow(r) ==
    LET q == req[r]
        t == IF q.new # 0 THEN q.new ELSE q.cookie
    IN
    /\ q.pc = "load"
    /\ \/ \E s \in Live :
            /\ Matches(s, t, clock)
            /\ Goto(r, [q EXCEPT !.pc = "parts", !.known = s, !.moment = clock])
       \/ /\ \A s \in Live : ~Matches(s, t, clock)
          /\ Goto(r, Continue([q EXCEPT !.known = 0, !.clear = @ \/ t # 0],
                              WithoutSession(q)))
    /\ UNCHANGED <<clock, db, links, views, cookie, issued, made, states, accepted, begun>>

\* _load, the rest of its transaction: last_seen_at is written and the parts
\* are read. A row deleted since the select makes the write fail (500).
LoadParts(r) ==
    LET q == req[r]
        s == q.known
    IN
    /\ q.pc = "parts"
    /\ \/ /\ s \in Live
          /\ db' = [db EXCEPT ![s].seen = q.moment]
          /\ \E pc \in WithSession(q, db[s]) :
                Goto(r, Continue([q EXCEPT
                            !.moment = 0,
                            !.link = IF q.op = "visit" THEN LinkAt(db[s], q.moment) ELSE @],
                         pc))
       \/ /\ s \notin Live
          /\ Goto(r, NoRequest)
          /\ UNCHANGED db
    /\ UNCHANGED <<clock, links, views, cookie, issued, made, states, accepted, begun>>

-----------------------------------------------------------------------------
(* renew, end and the parts they lead to.                                   *)

AfterRenew(op) ==
    CASE op = "oidc_login" -> "load"
      [] op = "callback" -> "record"
      [] op = "redeem" -> "grant"
      [] op \in {"login", "login_totp"} -> "insertLegacy"
      [] OTHER -> "answer"

Renewed(q, s) ==
    Continue([q EXCEPT !.known = 0, !.sid = s, !.new = issued + 1], AfterRenew(q.op))

\* renew, up to what it finds: without a row it makes one, with one it goes on
\* to change it in the same transaction.
Renew(r) ==
    LET q == req[r] IN
    /\ q.pc = "renew"
    /\ \/ /\ q.known \in Live
          /\ Goto(r, [q EXCEPT !.pc = "renewSet"])
          /\ UNCHANGED <<db, issued, made>>
       \/ /\ q.known \notin Live
          /\ db' = With(made + 1, NewRow(issued + 1))
          /\ issued' = issued + 1
          /\ made' = made + 1
          /\ Goto(r, Renewed(q, made + 1))
    /\ UNCHANGED <<clock, links, views, cookie, states, accepted, begun>>

\* Variant with a bug: only the CSRF token of a known session is replaced.
RetokenedNot(row) == row

\* What the update of renew does to the row.
Retokened(row) == [row EXCEPT !.token = issued + 1]

\* Variant with a bug: the row is merged, so a deleted one is written again.
RenewSetMerging(r) ==
    LET q == req[r]
        row == IF q.known \in Live THEN db[q.known] ELSE NewRow(0)
    IN
    /\ q.pc = "renewSet"
    /\ db' = With(q.known, Retokened(row))
    /\ issued' = issued + 1
    /\ Goto(r, Renewed(q, q.known))
    /\ UNCHANGED <<clock, links, views, cookie, made, states, accepted, begun>>

\* The update of renew. It fails (500) when the row is gone by now.
RenewSet(r) ==
    LET q == req[r] IN
    /\ q.pc = "renewSet"
    /\ \/ /\ q.known \in Live
          /\ db' = [db EXCEPT ![q.known] = Retokened(@)]
          /\ issued' = issued + 1
          /\ Goto(r, Renewed(q, q.known))
       \/ /\ q.known \notin Live
          /\ Goto(r, NoRequest)
          /\ UNCHANGED <<db, issued>>
    /\ UNCHANGED <<clock, links, views, cookie, made, states, accepted, begun>>

\* grant_access: the link becomes the recruiter part in place of an earlier
\* one. Refused (409) when the session is gone, and also when another request
\* is granting access to the same session and its row is not yet visible.
Grant(r) ==
    LET q == req[r] IN
    /\ q.pc = "grant"
    /\ \/ /\ q.sid \in Live
          /\ db' = [db EXCEPT ![q.sid].access = [link |-> q.link, at |-> clock]]
          /\ Goto(r, [q EXCEPT !.pc = "view"])
       \/ /\ q.sid \notin Live \/ \E o \in Requests \ {r} : req[o].pc \in {"grant", "view"}
                                                        /\ req[o].sid = q.sid
          /\ Goto(r, Refused(q))
          /\ UNCHANGED db
    /\ UNCHANGED <<clock, links, views, cookie, issued, made, states, accepted, begun>>

\* record_view, the last step of redeem.
RecordView(r) ==
    LET q == req[r] IN
    /\ q.pc = "view"
    /\ views' = [views EXCEPT ![q.link] = @ + 1]
    /\ Goto(r, Answered(q))
    /\ UNCHANGED <<clock, db, links, cookie, issued, made, states, accepted, begun>>

\* Variant with a bug: the session is kept, only its token is about to change.
EndKeeping(r) ==
    LET q == req[r] IN
    /\ q.pc = "end"
    /\ Goto(r, Continue([q EXCEPT !.new = 0, !.clear = TRUE],
                        IF q.op = "logout" THEN "answer" ELSE "renew"))
    /\ UNCHANGED <<clock, db, links, views, cookie, issued, made, states, accepted, begun>>

\* end: the row goes with all its parts, and so does a token about to be sent.
End(r) ==
    LET q == req[r] IN
    /\ q.pc = "end"
    /\ db' = Without(q.known)
    /\ Goto(r, Continue([q EXCEPT !.known = 0, !.new = 0, !.clear = TRUE],
                        IF q.op = "logout" THEN "answer" ELSE "renew"))
    /\ UNCHANGED <<clock, links, views, cookie, issued, made, states, accepted, begun>>

\* The last step of _start_session: the new session gets the admin login.
InsertLegacy(r) ==
    LET q == req[r] IN
    /\ q.pc = "insertLegacy"
    /\ \/ /\ q.sid \in Live
          /\ db' = [db EXCEPT ![q.sid].legacy = IF q.done THEN "done" ELSE "pending"]
       \/ /\ q.sid \notin Live
          /\ UNCHANGED db
    /\ Goto(r, Answered(q))
    /\ UNCHANGED <<clock, links, views, cookie, issued, made, states, accepted, begun>>

\* link_is_active in the gate of the recruiter pages.
Gate(r) ==
    LET q == req[r] IN
    /\ q.pc = "gate"
    /\ Goto(r, Continue(q, IF links[q.link] = "ok" THEN "answer" ELSE "dropAccess"))
    /\ UNCHANGED <<clock, db, links, views, cookie, issued, made, states, accepted, begun>>

\* drop_parts after the gate has refused.
DropAccess(r) ==
    LET q == req[r] IN
    /\ q.pc = "dropAccess"
    /\ db' = [s \in Live |-> IF s = q.known THEN [db[s] EXCEPT !.access = NoAccess]
                                            ELSE db[s]]
    /\ Goto(r, Answered(q))
    /\ UNCHANGED <<clock, links, views, cookie, issued, made, states, accepted, begun>>

-----------------------------------------------------------------------------
(* The login through authentik.                                             *)

\* Variant with a bug: the flow is read and stays until its time is over.
FlowLeft(row) == row

FlowDropped(row) == [row EXCEPT !.flow = NoFlow]

\* drop_parts(LoginFlow) in the start of a login.
DropFlow(r) ==
    LET q == req[r] IN
    /\ q.pc = "dropFlow"
    /\ db' = [s \in Live |-> IF s = q.known THEN FlowDropped(db[s]) ELSE db[s]]
    /\ Goto(r, [q EXCEPT !.pc = "insertFlow", !.known = 0,
                         !.sid = IF q.new = 0 THEN q.known ELSE @])
    /\ UNCHANGED <<clock, links, views, cookie, issued, made, states, accepted, begun>>

\* The new flow. Refused (409) when the session is gone or another tab has
\* started a login in it meanwhile.
InsertFlow(r) ==
    LET q == req[r] IN
    /\ q.pc = "insertFlow"
    /\ \/ /\ q.sid \in Live /\ db[q.sid].flow = NoFlow
          /\ db' = [db EXCEPT ![q.sid].flow = [state |-> states + 1, at |-> clock]]
       \/ /\ ~(q.sid \in Live /\ db[q.sid].flow = NoFlow)
          /\ UNCHANGED db
    /\ states' = states + 1
    /\ Goto(r, Answered(q))
    /\ UNCHANGED <<clock, links, views, cookie, issued, made, accepted, begun>>

\* What the delete of _take_flow returns, if it is young enough.
FlowTaken(s) ==
    IF s \in Live /\ ~Expired(db[s].flow.at, FlowLife, clock) THEN db[s].flow.state ELSE 0

\* _take_flow and the check of the state behind it.
TakeFlow(r) ==
    LET q == req[r]
        taken == FlowTaken(q.known)
    IN
    /\ q.pc = "takeFlow"
    /\ db' = [s \in Live |-> IF s = q.known THEN FlowDropped(db[s]) ELSE db[s]]
    /\ \/ /\ taken # 0 /\ taken = q.param
          /\ accepted' = accepted \cup {taken}
          /\ Goto(r, [q EXCEPT !.pc = "exchange"])
       \/ /\ taken = 0 \/ taken # q.param
          /\ Goto(r, Answered(q))
          /\ UNCHANGED accepted
    /\ UNCHANGED <<clock, links, views, cookie, issued, made, states, begun>>

\* The calls to authentik: an answer with groups, or no valid answer.
Exchange(r) ==
    LET q == req[r] IN
    /\ q.pc = "exchange"
    /\ \/ Goto(r, Answered(q))
       \/ \E roles \in RoleSets : Goto(r, [q EXCEPT !.pc = "dropLogins", !.roles = roles])
    /\ UNCHANGED <<clock, db, links, views, cookie, issued, made, states, accepted, begun>>

\* Variant with a bug: the old admin login is left in place.
LoginsDroppedButAdmin(row) == [row EXCEPT !.login = NoLogin, !.flow = NoFlow]

LoginsDropped(row) ==
    [row EXCEPT !.login = NoLogin, !.legacy = "none", !.flow = NoFlow]

\* _drop_logins, in the callback and in the logout. Without a role the
\* callback ends here; otherwise renew() reads the session again first.
DropLogins(r) ==
    LET q == req[r] IN
    /\ q.pc = "dropLogins"
    /\ db' = [s \in Live |-> IF s = q.known THEN LoginsDropped(db[s]) ELSE db[s]]
    /\ Goto(r, IF q.op = "callback" /\ q.roles = {}
               THEN Answered(q)
               ELSE [q EXCEPT !.pc = "load", !.next = "renew", !.known = 0,
                              !.before = issued])
    /\ UNCHANGED <<clock, links, views, cookie, issued, made, states, accepted, begun>>

\* _record_login. Refused (409) when the session is gone or another callback
\* has recorded a login in it meanwhile.
Record(r) ==
    LET q == req[r] IN
    /\ q.pc = "record"
    /\ \/ /\ q.sid \in Live /\ db[q.sid].login = NoLogin
          /\ db' = [db EXCEPT ![q.sid].login =
                        [before |-> q.before, at |-> clock, roles |-> q.roles]]
       \/ /\ ~(q.sid \in Live /\ db[q.sid].login = NoLogin)
          /\ UNCHANGED db
    /\ Goto(r, Answered(q))
    /\ UNCHANGED <<clock, links, views, cookie, issued, made, states, accepted, begun>>

-----------------------------------------------------------------------------
(* What is not a step of a handler.                                         *)

\* The answer reaches the browser, in whatever order the network brings it.
Deliver(r) ==
    LET q == req[r]
        b == BrowserOf[r]
    IN
    /\ q.pc = "answer"
    /\ cookie' = [cookie EXCEPT ![b] =
                    IF q.new # 0 THEN q.new ELSE IF q.clear THEN 0 ELSE @]
    /\ Goto(r, NoRequest)
    /\ UNCHANGED <<clock, db, links, views, issued, made, states, accepted, begun>>

\* The process stops or the database fails between two transactions, or the
\* answer never reaches the browser.
Abort(r) ==
    /\ req[r].pc # "idle"
    /\ Goto(r, NoRequest)
    /\ UNCHANGED <<clock, db, links, views, cookie, issued, made, states, accepted, begun>>

\* The admin revokes a link, for good ...
RevokeLink(l) ==
    /\ links[l] # "revoked"
    /\ links' = [links EXCEPT ![l] = "revoked"]
    /\ UNCHANGED <<clock, db, views, cookie, req, issued, made, states, accepted, begun>>

\* ... or its expiry passes, or is moved into the past or the future.
MoveExpiry(l) ==
    /\ links[l] # "revoked"
    /\ links' = [links EXCEPT ![l] = IF @ = "ok" THEN "expired" ELSE "ok"]
    /\ UNCHANGED <<clock, db, views, cookie, req, issued, made, states, accepted, begun>>

Tick ==
    /\ clock < MaxClock
    /\ clock' = clock + 1
    /\ UNCHANGED <<db, links, views, cookie, req, issued, made, states, accepted, begun>>

\* Variant with a bug: the lifetimes of two parts are swapped.
WithoutExpiredPartsSwapped(row) ==
    [row EXCEPT
        !.login  = IF Expired(@.at, FlowLife, clock) THEN NoLogin ELSE @,
        !.flow   = IF Expired(@.at, LoginLife, clock) THEN NoFlow ELSE @,
        !.access = IF Expired(@.at, AccessLife, clock) THEN NoAccess ELSE @,
        !.legacy = IF Expired(row.created, LoginLife, clock) THEN "none" ELSE @]

\* delete_expired: idle sessions, then the parts past their lifetime.
WithoutExpiredParts(row) ==
    [row EXCEPT
        !.login  = IF Expired(@.at, LoginLife, clock) THEN NoLogin ELSE @,
        !.flow   = IF Expired(@.at, FlowLife, clock) THEN NoFlow ELSE @,
        !.access = IF Expired(@.at, AccessLife, clock) THEN NoAccess ELSE @,
        !.legacy = IF Expired(row.created, LoginLife, clock) THEN "none" ELSE @]

CleanUp ==
    /\ db' = [s \in {i \in Live : ~Expired(db[i].seen, Idle, clock)} |->
                WithoutExpiredParts(db[s])]
    /\ UNCHANGED <<clock, links, views, cookie, req, issued, made, states, accepted, begun>>

-----------------------------------------------------------------------------
Init ==
    /\ clock = 0
    /\ db = [s \in {} |-> NewRow(0)]
    /\ links = [l \in Links |-> "ok"]
    /\ views = [l \in Links |-> 0]
    /\ cookie = [b \in Browsers |-> 0]
    /\ req = [r \in Requests |-> NoRequest]
    /\ issued = 0 /\ made = 0 /\ states = 0
    /\ accepted = {}
    /\ begun = 0

Handler(r) ==
    \/ Validate(r) \/ LoadRow(r) \/ LoadParts(r) \/ Renew(r) \/ RenewSet(r)
    \/ Grant(r) \/ RecordView(r) \/ End(r) \/ InsertLegacy(r)
    \/ Gate(r) \/ DropAccess(r)
    \/ DropFlow(r) \/ InsertFlow(r) \/ TakeFlow(r) \/ Exchange(r)
    \/ DropLogins(r) \/ Record(r)

Next ==
    \/ \E r \in Requests :
        \/ \E op \in Ops : Begin(r, op)
        \/ Handler(r) \/ Deliver(r) \/ Abort(r)
    \/ \E l \in Links : RevokeLink(l) \/ MoveExpiry(l)
    \/ Tick \/ CleanUp

Spec == Init /\ [][Next]_vars

-----------------------------------------------------------------------------
(* Properties.                                                              *)

\* Every variable has its type.
TypeOK ==
    /\ clock \in Nat
    /\ db \in [Live -> Row] /\ Live \subseteq 1 .. made
    /\ links \in [Links -> {"ok", "expired", "revoked"}]
    /\ views \in [Links -> Nat]
    /\ cookie \in [Browsers -> Nat]
    /\ req \in [Requests -> Request]
    /\ issued \in Nat /\ made \in Nat /\ states \in Nat /\ begun \in Nat
    /\ accepted \subseteq Nat

\* "Every login gives the session a new token, so a token known from before
\* stops working" (sessions.py): whatever renewals and logins overlap, a
\* session with a login through authentik opens only with a token handed out
\* after that login's callback dropped the logins before it.
LoginUnderFreshToken ==
    \A s \in Live : db[s].login # NoLogin => db[s].token > db[s].login.before

\* "No right of an earlier login carries over" (oidc_router.py): no session
\* ever holds a login through authentik together with the old admin login, in
\* whatever order password logins, callbacks and renewals interleave.
OneKindOfLogin ==
    \A s \in Live : db[s].login = NoLogin \/ db[s].legacy = "none"

\* "A state is good for one attempt only" (oidc_router.py, callback): no
\* callback gets past the state check with a state any callback has used.
StateGoodForOneAttempt ==
    [][\A r \in Requests :
        req[r].pc = "takeFlow" /\ req'[r].pc = "exchange"
            => req[r].param \notin accepted]_vars

\* "Nothing survives the factor transition" (auth/router.py): when the old
\* admin login is put into a session, waiting for the second factor or done,
\* that session holds no other part, whatever requests of the old session are
\* still under way.
FactorTransitionStartsEmpty ==
    [][\A s \in Live \cap Live' :
        db'[s].legacy \notin {"none", db[s].legacy}
            => db[s].legacy = "none" /\ db'[s].login = NoLogin
               /\ db'[s].flow = NoFlow /\ db'[s].access = NoAccess]_vars

\* "A deleted session stops working with the very next request, so ending
\* every session is one DELETE" (sessions.py): no step of a request that still
\* remembers a session brings its row back.
DeletedStaysDeleted ==
    [][\A s \in 1 .. made : s \notin Live => s \notin Live']_vars

\* The gate "drops a now-invalid recruiter part" (recruiter/dependencies.py):
\* an access a refused page view removes is one for the very link it was
\* refused for, although the view read the session two transactions earlier.
GateDropsWhatItJudged ==
    [][\A s \in Live \cap Live', r \in Requests :
        req[r].pc = "dropAccess" /\ req'[r].pc = "answer"
        /\ db[s].access # NoAccess /\ db'[s].access = NoAccess
            => db[s].access.link = req[r].link]_vars

\* What a token gives to a request that comes now.
Given(t) ==
    {[roles |-> RolesAt(db[s], clock), legacy |-> LegacyAt(db[s], clock),
      link |-> LinkAt(db[s], clock), state |-> FlowTaken(s)] :
        s \in {i \in Live : Matches(i, t, clock)}}

\* "Expired rows count as gone at once and are deleted by the hourly clean-up"
\* (sessions.py): the reads and the clean-up, written twice, agree, so no
\* request can tell whether the clean-up has run.
CleanUpIsInvisible ==
    [][CleanUp => \A t \in 1 .. issued : Given(t)' = Given(t)]_vars

\* "The login is a part of the session next to the recruiter part"
\* (oidc_router.py) and redeem "adds a recruiter part to the session"
\* (recruiter/router.py): the answer to a redeem leaves a browser logged in
\* that was.
HoldsLogin(b) ==
    \E s \in Live : Matches(s, cookie[b], clock) /\ IsAdmin(db[s], clock)

RedeemKeepsLogin ==
    [][\A r \in Requests :
        LET b == BrowserOf[r] IN
        req[r].op = "redeem" /\ req[r].pc = "answer" /\ HoldsLogin(b)
            => HoldsLogin(b)']_vars

=============================================================================
