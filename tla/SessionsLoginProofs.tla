------------------------ MODULE SessionsLoginProofs -------------------------
(***************************************************************************)
(* Proofs about the kinds of login in Sessions.  A password login is put   *)
(* into a session that was just made, whose token has been given to nobody *)
(* yet: no other request knows the session and none can find it.  A        *)
(* callback that has dropped the logins of its session finds the same one  *)
(* again or none, because a token never passes from one row to another.    *)
(***************************************************************************)
EXTENDS SessionsProofs

-----------------------------------------------------------------------------
(* The invariant.                                                           *)

Password == {"login", "login_totp"}

\* Where the handlers that make a login can be.
Ahead(q) ==
    /\ q.op \in Password =>
        /\ q.pc \in {"load", "parts", "end", "renew", "insertLegacy", "answer"}
        /\ q.pc \in {"load", "parts"} => q.next = "end"
        /\ q.pc = "renew" => q.known = 0
    /\ q.op = "callback" =>
        /\ q.pc \in {"load", "parts", "takeFlow", "exchange", "dropLogins", "renew",
                     "renewSet", "record", "answer"}
        /\ q.pc \in {"load", "parts"} => q.next \in {"takeFlow", "renew"}
        /\ q.pc \notin {"record", "answer"} => q.new = 0
    /\ q.pc = "insertLegacy" => q.op \in Password
    /\ q.pc = "record" => q.op = "callback"

At(q, pcs, next) == q.pc \in pcs \/ (q.pc = "parts" /\ q.next = next)

\* What a callback can rely on: first that its cookie opens no other session
\* than the one it has read, then that the session has no old admin login.
Sees(q) ==
    q.op = "callback" =>
        /\ At(q, {"takeFlow", "exchange", "dropLogins"}, "takeFlow") =>
            \A s \in Live : db[s].token = q.cookie => s = q.known
        /\ q.pc = "load" /\ q.next = "renew" =>
            \A s \in Live : db[s].token = q.cookie => db[s].legacy = "none"
        /\ At(q, {"renew", "renewSet"}, "renew") /\ q.known \in Live =>
            db[q.known].legacy = "none"
        /\ q.pc = "record" /\ q.sid \in Live => db[q.sid].legacy = "none"

Bare(row) ==
    row.login = NoLogin /\ row.flow = NoFlow /\ row.access = NoAccess /\ row.legacy = "none"

\* The session of a password login about to be recorded is empty, and opens
\* with the token of the answer alone.
Own(q) ==
    q.pc = "insertLegacy" =>
        /\ q.sid # 0 /\ q.new # 0
        /\ q.sid \in Live => Bare(db[q.sid]) /\ db[q.sid].token = q.new

\* Nobody else knows that session or its token.
Apart ==
    \A r \in Requests : req[r].pc = "insertLegacy" =>
        /\ \A o \in Requests \ {r} :
            /\ req[r].sid \notin {req[o].known, req[o].sid}
            /\ req[r].new \notin {req[o].cookie, req[o].new}
        /\ \A b \in Browsers : cookie[b] # req[r].new

\* Tokens and session ids are handed out in order, and a token opens one row.
Numbered ==
    /\ \A s, t \in Live : db[s].token = db[t].token => s = t
    /\ \A b \in Browsers : cookie[b] <= issued
    /\ \A r \in Requests :
        /\ req[r].cookie <= issued /\ req[r].new <= issued
        /\ req[r].known <= made /\ req[r].sid <= made

LocalInv == \A r \in Requests : Ahead(req[r]) /\ Sees(req[r]) /\ Own(req[r])

KindInv == FreshInv /\ Numbered /\ Apart /\ LocalInv /\ OneKindOfLogin

-----------------------------------------------------------------------------
(* Steps that hand out no token and give no session to a password login.    *)

\* What request p can be after q in such a step.
Passing(q, p) ==
    /\ p.pc # "insertLegacy"
    /\ \/ p.known \in {0, q.known}
       \/ p.known \in Live /\ db[p.known].token \in {q.cookie, q.new}
    /\ p.sid \in {0, q.sid, q.known}
    /\ p.new \in {0, q.new}
    /\ p.cookie \in {0, q.cookie} \cup {cookie[b] : b \in Browsers}
    /\ Ahead(p)

\* A row keeps its token and gets no old admin login.
Same(s) == db'[s].token = db[s].token /\ db'[s].legacy \in {db[s].legacy, "none"}

Loses(s) ==
    /\ db'[s].login \in {db[s].login, NoLogin}
    /\ db'[s].flow \in {db[s].flow, NoFlow}
    /\ db'[s].access \in {db[s].access, NoAccess}

Blind(q) == q.op # "callback" \/ q.pc = "answer"

\* What typing says of a single request, row and cookie.
LEMMA Types ==
    ASSUME TypeOK
    PROVE  /\ req \in [Requests -> Request] /\ \A r \in Requests : req[r] \in Request
           /\ \A s \in Live : db[s] \in Row /\ s \in 1 .. made
           /\ cookie \in [Browsers -> Nat]
           /\ issued \in Nat /\ made \in Nat /\ 0 \notin Live
  BY DEF TypeOK

\* Rows that only lose keep what callbacks rely on, and the session of a
\* password login empty.
LEMMA LosingKeeps ==
    ASSUME TypeOK, Live' \subseteq Live, \A s \in Live' : Same(s),
           NEW r \in Requests, Sees(req[r]), req'[r] = req[r]
    PROVE  Sees(req[r])'
  BY DEF Sees, Same, At

\* A step that hands out no token, in which every request that goes on knows no
\* more sessions and tokens than before, keeps the invariant.
LEMMA QuietKind ==
    ASSUME KindInv, FreshInv', OneKindOfLogin',
           issued' = issued, made' = made, cookie' = cookie,
           Live' \subseteq Live, \A s \in Live' : Same(s),
           \A s \in Live' :
                Loses(s) \/ \E o \in Requests : /\ req[o].pc # "insertLegacy"
                                                /\ s \in {req[o].known, req[o].sid},
           \A o \in Requests :
                \/ req'[o] = req[o]
                \/ /\ Passing(req[o], req'[o])
                   /\ Blind(req'[o]) \/ Sees(req[o])'
    PROVE  KindInv'
  <1>0. TypeOK
    BY DEF KindInv, FreshInv
  <1>1. Numbered'
    <2>1. \A s, t \in Live' : db'[s].token = db'[t].token => s = t
      BY DEF KindInv, Numbered, Same
    <2>2. \A s \in Live : s <= made
      BY <1>0, Types
    <2>3. ASSUME NEW o \in Requests
          PROVE  /\ req'[o].cookie <= issued /\ req'[o].new <= issued
                 /\ req'[o].known <= made /\ req'[o].sid <= made
      <3>1. 0 <= issued /\ 0 <= made
        BY <1>0, Types
      <3> QED
        BY <2>2, <3>1 DEF KindInv, Numbered, Passing
    <2> QED
      BY <2>1, <2>3 DEF Numbered, KindInv
  <1>2. ASSUME NEW r \in Requests, req'[r].pc = "insertLegacy"
        PROVE  /\ req'[r] = req[r] /\ req[r].pc = "insertLegacy"
               /\ req[r].sid # 0 /\ req[r].new # 0
               /\ req[r].sid \in Live => Bare(db[req[r].sid])
                                          /\ db[req[r].sid].token = req[r].new
               /\ \A o \in Requests \ {r} :
                    /\ req[r].sid \notin {req[o].known, req[o].sid}
                    /\ req[r].new \notin {req[o].cookie, req[o].new}
               /\ \A b \in Browsers : cookie[b] # req[r].new
    <2>1. req'[r] = req[r]
      BY <1>2 DEF Passing
    <2> QED
      BY <1>2, <2>1 DEF KindInv, LocalInv, Own, Apart
  <1>3. Apart'
    <2>1. ASSUME NEW r \in Requests, req'[r].pc = "insertLegacy", NEW o \in Requests \ {r}
          PROVE  /\ req'[r].sid \notin {req'[o].known, req'[o].sid}
                 /\ req'[r].new \notin {req'[o].cookie, req'[o].new}
      <3>1. CASE req'[o] = req[o]
        BY <1>2, <2>1, <3>1
      <3>2. CASE Passing(req[o], req'[o])
        BY <1>2, <2>1, <3>2 DEF Passing
      <3> QED
        BY <3>1, <3>2
    <2>2. ASSUME NEW r \in Requests, req'[r].pc = "insertLegacy", NEW b \in Browsers
          PROVE  cookie'[b] # req'[r].new
      BY <1>2, <2>2
    <2> QED
      BY <2>1, <2>2 DEF Apart
  <1>4. ASSUME NEW r \in Requests
        PROVE  Ahead(req[r])' /\ Sees(req[r])' /\ Own(req[r])'
    <2>1. Ahead(req[r])'
      BY DEF KindInv, LocalInv, Passing, Ahead
    <2>2. Sees(req[r])'
      <3>1. CASE req'[r] = req[r]
        BY <1>0, <3>1, LosingKeeps DEF KindInv, LocalInv
      <3>2. CASE Blind(req'[r])
        BY <3>2 DEF Blind, Sees, At
      <3> QED
        BY <3>1, <3>2
    <2>3. ASSUME req'[r].pc = "insertLegacy", req'[r].sid \in Live'
          PROVE  Bare(db'[req'[r].sid]) /\ db'[req'[r].sid].token = req'[r].new
      <3> DEFINE s == req[r].sid
      <3>1. /\ req'[r] = req[r] /\ s \in Live' /\ s \in Live
            /\ Bare(db[s]) /\ db[s].token = req[r].new
            /\ \A o \in Requests : s \in {req[o].known, req[o].sid} => o = r
        BY <1>2, <2>3
      <3>2. req[r].pc = "insertLegacy"
        BY <1>2, <2>3
      <3>3. Loses(s) /\ Same(s)
        BY <3>1, <3>2
      <3> HIDE DEF s
      <3>4. Bare(db'[s]) /\ db'[s].token = req[r].new
        BY <3>1, <3>3 DEF Loses, Same, Bare
      <3> QED
        BY <3>1, <3>4 DEF s
    <2>4. Own(req[r])'
      BY <1>2, <2>3 DEF Own
    <2> QED
      BY <2>1, <2>2, <2>4
  <1> QED
    BY <1>1, <1>3, <1>4 DEF KindInv, LocalInv

-----------------------------------------------------------------------------
(* The steps one by one.                                                    *)

\* A handler that has its answer, or was broken off, relies on nothing.
LEMMA EndsPass ==
    ASSUME NEW q \in Request
    PROVE  /\ Passing(q, NoRequest) /\ Blind(NoRequest)
           /\ Passing(q, Answered(q)) /\ Blind(Answered(q))
           /\ Passing(q, Refused(q)) /\ Blind(Refused(q))
  <1>1. Passing(q, NoRequest) /\ Blind(NoRequest)
    BY DEF Passing, Blind, NoRequest, Ahead, Password
  <1>2. ASSUME NEW p \in Request, p.op = q.op, p.new \in {0, q.new}
        PROVE  Passing(q, Answered(p)) /\ Blind(Answered(p))
    BY <1>2 DEF Passing, Blind, NoRequest, Answered, Ahead, Password
  <1>3. Passing(q, Refused(q)) /\ Blind(Refused(q))
    <2>1. [q EXCEPT !.new = 0] \in Request /\ [q EXCEPT !.new = 0].op = q.op
          /\ [q EXCEPT !.new = 0].new = 0
      BY DEF Request
    <2> QED
      BY <1>2, <2>1 DEF Refused
  <1> QED
    BY <1>1, <1>2, <1>3

\* A handler that goes on to pc.
LEMMA ContinuePasses ==
    ASSUME NEW q \in Request, NEW p \in Request, NEW pc \in PCs,
           p.op = q.op, p.new \in {0, q.new},
           pc # "answer" => Passing(q, [p EXCEPT !.pc = pc])
    PROVE  Passing(q, Continue(p, pc))
  <1>1. Passing(q, Answered(p))
    BY DEF Passing, NoRequest, Answered, Ahead, Password
  <1> QED
    BY <1>1 DEF Continue

\* Rows that stay as they are lose nothing.
LEMMA SameRows ==
    ASSUME db' = db
    PROVE  Live' = Live /\ \A s \in Live : Same(s) /\ Loses(s)
  BY DEF Live, Same, Loses

\* One request goes on, and the rows stay as they are.
LEMMA PassKind ==
    ASSUME KindInv, FreshInv', UNCHANGED <<db, issued, made, cookie>>,
           NEW r \in Requests, NEW p, req' = [req EXCEPT ![r] = p],
           Passing(req[r], p), Blind(p) \/ Sees(req[r])'
    PROVE  KindInv'
  <1>1. TypeOK
    BY DEF KindInv, FreshInv
  <1>2. OneKindOfLogin'
    BY SameRows DEF KindInv, OneKindOfLogin
  <1>3. \A o \in Requests :
            \/ req'[o] = req[o]
            \/ Passing(req[o], req'[o]) /\ (Blind(req'[o]) \/ Sees(req[o])')
    BY <1>1, Types
  <1> QED
    BY <1>2, <1>3, SameRows, QuietKind

\* The checks that read no session, answers to them, and the end of a request.
LEMMA PlainKind ==
    ASSUME KindInv, FreshInv', NEW r \in Requests,
           \/ Validate(r) \/ Gate(r) \/ RecordView(r) \/ Exchange(r) \/ Abort(r)
    PROVE  KindInv'
  <1> DEFINE q == req[r]
  <1>1. q \in Request /\ Ahead(q) /\ Sees(q) /\ TypeOK
    BY Types DEF KindInv, FreshInv, LocalInv
  <1>2. Passing(q, NoRequest) /\ Blind(NoRequest) /\ Passing(q, Answered(q)) /\ Blind(Answered(q))
    BY <1>1, EndsPass
  <1>3. CASE \/ Validate(r) /\ links[q.link] = "ok"
             \/ Gate(r) /\ links[q.link] # "ok"
    <2>1. PICK pc \in {"load", "dropAccess"} :
            q.pc \in {"validate", "gate"} /\ req' = [req EXCEPT ![r] = [q EXCEPT !.pc = pc]]
      BY <1>3 DEF Validate, Gate, Goto, Continue
    <2>2. q.op # "callback" /\ q.op \notin Password
      BY <1>1, <2>1 DEF Ahead
    <2>3. Passing(q, [q EXCEPT !.pc = pc]) /\ Blind([q EXCEPT !.pc = pc])
      BY <1>1, <2>1, <2>2 DEF Passing, Blind, Ahead, Request
    <2>4. UNCHANGED <<db, issued, made, cookie>>
      BY <1>3 DEF Validate, Gate
    <2> QED
      BY <2>1, <2>3, <2>4, PassKind
  <1>4. CASE \/ Validate(r) /\ links[q.link] # "ok"
             \/ Gate(r) /\ links[q.link] = "ok"
             \/ RecordView(r)
             \/ Exchange(r) /\ req' = [req EXCEPT ![r] = Answered(q)]
    <2>1. req' = [req EXCEPT ![r] = Answered(q)]
      BY <1>4 DEF Validate, Gate, RecordView, Goto, Continue
    <2>2. UNCHANGED <<db, issued, made, cookie>>
      BY <1>4 DEF Validate, Gate, RecordView, Exchange
    <2> QED
      BY <1>2, <2>1, <2>2, PassKind
  <1>5. CASE Abort(r)
    <2>1. req' = [req EXCEPT ![r] = NoRequest] /\ UNCHANGED <<db, issued, made, cookie>>
      BY <1>5 DEF Abort, Goto
    <2> QED
      BY <1>2, <2>1, PassKind
  <1>6. CASE Exchange(r) /\ req' # [req EXCEPT ![r] = Answered(q)]
    <2>1. PICK roles \in RoleSets :
            req' = [req EXCEPT ![r] = [q EXCEPT !.pc = "dropLogins", !.roles = roles]]
      BY <1>6 DEF Exchange, Goto
    <2> DEFINE p == [q EXCEPT !.pc = "dropLogins", !.roles = roles]
    <2>2. /\ p.pc = "dropLogins" /\ p.op = q.op /\ p.known = q.known /\ p.sid = q.sid
          /\ p.new = q.new /\ p.cookie = q.cookie /\ p.next = q.next
      BY <1>1 DEF Request
    <2>3. q.pc = "exchange" /\ UNCHANGED <<db, issued, made, cookie>>
      BY <1>6 DEF Exchange
    <2>4. req' = [req EXCEPT ![r] = p] /\ req'[r] = p
      BY <1>1, <2>1, Types
    <2> HIDE DEF p
    <2>5. Passing(q, p)
      BY <1>1, <2>2, <2>3 DEF Passing, Ahead
    <2>6. Sees(req[r])'
      BY <1>1, <2>2, <2>3, <2>4, SameRows DEF Sees, At
    <2> QED
      BY <2>3, <2>4, <2>5, <2>6, PassKind
  <1> QED
    BY <1>3, <1>4, <1>5, <1>6

\* A request that arrives knows its browser's cookie and no session.
LEMMA BeginKind ==
    ASSUME KindInv, FreshInv', NEW r \in Requests, NEW op \in Ops, Begin(r, op)
    PROVE  KindInv'
  <1>1. req[r] \in Request /\ TypeOK
    BY Types DEF KindInv, FreshInv
  <1>2. PICK param \in Params(r, op),
             link \in IF op = "redeem" THEN Links ELSE {NoLink},
             done \in IF op = "login" THEN BOOLEAN ELSE {op = "login_totp"} :
            Goto(r, [NoRequest EXCEPT
                !.pc = IF op = "redeem" THEN "validate" ELSE "load",
                !.next = First(op), !.op = op, !.param = param,
                !.link = link, !.done = done,
                !.cookie = CookieFor(r, op)])
    BY DEF Begin
  <1> DEFINE p == [NoRequest EXCEPT
                !.pc = IF op = "redeem" THEN "validate" ELSE "load",
                !.next = First(op), !.op = op, !.param = param,
                !.link = link, !.done = done,
                !.cookie = CookieFor(r, op)]
  <1>3. /\ p.pc = IF op = "redeem" THEN "validate" ELSE "load"
        /\ p.next = First(op) /\ p.op = op /\ p.known = 0 /\ p.sid = 0 /\ p.new = 0
        /\ p.cookie = CookieFor(r, op)
    BY DEF NoRequest
  <1>4. CookieFor(r, op) \in {0} \cup {cookie[b] : b \in Browsers}
    BY SessionsAssumption DEF SessionsAssumption, CookieFor
  <1>5. req' = [req EXCEPT ![r] = p] /\ req'[r] = p
    BY <1>1, <1>2, Types DEF Goto
  <1> HIDE DEF p
  <1>6. Passing(req[r], p)
    BY <1>3, <1>4 DEF Passing, Ahead, Password, First
  <1>7. Sees(req[r])'
    BY <1>3, <1>5 DEF Sees, At, First
  <1> QED
    BY <1>5, <1>6, <1>7, PassKind DEF Begin

\* A request that finds its session knows it by a token it already had.
LEMMA LoadRowKind ==
    ASSUME KindInv, FreshInv', NEW r \in Requests, LoadRow(r)
    PROVE  KindInv'
  <1> DEFINE q == req[r]
             t == IF q.new # 0 THEN q.new ELSE q.cookie
  <1>1. q \in Request /\ Ahead(q) /\ Sees(q) /\ TypeOK /\ q.pc = "load"
    BY Types DEF KindInv, FreshInv, LocalInv, LoadRow
  <1>2. UNCHANGED <<db, issued, made, cookie>>
    BY DEF LoadRow
  <1>3. ASSUME NEW s \in Live, Matches(s, t, clock),
               Goto(r, [q EXCEPT !.pc = "parts", !.known = s, !.moment = clock])
        PROVE  KindInv'
    <2> DEFINE p == [q EXCEPT !.pc = "parts", !.known = s, !.moment = clock]
    <2>1. /\ p.pc = "parts" /\ p.known = s /\ p.next = q.next /\ p.op = q.op
          /\ p.sid = q.sid /\ p.new = q.new /\ p.cookie = q.cookie
      BY <1>1 DEF Request
    <2>2. req' = [req EXCEPT ![r] = p] /\ req'[r] = p
      BY <1>1, <1>3, Types DEF Goto
    <2>3. db[s].token = t /\ t \in {q.cookie, q.new}
      BY <1>3 DEF Matches
    <2> HIDE DEF p
    <2>4. Passing(q, p)
      BY <1>1, <2>1, <2>3 DEF Passing, Ahead
    <2>5. Sees(req[r])'
      <3>1. q.op = "callback" => db[s].token = q.cookie
        BY <1>1, <2>3 DEF Ahead
      <3>2. q.op = "callback" => \A i \in Live : db[i].token = q.cookie => i = s
        BY <3>1 DEF KindInv, Numbered
      <3>3. q.op = "callback" /\ q.next = "renew" => db[s].legacy = "none"
        BY <1>1, <3>1 DEF Sees
      <3> QED
        BY <1>2, <2>1, <2>2, <3>2, <3>3, SameRows DEF Sees, At
    <2> QED
      BY <1>2, <2>2, <2>4, <2>5, PassKind
  <1>4. ASSUME NEW c \in BOOLEAN,
               Goto(r, Continue([q EXCEPT !.known = 0, !.clear = c], WithoutSession(q)))
        PROVE  KindInv'
    <2> DEFINE p == [q EXCEPT !.known = 0, !.clear = c]
               pc == WithoutSession(q)
    <2>1. /\ p \in Request /\ p.op = q.op /\ p.new = q.new
          /\ \A x \in PCs : LET n == [p EXCEPT !.pc = x]
                            IN /\ n.pc = x /\ n.known = 0 /\ n.next = q.next /\ n.op = q.op
                               /\ n.sid = q.sid /\ n.new = q.new /\ n.cookie = q.cookie
      BY <1>1 DEF Request
    <2>2. pc \in {"renew", "end", "insertFlow", "answer"} /\ pc \in PCs
      BY DEF WithoutSession, PCs
    <2>3. /\ q.op \in Password => pc \in {"end", "answer"}
          /\ q.op = "callback" => pc \in {"renew", "answer"}
      BY <1>1 DEF Ahead, WithoutSession, Password
    <2>4. req' = [req EXCEPT ![r] = Continue(p, pc)] /\ req'[r] = Continue(p, pc)
      BY <1>1, <1>4, Types DEF Goto
    <2> HIDE DEF p, pc
    <2>5. pc # "answer" => Passing(q, [p EXCEPT !.pc = pc])
      BY <1>1, <2>1, <2>2, <2>3 DEF Passing, Ahead, Password
    <2>6. Passing(q, Continue(p, pc))
      BY <1>1, <2>1, <2>2, <2>5, ContinuePasses
    <2>7. CASE pc = "answer"
      <3>1. Continue(p, pc) = Answered(p)
        BY <2>7 DEF Continue
      <3>2. Blind(Continue(p, pc))
        BY <2>1, <3>1, EndsPass
      <3> QED
        BY <1>2, <2>4, <2>6, <3>2, PassKind
    <2>8. CASE pc # "answer"
      <3>1. Continue(p, pc) = [p EXCEPT !.pc = pc]
        BY <2>8 DEF Continue
      <3>2. Sees(req[r])'
        <4> DEFINE n == [p EXCEPT !.pc = pc]
        <4>0. n.pc = pc /\ n.known = 0 /\ n.op = q.op /\ req'[r] = n
          BY <2>1, <2>2, <2>4, <3>1
        <4> HIDE DEF n
        <4>1. req'[r].pc = pc /\ req'[r].known = 0 /\ req'[r].op = q.op
          BY <4>0
        <4>2. 0 \notin Live'
          BY <1>1, <1>2, Types, SameRows
        <4> QED
          BY <2>3, <2>8, <4>1, <4>2 DEF Sees, At
      <3> QED
        BY <1>2, <2>4, <2>6, <3>2, PassKind
    <2> QED
      BY <2>7, <2>8
  <1>5. (q.clear \/ t # 0) \in BOOLEAN
    OBVIOUS
  <1>6. \/ \E s \in Live :
               /\ Matches(s, t, clock)
               /\ Goto(r, [q EXCEPT !.pc = "parts", !.known = s, !.moment = clock])
        \/ Goto(r, Continue([q EXCEPT !.known = 0, !.clear = @ \/ t # 0], WithoutSession(q)))
    BY DEF LoadRow
  <1> QED
    BY <1>3, <1>4, <1>5, <1>6

\* Reading the parts of a session changes no part.
LEMMA LoadPartsKind ==
    ASSUME KindInv, FreshInv', NEW r \in Requests, LoadParts(r)
    PROVE  KindInv'
  <1> DEFINE q == req[r]
             s == q.known
  <1>1. q \in Request /\ Ahead(q) /\ Sees(q) /\ TypeOK /\ q.pc = "parts"
    BY Types DEF KindInv, FreshInv, LocalInv, LoadParts
  <1>2. UNCHANGED <<issued, made, cookie>>
    BY DEF LoadParts
  <1>3. CASE s \notin Live
    <2>1. req' = [req EXCEPT ![r] = NoRequest] /\ db' = db
      BY <1>3 DEF LoadParts, Goto
    <2>2. Passing(q, NoRequest) /\ Blind(NoRequest)
      BY <1>1, EndsPass
    <2> QED
      BY <1>2, <2>1, <2>2, PassKind
  <1>4. CASE s \in Live
    <2> DEFINE l == IF q.op = "visit" THEN LinkAt(db[s], q.moment) ELSE q.link
    <2>1. PICK pc \in WithSession(q, db[s]) :
            /\ req' = [req EXCEPT ![r] = Continue([q EXCEPT !.moment = 0, !.link = l], pc)]
            /\ db' = [db EXCEPT ![s].seen = q.moment]
      BY <1>4 DEF LoadParts, Goto
    <2> DEFINE p == [q EXCEPT !.moment = 0, !.link = l]
    <2>2. l \in Links \cup {NoLink}
      BY <1>1, <1>4, Types DEF LinkAt, Request, Row, Access
    <2> HIDE DEF l
    <2>3. /\ p \in Request /\ p.op = q.op /\ p.new = q.new
          /\ \A x \in PCs : LET n == [p EXCEPT !.pc = x]
                            IN /\ n.pc = x /\ n.known = s /\ n.next = q.next /\ n.op = q.op
                               /\ n.sid = q.sid /\ n.new = q.new /\ n.cookie = q.cookie
      BY <1>1, <2>2 DEF Request
    <2>4. pc \in PCs \ {"record"}
      BY <1>1, PlainChoices DEF KindInv, FreshInv, RequestsFresh
    <2>5. /\ q.op \in Password => pc \in {"end", "answer"}
          /\ q.op = "callback" => pc = q.next /\ pc \in {"takeFlow", "renew"}
          /\ pc # "insertLegacy"
      <3>1. q.next # "insertLegacy"
        BY DEF KindInv, FreshInv, RequestsFresh, NextSteps
      <3> QED
        BY <1>1, <3>1 DEF Ahead, WithSession, Password
    <2>6. req'[r] = Continue(p, pc)
      BY <1>1, <2>1, Types
    <2>7. Live' = Live /\ \A i \in Live : Same(i) /\ Loses(i) /\ db'[i].legacy = db[i].legacy
      BY <1>1, <2>1, Types DEF Live, Same, Loses, Row
    <2> HIDE DEF p
    <2>8. pc # "answer" => Passing(q, [p EXCEPT !.pc = pc])
      BY <1>1, <2>3, <2>4, <2>5 DEF Passing, Ahead, Password
    <2>9. Passing(q, Continue(p, pc))
      BY <1>1, <2>3, <2>4, <2>8, ContinuePasses
    <2>10. Blind(req'[r]) \/ Sees(req[r])'
      <3>1. CASE pc = "answer"
        <4>1. Continue(p, pc) = Answered(p)
          BY <3>1 DEF Continue
        <4> QED
          BY <2>3, <2>6, <4>1, EndsPass
      <3>2. CASE pc # "answer"
        <4>1. LET n == req'[r] IN n.pc = pc /\ n.known = s /\ n.op = q.op /\ n.cookie = q.cookie
          BY <2>3, <2>4, <2>6, <3>2 DEF Continue
        <4> QED
          BY <1>1, <2>5, <2>7, <4>1 DEF Sees, At, Same
      <3> QED
        BY <3>1, <3>2
    <2>11. OneKindOfLogin'
      BY <2>7 DEF KindInv, OneKindOfLogin, Loses
    <2>12. \A o \in Requests :
            \/ req'[o] = req[o]
            \/ Passing(req[o], req'[o]) /\ (Blind(req'[o]) \/ Sees(req[o])')
      BY <1>1, <2>1, <2>6, <2>9, <2>10, Types
    <2> QED
      BY <1>2, <2>7, <2>11, <2>12, QuietKind
  <1> QED
    BY <1>3, <1>4

\* One request goes on and changes the session it knows, or one it has made.
LEMMA ChangeKind ==
    ASSUME KindInv, FreshInv', UNCHANGED <<issued, made, cookie>>,
           NEW r \in Requests, NEW p, req' = [req EXCEPT ![r] = p],
           Passing(req[r], p), Blind(p) \/ Sees(req[r])',
           req[r].pc # "insertLegacy",
           Live' \subseteq Live,
           \A s \in Live' :
                /\ Same(s)
                /\ \/ Loses(s)
                   \/ /\ s \in {req[r].known, req[r].sid}
                      /\ db'[s].login = NoLogin \/ db'[s].legacy = "none"
    PROVE  KindInv'
  <1>1. TypeOK
    BY DEF KindInv, FreshInv
  <1>2. OneKindOfLogin'
    BY DEF KindInv, OneKindOfLogin, Loses, Same
  <1>3. \A o \in Requests :
            \/ req'[o] = req[o]
            \/ Passing(req[o], req'[o]) /\ (Blind(req'[o]) \/ Sees(req[o])')
    BY <1>1, Types
  <1> QED
    BY <1>2, <1>3, QuietKind

\* The steps of redeem and of the start of a login through authentik, which
\* leave both kinds of login alone.
LEMMA PartsKind ==
    ASSUME KindInv, FreshInv', NEW r \in Requests,
           \/ Grant(r) \/ InsertFlow(r) \/ DropAccess(r) \/ DropFlow(r)
    PROVE  KindInv'
  <1> DEFINE q == req[r]
  <1>1. q \in Request /\ Ahead(q) /\ TypeOK /\ \A s \in Live : db[s] \in Row
    BY Types DEF KindInv, FreshInv, LocalInv
  <1>2. /\ q.pc \in {"grant", "insertFlow", "dropAccess", "dropFlow"}
        /\ UNCHANGED <<issued, made, cookie>>
    BY DEF Grant, InsertFlow, DropAccess, DropFlow
  <1>3. q.op # "callback" /\ q.op \notin Password
    BY <1>1, <1>2 DEF Ahead
  <1>4. /\ Live' = Live
        /\ \A s \in Live : /\ Same(s) /\ db'[s].login = db[s].login
                           /\ db'[s].legacy = db[s].legacy
                           /\ Loses(s) \/ s \in {q.known, q.sid}
    <2>1. CASE Grant(r)
      <3> DEFINE a == [link |-> q.link, at |-> clock]
      <3>1. \/ db' = db
            \/ q.sid \in Live /\ db' = [db EXCEPT ![q.sid].access = a]
        BY <2>1 DEF Grant
      <3> HIDE DEF a
      <3> QED
        BY <1>1, <3>1, Types DEF Live, Same, Loses, TypeOK, Row
    <2>2. CASE InsertFlow(r)
      <3> DEFINE f == [state |-> states + 1, at |-> clock]
      <3>1. \/ db' = db
            \/ q.sid \in Live /\ db' = [db EXCEPT ![q.sid].flow = f]
        BY <2>2 DEF InsertFlow
      <3> HIDE DEF f
      <3> QED
        BY <1>1, <3>1, Types DEF Live, Same, Loses, TypeOK, Row
    <2>3. CASE DropAccess(r)
      BY <1>1, <2>3 DEF DropAccess, Live, Same, Loses, Row
    <2>4. CASE DropFlow(r)
      BY <1>1, <2>4 DEF DropFlow, FlowDropped, Live, Same, Loses, Row
    <2> QED
      BY <2>1, <2>2, <2>3, <2>4
  <1>5. PICK p : /\ req' = [req EXCEPT ![r] = p]
                 /\ Passing(q, p) /\ Blind(p)
    <2>1. ASSUME Goto(r, Answered(q)) \/ Goto(r, Refused(q))
          PROVE  \E p : req' = [req EXCEPT ![r] = p] /\ Passing(q, p) /\ Blind(p)
      BY <1>1, <2>1, EndsPass DEF Goto
    <2>2. ASSUME Goto(r, [q EXCEPT !.pc = "view"])
          PROVE  \E p : req' = [req EXCEPT ![r] = p] /\ Passing(q, p) /\ Blind(p)
      <3>1. Passing(q, [q EXCEPT !.pc = "view"]) /\ Blind([q EXCEPT !.pc = "view"])
        BY <1>1, <1>3 DEF Passing, Blind, Ahead, Request
      <3> QED
        BY <2>2, <3>1 DEF Goto
    <2>3. ASSUME NEW i \in {q.known, q.sid},
                 Goto(r, [q EXCEPT !.pc = "insertFlow", !.known = 0, !.sid = i])
          PROVE  \E p : req' = [req EXCEPT ![r] = p] /\ Passing(q, p) /\ Blind(p)
      <3> DEFINE p == [q EXCEPT !.pc = "insertFlow", !.known = 0, !.sid = i]
      <3>1. /\ p.pc = "insertFlow" /\ p.known = 0 /\ p.sid = i /\ p.op = q.op
            /\ p.new = q.new /\ p.cookie = q.cookie
        BY <1>1 DEF Request
      <3>2. req' = [req EXCEPT ![r] = p]
        BY <2>3 DEF Goto
      <3> HIDE DEF p
      <3>3. Passing(q, p) /\ Blind(p)
        BY <1>3, <3>1 DEF Passing, Blind, Ahead
      <3> QED
        BY <3>2, <3>3
    <2> QED
      BY <2>1, <2>2, <2>3 DEF Grant, InsertFlow, DropAccess, DropFlow
  <1>6. q.pc # "insertLegacy"
    BY <1>2
  <1>7. \A s \in Live : db[s].login = NoLogin \/ db[s].legacy = "none"
    BY DEF KindInv, OneKindOfLogin
  <1>8. /\ Live' \subseteq Live
        /\ \A s \in Live' :
                /\ Same(s)
                /\ \/ Loses(s)
                   \/ /\ s \in {req[r].known, req[r].sid}
                      /\ db'[s].login = NoLogin \/ db'[s].legacy = "none"
    BY <1>4, <1>7
  <1> QED
    BY <1>2, <1>5, <1>6, <1>8, ChangeKind

\* A session that ends takes its logins along.
LEMMA EndKind ==
    ASSUME KindInv, FreshInv', NEW r \in Requests, End(r)
    PROVE  KindInv'
  <1> DEFINE q == req[r]
             p == [q EXCEPT !.known = 0, !.new = 0, !.clear = TRUE]
             pc == IF q.op = "logout" THEN "answer" ELSE "renew"
  <1>1. q \in Request /\ Ahead(q) /\ TypeOK /\ q.pc = "end"
    BY Types DEF KindInv, FreshInv, LocalInv, End
  <1>2. Live' \subseteq Live /\ \A s \in Live' : Same(s) /\ Loses(s)
    BY DEF End, Without, Live, Same, Loses
  <1>3. /\ p \in Request /\ p.op = q.op /\ p.new = 0
        /\ LET n == [p EXCEPT !.pc = pc]
           IN /\ n.pc = pc /\ n.known = 0 /\ n.op = q.op
              /\ n.sid = q.sid /\ n.new = 0 /\ n.cookie = q.cookie
    BY <1>1 DEF Request, PCs
  <1>4. pc \in {"answer", "renew"} /\ pc \in PCs /\ q.op # "callback"
    BY <1>1 DEF PCs, Ahead
  <1>5. req' = [req EXCEPT ![r] = Continue(p, pc)] /\ UNCHANGED <<issued, made, cookie>>
    BY DEF End, Goto
  <1> HIDE DEF p, pc
  <1>6. Passing(q, Continue(p, pc))
    <2>1. pc # "answer" => Passing(q, [p EXCEPT !.pc = pc])
      BY <1>1, <1>3, <1>4 DEF Passing, Ahead, Password
    <2> QED
      BY <1>1, <1>3, <1>4, <2>1, ContinuePasses
  <1>7. Blind(Continue(p, pc))
    <2>1. CASE pc = "answer"
      BY <1>3, <2>1, EndsPass DEF Continue
    <2>2. CASE pc # "answer"
      <3>1. Continue(p, pc).op = q.op
        BY <1>3, <2>2 DEF Continue
      <3> QED
        BY <1>4, <3>1 DEF Blind
    <2> QED
      BY <2>1, <2>2
  <1>8. q.pc # "insertLegacy"
    BY <1>1
  <1> QED
    BY <1>2, <1>5, <1>6, <1>7, <1>8, ChangeKind

\* A callback that takes its flow goes on with the session it has read.
LEMMA TakeFlowKind ==
    ASSUME KindInv, FreshInv', NEW r \in Requests, TakeFlow(r)
    PROVE  KindInv'
  <1> DEFINE q == req[r]
  <1>1. /\ q \in Request /\ Ahead(q) /\ Sees(q) /\ TypeOK /\ q.pc = "takeFlow"
        /\ \A s \in Live : db[s] \in Row
    BY Types DEF KindInv, FreshInv, LocalInv, TakeFlow
  <1>2. Live' = Live /\ \A s \in Live : Same(s) /\ Loses(s)
    BY <1>1 DEF TakeFlow, FlowDropped, Live, Same, Loses, Row
  <1>3. UNCHANGED <<issued, made, cookie>>
    BY DEF TakeFlow
  <1>4. CASE Goto(r, Answered(q))
    BY <1>1, <1>2, <1>3, <1>4, EndsPass, ChangeKind DEF Goto
  <1>5. CASE Goto(r, [q EXCEPT !.pc = "exchange"])
    <2> DEFINE p == [q EXCEPT !.pc = "exchange"]
    <2>1. /\ p.pc = "exchange" /\ p.known = q.known /\ p.op = q.op /\ p.sid = q.sid
          /\ p.new = q.new /\ p.cookie = q.cookie
      BY <1>1 DEF Request
    <2>2. req' = [req EXCEPT ![r] = p] /\ req'[r] = p
      BY <1>1, <1>5, Types DEF Goto
    <2> HIDE DEF p
    <2>3. Passing(q, p)
      BY <1>1, <2>1 DEF Passing, Ahead
    <2>4. Sees(req[r])'
      BY <1>1, <1>2, <2>1, <2>2 DEF Sees, At, Same
    <2> QED
      BY <1>1, <1>2, <1>3, <2>2, <2>3, <2>4, ChangeKind
  <1> QED
    BY <1>4, <1>5 DEF TakeFlow

\* A callback leaves no old admin login in the session its cookie opens.
LEMMA DropLoginsKind ==
    ASSUME KindInv, FreshInv', NEW r \in Requests, DropLogins(r)
    PROVE  KindInv'
  <1> DEFINE q == req[r]
  <1>1. /\ q \in Request /\ Ahead(q) /\ Sees(q) /\ TypeOK /\ q.pc = "dropLogins"
        /\ \A s \in Live : db[s] \in Row
    BY Types DEF KindInv, FreshInv, LocalInv, DropLogins
  <1>2. /\ Live' = Live /\ \A s \in Live : Same(s) /\ Loses(s)
        /\ q.known \in Live => db'[q.known].legacy = "none"
    BY <1>1 DEF DropLogins, LoginsDropped, Live, Same, Loses, Row
  <1>3. UNCHANGED <<issued, made, cookie>>
    BY DEF DropLogins
  <1>4. CASE Goto(r, Answered(q))
    BY <1>1, <1>2, <1>3, <1>4, EndsPass, ChangeKind DEF Goto
  <1>5. CASE Goto(r, [q EXCEPT !.pc = "load", !.next = "renew", !.known = 0, !.before = issued])
    <2> DEFINE p == [q EXCEPT !.pc = "load", !.next = "renew", !.known = 0, !.before = issued]
    <2>1. /\ p.pc = "load" /\ p.next = "renew" /\ p.known = 0 /\ p.op = q.op /\ p.sid = q.sid
          /\ p.new = q.new /\ p.cookie = q.cookie
      BY <1>1 DEF Request
    <2>2. req' = [req EXCEPT ![r] = p] /\ req'[r] = p
      BY <1>1, <1>5, Types DEF Goto
    <2> HIDE DEF p
    <2>3. Passing(q, p)
      BY <1>1, <2>1 DEF Passing, Ahead
    <2>4. Sees(req[r])'
      BY <1>1, <1>2, <2>1, <2>2 DEF Sees, At, Same
    <2> QED
      BY <1>1, <1>2, <1>3, <2>2, <2>3, <2>4, ChangeKind
  <1> QED
    BY <1>4, <1>5 DEF DropLogins

\* A callback records its login in a session without an old admin login.
LEMMA RecordKind ==
    ASSUME KindInv, FreshInv', NEW r \in Requests, Record(r)
    PROVE  KindInv'
  <1> DEFINE q == req[r]
             l == [before |-> q.before, at |-> clock, roles |-> q.roles]
  <1>1. /\ q \in Request /\ Ahead(q) /\ Sees(q) /\ TypeOK /\ q.pc = "record"
        /\ \A s \in Live : db[s] \in Row
    BY Types DEF KindInv, FreshInv, LocalInv, Record
  <1>2. q.sid \in Live => db[q.sid].legacy = "none"
    BY <1>1 DEF Ahead, Sees
  <1>3. \/ db' = db
        \/ q.sid \in Live /\ db' = [db EXCEPT ![q.sid].login = l]
    BY DEF Record
  <1>4. req' = [req EXCEPT ![r] = Answered(q)] /\ UNCHANGED <<issued, made, cookie>>
    BY DEF Record, Goto
  <1> HIDE DEF l
  <1>5. /\ Live' \subseteq Live
        /\ \A s \in Live' :
                /\ Same(s)
                /\ \/ Loses(s)
                   \/ /\ s \in {req[r].known, req[r].sid}
                      /\ db'[s].login = NoLogin \/ db'[s].legacy = "none"
    BY <1>1, <1>2, <1>3 DEF Live, Same, Loses, TypeOK, Row
  <1> QED
    BY <1>1, <1>4, <1>5, EndsPass, ChangeKind

\* A step that hands out a token, for a session of its own or the one it knows.
LEMMA TokenKind ==
    ASSUME KindInv, FreshInv', NEW r \in Requests, NEW p, NEW s,
           issued' = issued + 1, cookie' = cookie, req' = [req EXCEPT ![r] = p],
           Live' = Live \cup {s}, \A i \in Live \ {s} : db'[i] = db[i],
           db'[s].token = issued + 1,
           db'[s].login = NoLogin \/ db'[s].legacy = "none",
           \/ s = made + 1 /\ made' = made + 1 /\ Bare(db'[s])
           \/ /\ s = req[r].known /\ s \in Live /\ made' = made
              /\ req[r].op \notin Password
              /\ db'[s].legacy = db[s].legacy,
           p.op = req[r].op, p.known = 0, p.sid \in {0, s}, p.new = issued + 1,
           p.cookie \in {0, req[r].cookie},
           p.pc \in {"insertLegacy", "record"} => p.sid = s,
           Ahead(p),
           p.op = "callback" => p.pc \in {"record", "answer"} /\ db'[s].legacy = "none"
    PROVE  KindInv'
  <1>1. TypeOK /\ issued \in Nat /\ made \in Nat /\ TypeOK'
    BY Types DEF KindInv, FreshInv
  <1>2. /\ req'[r] = p
        /\ \A o \in Requests \ {r} : req'[o] = req[o]
        /\ \A o \in Requests : req[o] \in Request
        /\ \A o \in Requests : req'[o] \in Request
    BY <1>1, Types DEF TypeOK
  <1>3. \A i \in Live : i <= made /\ i # 0 /\ i \in Nat /\ db[i].token <= issued /\ db[i].token \in Nat
    BY <1>1, Types DEF KindInv, FreshInv, RowsFresh, Row
  <1>4. s <= made' /\ s # 0 /\ s \in Nat
    BY <1>1, <1>3
  <1>5. p \in Request
    BY <1>2
  <1>6. Numbered'
    <2>1. \A i, j \in Live' : db'[i].token = db'[j].token => i = j
      BY <1>1, <1>3 DEF KindInv, Numbered
    <2>2. \A b \in Browsers : cookie'[b] <= issued'
      BY <1>1, Types DEF KindInv, Numbered
    <2>3. ASSUME NEW o \in Requests \ {r}
          PROVE  /\ req'[o].cookie <= issued' /\ req'[o].new <= issued'
                 /\ req'[o].known <= made' /\ req'[o].sid <= made'
      BY <1>1, <1>2 DEF KindInv, Numbered, Request
    <2>4. /\ p.cookie <= issued' /\ p.new <= issued'
          /\ p.known <= made' /\ p.sid <= made'
      <3>1. p.cookie <= issued'
        BY <1>1, <1>2 DEF KindInv, Numbered, Request
      <3>2. 0 <= made' /\ p.new <= issued'
        BY <1>1
      <3> QED
        BY <1>4, <3>1, <3>2
    <2> QED
      BY <1>2, <2>1, <2>2, <2>3, <2>4 DEF Numbered
  <1>7. OneKindOfLogin'
    BY DEF KindInv, OneKindOfLogin
  <1>8. ASSUME NEW o \in Requests \ {r}, req[o].pc = "insertLegacy"
        PROVE  /\ req[o].sid # s /\ req[o].sid # 0
               /\ req[o].new # issued + 1 /\ req[o].new # 0
               /\ req[o].sid # req[r].known /\ req[o].new # req[r].cookie
    <2>1. req[o].sid <= made /\ req[o].new <= issued
      BY DEF KindInv, Numbered
    <2>2. req[o].sid \in Nat /\ req[o].new \in Nat
      BY <1>2 DEF Request
    <2>3. req[o].sid # req[r].known /\ req[o].new # req[r].cookie
      BY <1>8 DEF KindInv, Apart
    <2>4. req[o].sid # 0 /\ req[o].new # 0
      BY <1>8 DEF KindInv, LocalInv, Own
    <2> QED
      BY <1>1, <2>1, <2>2, <2>3, <2>4
  <1>9. ASSUME p.pc = "insertLegacy"
        PROVE  s = made + 1 /\ p.sid = s /\ Bare(db'[s])
    BY <1>9 DEF Ahead
  <1>10. Apart'
    <2>1. ASSUME NEW a \in Requests, req'[a].pc = "insertLegacy", NEW o \in Requests \ {a}
          PROVE  /\ req'[a].sid \notin {req'[o].known, req'[o].sid}
                 /\ req'[a].new \notin {req'[o].cookie, req'[o].new}
      <3>1. CASE a = r
        <4>1. /\ req[o].known <= made /\ req[o].sid <= made
              /\ req[o].cookie <= issued /\ req[o].new <= issued
          BY DEF KindInv, Numbered
        <4>2. /\ req[o].known \in Nat /\ req[o].sid \in Nat
              /\ req[o].cookie \in Nat /\ req[o].new \in Nat
          BY <1>2 DEF Request
        <4> QED
          BY <1>1, <1>2, <1>9, <2>1, <3>1, <4>1, <4>2
      <3>2. CASE a # r /\ o = r
        BY <1>2, <1>8, <2>1, <3>2
      <3>3. CASE a # r /\ o # r
        BY <1>2, <2>1, <3>3 DEF KindInv, Apart
      <3> QED
        BY <3>1, <3>2, <3>3
    <2>2. ASSUME NEW a \in Requests, req'[a].pc = "insertLegacy", NEW b \in Browsers
          PROVE  cookie'[b] # req'[a].new
      <3>1. CASE a = r
        <4>1. cookie[b] <= issued /\ cookie[b] \in Nat
          BY <1>1, Types DEF KindInv, Numbered
        <4> QED
          BY <1>1, <1>2, <3>1, <4>1
      <3>2. CASE a # r
        BY <1>2, <2>2, <3>2 DEF KindInv, Apart
      <3> QED
        BY <3>1, <3>2
    <2> QED
      BY <2>1, <2>2 DEF Apart
  <1>11. ASSUME NEW o \in Requests
         PROVE  Ahead(req[o])' /\ Sees(req[o])' /\ Own(req[o])'
    <2>1. CASE o = r
      <3>1. Ahead(req[o])'
        BY <1>2, <2>1 DEF Ahead
      <3>2. Sees(req[o])'
        BY <1>2, <2>1 DEF Sees, At
      <3>3. Own(req[o])'
        BY <1>1, <1>2, <1>4, <1>9, <2>1 DEF Own
      <3> QED
        BY <3>1, <3>2, <3>3
    <2>2. CASE o # r
      <3>1. req'[o] = req[o] /\ Ahead(req[o]) /\ Sees(req[o]) /\ Own(req[o])
        BY <1>2, <2>2 DEF KindInv, LocalInv
      <3>2. Ahead(req[o])'
        BY <3>1 DEF Ahead
      <3>3. Sees(req[o])'
        <4>1. db'[s].token # req[o].cookie
          BY <1>1, <1>2 DEF KindInv, Numbered, Request
        <4>2. /\ s \notin Live => req[o].known # s /\ req[o].sid # s
              /\ s \in Live => db'[s].legacy = db[s].legacy
          BY <1>1, <1>2, <1>3 DEF KindInv, Numbered, Request
        <4> QED
          BY <3>1, <4>1, <4>2 DEF Sees, At
      <3>4. Own(req[o])'
        BY <1>8, <2>2, <3>1 DEF Own
      <3> QED
        BY <3>2, <3>3, <3>4
    <2> QED
      BY <2>1, <2>2
  <1> QED
    BY <1>6, <1>7, <1>10, <1>11 DEF KindInv, LocalInv

\* What a handler is after a renewal.
LEMMA RenewedFacts ==
    ASSUME NEW q \in Request, NEW s \in Nat, issued \in Nat, Ahead(q)
    PROVE  LET p == Renewed(q, s) IN
           /\ p.op = q.op /\ p.known = 0 /\ p.sid \in {0, s} /\ p.new = issued + 1
           /\ p.cookie \in {0, q.cookie}
           /\ p.pc \in {"load", "record", "grant", "insertLegacy", "answer"}
           /\ p.pc \in {"insertLegacy", "record", "grant"} => p.sid = s
           /\ p.pc = "grant" <=> p.op = "redeem"
           /\ p.next \in {q.next, "idle"}
           /\ Ahead(p)
           /\ p.op = "callback" => p.pc \in {"record", "answer"}
  <1> DEFINE n == issued + 1
             e == [q EXCEPT !.known = 0, !.sid = s, !.new = n]
             pc == AfterRenew(q.op)
  <1>1. n \in Nat
    OBVIOUS
  <1> HIDE DEF n
  <1>2. /\ pc \in {"load", "record", "grant", "insertLegacy", "answer"}
        /\ q.op \in Password <=> pc = "insertLegacy"
        /\ q.op = "callback" <=> pc = "record"
        /\ q.op = "redeem" <=> pc = "grant"
    <2>1. q.op \in AllOps
      BY DEF Request
    <2> QED
      BY <2>1 DEF AfterRenew, AllOps, Password
  <1>3. pc \in PCs
    BY <1>2 DEF PCs
  <1> HIDE DEF pc
  <1>4. CASE pc = "answer"
    <2>1. Continue(e, pc) = Answered(e) /\ e.op = q.op /\ e.new = n
      BY <1>1, <1>4 DEF Continue, Request
    <2> HIDE DEF e
    <2>2. LET p == Answered(e) IN
            p.op = q.op /\ p.known = 0 /\ p.sid = 0 /\ p.new = n /\ p.cookie = 0
            /\ p.pc = "answer" /\ p.next = "idle"
      BY <2>1 DEF Answered, NoRequest
    <2> QED
      BY <1>2, <1>4, <2>1, <2>2 DEF Renewed, e, n, pc, Ahead
  <1>5. CASE pc # "answer"
    <2> DEFINE p == [e EXCEPT !.pc = pc]
    <2>1. Continue(e, pc) = p
      BY <1>5 DEF Continue
    <2>2. /\ p.op = q.op /\ p.known = 0 /\ p.sid = s /\ p.new = n
          /\ p.cookie = q.cookie /\ p.pc = pc /\ p.next = q.next
      BY <1>1, <1>3 DEF Request
    <2>3. Renewed(q, s) = p
      BY <2>1 DEF Renewed, e, n, pc
    <2> HIDE DEF p
    <2>4. q.op \in Password \/ q.op = "callback" => pc \notin {"load", "parts", "renew"}
      BY <1>2
    <2>5. Ahead(p)
      BY <1>2, <2>2 DEF Ahead, Password
    <2> QED
      BY <1>2, <2>2, <2>3, <2>5 DEF n
  <1> QED
    BY <1>4, <1>5

\* A renewal makes a session nobody knows, or goes on to change the known one.
LEMMA RenewKind ==
    ASSUME KindInv, FreshInv', NEW r \in Requests, Renew(r)
    PROVE  KindInv'
  <1> DEFINE q == req[r]
  <1>1. /\ q \in Request /\ Ahead(q) /\ Sees(q) /\ TypeOK /\ q.pc = "renew"
        /\ issued \in Nat /\ made \in Nat /\ 0 \notin Live /\ \A s \in Live : s \in 1 .. made
    BY Types DEF KindInv, FreshInv, LocalInv, Renew
  <1>2. CASE q.known \in Live
    <2> DEFINE p == [q EXCEPT !.pc = "renewSet"]
    <2>1. /\ p.pc = "renewSet" /\ p.known = q.known /\ p.op = q.op /\ p.sid = q.sid
          /\ p.new = q.new /\ p.cookie = q.cookie
      BY <1>1 DEF Request
    <2>2. req' = [req EXCEPT ![r] = p] /\ UNCHANGED <<db, issued, made, cookie>>
      BY <1>2 DEF Renew, Goto
    <2>3. req'[r] = p
      BY <1>1, <2>2, Types
    <2> HIDE DEF p
    <2>4. q.op \notin Password
      BY <1>1, <1>2 DEF Ahead
    <2>5. Passing(q, p)
      BY <1>1, <2>1, <2>4 DEF Passing, Ahead
    <2>6. Sees(req[r])'
      BY <1>1, <2>1, <2>2, <2>3, SameRows DEF Sees, At
    <2> QED
      BY <2>2, <2>5, <2>6, PassKind
  <1>3. CASE q.known \notin Live
    <2> DEFINE s == made + 1
               p == Renewed(q, s)
    <2>1. /\ db' = With(s, NewRow(issued + 1)) /\ issued' = issued + 1 /\ made' = made + 1
          /\ req' = [req EXCEPT ![r] = p] /\ cookie' = cookie
      BY <1>3 DEF Renew, Goto
    <2>2. /\ p.op = q.op /\ p.known = 0 /\ p.sid \in {0, s} /\ p.new = issued + 1
          /\ p.cookie \in {0, q.cookie}
          /\ p.pc \in {"insertLegacy", "record"} => p.sid = s
          /\ Ahead(p)
          /\ p.op = "callback" => p.pc \in {"record", "answer"}
      BY <1>1, RenewedFacts
    <2>3. /\ Live' = Live \cup {s} /\ db'[s] = NewRow(issued + 1)
          /\ \A i \in Live \ {s} : db'[i] = db[i]
      BY <2>1 DEF With, Live
    <2>4. Bare(db'[s]) /\ db'[s].token = issued + 1
      BY <2>3 DEF NewRow, Bare
    <2> HIDE DEF p
    <2>5. /\ db'[s].legacy = "none"
          /\ s = made + 1 /\ made' = made + 1 /\ Bare(db'[s])
      BY <2>1, <2>4 DEF Bare
    <2> HIDE DEF s
    <2> QED
      BY <2>1, <2>2, <2>3, <2>4, <2>5, TokenKind
  <1> QED
    BY <1>2, <1>3

\* A known session keeps its parts under a new token.
LEMMA RenewSetKind ==
    ASSUME KindInv, FreshInv', NEW r \in Requests, RenewSet(r)
    PROVE  KindInv'
  <1> DEFINE q == req[r]
             s == q.known
  <1>1. /\ q \in Request /\ Ahead(q) /\ Sees(q) /\ TypeOK /\ q.pc = "renewSet"
        /\ issued \in Nat /\ s \in Nat /\ \A i \in Live : db[i] \in Row
    BY Types DEF KindInv, FreshInv, LocalInv, RenewSet, Request
  <1>2. CASE s \notin Live
    <2>1. req' = [req EXCEPT ![r] = NoRequest] /\ UNCHANGED <<db, issued, made, cookie>>
      BY <1>2 DEF RenewSet, Goto
    <2> QED
      BY <1>1, <2>1, EndsPass, PassKind
  <1>3. CASE s \in Live
    <2> DEFINE p == Renewed(q, s)
    <2>1. /\ db' = [db EXCEPT ![s] = Retokened(db[s])] /\ issued' = issued + 1 /\ made' = made
          /\ req' = [req EXCEPT ![r] = p] /\ cookie' = cookie
      BY <1>3 DEF RenewSet, Goto
    <2>2. /\ p.op = q.op /\ p.known = 0 /\ p.sid \in {0, s} /\ p.new = issued + 1
          /\ p.cookie \in {0, q.cookie}
          /\ p.pc \in {"insertLegacy", "record"} => p.sid = s
          /\ Ahead(p)
          /\ p.op = "callback" => p.pc \in {"record", "answer"}
      BY <1>1, RenewedFacts
    <2>3. /\ Live' = Live \cup {s} /\ db'[s] = Retokened(db[s])
          /\ \A i \in Live \ {s} : db'[i] = db[i]
      BY <1>3, <2>1 DEF Live
    <2>4. /\ db'[s].token = issued + 1 /\ db'[s].legacy = db[s].legacy
          /\ db'[s].login = db[s].login
      BY <1>1, <1>3, <2>3 DEF Retokened, Row
    <2> HIDE DEF p
    <2>5. q.op \notin Password
      BY <1>1 DEF Ahead
    <2>6. q.op = "callback" => db[s].legacy = "none"
      BY <1>1, <1>3 DEF Sees, At
    <2>7. db'[s].login = NoLogin \/ db'[s].legacy = "none"
      BY <1>3, <2>4 DEF KindInv, OneKindOfLogin
    <2> QED
      BY <1>3, <2>1, <2>2, <2>3, <2>4, <2>5, <2>6, <2>7, TokenKind
  <1> QED
    BY <1>2, <1>3

\* The password login is recorded in a session nobody else knows.
LEMMA InsertLegacyKind ==
    ASSUME KindInv, FreshInv', NEW r \in Requests, InsertLegacy(r)
    PROVE  KindInv'
  <1> DEFINE q == req[r]
             s == q.sid
             p == Answered(q)
  <1>1. /\ q \in Request /\ Own(q) /\ TypeOK /\ q.pc = "insertLegacy"
        /\ issued \in Nat /\ made \in Nat
        /\ \A i \in Live : db[i] \in Row
    BY Types DEF KindInv, FreshInv, LocalInv, InsertLegacy
  <1>2. /\ req' = [req EXCEPT ![r] = p] /\ UNCHANGED <<issued, made, cookie>>
        /\ req'[r] = p /\ \A o \in Requests \ {r} : req'[o] = req[o]
    BY <1>1, Types DEF InsertLegacy, Goto
  <1>3. /\ p.pc = "answer" /\ p.op = q.op /\ p.known = 0 /\ p.sid = 0
        /\ p.cookie = 0 /\ p.new = q.new
    BY DEF Answered, NoRequest
  <1> HIDE DEF p
  <1>4. /\ Live' = Live
        /\ \A i \in Live \ {s} : db'[i] = db[i]
        /\ s \in Live => db'[s].token = db[s].token /\ db'[s].login = NoLogin
    <2> DEFINE l == IF q.done THEN "done" ELSE "pending"
    <2>1. \/ db' = db /\ s \notin Live
          \/ s \in Live /\ db' = [db EXCEPT ![s].legacy = l]
      BY DEF InsertLegacy
    <2>2. s \in Live => db[s].login = NoLogin
      BY <1>1 DEF Own, Bare
    <2> HIDE DEF l
    <2> QED
      BY <1>1, <2>1, <2>2 DEF Live, Row
  <1>5. Numbered'
    <2>1. \A i, j \in Live' : db'[i].token = db'[j].token => i = j
      BY <1>4 DEF KindInv, Numbered
    <2>2. q.new <= issued /\ 0 <= issued /\ 0 <= made
      BY <1>1 DEF KindInv, Numbered
    <2>3. \A o \in Requests : /\ req'[o].cookie <= issued' /\ req'[o].new <= issued'
                              /\ req'[o].known <= made' /\ req'[o].sid <= made'
      BY <1>2, <1>3, <2>2 DEF KindInv, Numbered
    <2> QED
      BY <1>2, <2>1, <2>3 DEF KindInv, Numbered
  <1>6. OneKindOfLogin'
    BY <1>4 DEF KindInv, OneKindOfLogin
  <1>7. ASSUME NEW o \in Requests \ {r}
        PROVE  /\ s \notin {req[o].known, req[o].sid}
               /\ q.new \notin {req[o].cookie, req[o].new}
               /\ s \in Live => db[s].token = q.new
    BY <1>1 DEF KindInv, Apart, Own
  <1>8. Apart'
    <2>1. ASSUME NEW a \in Requests, req'[a].pc = "insertLegacy", NEW o \in Requests \ {a}
          PROVE  /\ req'[a].sid \notin {req'[o].known, req'[o].sid}
                 /\ req'[a].new \notin {req'[o].cookie, req'[o].new}
      <3>1. a # r /\ req'[a] = req[a] /\ req[a].pc = "insertLegacy"
        BY <1>2, <1>3, <2>1
      <3>2. CASE o = r
        <4>1. req[a].sid # 0 /\ req[a].new # 0
          BY <3>1 DEF KindInv, LocalInv, Own
        <4> QED
          BY <1>2, <1>3, <1>7, <3>1, <3>2, <4>1
      <3>3. CASE o # r
        BY <1>2, <3>1, <3>3 DEF KindInv, Apart
      <3> QED
        BY <3>2, <3>3
    <2>2. ASSUME NEW a \in Requests, req'[a].pc = "insertLegacy", NEW b \in Browsers
          PROVE  cookie'[b] # req'[a].new
      BY <1>2, <1>3, <2>2 DEF KindInv, Apart
    <2> QED
      BY <2>1, <2>2 DEF Apart
  <1>9. ASSUME NEW o \in Requests
        PROVE  Ahead(req[o])' /\ Sees(req[o])' /\ Own(req[o])'
    <2>1. CASE o = r
      BY <1>2, <1>3, <2>1 DEF Ahead, Sees, At, Own
    <2>2. CASE o # r
      <3>1. req'[o] = req[o] /\ Ahead(req[o]) /\ Sees(req[o]) /\ Own(req[o])
        BY <1>2, <2>2 DEF KindInv, LocalInv
      <3>2. Ahead(req[o])'
        BY <3>1 DEF Ahead
      <3>3. Sees(req[o])'
        BY <1>4, <1>7, <2>2, <3>1 DEF Sees, At
      <3>4. Own(req[o])'
        BY <1>4, <1>7, <2>2, <3>1 DEF Own
      <3> QED
        BY <3>2, <3>3, <3>4
    <2> QED
      BY <2>1, <2>2
  <1> QED
    BY <1>5, <1>6, <1>8, <1>9 DEF KindInv, LocalInv

\* An answer brings its browser the token it was made with, or none.
LEMMA DeliverKind ==
    ASSUME KindInv, FreshInv', NEW r \in Requests, Deliver(r)
    PROVE  KindInv'
  <1> DEFINE q == req[r]
  <1>1. /\ q \in Request /\ TypeOK /\ q.pc = "answer"
        /\ issued \in Nat /\ made \in Nat /\ cookie \in [Browsers -> Nat]
    BY Types DEF KindInv, FreshInv, Deliver
  <1>2. /\ req' = [req EXCEPT ![r] = NoRequest] /\ UNCHANGED <<issued, made, db>>
        /\ req'[r] = NoRequest /\ \A o \in Requests \ {r} : req'[o] = req[o]
    BY <1>1, Types DEF Deliver, Goto
  <1>3. \A b \in Browsers : cookie'[b] \in {cookie[b], q.new, 0}
    BY <1>1 DEF Deliver
  <1>4. LET p == NoRequest IN /\ p.pc = "idle" /\ p.op = "visit" /\ p.known = 0
                              /\ p.sid = 0 /\ p.new = 0 /\ p.cookie = 0
    BY DEF NoRequest
  <1>5. Numbered'
    <2>1. \A i, j \in Live' : db'[i].token = db'[j].token => i = j
      BY <1>2, SameRows DEF KindInv, Numbered
    <2>2. q.new <= issued /\ 0 <= issued /\ 0 <= made
      BY <1>1 DEF KindInv, Numbered
    <2>3. \A o \in Requests : /\ req'[o].cookie <= issued' /\ req'[o].new <= issued'
                              /\ req'[o].known <= made' /\ req'[o].sid <= made'
      BY <1>2, <1>4, <2>2 DEF KindInv, Numbered
    <2>4. \A b \in Browsers : cookie'[b] <= issued'
      BY <1>2, <1>3, <2>2 DEF KindInv, Numbered
    <2> QED
      BY <2>1, <2>3, <2>4 DEF Numbered
  <1>6. OneKindOfLogin'
    BY <1>2, SameRows DEF KindInv, OneKindOfLogin
  <1>7. ASSUME NEW a \in Requests, req'[a].pc = "insertLegacy"
        PROVE  /\ a # r /\ req'[a] = req[a] /\ req[a].pc = "insertLegacy"
               /\ req[a].sid # 0 /\ req[a].new # 0 /\ req[a].new # q.new
    <2>1. a # r /\ req'[a] = req[a] /\ req[a].pc = "insertLegacy"
      BY <1>2, <1>4, <1>7
    <2> QED
      BY <2>1 DEF KindInv, LocalInv, Own, Apart
  <1>8. Apart'
    <2>1. ASSUME NEW a \in Requests, req'[a].pc = "insertLegacy", NEW o \in Requests \ {a}
          PROVE  /\ req'[a].sid \notin {req'[o].known, req'[o].sid}
                 /\ req'[a].new \notin {req'[o].cookie, req'[o].new}
      <3>1. CASE o = r
        BY <1>2, <1>4, <1>7, <2>1, <3>1
      <3>2. CASE o # r
        BY <1>2, <1>7, <2>1, <3>2 DEF KindInv, Apart
      <3> QED
        BY <3>1, <3>2
    <2>2. ASSUME NEW a \in Requests, req'[a].pc = "insertLegacy", NEW b \in Browsers
          PROVE  cookie'[b] # req'[a].new
      BY <1>3, <1>7, <2>2 DEF KindInv, Apart
    <2> QED
      BY <2>1, <2>2 DEF Apart
  <1>9. ASSUME NEW o \in Requests
        PROVE  Ahead(req[o])' /\ Sees(req[o])' /\ Own(req[o])'
    <2>1. CASE o = r
      BY <1>2, <1>4, <2>1 DEF Ahead, Sees, At, Own, Password
    <2>2. CASE o # r
      BY <1>2, <2>2, SameRows DEF KindInv, LocalInv, Ahead, Sees, At, Own
    <2> QED
      BY <2>1, <2>2
  <1> QED
    BY <1>5, <1>6, <1>8, <1>9 DEF KindInv, LocalInv

\* The clean-up only takes away.
LEMMA CleanUpKind ==
    ASSUME KindInv, FreshInv', CleanUp
    PROVE  KindInv'
  <1>1. TypeOK /\ \A s \in Live : db[s] \in Row
    BY Types DEF KindInv, FreshInv
  <1>2. Live' \subseteq Live /\ \A s \in Live' : db'[s] = WithoutExpiredParts(db[s])
    BY DEF CleanUp, Live
  <1>3. ASSUME NEW s \in Live'
        PROVE  Same(s) /\ Loses(s)
    <2> DEFINE row == db[s]
    <2>1. row \in Row /\ db'[s] = WithoutExpiredParts(row)
      BY <1>1, <1>2
    <2> HIDE DEF row
    <2>2. LET c == WithoutExpiredParts(row) IN
            /\ c.token = row.token /\ c.legacy \in {row.legacy, "none"}
            /\ c.login \in {row.login, NoLogin} /\ c.flow \in {row.flow, NoFlow}
            /\ c.access \in {row.access, NoAccess}
      BY <2>1 DEF WithoutExpiredParts, Row
    <2> QED
      BY <2>1, <2>2 DEF Same, Loses, row
  <1>4. OneKindOfLogin'
    BY <1>2, <1>3 DEF KindInv, OneKindOfLogin, Same, Loses
  <1>5. UNCHANGED <<req, issued, made, cookie>>
    BY DEF CleanUp
  <1> QED
    BY <1>2, <1>3, <1>4, <1>5, QuietKind

-----------------------------------------------------------------------------
(* The theorems.                                                            *)

\* Every step keeps the invariant.
LEMMA KindStep == KindInv /\ [Next]_vars => KindInv'
  <1> SUFFICES ASSUME KindInv, [Next]_vars
               PROVE  KindInv'
    OBVIOUS
  <1>1. FreshInv'
    BY FreshStep DEF KindInv
  <1>2. ASSUME NEW r \in Requests, NEW op \in Ops, Begin(r, op)
        PROVE  KindInv'
    BY <1>1, <1>2, BeginKind
  <1>3. ASSUME NEW r \in Requests, Handler(r)
        PROVE  KindInv'
    <2>1. CASE Validate(r) \/ Gate(r) \/ RecordView(r) \/ Exchange(r)
      BY <1>1, <2>1, PlainKind
    <2>2. CASE Grant(r) \/ InsertFlow(r) \/ DropAccess(r) \/ DropFlow(r)
      BY <1>1, <2>2, PartsKind
    <2>3. CASE LoadRow(r) \/ LoadParts(r)
      BY <1>1, <2>3, LoadRowKind, LoadPartsKind
    <2>4. CASE Renew(r) \/ RenewSet(r)
      BY <1>1, <2>4, RenewKind, RenewSetKind
    <2>5. CASE End(r) \/ InsertLegacy(r)
      BY <1>1, <2>5, EndKind, InsertLegacyKind
    <2>6. CASE TakeFlow(r) \/ DropLogins(r) \/ Record(r)
      BY <1>1, <2>6, TakeFlowKind, DropLoginsKind, RecordKind
    <2> QED
      BY <1>3, <2>1, <2>2, <2>3, <2>4, <2>5, <2>6 DEF Handler
  <1>4. ASSUME NEW r \in Requests, Deliver(r) \/ Abort(r)
        PROVE  KindInv'
    BY <1>1, <1>4, DeliverKind, PlainKind
  <1>5. CASE CleanUp
    BY <1>1, <1>5, CleanUpKind
  <1>6. ASSUME UNCHANGED <<db, req, issued, made, cookie>>
        PROVE  KindInv'
    <2>1. OneKindOfLogin'
      BY <1>6, SameRows DEF KindInv, OneKindOfLogin
    <2> QED
      BY <1>1, <1>6, <2>1, SameRows, QuietKind
  <1>7. CASE Tick \/ (\E l \in Links : RevokeLink(l) \/ MoveExpiry(l)) \/ UNCHANGED vars
    BY <1>6, <1>7 DEF Tick, RevokeLink, MoveExpiry, vars
  <1> QED
    BY <1>2, <1>3, <1>4, <1>5, <1>7 DEF Next

\* The invariant holds before anything has happened.
LEMMA KindInit == Init => KindInv
  <1> SUFFICES ASSUME Init
               PROVE  KindInv
    OBVIOUS
  <1>1. Live = {}
    BY DEF Init, Live
  <1>2. FreshInv
    BY EmptyTypes, SessionsAssumption
       DEF Init, FreshInv, TypeOK, Live, RowsFresh, RequestsFresh, NoRequest, NextSteps
  <1>3. \A r \in Requests : req[r] = NoRequest
    BY DEF Init
  <1>4. /\ NoRequest.pc = "idle" /\ NoRequest.op = "visit" /\ NoRequest.known = 0
        /\ NoRequest.sid = 0 /\ NoRequest.new = 0 /\ NoRequest.cookie = 0
    BY DEF NoRequest
  <1>5. Numbered
    BY <1>1, <1>3, <1>4 DEF Init, Numbered
  <1> QED
    BY <1>1, <1>2, <1>3, <1>4, <1>5
       DEF KindInv, Apart, LocalInv, Ahead, Sees, At, Own, Password, OneKindOfLogin

\* The invariant holds of the sessions of every behaviour.
LEMMA KindAlways == Spec => []KindInv
  BY KindInit, KindStep, PTL DEF Spec

\* "No right of an earlier login carries over" (oidc_router.py): however many
\* password logins, callbacks and renewals interleave, no session ever holds a
\* login through authentik together with the old admin login.
THEOREM OneKindStays == Spec => []OneKindOfLogin
  <1>1. KindInv => OneKindOfLogin
    BY DEF KindInv
  <1> QED
    BY <1>1, KindAlways, PTL

\* Only the last step of a password login puts the old admin login into a session.
LEMMA LegacyOnlyThere ==
    ASSUME TypeOK, [Next]_vars, \A r \in Requests : ~InsertLegacy(r)
    PROVE  \A s \in Live \cap Live' : db'[s].legacy \in {"none", db[s].legacy}
  <1>1. \A s \in Live : db[s] \in Row
    BY Types
  <1>2. CASE db' = db
    BY <1>2 DEF Live
  <1>3. ASSUME NEW r \in Requests,
               \/ LoadParts(r) \/ Renew(r) \/ RenewSet(r) \/ End(r) \/ DropAccess(r)
               \/ DropFlow(r) \/ TakeFlow(r) \/ DropLogins(r)
        PROVE  \A s \in Live \cap Live' : db'[s].legacy \in {"none", db[s].legacy}
    <2>1. CASE LoadParts(r)
      BY <1>1, <2>1 DEF LoadParts, Live, Row
    <2>2. CASE Renew(r)
      <3>1. made + 1 \notin Live
        BY DEF TypeOK
      <3> QED
        BY <2>2, <3>1 DEF Renew, With, Live
    <2>3. CASE RenewSet(r)
      BY <1>1, <2>3 DEF RenewSet, Retokened, Live, Row
    <2>4. CASE End(r)
      BY <2>4 DEF End, Without, Live
    <2>5. CASE DropAccess(r)
      BY <1>1, <2>5 DEF DropAccess, Live, Row
    <2>6. CASE DropFlow(r) \/ TakeFlow(r)
      BY <1>1, <2>6 DEF DropFlow, TakeFlow, FlowDropped, Live, Row
    <2>7. CASE DropLogins(r)
      BY <1>1, <2>7 DEF DropLogins, LoginsDropped, Live, Row
    <2> QED
      BY <1>3, <2>1, <2>2, <2>3, <2>4, <2>5, <2>6, <2>7
  <1>4. ASSUME NEW r \in Requests, Grant(r) \/ InsertFlow(r) \/ Record(r)
        PROVE  \A s \in Live \cap Live' : db'[s].legacy \in {"none", db[s].legacy}
    <2> DEFINE i == req[r].sid
               a == [link |-> req[r].link, at |-> clock]
               f == [state |-> states + 1, at |-> clock]
               l == [before |-> req[r].before, at |-> clock, roles |-> req[r].roles]
    <2>1. \/ db' = db
          \/ i \in Live /\ db' = [db EXCEPT ![i].access = a]
          \/ i \in Live /\ db' = [db EXCEPT ![i].flow = f]
          \/ i \in Live /\ db' = [db EXCEPT ![i].login = l]
      BY <1>4 DEF Grant, InsertFlow, Record
    <2> HIDE DEF i, a, f, l
    <2> QED
      BY <1>1, <2>1 DEF Live, Row
  <1>5. CASE CleanUp
    <2>1. ASSUME NEW s \in Live'
          PROVE  db'[s] = WithoutExpiredParts(db[s]) /\ s \in Live
      BY <1>5 DEF CleanUp, Live
    <2>2. ASSUME NEW row \in Row
          PROVE  WithoutExpiredParts(row).legacy \in {row.legacy, "none"}
      BY DEF WithoutExpiredParts, Row
    <2> QED
      BY <1>1, <2>1, <2>2
  <1>6. \/ db' = db \/ CleanUp
        \/ \E r \in Requests :
            \/ LoadParts(r) \/ Renew(r) \/ RenewSet(r) \/ End(r) \/ DropAccess(r)
            \/ DropFlow(r) \/ TakeFlow(r) \/ DropLogins(r)
            \/ Grant(r) \/ InsertFlow(r) \/ Record(r)
    BY DEF Next, Handler, Begin, Validate, LoadRow, RecordView, Gate, Exchange, Deliver,
           Abort, RevokeLink, MoveExpiry, Tick, vars
  <1> QED
    BY <1>2, <1>3, <1>4, <1>5, <1>6

\* "Nothing survives the factor transition" (auth/router.py): a session that is
\* given the old admin login held no part before, because it was made by the
\* request that gives it and no other request can have found it since.
THEOREM TransitionStartsEmpty == Spec => FactorTransitionStartsEmpty
  <1> DEFINE Step == \A s \in Live \cap Live' :
        db'[s].legacy \notin {"none", db[s].legacy}
            => db[s].legacy = "none" /\ db'[s].login = NoLogin
               /\ db'[s].flow = NoFlow /\ db'[s].access = NoAccess
  <1>1. ASSUME KindInv, [Next]_vars
        PROVE  Step
    <2>1. TypeOK /\ \A s \in Live : db[s] \in Row
      BY <1>1, Types DEF KindInv, FreshInv
    <2>2. CASE \A r \in Requests : ~InsertLegacy(r)
      BY <1>1, <2>1, <2>2, LegacyOnlyThere
    <2>3. ASSUME NEW r \in Requests, InsertLegacy(r)
          PROVE  Step
      <3> DEFINE i == req[r].sid
                 l == IF req[r].done THEN "done" ELSE "pending"
      <3>1. \/ db' = db
            \/ i \in Live /\ db' = [db EXCEPT ![i].legacy = l]
        BY <2>3 DEF InsertLegacy
      <3>2. i \in Live => Bare(db[i])
        BY <1>1, <2>3 DEF KindInv, LocalInv, Own, InsertLegacy
      <3> HIDE DEF i, l
      <3> QED
        BY <2>1, <3>1, <3>2 DEF Live, Row, Bare
    <2> QED
      BY <2>2, <2>3
  <1>2. KindInv /\ [Next]_vars => [Step]_vars
    BY <1>1
  <1> HIDE DEF Step
  <1>3. Spec => [][Step]_vars
    BY <1>2, KindAlways, PTL DEF Spec
  <1> QED
    BY <1>3 DEF Step, FactorTransitionStartsEmpty

=============================================================================
