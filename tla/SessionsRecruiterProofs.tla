----------------------- MODULE SessionsRecruiterProofs ------------------------
(***************************************************************************)
(* Proofs about the recruiter part of a session.  A page view reads its    *)
(* link, asks whether the link still holds, and takes the part away two    *)
(* transactions later.  It takes away what it judged, because a redeem     *)
(* that comes without the browser's cookie puts its part into a session    *)
(* it has just made: no page view can know that session yet.               *)
(***************************************************************************)
EXTENDS SessionsLoginProofs

-----------------------------------------------------------------------------
(* The invariant.                                                           *)

\* Where a redeem and a page view can be. A redeem comes without a session, and
\* knows none until it has made one.
Place(q) ==
    /\ q.op = "redeem" =>
        /\ q.pc \in {"validate", "load", "renew", "grant", "view", "answer"}
        /\ q.pc \in {"validate", "load"} => q.next = "renew"
        /\ q.pc \in {"validate", "load", "renew"} =>
            q.cookie = 0 /\ q.new = 0 /\ q.known = 0
    /\ q.next = "gate" => q.op = "visit"
    /\ q.pc \in {"gate", "dropAccess"} => q.op = "visit"
    /\ q.pc = "grant" => q.op = "redeem"

\* The session of a redeem that is about to grant access opens with the token of
\* its answer alone, and no other request or browser knows that.
Unshared ==
    \A r \in Requests : req[r].pc = "grant" =>
        /\ req[r].sid # 0 /\ req[r].new # 0
        /\ req[r].sid \in Live => db[req[r].sid].token = req[r].new
        /\ \A o \in Requests \ {r} :
            /\ req[r].sid # req[o].known
            /\ req[r].new \notin {req[o].cookie, req[o].new}
        /\ \A b \in Browsers : cookie[b] # req[r].new

\* A page view judges the part its session has, if that still has one.
Judges(q) ==
    q.pc \in {"gate", "dropAccess"} /\ q.known \in Live =>
        db[q.known].access = NoAccess \/ db[q.known].access.link = q.link

VisitInv ==
    /\ KindInv
    /\ Unshared
    /\ \A r \in Requests : Place(req[r]) /\ Judges(req[r])

-----------------------------------------------------------------------------
(* What a step can do, told once for all steps.                             *)

\* What request q can be afterwards: it knows no more sessions and tokens than
\* before, but for a token that is handed out to it.
Moves(q, p) ==
    /\ Place(p)
    /\ \/ p.known \in {0, q.known}
       \/ p.known \in Live /\ db[p.known].token \in {q.cookie, q.new}
    /\ p.cookie \in {0, q.cookie} \cup {cookie[b] : b \in Browsers}
    /\ \/ p.new \in {0, q.new} /\ p.pc # "grant"
       \/ /\ issued' = issued + 1 /\ p.new = issued'
          /\ p.pc = "grant" =>
                /\ made' = made + 1 /\ p.sid = made'
                /\ p.sid \in Live' => db'[p.sid].token = p.new

\* What it can do to a row: another token only for the session it knows, and a
\* recruiter part only from a redeem.
Spares(q, s) ==
    \/ /\ s \in Live
       /\ db'[s].token = db[s].token \/ s = q.known
       /\ \/ db'[s].access \in {db[s].access, NoAccess}
          \/ q.pc = "grant" /\ s = q.sid
    \/ s = made + 1

\* The cookies it can set.
Sets(q) == \A b \in Browsers : cookie'[b] \in {cookie[b], 0} \/ cookie'[b] = q.new

\* Such a step keeps the invariant: it brings no second request to know the
\* session a redeem has made, and changes no part a page view judges.
LEMMA MovesKeep ==
    ASSUME VisitInv, KindInv', NEW r \in Requests, NEW p,
           req' = [req EXCEPT ![r] = p],
           Moves(req[r], p), Judges(req[r])',
           \A s \in Live' : Spares(req[r], s),
           Sets(req[r])
    PROVE  VisitInv'
  <1> DEFINE q == req[r]
  <1>1. /\ req \in [Requests -> Request] /\ \A o \in Requests : req[o] \in Request
        /\ issued \in Nat /\ made \in Nat /\ cookie \in [Browsers -> Nat] /\ 0 \notin Live
        /\ req'[r] = p /\ \A o \in Requests \ {r} : req'[o] = req[o]
        /\ p \in Request
    <2>1. TypeOK /\ TypeOK'
      BY DEF VisitInv, KindInv, FreshInv
    <2>2. req' \in [Requests -> Request]
      BY <2>1 DEF TypeOK
    <2> QED
      BY <2>1, <2>2, Types
  <1>2. ASSUME NEW o \in Requests
        PROVE  /\ req[o].cookie <= issued /\ req[o].new <= issued
               /\ req[o].known <= made /\ req[o].sid <= made
               /\ req[o].cookie \in Nat /\ req[o].new \in Nat
               /\ req[o].known \in Nat /\ req[o].sid \in Nat
    BY <1>1 DEF VisitInv, KindInv, Numbered, Request
  <1>3. \A b \in Browsers : cookie[b] <= issued /\ cookie[b] \in Nat
    BY <1>1 DEF VisitInv, KindInv, Numbered
  <1>4. ASSUME NEW a \in Requests \ {r}, req[a].pc = "grant"
        PROVE  /\ req[a].sid # 0 /\ req[a].new # 0
               /\ req[a].sid # q.known /\ req[a].new \notin {q.cookie, q.new}
               /\ req[a].sid \in Live => db[req[a].sid].token = req[a].new
               /\ \A b \in Browsers : cookie[b] # req[a].new
               /\ req[a].sid \in Live' => req[a].sid \in Live
                                          /\ db'[req[a].sid].token = req[a].new
               /\ req[a].sid # p.known /\ req[a].new \notin {p.cookie, p.new}
    <2>1. /\ req[a].sid # 0 /\ req[a].new # 0
          /\ req[a].sid # q.known /\ req[a].new \notin {q.cookie, q.new}
          /\ req[a].sid \in Live => db[req[a].sid].token = req[a].new
          /\ \A b \in Browsers : cookie[b] # req[a].new
      BY <1>4 DEF VisitInv, Unshared
    <2>2. req[a].sid \in Live' => req[a].sid \in Live
                                  /\ db'[req[a].sid].token = req[a].new
      <3>1. req[a].sid # made + 1
        BY <1>1, <1>2
      <3> QED
        BY <2>1, <3>1 DEF Spares
    <2>3. req[a].sid # p.known
      BY <2>1 DEF Moves
    <2>4. req[a].new # p.cookie
      BY <2>1 DEF Moves
    <2>5. req[a].new # p.new
      <3>1. req[a].new # issued + 1
        BY <1>1, <1>2
      <3> QED
        BY <2>1, <3>1 DEF Moves
    <2> QED
      BY <2>1, <2>2, <2>3, <2>4, <2>5
  <1>5. Unshared'
    <2>1. ASSUME NEW a \in Requests \ {r}, req'[a].pc = "grant"
          PROVE  /\ req'[a].sid # 0 /\ req'[a].new # 0
                 /\ req'[a].sid \in Live' => db'[req'[a].sid].token = req'[a].new
                 /\ \A o \in Requests \ {a} :
                        /\ req'[a].sid # req'[o].known
                        /\ req'[a].new \notin {req'[o].cookie, req'[o].new}
                 /\ \A b \in Browsers : cookie'[b] # req'[a].new
      <3>1. req'[a] = req[a] /\ req[a].pc = "grant"
        BY <1>1, <2>1
      <3>2. ASSUME NEW o \in Requests \ {a}
            PROVE  /\ req[a].sid # req'[o].known
                   /\ req[a].new \notin {req'[o].cookie, req'[o].new}
        <4>1. CASE o = r
          BY <1>1, <1>4, <3>1, <4>1
        <4>2. CASE o # r
          BY <1>1, <3>1, <4>2 DEF VisitInv, Unshared
        <4> QED
          BY <4>1, <4>2
      <3>3. \A b \in Browsers : cookie'[b] # req[a].new
        BY <1>4, <3>1 DEF Sets
      <3> QED
        BY <1>4, <3>1, <3>2, <3>3
    <2>2. ASSUME p.pc = "grant"
          PROVE  /\ p.sid # 0 /\ p.new # 0
                 /\ p.sid \in Live' => db'[p.sid].token = p.new
                 /\ \A o \in Requests \ {r} :
                        /\ p.sid # req'[o].known
                        /\ p.new \notin {req'[o].cookie, req'[o].new}
                 /\ \A b \in Browsers : cookie'[b] # p.new
      <3>1. /\ p.new = issued + 1 /\ p.sid = made + 1
            /\ p.sid \in Live' => db'[p.sid].token = p.new
        BY <2>2 DEF Moves
      <3>2. \A o \in Requests \ {r} :
                        /\ p.sid # req'[o].known
                        /\ p.new \notin {req'[o].cookie, req'[o].new}
        BY <1>1, <1>2, <3>1
      <3>3. \A b \in Browsers : cookie'[b] # p.new
        BY <1>1, <1>2, <1>3, <3>1 DEF Sets
      <3> QED
        BY <1>1, <3>1, <3>2, <3>3
    <2> QED
      BY <1>1, <2>1, <2>2 DEF Unshared
  <1>6. ASSUME NEW o \in Requests
        PROVE  Place(req[o])' /\ Judges(req[o])'
    <2>1. CASE o = r
      BY <1>1, <2>1 DEF Moves, Place
    <2>2. CASE o # r
      <3>1. req'[o] = req[o] /\ Place(req[o]) /\ Judges(req[o])
        BY <1>1, <2>2 DEF VisitInv
      <3>2. Place(req[o])'
        BY <3>1 DEF Place
      <3>3. ASSUME req[o].known \in Live'
            PROVE  /\ req[o].known \in Live
                   /\ db'[req[o].known].access \in {db[req[o].known].access, NoAccess}
        <4>1. req[o].known # made + 1
          BY <1>1, <1>2
        <4>2. q.pc = "grant" => q.sid # req[o].known
          BY <2>2 DEF VisitInv, Unshared
        <4> QED
          BY <3>3, <4>1, <4>2 DEF Spares
      <3>4. Judges(req[o])'
        BY <3>1, <3>3 DEF Judges
      <3> QED
        BY <3>2, <3>4
    <2> QED
      BY <2>1, <2>2
  <1> QED
    BY <1>5, <1>6 DEF VisitInv

-----------------------------------------------------------------------------
(* The rows in every step of a request.                                     *)

\* No step of a handler gives a row to a redeem that is to make its own, or takes
\* the part a page view judges, unless its request moves accordingly.
LEMMA HandlerSpares ==
    ASSUME TypeOK, NEW r \in Requests, Handler(r)
    PROVE  \A s \in Live' : Spares(req[r], s)
  <1> DEFINE q == req[r]
  <1>1. \A s \in Live : db[s] \in Row
    BY Types
  <1>2. ASSUME db' = db
        PROVE  \A s \in Live' : Spares(q, s)
    BY <1>2, SameRows DEF Spares, Live
  <1>3. CASE \/ Validate(r) \/ LoadRow(r) \/ Gate(r) \/ RecordView(r) \/ Exchange(r)
    BY <1>2, <1>3 DEF Validate, LoadRow, Gate, RecordView, Exchange
  <1>4. CASE LoadParts(r)
    BY <1>1, <1>4 DEF LoadParts, Live, Row, Spares
  <1>5. CASE Renew(r)
    BY <1>5 DEF Renew, With, Live, Spares
  <1>6. CASE RenewSet(r)
    BY <1>1, <1>6 DEF RenewSet, Retokened, Live, Row, Spares
  <1>7. CASE End(r)
    BY <1>7 DEF End, Without, Live, Spares
  <1>8. CASE DropAccess(r)
    BY <1>1, <1>8 DEF DropAccess, Live, Row, Spares
  <1>9. CASE DropFlow(r) \/ TakeFlow(r)
    BY <1>1, <1>9 DEF DropFlow, TakeFlow, FlowDropped, Live, Row, Spares
  <1>10. CASE DropLogins(r)
    BY <1>1, <1>10 DEF DropLogins, LoginsDropped, Live, Row, Spares
  <1>11. CASE Grant(r) \/ InsertFlow(r) \/ Record(r) \/ InsertLegacy(r)
    <2> DEFINE i == q.sid
               a == [link |-> q.link, at |-> clock]
               f == [state |-> states + 1, at |-> clock]
               l == [before |-> q.before, at |-> clock, roles |-> q.roles]
               e == IF q.done THEN "done" ELSE "pending"
    <2>1. \/ db' = db
          \/ q.pc = "grant" /\ i \in Live /\ db' = [db EXCEPT ![i].access = a]
          \/ i \in Live /\ db' = [db EXCEPT ![i].flow = f]
          \/ i \in Live /\ db' = [db EXCEPT ![i].login = l]
          \/ i \in Live /\ db' = [db EXCEPT ![i].legacy = e]
      BY <1>11 DEF Grant, InsertFlow, Record, InsertLegacy
    <2> HIDE DEF a, f, l, e
    <2> QED
      BY <1>1, <2>1 DEF Live, Row, Spares
  <1> QED
    BY <1>3, <1>4, <1>5, <1>6, <1>7, <1>8, <1>9, <1>10, <1>11 DEF Handler

-----------------------------------------------------------------------------
(* The requests, step by step.                                              *)

\* A request that has its answer, or was broken off, is nowhere in particular.
LEMMA EndsMove ==
    ASSUME NEW q \in Request
    PROVE  \A p \in {NoRequest, Answered(q), Refused(q)} :
                Moves(q, p) /\ p.pc \notin {"gate", "dropAccess"}
  <1>1. Moves(q, NoRequest) /\ NoRequest.pc = "idle"
    BY DEF Moves, Place, NoRequest
  <1>2. ASSUME NEW e \in Request, e.new \in {0, q.new}
        PROVE  Moves(q, Answered(e)) /\ Answered(e).pc = "answer"
    BY <1>2 DEF Moves, Place, NoRequest, Answered
  <1>3. Moves(q, Refused(q)) /\ Refused(q).pc = "answer"
    <2>1. [q EXCEPT !.new = 0] \in Request /\ [q EXCEPT !.new = 0].new = 0
      BY DEF Request
    <2> QED
      BY <1>2, <2>1 DEF Refused
  <1> QED
    BY <1>1, <1>2, <1>3

\* The step takes request r somewhere, and it judges nothing new there.
Goes(r) ==
    \E p : /\ req' = [req EXCEPT ![r] = p]
           /\ Moves(req[r], p)
           /\ Judges(req[r])'

\* What ends goes where the invariant allows.
LEMMA EndsGo ==
    ASSUME VisitInv, NEW r \in Requests,
           NEW p \in {NoRequest, Answered(req[r]), Refused(req[r])},
           req' = [req EXCEPT ![r] = p]
    PROVE  Goes(r)
  <1>1. req \in [Requests -> Request] /\ req[r] \in Request
    BY Types DEF VisitInv, KindInv, FreshInv
  <1>2. Moves(req[r], p) /\ p.pc \notin {"gate", "dropAccess"} /\ req'[r] = p
    BY <1>1, EndsMove
  <1> QED
    BY <1>2 DEF Goes, Judges

\* A request that stays as it is but for where it stands, and where that is.
LEMMA StepGoes ==
    ASSUME VisitInv, NEW r \in Requests, NEW p, req' = [req EXCEPT ![r] = p],
           req[r].op # "redeem", p.op = req[r].op,
           p.known \in {0, req[r].known}, p.new = req[r].new, p.cookie = req[r].cookie,
           p.next \in {req[r].next, "renew"},
           p.pc \notin {"gate", "dropAccess", "grant"}
    PROVE  Goes(r)
  <1>1. req \in [Requests -> Request] /\ Place(req[r])
    BY Types DEF VisitInv, KindInv, FreshInv
  <1>2. req'[r] = p
    BY <1>1
  <1>3. Moves(req[r], p)
    BY <1>1 DEF Moves, Place
  <1> QED
    BY <1>2, <1>3 DEF Goes, Judges

\* A handler past its first reads that is no redeem.
LEMMA PlainGoes ==
    ASSUME VisitInv, NEW r \in Requests,
           \/ DropAccess(r) \/ DropFlow(r) \/ InsertFlow(r) \/ TakeFlow(r) \/ Exchange(r)
           \/ DropLogins(r) \/ Record(r) \/ InsertLegacy(r) \/ End(r)
    PROVE  Goes(r)
  <1> DEFINE q == req[r]
  <1>1. q \in Request /\ Place(q) /\ issued \in Nat
    BY Types DEF VisitInv, KindInv, FreshInv
  <1>2. ASSUME Goto(r, Answered(q))
        PROVE  Goes(r)
    BY <1>2, EndsGo DEF Goto
  <1>3. q.pc \in {"dropFlow", "takeFlow", "exchange", "dropLogins", "end"} => q.op # "redeem"
    BY <1>1 DEF Place
  <1>4. CASE DropFlow(r)
    <2> DEFINE i == IF q.new = 0 THEN q.known ELSE q.sid
               p == [q EXCEPT !.pc = "insertFlow", !.known = 0, !.sid = i]
    <2>1. req' = [req EXCEPT ![r] = p] /\ q.pc = "dropFlow"
      BY <1>4 DEF DropFlow, Goto
    <2> HIDE DEF i
    <2>2. /\ p.pc = "insertFlow" /\ p.known = 0 /\ p.op = q.op /\ p.next = q.next
          /\ p.new = q.new /\ p.cookie = q.cookie
      BY <1>1 DEF Request
    <2> HIDE DEF p
    <2> QED
      BY <1>3, <2>1, <2>2, StepGoes
  <1>5. CASE TakeFlow(r) /\ ~Goto(r, Answered(q))
    <2> DEFINE p == [q EXCEPT !.pc = "exchange"]
    <2>1. req' = [req EXCEPT ![r] = p] /\ q.pc = "takeFlow"
      BY <1>5 DEF TakeFlow, Goto
    <2>2. /\ p.pc = "exchange" /\ p.known = q.known /\ p.op = q.op /\ p.next = q.next
          /\ p.new = q.new /\ p.cookie = q.cookie
      BY <1>1 DEF Request
    <2> HIDE DEF p
    <2> QED
      BY <1>3, <2>1, <2>2, StepGoes
  <1>6. CASE Exchange(r) /\ ~Goto(r, Answered(q))
    <2>1. PICK roles \in RoleSets :
            req' = [req EXCEPT ![r] = [q EXCEPT !.pc = "dropLogins", !.roles = roles]]
      BY <1>6 DEF Exchange, Goto
    <2> DEFINE p == [q EXCEPT !.pc = "dropLogins", !.roles = roles]
    <2>2. /\ p.pc = "dropLogins" /\ p.known = q.known /\ p.op = q.op /\ p.next = q.next
          /\ p.new = q.new /\ p.cookie = q.cookie
      BY <1>1 DEF Request
    <2>3. q.pc = "exchange" /\ req' = [req EXCEPT ![r] = p]
      BY <1>6, <2>1 DEF Exchange
    <2> HIDE DEF p
    <2> QED
      BY <1>3, <2>2, <2>3, StepGoes
  <1>7. CASE DropLogins(r) /\ ~Goto(r, Answered(q))
    <2> DEFINE p == [q EXCEPT !.pc = "load", !.next = "renew", !.known = 0, !.before = issued]
    <2>1. req' = [req EXCEPT ![r] = p] /\ q.pc = "dropLogins"
      BY <1>7 DEF DropLogins, Goto
    <2>2. /\ p.pc = "load" /\ p.known = 0 /\ p.op = q.op /\ p.next = "renew"
          /\ p.new = q.new /\ p.cookie = q.cookie
      BY <1>1 DEF Request
    <2> HIDE DEF p
    <2> QED
      BY <1>3, <2>1, <2>2, StepGoes
  <1>8. CASE End(r)
    <2> DEFINE e == [q EXCEPT !.known = 0, !.new = 0, !.clear = TRUE]
               p == [e EXCEPT !.pc = "renew"]
    <2>1. e \in Request /\ e.new = 0
      BY <1>1 DEF Request
    <2>2. /\ p.pc = "renew" /\ p.known = 0 /\ p.op = q.op /\ p.next = q.next
          /\ p.new = 0 /\ p.cookie = q.cookie
      BY <1>1 DEF Request
    <2>3. /\ q.pc = "end"
          /\ req' \in {[req EXCEPT ![r] = p], [req EXCEPT ![r] = Answered(e)]}
      BY <1>8 DEF End, Goto, Continue
    <2> HIDE DEF e, p
    <2>4. Moves(q, p)
      BY <1>1, <1>3, <2>2, <2>3 DEF Moves, Place
    <2>5. Moves(q, Answered(e)) /\ Answered(e).pc = "answer"
      BY <2>1 DEF Moves, Place, NoRequest, Answered
    <2>6. req \in [Requests -> Request]
      BY Types DEF VisitInv, KindInv, FreshInv
    <2> QED
      BY <2>2, <2>3, <2>4, <2>5, <2>6 DEF Goes, Judges
  <1> QED
    BY <1>2, <1>4, <1>5, <1>6, <1>7, <1>8
       DEF DropAccess, InsertFlow, TakeFlow, Exchange, DropLogins, Record, InsertLegacy

\* A redeem goes on from the check of its link to its session.
LEMMA RedeemGoes ==
    ASSUME VisitInv, NEW r \in Requests, Validate(r) \/ Grant(r) \/ RecordView(r)
    PROVE  Goes(r)
  <1> DEFINE q == req[r]
  <1>1. q \in Request /\ Place(q) /\ req \in [Requests -> Request]
    BY Types DEF VisitInv, KindInv, FreshInv
  <1>2. ASSUME Goto(r, Answered(q)) \/ Goto(r, Refused(q))
        PROVE  Goes(r)
    BY <1>2, EndsGo DEF Goto
  <1>3. ASSUME NEW pc \in {"load", "view"}, Goto(r, [q EXCEPT !.pc = pc]),
               q.pc \in {"validate", "grant"}, q.pc = "validate" \/ pc = "view"
        PROVE  Goes(r)
    <2> DEFINE p == [q EXCEPT !.pc = pc]
    <2>1. /\ p.pc = pc /\ p.known = q.known /\ p.op = q.op /\ p.next = q.next
          /\ p.new = q.new /\ p.cookie = q.cookie
      BY <1>1 DEF Request
    <2>2. req' = [req EXCEPT ![r] = p] /\ req'[r] = p
      BY <1>1, <1>3 DEF Goto
    <2> HIDE DEF p
    <2>3. Moves(q, p)
      BY <1>1, <1>3, <2>1 DEF Moves, Place
    <2> QED
      BY <2>1, <2>2, <2>3 DEF Goes, Judges
  <1> QED
    BY <1>2, <1>3 DEF Validate, Grant, RecordView, Continue

\* A redeem finds no session by a cookie it does not have.
LEMMA LoadRowGoes ==
    ASSUME VisitInv, NEW r \in Requests, LoadRow(r)
    PROVE  Goes(r)
  <1> DEFINE q == req[r]
             t == IF q.new # 0 THEN q.new ELSE q.cookie
  <1>1. q \in Request /\ Place(q) /\ req \in [Requests -> Request] /\ q.pc = "load"
    BY Types DEF VisitInv, KindInv, FreshInv, LoadRow
  <1>2. ASSUME NEW s \in Live, Matches(s, t, clock),
               Goto(r, [q EXCEPT !.pc = "parts", !.known = s, !.moment = clock])
        PROVE  Goes(r)
    <2> DEFINE p == [q EXCEPT !.pc = "parts", !.known = s, !.moment = clock]
    <2>1. /\ p.pc = "parts" /\ p.known = s /\ p.op = q.op /\ p.next = q.next
          /\ p.new = q.new /\ p.cookie = q.cookie
      BY <1>1 DEF Request
    <2>2. req' = [req EXCEPT ![r] = p] /\ req'[r] = p
      BY <1>1, <1>2 DEF Goto
    <2>3. db[s].token = t /\ t # 0 /\ t \in {q.cookie, q.new}
      BY <1>2 DEF Matches
    <2>4. q.op # "redeem"
      BY <1>1, <2>3 DEF Place
    <2> HIDE DEF p, t
    <2>5. Moves(q, p)
      BY <1>1, <2>1, <2>3, <2>4 DEF Moves, Place
    <2> QED
      BY <2>1, <2>2, <2>5 DEF Goes, Judges
  <1>3. ASSUME NEW c \in BOOLEAN,
               Goto(r, Continue([q EXCEPT !.known = 0, !.clear = c], WithoutSession(q)))
        PROVE  Goes(r)
    <2> DEFINE e  == [q EXCEPT !.known = 0, !.clear = c]
               pc == WithoutSession(q)
               p  == [e EXCEPT !.pc = pc]
    <2>1. /\ pc \in {"renew", "end", "insertFlow", "answer"} /\ pc \in PCs
          /\ q.op = "redeem" => pc = "renew"
      BY <1>1 DEF WithoutSession, PCs, Place
    <2>2. e \in Request /\ e.new = q.new
      BY <1>1 DEF Request
    <2> HIDE DEF pc
    <2>3. /\ p.pc = pc /\ p.known = 0 /\ p.op = q.op /\ p.next = q.next
          /\ p.new = q.new /\ p.cookie = q.cookie
      BY <1>1, <2>1 DEF Request
    <2>4. req' \in {[req EXCEPT ![r] = p], [req EXCEPT ![r] = Answered(e)]}
      BY <1>3 DEF Goto, Continue, pc
    <2> HIDE DEF e, p
    <2>5. Moves(q, p)
      BY <1>1, <2>1, <2>3 DEF Moves, Place
    <2>6. Moves(q, Answered(e)) /\ Answered(e).pc = "answer"
      BY <2>2 DEF Moves, Place, NoRequest, Answered
    <2> QED
      BY <1>1, <2>1, <2>3, <2>4, <2>5, <2>6 DEF Goes, Judges
  <1>4. (q.clear \/ t # 0) \in BOOLEAN
    OBVIOUS
  <1>5. \/ \E s \in Live :
               /\ Matches(s, t, clock)
               /\ Goto(r, [q EXCEPT !.pc = "parts", !.known = s, !.moment = clock])
        \/ Goto(r, Continue([q EXCEPT !.known = 0, !.clear = @ \/ t # 0], WithoutSession(q)))
    BY DEF LoadRow
  <1> QED
    BY <1>2, <1>3, <1>4, <1>5

\* A page view is to judge the part it has read.
LEMMA LoadPartsGoes ==
    ASSUME VisitInv, NEW r \in Requests, LoadParts(r)
    PROVE  Goes(r)
  <1> DEFINE q == req[r]
             s == q.known
  <1>1. /\ q \in Request /\ Place(q) /\ req \in [Requests -> Request] /\ q.pc = "parts"
        /\ \A i \in Live : db[i] \in Row
    BY Types DEF VisitInv, KindInv, FreshInv, LoadParts
  <1>2. CASE s \notin Live
    <2>1. req' = [req EXCEPT ![r] = NoRequest]
      BY <1>2 DEF LoadParts, Goto
    <2> QED
      BY <2>1, EndsGo
  <1>3. CASE s \in Live
    <2> DEFINE l == IF q.op = "visit" THEN LinkAt(db[s], q.moment) ELSE q.link
    <2>1. PICK pc \in WithSession(q, db[s]) :
            /\ req' = [req EXCEPT ![r] = Continue([q EXCEPT !.moment = 0, !.link = l], pc)]
            /\ db' = [db EXCEPT ![s].seen = q.moment]
      BY <1>3 DEF LoadParts, Goto
    <2> DEFINE e == [q EXCEPT !.moment = 0, !.link = l]
               p == [e EXCEPT !.pc = pc]
    <2>2. l \in Links \cup {NoLink}
      BY <1>1, <1>3 DEF LinkAt, Request, Row, Access
    <2>3. pc \in PCs \ {"record"} /\ q.next \in NextSteps
      BY <1>1, PlainChoices DEF VisitInv, KindInv, FreshInv, RequestsFresh
    <2>4. q.op # "redeem"
      BY <1>1 DEF Place
    <2>5. /\ pc \notin {"dropAccess", "grant"}
          /\ pc = "gate" => q.op = "visit" /\ LinkAt(db[s], q.moment) # NoLink
      BY <1>1, <2>3 DEF WithSession, Place, NextSteps
    <2>6. pc = "gate" => l = db[s].access.link
      BY <2>5 DEF LinkAt
    <2>7. db'[s].access = db[s].access
      BY <1>1, <1>3, <2>1 DEF Live, Row
    <2> HIDE DEF l
    <2>8. e \in Request /\ e.new = q.new
      BY <1>1, <2>2 DEF Request
    <2>9. /\ p.pc = pc /\ p.known = s /\ p.op = q.op /\ p.next = q.next
          /\ p.new = q.new /\ p.cookie = q.cookie /\ p.link = l
      BY <1>1, <2>2, <2>3 DEF Request
    <2>10. req' \in {[req EXCEPT ![r] = p], [req EXCEPT ![r] = Answered(e)]}
      BY <2>1 DEF Continue
    <2> HIDE DEF e, p
    <2>11. CASE req' = [req EXCEPT ![r] = p]
      <3>1. Moves(q, p)
        BY <1>1, <2>4, <2>5, <2>9 DEF Moves, Place
      <3>2. req'[r] = p
        BY <1>1, <2>11
      <3>3. Judges(req[r])'
        BY <2>5, <2>6, <2>7, <2>9, <3>2 DEF Judges
      <3> QED
        BY <2>11, <3>1, <3>3 DEF Goes
    <2>12. CASE req' = [req EXCEPT ![r] = Answered(e)]
      <3>1. Moves(q, Answered(e)) /\ Answered(e).pc = "answer"
        BY <2>8 DEF Moves, Place, NoRequest, Answered
      <3> QED
        BY <1>1, <2>12, <3>1 DEF Goes, Judges
    <2> QED
      BY <2>10, <2>11, <2>12
  <1> QED
    BY <1>2, <1>3

\* What the gate refuses is what it has asked about.
LEMMA GateGoes ==
    ASSUME VisitInv, NEW r \in Requests, Gate(r)
    PROVE  Goes(r)
  <1> DEFINE q == req[r]
             p == [q EXCEPT !.pc = "dropAccess"]
  <1>1. /\ q \in Request /\ Place(q) /\ Judges(q) /\ req \in [Requests -> Request]
        /\ q.pc = "gate"
    BY Types DEF VisitInv, KindInv, FreshInv, Gate
  <1>2. \/ req' = [req EXCEPT ![r] = Answered(q)]
        \/ req' = [req EXCEPT ![r] = p] /\ db' = db
    BY DEF Gate, Goto, Continue
  <1>3. CASE req' = [req EXCEPT ![r] = p] /\ db' = db
    <2>1. /\ p.pc = "dropAccess" /\ p.known = q.known /\ p.op = q.op /\ p.next = q.next
          /\ p.new = q.new /\ p.cookie = q.cookie /\ p.link = q.link
      BY <1>1 DEF Request
    <2>2. req'[r] = p
      BY <1>1, <1>3
    <2> HIDE DEF p
    <2>3. Moves(q, p)
      BY <1>1, <2>1 DEF Moves, Place
    <2>4. Judges(req[r])'
      BY <1>1, <1>3, <2>1, <2>2, SameRows DEF Judges
    <2> QED
      BY <1>3, <2>3, <2>4 DEF Goes
  <1> QED
    BY <1>2, <1>3, EndsGo

\* A renewal gives a redeem a session of its own.
LEMMA RenewGoes ==
    ASSUME VisitInv, NEW r \in Requests, Renew(r) \/ RenewSet(r)
    PROVE  Goes(r)
  <1> DEFINE q == req[r]
  <1>1. /\ q \in Request /\ Place(q) /\ Ahead(q) /\ req \in [Requests -> Request]
        /\ q.pc \in {"renew", "renewSet"}
        /\ issued \in Nat /\ made \in Nat /\ 0 \notin Live
    BY Types DEF VisitInv, KindInv, FreshInv, LocalInv, Renew, RenewSet
  <1>2. CASE Renew(r) /\ q.known \in Live
    <2> DEFINE p == [q EXCEPT !.pc = "renewSet"]
    <2>1. /\ p.pc = "renewSet" /\ p.known = q.known /\ p.op = q.op /\ p.next = q.next
          /\ p.new = q.new /\ p.cookie = q.cookie
      BY <1>1 DEF Request
    <2>2. req' = [req EXCEPT ![r] = p] /\ q.pc = "renew"
      BY <1>2 DEF Renew, Goto
    <2> HIDE DEF p
    <2>3. q.op # "redeem"
      BY <1>1, <1>2, <2>2 DEF Place
    <2> QED
      BY <2>1, <2>2, <2>3, StepGoes
  <1>3. CASE RenewSet(r) /\ q.known \notin Live
    <2>1. req' = [req EXCEPT ![r] = NoRequest]
      BY <1>3 DEF RenewSet, Goto
    <2> QED
      BY <2>1, EndsGo
  <1>4. ASSUME NEW s \in Nat, req' = [req EXCEPT ![r] = Renewed(q, s)],
               issued' = issued + 1, cookie' = cookie,
               \/ s = made + 1 /\ made' = made + 1 /\ db'[s].token = issued + 1
               \/ q.op # "redeem"
        PROVE  Goes(r)
    <2> DEFINE p == Renewed(q, s)
    <2>1. /\ p.op = q.op /\ p.known = 0 /\ p.new = issued + 1
          /\ p.cookie \in {0, q.cookie}
          /\ p.pc \in {"load", "record", "grant", "insertLegacy", "answer"}
          /\ p.pc = "grant" => p.sid = s
          /\ p.pc = "grant" <=> p.op = "redeem"
          /\ p.next \in {q.next, "idle"}
      BY <1>1, RenewedFacts
    <2> HIDE DEF p
    <2>2. req'[r] = p
      BY <1>1, <1>4 DEF p
    <2>3. Place(p)
      BY <1>1, <2>1 DEF Place
    <2>4. Moves(q, p)
      BY <1>4, <2>1, <2>3 DEF Moves
    <2>5. req' = [req EXCEPT ![r] = p]
      BY <1>4 DEF p
    <2> QED
      BY <2>1, <2>2, <2>4, <2>5 DEF Goes, Judges
  <1>5. CASE Renew(r) /\ q.known \notin Live
    <2>1. /\ db' = With(made + 1, NewRow(issued + 1)) /\ issued' = issued + 1
          /\ made' = made + 1 /\ cookie' = cookie
          /\ req' = [req EXCEPT ![r] = Renewed(q, made + 1)]
      BY <1>5 DEF Renew, Goto
    <2>2. db'[made + 1].token = issued + 1
      BY <2>1 DEF With, NewRow, Live
    <2>3. made + 1 \in Nat
      BY <1>1
    <2> QED
      BY <1>4, <2>1, <2>2, <2>3
  <1>6. CASE RenewSet(r) /\ q.known \in Live
    <2>1. /\ req' = [req EXCEPT ![r] = Renewed(q, q.known)]
          /\ issued' = issued + 1 /\ cookie' = cookie /\ q.pc = "renewSet"
      BY <1>6 DEF RenewSet, Goto
    <2>2. q.op # "redeem" /\ q.known \in Nat
      BY <1>1, <2>1 DEF Place, Request
    <2> QED
      BY <1>4, <2>1, <2>2
  <1> QED
    BY <1>2, <1>3, <1>5, <1>6

\* Only a redeem whose route keeps the cookie to itself arrives without one.
LEMMA BeginGoes ==
    ASSUME VisitInv, ~RedeemForwardsCookie, NEW r \in Requests, NEW op \in Ops, Begin(r, op)
    PROVE  Goes(r)
  <1>1. req[r] \in Request /\ req \in [Requests -> Request]
    BY Types DEF VisitInv, KindInv, FreshInv
  <1>2. PICK param \in Params(r, op),
             link \in IF op = "redeem" THEN Links ELSE {NoLink},
             done \in IF op = "login" THEN BOOLEAN ELSE {op = "login_totp"} :
            Goto(r, [NoRequest EXCEPT
                !.pc = IF op = "redeem" THEN "validate" ELSE "load",
                !.next = First(op), !.op = op, !.param = param,
                !.link = link, !.done = done,
                !.cookie = CookieFor(r, op)])
    BY DEF Begin
  <1> DEFINE p == [NoRequest EXCEPT
                !.pc = IF op = "redeem" THEN "validate" ELSE "load",
                !.next = First(op), !.op = op, !.param = param,
                !.link = link, !.done = done,
                !.cookie = CookieFor(r, op)]
  <1>3. /\ p.pc = IF op = "redeem" THEN "validate" ELSE "load"
        /\ p.next = First(op) /\ p.op = op /\ p.known = 0 /\ p.new = 0
        /\ p.cookie = CookieFor(r, op)
    BY DEF NoRequest
  <1>4. /\ CookieFor(r, op) \in {0} \cup {cookie[b] : b \in Browsers}
        /\ op = "redeem" => CookieFor(r, op) = 0
    BY SessionsAssumption DEF SessionsAssumption, CookieFor
  <1>5. req' = [req EXCEPT ![r] = p] /\ req'[r] = p
    BY <1>1, <1>2 DEF Goto
  <1>6. (op = "redeem" => First(op) = "renew") /\ (First(op) = "gate" => op = "visit")
    BY SessionsAssumption DEF SessionsAssumption, AllOps, First
  <1> HIDE DEF p
  <1>7. Moves(req[r], p)
    BY <1>3, <1>4, <1>6 DEF Moves, Place
  <1> QED
    BY <1>3, <1>5, <1>7 DEF Goes, Judges

-----------------------------------------------------------------------------
(* The theorem.                                                             *)

\* Every step keeps the invariant.
LEMMA VisitStep == ~RedeemForwardsCookie /\ VisitInv /\ [Next]_vars => VisitInv'
  <1> SUFFICES ASSUME ~RedeemForwardsCookie, VisitInv, [Next]_vars
               PROVE  VisitInv'
    OBVIOUS
  <1>1. KindInv' /\ TypeOK
    BY KindStep DEF VisitInv, KindInv, FreshInv
  <1>2. ASSUME NEW r \in Requests, Goes(r),
               \A s \in Live' : Spares(req[r], s), Sets(req[r])
        PROVE  VisitInv'
    <2>1. PICK p : /\ req' = [req EXCEPT ![r] = p]
                   /\ Moves(req[r], p)
                   /\ Judges(req[r])'
      BY <1>2 DEF Goes
    <2> QED
      BY <1>1, <1>2, <2>1, MovesKeep
  <1>3. ASSUME NEW r \in Requests, db' = db
        PROVE  \A s \in Live' : Spares(req[r], s)
    BY <1>3, SameRows DEF Spares, Live
  <1>4. ASSUME NEW r \in Requests, NEW op \in Ops, Begin(r, op)
        PROVE  VisitInv'
    <2>1. Sets(req[r]) /\ db' = db
      BY <1>4 DEF Begin, Sets
    <2> QED
      BY <1>2, <1>3, <1>4, <2>1, BeginGoes
  <1>5. ASSUME NEW r \in Requests, Handler(r)
        PROVE  VisitInv'
    <2>1. Goes(r)
      BY <1>5, PlainGoes, RedeemGoes, LoadRowGoes, LoadPartsGoes, GateGoes, RenewGoes
         DEF Handler
    <2>2. Sets(req[r])
      <3>1. cookie' = cookie
        BY <1>5 DEF Handler, Validate, LoadRow, LoadParts, Renew, RenewSet, Grant,
             RecordView, End, InsertLegacy, Gate, DropAccess, DropFlow, InsertFlow,
             TakeFlow, Exchange, DropLogins, Record
      <3> QED
        BY <3>1 DEF Sets
    <2> QED
      BY <1>1, <1>2, <1>5, <2>1, <2>2, HandlerSpares
  <1>6. ASSUME NEW r \in Requests, Deliver(r) \/ Abort(r)
        PROVE  VisitInv'
    <2>1. req' = [req EXCEPT ![r] = NoRequest] /\ db' = db
      BY <1>6 DEF Deliver, Abort, Goto
    <2>2. Sets(req[r])
      BY <1>1, <1>6 DEF Deliver, Abort, Sets, TypeOK
    <2> QED
      BY <1>2, <1>3, <2>1, <2>2, EndsGo
  <1>7. ASSUME UNCHANGED <<req, cookie>>, Live' \subseteq Live,
               \A s \in Live' : /\ db'[s].token = db[s].token
                                /\ db'[s].access \in {db[s].access, NoAccess}
        PROVE  VisitInv'
    <2>1. Unshared'
      BY <1>7 DEF VisitInv, Unshared
    <2>2. \A r \in Requests : Place(req[r])' /\ Judges(req[r])'
      BY <1>7 DEF VisitInv, Place, Judges
    <2> QED
      BY <1>1, <2>1, <2>2 DEF VisitInv
  <1>8. CASE CleanUp
    <2>1. ASSUME NEW s \in Live'
          PROVE  db'[s] = WithoutExpiredParts(db[s]) /\ s \in Live
      BY <1>8 DEF CleanUp, Live
    <2>2. ASSUME NEW row \in Row
          PROVE  /\ WithoutExpiredParts(row).token = row.token
                 /\ WithoutExpiredParts(row).access \in {row.access, NoAccess}
      BY DEF WithoutExpiredParts, Row
    <2>3. \A s \in Live : db[s] \in Row
      BY <1>1, Types
    <2>4. UNCHANGED <<req, cookie>>
      BY <1>8 DEF CleanUp
    <2> QED
      BY <1>7, <2>1, <2>2, <2>3, <2>4
  <1>9. CASE Tick \/ (\E l \in Links : RevokeLink(l) \/ MoveExpiry(l)) \/ UNCHANGED vars
    <2>1. UNCHANGED <<req, cookie, db>>
      BY <1>9 DEF Tick, RevokeLink, MoveExpiry, vars
    <2> QED
      BY <1>7, <2>1, SameRows
  <1> QED
    BY <1>4, <1>5, <1>6, <1>8, <1>9 DEF Next

\* Only DropAccess takes a page view from its verdict to its answer.
LEMMA OnlyByDropAccess ==
    ASSUME TypeOK, [Next]_vars, NEW r \in Requests,
           req[r].pc = "dropAccess", req'[r].pc = "answer"
    PROVE  DropAccess(r)
  <1>1. req \in [Requests -> Request] /\ req' # req
    BY DEF TypeOK
  <1>2. ASSUME NEW o \in Requests, NEW p, req' = [req EXCEPT ![o] = p]
        PROVE  o = r /\ p = req'[r]
    BY <1>1, <1>2
  <1>3. ASSUME NEW o \in Requests, NEW op \in Ops, Begin(o, op)
        PROVE  FALSE
    BY <1>2, <1>3 DEF Begin, Goto
  <1>4. ASSUME NEW o \in Requests, Deliver(o) \/ Abort(o)
        PROVE  FALSE
    <2>1. NoRequest.pc = "idle"
      BY DEF NoRequest
    <2> QED
      BY <1>2, <1>4, <2>1 DEF Deliver, Abort, Goto
  <1>5. ASSUME NEW o \in Requests, Handler(o)
        PROVE  DropAccess(r)
    <2>1. \E p : req' = [req EXCEPT ![o] = p]
      BY <1>5 DEF Handler, Validate, LoadRow, LoadParts, Renew, RenewSet, Grant,
           RecordView, End, InsertLegacy, Gate, DropAccess, DropFlow, InsertFlow,
           TakeFlow, Exchange, DropLogins, Record, Goto
    <2>2. o = r
      BY <1>2, <2>1
    <2> QED
      BY <1>5, <2>2 DEF Handler, Validate, LoadRow, LoadParts, Renew, RenewSet, Grant,
           RecordView, End, InsertLegacy, Gate, DropFlow, InsertFlow,
           TakeFlow, Exchange, DropLogins, Record
  <1> QED
    BY <1>1, <1>3, <1>4, <1>5
       DEF Next, CleanUp, Tick, RevokeLink, MoveExpiry, vars

\* When the route of a link keeps the cookie of the browser to itself, as it does,
\* the gate "drops a now-invalid recruiter part" (recruiter/dependencies.py) that
\* is the very one it has judged, however many views, redeems, logins and logouts
\* overlap, and whichever links are revoked meanwhile.
THEOREM GateDropsItsOwn == ~RedeemForwardsCookie => (Spec => GateDropsWhatItJudged)
  <1> SUFFICES ASSUME ~RedeemForwardsCookie
               PROVE  Spec => GateDropsWhatItJudged
    OBVIOUS
  <1>1. Init => VisitInv
    <2> SUFFICES ASSUME Init
                 PROVE  VisitInv
      OBVIOUS
    <2>1. KindInv
      BY KindInit
    <2>2. \A r \in Requests : req[r] = NoRequest
      BY DEF Init
    <2>3. NoRequest.pc = "idle" /\ NoRequest.op = "visit" /\ NoRequest.next = "idle"
      BY DEF NoRequest
    <2> QED
      BY <2>1, <2>2, <2>3 DEF VisitInv, Unshared, Place, Judges
  <1>2. VisitInv /\ [Next]_vars => VisitInv'
    BY VisitStep
  <1> DEFINE Step == \A s \in Live \cap Live', r \in Requests :
        req[r].pc = "dropAccess" /\ req'[r].pc = "answer"
        /\ db[s].access # NoAccess /\ db'[s].access = NoAccess
            => db[s].access.link = req[r].link
  <1>3. ASSUME VisitInv, [Next]_vars, NEW s \in Live \cap Live', NEW r \in Requests,
               req[r].pc = "dropAccess", req'[r].pc = "answer",
               db[s].access # NoAccess, db'[s].access = NoAccess
        PROVE  db[s].access.link = req[r].link
    <2>1. req \in [Requests -> Request] /\ Judges(req[r])
      BY <1>3, Types DEF VisitInv, KindInv, FreshInv
    <2>2. DropAccess(r)
      BY <1>3, OnlyByDropAccess DEF VisitInv, KindInv, FreshInv
    <2>3. s = req[r].known
      BY <1>3, <2>2 DEF DropAccess, Live
    <2> QED
      BY <1>3, <2>1, <2>3 DEF Judges
  <1>4. VisitInv /\ [Next]_vars => [Step]_vars
    BY <1>3
  <1> HIDE DEF Step
  <1>5. Spec => [][Step]_vars
    BY <1>1, <1>2, <1>4, PTL DEF Spec
  <1> QED
    BY <1>5 DEF Step, GateDropsWhatItJudged

=============================================================================
